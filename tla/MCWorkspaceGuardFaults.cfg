SPECIFICATION FairSpec
CONSTANTS
  Proc = {p1, p2}
  Nobody = Nobody
  Absent = Absent
  Id = {t1, t2, t3}
  Attempts = 2
  HasProbe = TRUE
  MaxClock = 1
  Mortal = {p1}
  MaxStart = 1
  MaxFaults = 1
CHECK_DEADLOCK FALSE
INVARIANTS
  NoTicketLeaked
  IInv
PROPERTIES
  CallReturns
  CrashHeals
