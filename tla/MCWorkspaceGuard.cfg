SPECIFICATION Spec
CONSTANTS
  Proc = {p1, p2, p3}
  Nobody = Nobody
  Absent = Absent
  Id = {t1, t2, t3, t4}
  Attempts = 2
  HasProbe = TRUE
  MaxClock = 2
  Mortal = {p1, p2, p3}
  MaxStart = 0
  MaxFaults = 0
SYMMETRY Symmetry
CHECK_DEADLOCK FALSE
INVARIANTS
  OneHolder
  LiveTicketKept
PROPERTIES
  Implements
