SPECIFICATION FairSpec
CONSTANTS
  p1 = p1
  p2 = p2
  None = None
  Pid = {p1, p2}
  LastDate = 1
  MaxEvents = 1
INVARIANTS
  IInv
  NothingHidden
PROPERTIES
  DaysDistilled
