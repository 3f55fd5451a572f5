SPECIFICATION Spec
CONSTANTS
  p1 = p1
  p2 = p2
  t1 = t1
  t2 = t2
  Proc <- Procs1
  Turn <- Turns2
  Hand = Hand
  Free = Free
  Junk = Junk
  MaxLifetime = 2
  Longest = 2
  MaxAge = 2
  Retention = 4
  HasProbe = TRUE
  MaxNow = 6
SYMMETRY TurnSymmetry
PROPERTIES
  FreeStaysFree
