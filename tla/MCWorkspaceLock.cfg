SPECIFICATION Spec
CONSTANTS
  p1 = p1
  p2 = p2
  t1 = t1
  t2 = t2
  Proc <- Procs2
  Turn <- Turns2
  Hand = Hand
  Free = Free
  Junk = Junk
  MaxLifetime = 1
  Longest = 1
  MaxAge = 1
  Retention = 2
  HasProbe = FALSE
  MaxNow = 2
SYMMETRY Symmetry
INVARIANTS
  IInv
  ClaimStands
PROPERTIES
  ClaimKept
