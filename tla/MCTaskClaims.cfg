SPECIFICATION Spec
CONSTANTS
  Pid = {p1, p2, p3}
  None = None
  c1 = c1
  c2 = c2
  c3 = c3
  w1 = w1
  w2 = w2
  q1 = q1
  Wake = {w1, w2}
  Command = {c1}
  Persona = {q1}
  PersonaOf <- OnePersona
  MaxRuns <- WakeTwice
  Period <- EveryUnit
  Budget <- LongRuns
  DefaultBudget = 1
  Ceiling = 1
  MaxWakes = 1
  Reviewed = {w1}
  Chatty = {}
  Fragile = {q1}
  Cancellable = {c1}
  MaxWait = 1
  HandoffGap = FALSE
  MaxFaults = 1
  MaxLag = 1
  Awake = FALSE
CHECK_DEADLOCK FALSE
SYMMETRY PidSymmetry
INVARIANTS
  IInv
  OneRun
  ClaimFollowsRunner
  RunsCapped
  WakesCapped
PROPERTIES
  StartsWhenDue
