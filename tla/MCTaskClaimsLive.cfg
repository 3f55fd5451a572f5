SPECIFICATION FairSpec
CONSTANTS
  Pid = {p1, p2}
  None = None
  c1 = c1
  c2 = c2
  c3 = c3
  w1 = w1
  w2 = w2
  q1 = q1
  Wake = {w1, w2}
  Command = {}
  Persona = {q1}
  PersonaOf <- OnePersona
  MaxRuns <- Unlimited
  Period <- EveryUnit
  Budget <- ShortRuns
  DefaultBudget = 1
  Ceiling = 1
  MaxWakes = 1
  Reviewed = {}
  Chatty = {q1}
  Fragile = {}
  Cancellable = {}
  MaxWait = 1
  HandoffGap = TRUE
  MaxFaults = 1
  MaxLag = 4
  Awake = TRUE
CHECK_DEADLOCK FALSE
PROPERTIES
  DueTaskRuns
  ClaimsEnd
