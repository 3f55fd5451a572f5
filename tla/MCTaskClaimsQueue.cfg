SPECIFICATION Spec
CONSTANTS
  Pid = {p1, p2}
  None = None
  c1 = c1
  c2 = c2
  c3 = c3
  w1 = w1
  w2 = w2
  q1 = q1
  Wake = {}
  Command = {c1, c2, c3}
  Persona = {q1}
  PersonaOf <- OnePersona
  MaxRuns <- AllOneOff
  Period <- EveryUnit
  Budget <- HourRuns
  DefaultBudget = 1
  Ceiling = 1
  MaxWakes = 1
  Reviewed = {}
  Chatty = {}
  Fragile = {}
  Cancellable = {}
  MaxWait = 4
  HandoffGap = FALSE
  MaxFaults = 0
  MaxLag = 1
  Awake = FALSE
CHECK_DEADLOCK FALSE
INVARIANTS
  OneRun
