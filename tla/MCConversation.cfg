SPECIFICATION FairSpec
CONSTANTS
  m1 = m1
  m2 = m2
  m3 = m3
  r1 = r1
  None = None
  NoTurn = NoTurn
  Msg = {m1, m2, m3}
  Turn = {m1, m2, m3, r1}
  Trusted = {m1, m3, r1}
  Reaction = {r1}
  Limit = 2
  Clumsy = {m1}
  Voice = {m3}
  First <- InOrder
  MaxTurns = 3
  MaxEvents = 1
CHECK_DEADLOCK FALSE
INVARIANTS
  IInv
  ActiveIsRunning
  Silenced
  NothingForgotten
  PromptIsHistory
  ResetForgets
  CountExact
  ContextsStay
PROPERTIES
  Implements
  ComesToRest
