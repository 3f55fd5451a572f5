SPECIFICATION FairSpec
CONSTANTS
  drain = drain
  other = other
  k1 = k1
  k2 = k2
  k3 = k3
  k4 = k4
  Pass = {drain, other}
  Drain = drain
  Token = {k1, k2, k3, k4}
  NoToken = NoToken
  Quarantined = {3}
  Times = {1, 2}
  windowSize = 1
  maxExtractPerTurn = 2
  MaxTurns = 4
  MaxGeneration = 2
  MaxEvents = 1
INVARIANTS
  IInv
  ExtractedOnce
  NothingPassedOver
PROPERTIES
  NothingFromDeleted
  RequestHeeded
  EvictedHandled
