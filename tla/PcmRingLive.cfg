CONSTANTS
  Capacity = 2
  Reserve = 1
  Quantum = 2
  MaxBlock = 2
  CacheMax = 1
  FirDelay = 1
  Holds = 2
  Lookahead = 1
  RefillLimit = 1
  TokenLimit = 3
  MaxOffered = 3
  QuiescentReset = FALSE
  PositionRegresses = FALSE
SPECIFICATION FairSpec
PROPERTIES
  PendingSettles
  FinishHandshake
