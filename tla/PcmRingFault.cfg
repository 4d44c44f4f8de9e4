CONSTANTS
  Capacity = 2
  Reserve = 1
  Quantum = 1
  MaxBlock = 1
  CacheMax = 1
  FirDelay = 1
  Holds = 2
  Lookahead = 0
  RefillLimit = 1
  TokenLimit = 3
  MaxOffered = 2
  QuiescentReset = TRUE
  PositionRegresses = TRUE
SPECIFICATION FairSpec
PROPERTY PendingSettles
