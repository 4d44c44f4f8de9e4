CONSTANTS
  Capacity = 2
  Reserve = 1
  Quantum = 2
  MaxBlock = 2
  CacheMax = 1
  FirDelay = 1
  Holds = 2
  Lookahead = 1
  RefillLimit = 1
  TokenLimit = 3
  MaxOffered = 4
  QuiescentReset = TRUE
  PositionRegresses = TRUE
SPECIFICATION Spec
INVARIANTS
  TypeOK
  NoSlotRace
  BoundaryFrozen
  SettledLeavesNothing
  DrainedMeansTaken
  PaddedAfterEnd
  DiscardAccounting
PROPERTIES
  FifoSpec
  FinishHandshake
  AcknowledgedClean
