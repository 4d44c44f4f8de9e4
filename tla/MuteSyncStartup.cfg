SPECIFICATION Spec
CONSTANTS
  HistoryCapacity = 7
  Capacity = 2
  MailCapacity = 2
  Quantum = 2
  HalfDelay = 3
  Lookahead = 0
  MaxGeneration = 2
  FirstSource = 0
  MaxSource = 2
  AwaitsCompletion = TRUE
INVARIANTS
  DueIsMuted
