SPECIFICATION Spec
CONSTANTS
  HistoryCapacity = 7
  Capacity = 2
  MailCapacity = 2
  Quantum = 2
  HalfDelay = 1
  Lookahead = 1
  MaxGeneration = 2
  FirstSource = 1
  MaxSource = 3
  AwaitsCompletion = TRUE
INVARIANTS
  DueIsMuted
  CarriedIsMuted
  OnlyWantedIsMuted
  NoMuteFault
