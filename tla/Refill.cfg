SPECIFICATION Spec
CONSTANTS
  Capacity = 4
  Quantum = 2
  Grain = 2
  Delay = 3
  Backlog = 2
  Paces = {1, 3}
  MayStall = TRUE
  MayFail = TRUE
  MaxSource = 3
INVARIANTS
  WorkspaceInOrder
  PositionExact
  ConcealedIffGap
  FailsForCause
PROPERTIES
  PlayedWhole
  ExtensionIsNotLoss
