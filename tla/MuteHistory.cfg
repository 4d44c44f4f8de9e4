\* Two generations over four source positions; three entries fill the history.
SPECIFICATION Spec
CONSTANTS
  HistoryCapacity = 3
  Generations = {1, 2}
  Horizon = 4
INVARIANTS
  Canonical
  MutedExact
PROPERTIES
  PrunedBehind
