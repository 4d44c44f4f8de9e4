SPECIFICATION Spec
CONSTANTS
  Milli = 4
  Weight = 3
  Target = 2
  MaxLevel = 4
  Below = 8
  Above = 4
  Micro = 5
  Window = 3
  RunMax = 2
INVARIANTS
  AverageInHull
  CorrectionForCause
  ShortfallVisible
PROPERTIES
  AverageSettles
  ShortfallForgotten
