SPECIFICATION Spec
CONSTANTS
  Milli = 4
  Weight = 3
  Target = 2
  MaxLevel = 1
  Below = 8
  Above = 4
  Micro = 1000000
  Window = 1920000
  RunMax = 2
INVARIANT ShortfallVisible
