\* 480 Hz: two samples of lookahead, periods of 3 to 8 samples, 10 ms are five.
SPECIFICATION Spec
CONSTANTS
  Rate = 480
  LostLimit = 11
INVARIANTS
  TypeOK
  IndexSafe
  PlayedInStep
  LookaheadOnly
  PeriodsInStep
