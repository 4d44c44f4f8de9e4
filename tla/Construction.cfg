SPECIFICATION Spec
CONSTANTS
  Rings = {r1, r2}
  NoRing = NoRing
  Untouched = Untouched
  MinimumCapacity = 2
  MaximumCapacity = 6
  RatioLimit = 2
  Slack = 3
  MaximumBlock = 2
  Capacities = {6}
  Rates = {0, 1, 2, 3}
  Levels = {3, 5, 7}
  Blocks = {1, 2}
INVARIANTS
  NothingLeaks
  OutputContract
  HeadroomSuffices
