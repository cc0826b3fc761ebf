CONSTANTS
  MaxIncarnations = 2
  MaxInFlight = 1
  MaxOps = 2
SPECIFICATION Spec
INVARIANTS NeverStuck WatchesTarget
PROPERTIES ChainsEnd
