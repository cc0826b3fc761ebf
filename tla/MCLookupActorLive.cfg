CONSTANTS
  MaxIncarnations = 2
  MaxInFlight = 1
  MaxOps = 0
SPECIFICATION FairSpec
PROPERTIES FindsCalculator TimersDieOut
