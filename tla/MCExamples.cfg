SPECIFICATION FairSpec
CONSTANTS
  Words = {w1, w2}
  MaxLength = 5
  NumWorkers = 3
  MaxWorkers = 3
  MaxMessages = 4
  MaxElements = 4
  Half = 32
  MaxOps = 3
  MaxCrashes = 1
  MaxPush = 3
  MaxOther = 2
  MaxBreaks = 2
INVARIANTS CountsRight SeriesRight QueueServed
PROPERTIES ChildrenFit AllServed
\* the programs end
CHECK_DEADLOCK FALSE
