CONSTANTS
  Totals = {0, 1, 2, 3, 4, 5}
  Bursts = {0, 1, 2, 3}
  MaxLost = 2
  MaxSearches = 3
SPECIFICATION FairSpec
INVARIANTS TypeOK OneToken HonestCount EchoMeansDelivered
PROPERTY ShutsDown
\* a lost echo stops the benchmark, and so does its end
CHECK_DEADLOCK FALSE
