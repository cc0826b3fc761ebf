SPECIFICATION FairSpec
CONSTANTS
  e1 = e1
  e2 = e2
  Pages <- MCPages
  MaxClass = 2
  Prop = {"p", "q"}
  Sets <- MCSets
  MaxCalls <- MCMaxCalls
INVARIANTS CallbacksOwed CarefulCallsAreRight
PROPERTY ComeToRest
\* every call is made and every animation finished
CHECK_DEADLOCK FALSE
