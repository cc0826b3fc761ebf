SPECIFICATION FairSpec
CONSTANTS
  Element = {e1, e2}
  MaxCalls = 5
INVARIANTS StyleRestored VisibleAsAsked NobodyStuck
PROPERTY ComeToRest
\* every call is made and every highlight complete
CHECK_DEADLOCK FALSE
