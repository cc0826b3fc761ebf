SPECIFICATION Spec
CONSTANTS
  Raw = {"a", "=", "&", "+", "%", "%26", "toString"}
  MaxRaw = 3
  Plain = {"a", "&"}
  MaxPairs = 1
INVARIANT AlwaysArrays
\* the call comes to its end
CHECK_DEADLOCK FALSE
