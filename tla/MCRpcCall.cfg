CONSTANTS
  Callers = {c1, c2}
  Servers = {s1, s2}
  MaxCalls = 2
  Timeout = 2
  NoCall = NoCall
SPECIFICATION Spec
SYMMETRY Symmetry
INVARIANTS AtMostOnce RightAnswer OuterEndsFirst NotForgotten
\* every thread has made its MaxCalls calls: the model stops there
CHECK_DEADLOCK FALSE
