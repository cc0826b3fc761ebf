CONSTANTS
  Callers = {c1, c2}
  Servers = {s1}
  MaxCalls = 2
  Timeout = 1
  NoCall = NoCall
SPECIFICATION FairSpec
PROPERTIES EveryCallEnds ClientDrains ImplementsService
CHECK_DEADLOCK FALSE
