CONSTANTS
  Threads = {t1}
  None = None
SPECIFICATION FairSpec
PROPERTIES GetClientEnds
CHECK_DEADLOCK FALSE
