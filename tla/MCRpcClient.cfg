CONSTANTS
  Threads = {t1, t2, t3}
  None = None
SPECIFICATION FairSpec
INVARIANT OneClient
PROPERTIES PublishedOnce UpWakesWaiter
\* every thread has returned, failed or waits for ever
CHECK_DEADLOCK FALSE
