SPECIFICATION FairSpec
CONSTANTS
  Conns = 2
  MaxRcvd = 2
  BufSize = 1
  Timeout = 0
  ClockRuns = TRUE
  Listens = TRUE
  Connects = FALSE
  ListenCalled = TRUE
  Lingers = FALSE
PROPERTIES
  DelayedResolved
  RefusedArrives
