SPECIFICATION Spec
CONSTANTS
  Conns = 3
  MaxRcvd = 1
  BufSize = 1
  Timeout = 0
  ClockRuns = FALSE
  Listens = TRUE
  Connects = FALSE
  ListenCalled = FALSE
  Lingers = TRUE
INVARIANTS
  HandleIsLive
