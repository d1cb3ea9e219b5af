SPECIFICATION Spec
CONSTANTS
  Conns = 2
  MaxRcvd = 3
  BufSize = 2
  Timeout = 0
  ClockRuns = TRUE
  Listens = TRUE
  Connects = TRUE
  ListenCalled = FALSE
  Lingers = TRUE
INVARIANTS
  TypeOK
  OneCurrent
  ConnectedIsTrue
  BufferHoldsStream
