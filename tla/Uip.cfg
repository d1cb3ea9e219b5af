SPECIFICATION EnvSpec
CONSTANTS
  NPeers = 1
  MaxIn = 3
  MaxOut = 2
  BufSize = 2
  Windows = {2}
  MaxRtx = 1
  MaxSynRtx = 1
  MaxOpens = 1
  ToUipCap = 1
  ToPeerCap = 1
  PortHigh = FALSE
  PortLow = TRUE
  Lossy = TRUE
  Listens = TRUE
  Connects = FALSE
  Expires = FALSE
  GivesUp = FALSE
  Resets = FALSE
  TurnTaking = TRUE
  Flushes = FALSE
INVARIANTS
  TypeOK
  PeerGetsWritten
  SketchReadsSent
  NothingLost
  WindowReopens
