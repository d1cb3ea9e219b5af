SPECIFICATION Spec
CONSTANTS
  NPeers = 1
  MaxIn = 1
  MaxOut = 1
  BufSize = 1
  Windows = {1}
  MaxRtx = 1
  MaxSynRtx = 1
  MaxOpens = 2
  ToUipCap = 1
  ToPeerCap = 1
  PortHigh = FALSE
  PortLow = TRUE
  Lossy = TRUE
  Listens = TRUE
  Connects = TRUE
  Expires = TRUE
  GivesUp = TRUE
  Resets = TRUE
  TurnTaking = FALSE
  Flushes = TRUE
INVARIANTS
  Attached
