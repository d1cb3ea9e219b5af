CONSTANTS
  FirstFd = 3
  NFds = 5
  MaxIn = 2
  MaxOut = 1
  MaxData = 1
  MaxListens = 2
  Timeout = 1
SPECIFICATION ZephyrSpec
INVARIANT Reachable
PROPERTIES ServerStays Served
