CONSTANTS
  Objects = {o1, o2}
  Peers = {p1, p2}
  Ports = {1}
  UdpConns = 2
  BufSize = 2
  UipSizes = {0, 2}
  LwipSizes = {1, 3}
  ZephyrSizes = {3}
  ArpPayload = 1
  NFds = 3
  QueueCap = 1
  MaxIn = 2
  MaxOut = 2
  MaxAll = 3
  MaxAllZephyr = 2
SPECIFICATION Spec
INVARIANTS ReadsCurrent SendsWritten KeepsSocket
SYMMETRY Symmetric
CHECK_DEADLOCK FALSE
