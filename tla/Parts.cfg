CONSTANTS
  Nets = {10, 11}
  HostNumbers = {1, 4}
  Masks = {"255.0.0.0"}
  DnsServers = {"10.0.0.1"}
  MaxAddrs = 2
  Channels = {0, 1}
  NConns = 2
  NListen = 1
  ServerPorts = {3}
  InitPort = 1
  FirstPort = 2
  EndPort = 5
  Remotes = {11}
  TimeWait = 2
  Base = 3
  Protocols = {1, 2}
  Addresses <- MCAddresses
  Bodies <- MCBodies
  Senders <- MCSenders
  Outside = "outside"
  Zero = "zero"
  Halves = {"c"}
  Broadcast = "broadcast"
  NoMac = "none"
  Hosts = {"a", "b", "c"}
  TableSize = 2
  MaxAge = 2
  ClockRange = 4
  Pairs <- MCPairs
  ReadAs <- MCReadAs
  NullIp = "zero"
  NullAddr = "none"
  NEntries = 2
  MaxTime = 2
  EndMarker = "nl"
  Segments <- MCSegments
  PsockSize = 2
  MaxSegments = 3
  MaxGiven = 7
  BufSize = 2
  MaxPackets = 2
  MaxLost = 1
  Routers = {"r1", "r2"}
  Links = {"l1", "l2"}
  CacheSize = 2
  FwTime = 2
  Ttl = 3
  MaxForwarded = 1
SPECIFICATION PartsSpec
INVARIANTS SetupAgrees ConnsApart DamageIsLocal HeardOnce SumIsRight LinesAreWhole
PROPERTIES IsCache EntriesAge StormEnds
CHECK_DEADLOCK FALSE
