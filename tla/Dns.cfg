CONSTANTS
  Objects = {1, 2, 3}
  Client = 1
  Sketch = 2
  Filler = 3
  Peers = {1, 2}
  Server = 1
  Other = 2
  Ports = {1, 2}
  UdpConns = 2
  BufSize = 11
  Sizes = {1}
  ArpPayload = 2
  MaxIn = 2
  MaxOut = 3
  MaxAll = 6
  MaxLookups = 2
  Names <- MCNames
  Answers <- MCAnswers
  Cuts = {2, 3, 7}
SPECIFICATION DnsSpec
INVARIANTS GivesBack LookupIsHonest
PROPERTY LookupEnds
CHECK_DEADLOCK FALSE
