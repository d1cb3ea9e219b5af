CONSTANTS
  Master = "master"
  Child = "child"
  Net = 192
  Far = 8
  ChildHost = 200
  Lengths = {28, 36, 284}
  Sizes = {20, 28, 284}
  MaxPings = 1
  MaxDue = 1
  Mtu = 200
  MaxPayload = 1514
  Interval = 1
  ClockRange = 2
SPECIFICATION Spec
INVARIANTS RoutesHome AnswersOnce
PROPERTY ConnServed
CHECK_DEADLOCK FALSE
