SPECIFICATION FairSpec
CONSTANTS
  Frames <- MCFrames
  f1 = f1
  f2 = f2
  short = short
  long = long
  Torn = Torn
  NoFrame = NoFrame
  ShortFrames <- MCShort
  LongFrames <- MCLong
  MaxTxQueue = 2
  TxWraps = 2
  MaxRxQueue = 2
  HasTcpipThread = TRUE
INVARIANTS
  TypeOK
  SlotsDisjoint
  RingInv
PROPERTIES
  TxIsFifo
  RxIsFifo
  FramesAreServed
