SPECIFICATION Spec
CONSTANTS
  DataSize = 3
  SndBufSize = 2
  SendSizes = {1, 2}
  BlockRing = 2
  RcvBufSize = 3
  FlightFlag = 2
  CongWindows = {2}
  ExpLimit = 1
  MayDie = FALSE
  PeerTraffic = FALSE
  EagerTimer = TRUE
  Duplicates = TRUE
  LiteAcks = FALSE
  Ack2Sent = {TRUE, FALSE}
  MaxLoss = 0
  Garbled = Garbled
INVARIANTS InOrder GarbledIsOld NoHole LossAccounted RingFits
PROPERTIES StreamSafe
