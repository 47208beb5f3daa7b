SPECIFICATION LiveSpec
CONSTANTS
  DataSize = 2
  SndBufSize = 2
  SendSizes = {2}
  BlockRing = 2
  RcvBufSize = 2
  FlightFlag = 2
  CongWindows = {2}
  ExpLimit = 0
  MayDie = FALSE
  PeerTraffic = FALSE
  EagerTimer = FALSE
  Duplicates = FALSE
  LiteAcks = FALSE
  Ack2Sent = {TRUE}
  MaxLoss = 1
  Garbled = Garbled
PROPERTIES StreamImplemented
