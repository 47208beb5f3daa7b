SPECIFICATION Spec
CONSTANTS
  DataSize = 2
  SndBufSize = 2
  SendSizes = {1, 2}
  BlockRing = 2
  RcvBufSize = 3
  FlightFlag = 2
  CongWindows = {1, 2}
  ExpLimit = 1
  MayDie = TRUE
  PeerTraffic = TRUE
  EagerTimer = TRUE
  Duplicates = TRUE
  LiteAcks = TRUE
  Ack2Sent = {TRUE, FALSE}
  MaxLoss = 0
  Garbled = Garbled
INVARIANTS TypeOK HonestPeerKept AckAckKnown SeqMatchesBlock
PROPERTIES CursorsAdvance
CHECK_DEADLOCK FALSE
