SPECIFICATION MCSpec
CONSTANTS
  AckSize = 3
  MaxAckSeqNo = 6
  MaxAcks = 9
  MaxSeqNo = 21
  SeqNoTH = 10
  FlowWindow = 2
  FirstSent = 20
  LastSent = 24
  FirstSeq = 18
  LastSeq = 25
  FlightFlag = 6
  RcvBufSize = 6
  WrapInRange = FALSE
  Lens <- LongFirst
  Mortal = {1}
  Ordered = {3}
  Window = 5
  RcvSize = 6
  Sockets = 6
  MaxTime = 3
  Room = 2
  LastPkt = 3
  RcvPeriods = {0, 12, 13}
  MaxCWnd = 6
  InitCWnd = 4
  MaxNaks = 7
  Enough = 12
  BlockSize = 4
  MaxBlocks = 2
  Num = 3
  Den = 4
  Ids = {1, 2, 3}
  HashSize = 2
  Interval = 1
  MaxClock = 4
  Addresses <- Peers
  MaxSize = 3
  MaxUpdates = 7
  SndBlocks = 3
  RcvBlocks = 3
  Asked = 7
  Chunk = 2
INVARIANTS RcvListShape DeliveredWhole NothingForgotten FirstIsEarliest WorkerAwake EventsAgree HalvedAtMost SkipsOnce ListServed CacheAnswers FileMoves
PROPERTIES SndListIsSet RcvListIsSet RightAnswer
CHECK_DEADLOCK FALSE
