SPECIFICATION RlSpec
CONSTANTS
  MaxSeqNo = 21
  SeqNoTH = 10
  FlightFlag = 6
  RcvBufSize = 6
  FirstSeq = 19
  LastSeq = 25
  WrapInRange = TRUE
PROPERTIES RcvListIsSet
CHECK_DEADLOCK FALSE
