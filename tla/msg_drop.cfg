SPECIFICATION MsgSpec
CONSTANTS
  Lens <- OneEach
  Mortal = {1}
  Ordered = {3}
  Window = 3
  RcvSize = 4
INVARIANT AlwaysDelivered
CHECK_DEADLOCK FALSE
