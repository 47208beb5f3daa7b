SPECIFICATION LiveSpec
CONSTANTS
  MaxSockets = 2
  MaxOwn = 2
  Clients = {2}
  Backlog = 1
  AsyncSend = TRUE
  LateRequests = FALSE
PROPERTIES Collected AcceptEnds
CHECK_DEADLOCK FALSE
