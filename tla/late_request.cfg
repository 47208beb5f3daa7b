SPECIFICATION LiveSpec
CONSTANTS
  MaxSockets = 2
  MaxOwn = 2
  Clients = {}
  Backlog = 1
  AsyncSend = TRUE
  LateRequests = TRUE
PROPERTIES Collected
CHECK_DEADLOCK FALSE
