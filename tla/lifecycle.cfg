SPECIFICATION Spec
CONSTANTS
  MaxSockets = 3
  MaxOwn = 1
  Clients = {1}
  Backlog = 1
  AsyncSend = TRUE
  LateRequests = FALSE
INVARIANTS TypeOK FreedUnused MuxCounted QueuedLive
CHECK_DEADLOCK FALSE
