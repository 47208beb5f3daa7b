SPECIFICATION LiveSpec
CONSTANTS
  Callers = {1, 2}
  Pair = {3, 4}
  Sync = {2, 4}
  Impatient = {2, 3, 4}
  Scenes <- MCScenes
  Addr <- MCAddr
  ISN <- MCISN
  MSS <- MCMSS
  ServerMSS = 2
  Shift30 = 2
  Acceptors = {5, 6, 7}
  Breakable = {5}
  Backlog = 1
  MaxMinute = 1
  Turning <- Lone
  MaxStored = 1
INVARIANTS TypeOK BothEndsAgree OneConnection RendezvousAgree PacketsFit SuccessConnected
PROPERTIES RendezvousEnds Served
CHECK_DEADLOCK FALSE
