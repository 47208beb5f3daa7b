SPECIFICATION LiveSpec
CONSTANTS
  Callers = {2}
  Pair = {}
  Sync = {}
  Impatient = {2}
  Scenes <- Lone
  Addr <- MCAddr
  ISN <- MCISN
  MSS <- MCMSS
  ServerMSS = 2
  Shift30 = 2
  Acceptors = {5, 6, 7}
  Breakable = {}
  Backlog = 1
  MaxMinute = 1
  Turning <- Lone
  MaxStored = 1
PROPERTY ServedLate
CHECK_DEADLOCK FALSE
