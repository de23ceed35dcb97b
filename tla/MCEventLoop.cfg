SPECIFICATION FairSpec
CONSTANTS
  Listeners = {3, 4}
  WsListeners = {4}
  UnixListeners = {3}
  MaxFd = 6
  MaxConns = 3
  MaxCmds = 2
  Faults = TRUE
INVARIANTS TypeOK NothingUnwatched NeverBlocks EndsOnlyByFault
PROPERTIES Served Accepted
CHECK_DEADLOCK FALSE
