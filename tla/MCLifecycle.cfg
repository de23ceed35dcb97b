SPECIFICATION FairSpec
CONSTANTS
  p1 = p1
  p2 = p2
  p3 = p3
  file = file
  port = port
  Procs = {p1, p2, p3}
  Paths = {file}
  Ports = {port}
  Listens <- ListensMC
  Nobody = Nobody
  Faults = TRUE
INVARIANTS TypeOK RunningReachable LeavesNothing FreedOnce
PROPERTIES Settles
CHECK_DEADLOCK FALSE
