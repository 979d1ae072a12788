CONSTANTS
  c1 = c1
  c2 = c2
  c3 = c3
  Clients <- TwoClients
  Requests <- LiveRequests
  NOFILE = 7
  BACKLOG = 2
  Faults <- PlainFaults
  BUFSIZE = 3
  FD_SETSIZE = 7
SPECIFICATION FairSpec
CHECK_DEADLOCK FALSE
INVARIANTS
  NotFoundOnlyWhenMissing
PROPERTIES
  EveryConnectionAccepted
  ReadableConnectionServed
