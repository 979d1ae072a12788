CONSTANTS
  c1 = c1
  c2 = c2
  c3 = c3
  Clients <- ThreeClients
  Requests <- ShortRequests
  NOFILE = 6
  BACKLOG = 2
  Faults <- NoFaults
  BUFSIZE = 3
  FD_SETSIZE = 7
SPECIFICATION FairSpec
CHECK_DEADLOCK FALSE
PROPERTIES
  ReadableConnectionServed
