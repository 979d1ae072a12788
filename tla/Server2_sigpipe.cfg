CONSTANTS
  c1 = c1
  c2 = c2
  c3 = c3
  Clients <- TwoClients
  Requests <- LiveRequests
  NOFILE = 7
  BACKLOG = 2
  Faults <- AllFaults
  BUFSIZE = 3
  FD_SETSIZE = 7
SPECIFICATION Spec
CHECK_DEADLOCK FALSE
INVARIANTS
  SurvivesClients
