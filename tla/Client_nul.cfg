CONSTANTS
  c1 = c1
  Clients <- OneClient
  Requests <- ClientRequests
  NOFILE = 5
  BACKLOG = 1
  Faults <- NoFaults
  CBUFSIZE = 3
  HEADLEN <- ReplyHeads
  NulBytes <- SomeNul
  ServerFaults <- NoFaults
SPECIFICATION AnySpec
CHECK_DEADLOCK FALSE
INVARIANTS
  ExitZeroMeansBody
