CONSTANTS
  c1 = c1
  c2 = c2
  Clients <- TwoClients
  Requests <- SystemRequests
  NOFILE = 7
  BACKLOG = 2
  Faults <- Refusals
  BUFSIZE = 3
  FD_SETSIZE = 7
  CBUFSIZE = 3
  HEADLEN <- ShortHeads
  NulBytes <- NoNul
  Interruptible <- SecondOnly
SPECIFICATION SystemSpec
CHECK_DEADLOCK FALSE
INVARIANTS
  ExitCodeTellsFile
  ExitZeroMeansFile
PROPERTIES
  EveryClientExits
