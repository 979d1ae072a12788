CONSTANTS
  c1 = c1
  c2 = c2
  c3 = c3
  Clients <- ThreeClients
  Requests <- SafetyRequests
  NOFILE = 6
  BACKLOG = 2
  Faults <- AllFaults
  BUFSIZE = 3
  FD_SETSIZE = 6
SPECIFICATION Spec
SYMMETRY Symmetry
CHECK_DEADLOCK FALSE
INVARIANTS
  TypeOK
  TablesAgree
  MaxFdCovers
  FirstRecvNeverBlocks
  FileOpenWhileUsed
  ReplyFaithful
  CompleteWhenClosed
  ClosedWithoutReset
PROPERTIES
  RoundServesAllMarked
  ImplementsService
