CONSTANTS
  c1 = c1
  c2 = c2
  Clients <- TwoClients
  Requests <- AllRequests
  NOFILE = 6
  BACKLOG = 2
  Faults <- AllFaults
  BUFSIZE = 3
SPECIFICATION FairSpec
CHECK_DEADLOCK FALSE
INVARIANTS
  TypeOK
  OneConnectionAtATime
  FileOpenWhileUsed
  ReplyFaithful
  CompleteWhenClosed
  NotFoundOnlyWhenMissing
PROPERTIES
  EveryConnectionServed
  ImplementsService
