-------------------------- MODULE HttpServer1Proofs --------------------------
(***************************************************************************)
(* The safety properties of http_server1, for every set of clients, every   *)
(* set of requests, every limit and every behaviour of the clients.         *)
(***************************************************************************)
EXTENDS HttpServer1, HandleConnectionProofs

\* Where main's loop stands decides whether a connection is open, and which.
LoopInv ==
  /\ pc = "accept" => hpc = "idle" /\ conn = NoFd /\ \A c \in Clients : fd_of[c] = NoFd
  /\ pc = "handle" => hpc # "idle" /\ hsock = conn
                      /\ \A c \in Clients : fd_of[c] # NoFd => fd_of[c] = conn
  /\ pc \in {"accept", "handle"}
  /\ conn \in Fds \cup {NoFd}

Inv == ConnInv /\ LoopInv

LEMMA InitInv == Init => Inv
  BY ConnInit DEF Init, Inv, LoopInv, SocketsInit, HandlerInit, NoFd

LEMMA NextInv == Inv /\ [Next]_vars => Inv'
<1> SUFFICES ASSUME Inv, [Next]_vars PROVE Inv'
  OBVIOUS
<1>1. CASE \E new_conn \in Fds : Accept(new_conn)
  <2>1. PICK new_conn \in Fds : Accept(new_conn)
    BY <1>1
  <2>2. ConnInv'
    BY <2>1, ConnAccept DEF Accept, Inv, Call
  <2>3. Head(backlog) \in Clients /\ fd_of \in [Clients -> Fds \cup {NoFd}]
    BY <2>1 DEF Accept, Inv, ConnInv, HandlerInv, SocketsTypeOK
  <2>4. LoopInv'
    BY <2>1, <2>3 DEF Accept, Call, Inv, LoopInv
  <2>5. QED
    BY <2>2, <2>4 DEF Inv
<1>2. CASE \E c \in Clients : InHandler(c)
  <2>1. PICK c \in Clients : InHandler(c)
    BY <1>2
  <2>2. ConnInv'
    BY <2>1, ConnHandleStep DEF InHandler, Inv
  <2>3. UNCHANGED <<fd_of, hsock, pc, conn>> /\ pc = "handle" /\ hpc' # "idle"
    BY <2>1, HandleStepFrame DEF InHandler
  <2>4. QED
    BY <2>2, <2>3 DEF Inv, LoopInv
<1>3. CASE \E c \in Clients : Close(c)
  <2>1. PICK c \in Clients : Close(c)
    BY <1>3
  <2>2. Serving(c)
    BY <2>1 DEF Close, Inv, LoopInv, ConnInv, Serving, Returned
  <2>3. ConnInv'
    BY <2>1, <2>2, ConnClose DEF Close, Inv
  <2>4. \A d \in Clients : fd_of'[d] = NoFd
    <3>1. fd_of \in [Clients -> Fds \cup {NoFd}] /\ fd_of' = [fd_of EXCEPT ![c] = NoFd]
      BY <2>1 DEF Close, CloseConnection, Inv, ConnInv, HandlerInv, SocketsTypeOK
    <3>2. \A d \in Clients : d # c => fd_of[d] = NoFd
      BY <2>1 DEF Close, Inv, LoopInv, ConnInv, FdsInv
    <3>3. QED
      BY <3>1, <3>2
  <2>5. LoopInv'
    BY <2>1, <2>4 DEF Close, Forget, Inv, LoopInv
  <2>6. QED
    BY <2>3, <2>5 DEF Inv
<1>4. CASE Environment
  <2>1. PICK c \in Clients : Peer(c)
    BY <1>4 DEF Environment
  <2>2. ConnInv'
    BY <1>4, <2>1, ConnPeer DEF Environment, Inv
  <2>3. UNCHANGED <<fd_of, hpc, hsock, pc, conn>>
    BY <1>4, <2>1, PeerFrame DEF Environment, handlerVars
  <2>4. QED
    BY <2>2, <2>3 DEF Inv, LoopInv
<1>5. CASE UNCHANGED vars
  <2>1. ConnInv'
    BY <1>5, ConnStutter DEF vars, connVars, Inv
  <2>2. UNCHANGED <<fd_of, hpc, hsock, pc, conn>>
    BY <1>5 DEF vars, kernelVars, handlerVars
  <2>3. QED
    BY <2>1, <2>2 DEF Inv, LoopInv
<1>6. QED
  BY <1>1, <1>2, <1>3, <1>4, <1>5 DEF Next, Server

THEOREM Invariance == Spec => []Inv
  BY InitInv, NextInv, PTL DEF Spec

-----------------------------------------------------------------------------

(***************************************************************************)
(* Every variable of http_server1 keeps its type (http_server1.c:27-224).   *)
(***************************************************************************)
THEOREM TypeCorrect == Spec => []TypeOK
<1>1. Inv => TypeOK
  BY DEF Inv, ConnInv, HandlerInv, LoopInv, TypeOK
<1>2. QED
  BY <1>1, Invariance, PTL

(***************************************************************************)
(* One connection is open at a time: no path out of the loop body forgets   *)
(* to close one (http_server1.c:203-224).                                   *)
(***************************************************************************)
THEOREM NoConnectionLeaks == Spec => []OneConnectionAtATime
<1>1. Inv => OneConnectionAtATime
  BY DEF Inv, LoopInv, OneConnectionAtATime, Serving
<1>2. QED
  BY <1>1, Invariance, PTL

(***************************************************************************)
(* No path through handle_connection forgets to close the file              *)
(* (http_server1.c:104-147).                                                *)
(***************************************************************************)
THEOREM NoFileLeaks == Spec => []FileOpenWhileUsed
<1>1. Inv => FileOpenWhileUsed
  BY DEF Inv, ConnInv
<1>2. QED
  BY <1>1, Invariance, PTL

(***************************************************************************)
(* What a client receives is a prefix of its file, after a 200 head, however*)
(* send() splits the chunks (http_server1.c:87-143).                        *)
(***************************************************************************)
THEOREM RepliesFaithful == Spec => []ReplyFaithful
<1>1. Inv => ReplyFaithful
  BY RepliesInvImpliesFaithful DEF Inv, ConnInv
<1>2. QED
  BY <1>1, Invariance, PTL

(***************************************************************************)
(* A client that sent its request and did not abort has its whole answer    *)
(* when the server closes (http_server1.c:83-147).                          *)
(***************************************************************************)
THEOREM RepliesComplete == Spec => []CompleteWhenClosed
<1>1. Inv => CompleteWhenClosed
  BY AnswersInvImpliesComplete DEF Inv, ConnInv
<1>2. QED
  BY <1>1, Invariance, PTL

(***************************************************************************)
(* http_server1 is the service: every step of it is a step of HttpService   *)
(* or one that the service does not see (http_server1.c:63-147, 203-224).   *)
(***************************************************************************)
LEMMA ServiceStep == Inv /\ [Next]_vars => [Service!Next]_(Service!serviceVars)
<1> SUFFICES ASSUME Inv, [Next]_vars PROVE [Service!Next]_(Service!serviceVars)
  OBVIOUS
<1>1. CASE \E new_conn \in Fds : Accept(new_conn)
  BY <1>1, ServiceStutter DEF Accept
<1>2. CASE \E c \in Clients : InHandler(c)
  BY <1>2, ServiceHandleStep DEF InHandler, Inv
<1>3. CASE \E c \in Clients : Close(c)
  <2>1. PICK c \in Clients : Close(c)
    BY <1>3
  <2>2. Serving(c)
    BY <2>1 DEF Close, Inv, LoopInv, ConnInv, Serving, Returned
  <2>3. QED
    BY <2>1, <2>2, ServiceClose DEF Close, Inv
<1>4. CASE Environment
  BY <1>4, ServicePeer DEF Environment, Inv
<1>5. CASE UNCHANGED vars
  BY <1>5, ServiceStutter DEF vars, kernelVars
<1>6. QED
  BY <1>1, <1>2, <1>3, <1>4, <1>5 DEF Next, Server

(***************************************************************************)
(* http_server1 implements the service: what its clients see is requests    *)
(* answered whole, one at a time (http_server1.c:63-147, 203-224).          *)
(***************************************************************************)
THEOREM ServiceImplemented == Spec => ImplementsService
<1>1. Init => Service!Init
  BY ServiceInit DEF Init
<1>2. QED
  BY <1>1, Invariance, ServiceStep, PTL DEF Spec, Service!Spec, ImplementsService

-----------------------------------------------------------------------------
(***************************************************************************)
(* Why no existing file is answered 404 when two descriptors are left       *)
(* beside the reserved ones: the connection has one of them, and fopen()    *)
(* finds the other.                                                         *)
(***************************************************************************)
LEMMA DescriptorLeft ==
  ASSUME NOFILE > 5, Inv, pc = "handle", hpc = "open"
  PROVE  FreeFds # {}
<1>1. OpenFds \subseteq Reserved \cup {conn}
  BY DEF Inv, LoopInv, ConnInv, FileOpenWhileUsed, OpenFds
<1>2. {4, 5} \subseteq Fds /\ 4 \notin Reserved /\ 5 \notin Reserved
  BY NofileAssumption DEF Fds, Reserved, ListenFd
<1>3. QED
  BY <1>1, <1>2 DEF FreeFds

LEMMA FoundStep ==
  ASSUME NOFILE > 5, Inv, FoundInv, [Next]_vars
  PROVE  FoundInv'
<1>1. CASE \E new_conn \in Fds : Accept(new_conn)
  BY <1>1, FoundElsewhere DEF Accept, Call, replyVars
<1>2. CASE \E c \in Clients : InHandler(c)
  BY <1>2, DescriptorLeft, FoundHandleStep DEF InHandler, Inv, ConnInv
<1>3. CASE \E c \in Clients : Close(c)
  BY <1>3, FoundElsewhere DEF Close, Forget, replyVars
<1>4. CASE Environment
  BY <1>4, PeerFrame, FoundStutter DEF Environment, handlerVars, replyVars
<1>5. CASE UNCHANGED vars
  BY <1>5, FoundStutter DEF vars, kernelVars, replyVars, handlerVars
<1>6. QED
  BY <1>1, <1>2, <1>3, <1>4, <1>5 DEF Next, Server

(***************************************************************************)
(* With two descriptors beside the four reserved ones, http_server1 never   *)
(* answers 404 to a request for a file that exists (http_server1.c:104,     *)
(* README.md:220-226): the connections before leave nothing open.           *)
(***************************************************************************)
THEOREM ExistingFilesFound ==
  ASSUME NOFILE > 5
  PROVE  Spec => []NotFoundOnlyWhenMissing
<1>1. Init => FoundInv
  BY DEF Init, SocketsInit, HandlerInit, FoundInv, NotFoundOnlyWhenMissing
<1>2. Inv /\ FoundInv /\ [Next]_vars => FoundInv'
  BY FoundStep
<1>3. FoundInv => NotFoundOnlyWhenMissing
  BY DEF FoundInv
<1>4. QED
  BY <1>1, <1>2, <1>3, Invariance, PTL DEF Spec

=============================================================================
