-------------------------- MODULE HttpServer2Proofs --------------------------
(***************************************************************************)
(* The safety properties of http_server2, for every set of clients, every   *)
(* set of requests, every limit and every behaviour of the clients.         *)
(***************************************************************************)
EXTENDS HttpServer2, HandleConnectionProofs, FiniteSetTheorems

MainTypeOK ==
  /\ pc \in {"select", "accept", "scan", "handle"}
  /\ connections \in [Slots -> Fds \cup {NoFd}]
  /\ all_fds \subseteq Fds
  /\ read_fds \subseteq Fds
  /\ max_fd \in Fds
  /\ i \in 0 .. FD_SETSIZE

\* Where main's loop stands, and on which connection.
LoopInv ==
  /\ pc # "handle" => hpc = "idle"
  /\ pc = "handle" => hpc # "idle" /\ i \in Slots /\ hsock = connections[i]

\* fd is an open connection that has something to read.
Answering(fd) == \E c \in Clients : fd_of[c] = fd /\ Readable(c)

\* What select() marked is still true of the connections PART 2 has not reached,
\* and no connection behind slot i is marked.
MarkInv ==
  /\ pc = "accept" => \A s \in Slots : connections[s] \in read_fds => Answering(connections[s])
  /\ pc = "accept" => read_fds \subseteq all_fds
  /\ pc = "accept" /\ ListenFd \in read_fds => backlog # <<>>
  /\ pc \in {"scan", "handle"} => \A s \in Slots : s < i => connections[s] \notin read_fds
  /\ pc = "scan" =>
       \A s \in Slots : s >= i /\ connections[s] \in read_fds => Answering(connections[s])
  /\ pc = "handle" =>
       \A s \in Slots : s > i /\ connections[s] \in read_fds => Answering(connections[s])
  /\ hpc = "recv" /\ total_len = 0 => Answering(hsock)

Inv ==
  /\ ConnInv
  /\ MainTypeOK
  /\ TablesAgree
  /\ MaxFdCovers
  /\ LoopInv
  /\ MarkInv

(***************************************************************************)
(* Fewer descriptors than slots are left for connections, so that a new     *)
(* connection always finds an empty one.                                    *)
(***************************************************************************)
TableHasRoom == Occupied # Slots

LEMMA RoomForAll == MainTypeOK /\ TablesAgree => TableHasRoom
<1> SUFFICES ASSUME MainTypeOK, TablesAgree, Occupied = Slots PROVE FALSE
  BY DEF TableHasRoom
<1>1. connections \in [Slots -> 4 .. NOFILE - 1]
  <2>1. \A s \in Slots : connections[s] \in Fds /\ connections[s] # NoFd
    BY DEF MainTypeOK, Occupied
  <2>2. \A s \in Slots : connections[s] \notin Reserved
    BY <2>1 DEF TablesAgree, Occupied
  <2>3. \A fd \in Fds : fd \notin Reserved => fd \in 4 .. NOFILE - 1
    BY NofileAssumption DEF Fds, Reserved, ListenFd
  <2>4. QED
    BY <2>1, <2>2, <2>3 DEF MainTypeOK
<1>2. IsFiniteSet(Slots) /\ Cardinality(Slots) = FD_SETSIZE
  BY FdSetAssumption, NofileAssumption, FS_Interval DEF Slots
<1>3. IsFiniteSet(4 .. NOFILE - 1) /\ Cardinality(4 .. NOFILE - 1) = NOFILE - 4
  BY NofileAssumption, FS_Interval
<1>4. Cardinality(4 .. NOFILE - 1) < Cardinality(Slots)
  BY <1>2, <1>3, FdSetAssumption, NofileAssumption
<1>5. \E s, t \in Slots : s # t /\ connections[s] = connections[t]
  BY <1>1, <1>2, <1>3, <1>4, FS_PigeonHole
<1>6. QED
  BY <1>5 DEF TablesAgree

-----------------------------------------------------------------------------

LEMMA InitInv == Init => Inv
<1> SUFFICES ASSUME Init PROVE Inv
  OBVIOUS
<1>1. ConnInv
  BY ConnInit DEF Init
<1>2. Occupied = {} /\ {fd_of[c] : c \in Clients} \ {NoFd} = {}
  BY DEF Init, SocketsInit, Occupied
<1>3. MainTypeOK /\ MaxFdCovers
  BY NofileAssumption, FdSetAssumption DEF Init, MainTypeOK, MaxFdCovers, Fds, ListenFd
<1>4. TablesAgree
  BY <1>2, NofileAssumption DEF Init, SocketsInit, TablesAgree, Reserved, NoFd, ListenFd
<1>5. LoopInv /\ MarkInv
  BY DEF Init, HandlerInit, LoopInv, MarkInv
<1>6. QED
  BY <1>1, <1>3, <1>4, <1>5 DEF Inv

\* The steps that move neither a descriptor nor a slot keep the tables.
LEMMA TablesFrame ==
  ASSUME TablesAgree, UNCHANGED <<all_fds, connections, fd_of>>,
         \A c \in Clients : fd_of[c] # NoFd => fd_of[c] # file'
  PROVE  TablesAgree'
  BY DEF TablesAgree, Occupied

\* select(), and the steps of main that only move its program counter.
LEMMA MainStepInv ==
  ASSUME Inv, Select \/ NothingToAccept \/ AcceptFails \/ ScanEnds
  PROVE  Inv'
<1>1. UNCHANGED <<kernelVars, replyVars, handlerVars, connections, all_fds, max_fd>>
  BY DEF Select, NothingToAccept, AcceptFails, ScanEnds
<1>2. ConnInv'
  BY <1>1, ConnStutter DEF connVars, Inv
<1>3. MainTypeOK'
  BY <1>1, FdSetAssumption, NofileAssumption
  DEF Inv, MainTypeOK, Select, NothingToAccept, AcceptFails, ScanEnds
<1>4. TablesAgree' /\ MaxFdCovers'
  BY <1>1, TablesFrame DEF Inv, MaxFdCovers, kernelVars, TablesAgree
<1>5. LoopInv'
  BY <1>1 DEF Inv, LoopInv, handlerVars, Select, NothingToAccept, AcceptFails, ScanEnds
<1>6. MarkInv'
  <2>1. \A fd : Answering(fd)' = Answering(fd)
    BY <1>1 DEF kernelVars, Answering, Readable, HasInput, Pending
  <2>2. hpc' = "idle"
    BY <1>1 DEF handlerVars, Inv, LoopInv, Select, NothingToAccept, AcceptFails, ScanEnds
  <2>3. backlog' = backlog /\ connections' = connections /\ all_fds' = all_fds
    BY <1>1 DEF kernelVars
  <2>4. CASE Select
    <3>1. \A s \in Slots : connections[s] # ListenFd
      BY DEF Inv, MainTypeOK, TablesAgree, Occupied, Reserved, ListenFd, NoFd
    <3>2. \A s \in Slots : connections[s] \in read_fds' => Answering(connections[s])
      BY <2>4, <3>1 DEF Select, ReadyFd, Answering
    <3>3. QED
      BY <2>1, <2>2, <2>3, <2>4, <3>2 DEF Select, ReadyFd, MarkInv, Inv, FdsInv, ConnInv,
         Reserved, ListenFd
  <2>5. CASE NothingToAccept
    BY <2>1, <2>2, <2>3, <2>5 DEF NothingToAccept, MarkInv, Inv, Slots
  <2>6. CASE AcceptFails \/ ScanEnds
    BY <2>1, <2>2, <2>3, <2>6 DEF AcceptFails, ScanEnds, MarkInv, Inv
  <2>7. QED
    BY <2>4, <2>5, <2>6
<1>7. QED
  BY <1>2, <1>3, <1>4, <1>5, <1>6 DEF Inv

\* accept() and the first empty slot: there is one, so nothing is rejected.
LEMMA AcceptInv ==
  ASSUME Inv, NEW new_conn \in Fds, Accept(new_conn)
  PROVE  Inv'
<1> DEFINE c == Head(backlog)
<1>1. PICK s \in Slots : FirstEmpty(s) /\ Admit(c, new_conn, s)
  BY RoomForAll DEF Accept, Inv, TableHasRoom
<1>2. c \in Clients /\ fd_of[c] = NoFd
  <2>1. backlog \in Seq(Clients) /\ backlog # <<>>
    BY DEF Accept, Inv, ConnInv, HandlerInv, SocketsTypeOK
  <2>2. c = backlog[1] /\ 1 \in DOMAIN backlog /\ c \in Clients
    BY <2>1
  <2>3. QED
    BY <2>2 DEF Inv, ConnInv, QueueInv
<1> HIDE DEF c
<1>3. /\ new_conn # NoFd /\ new_conn \notin Reserved /\ new_conn # file
      /\ \A d \in Clients : fd_of[d] # new_conn
  BY NofileAssumption DEF Accept, LowestFree, FreeFds, OpenFds, Fds, NoFd
<1>4. /\ fd_of \in [Clients -> Fds \cup {NoFd}] /\ fd_of' = [fd_of EXCEPT ![c] = new_conn]
      /\ connections \in [Slots -> Fds \cup {NoFd}] /\ connections[s] = NoFd
      /\ connections' = [connections EXCEPT ![s] = new_conn]
      /\ all_fds' = all_fds \cup {new_conn} /\ read_fds' = read_fds
      /\ UNCHANGED <<peer, wrote, taken, file, closed, hpc, hsock, total_len>>
      /\ pc = "accept" /\ pc' = "scan" /\ i' = 0
  BY <1>1 DEF Accept, Admit, FirstEmpty, Inv, MainTypeOK, ConnInv, HandlerInv, SocketsTypeOK,
     handlerVars
<1>5. hpc = "idle"
  BY <1>4 DEF Inv, LoopInv
<1>6. ConnInv'
  <2>1. backlog # <<>> /\ LowestFree(new_conn) /\ backlog' = Tail(backlog)
    BY DEF Accept
  <2>2. /\ UNCHANGED <<req, peer, wrote, taken, file, closed, replyVars>>
        /\ UNCHANGED handlerVars
    BY <1>1 DEF Accept, Admit
  <2>3. QED
    BY <1>4, <1>5, <2>1, <2>2, ConnAccept DEF Inv, c
<1>7. MainTypeOK'
  BY <1>1, <1>4, FdSetAssumption DEF Inv, MainTypeOK, Admit
<1>8. MaxFdCovers'
  <2>1. max_fd' = IF new_conn > max_fd THEN new_conn ELSE max_fd
    BY <1>1 DEF Admit
  <2>2. /\ max_fd \in Int /\ new_conn \in Int /\ \A fd \in all_fds : fd \in Int /\ fd <= max_fd
    BY NofileAssumption DEF Inv, MainTypeOK, MaxFdCovers, Fds
  <2>3. QED
    BY <1>4, <2>1, <2>2 DEF MaxFdCovers
<1>9. \A t \in Slots : t # s => connections'[t] = connections[t]
  BY <1>4
<1>10. connections'[s] = new_conn /\ fd_of'[c] = new_conn
  BY <1>2, <1>4
<1>11. \A d \in Clients : d # c => fd_of'[d] = fd_of[d]
  BY <1>4
<1>12. s \notin Occupied /\ Occupied' = Occupied \cup {s}
  BY <1>1, <1>3, <1>4, <1>9, <1>10 DEF Occupied
<1>13. TablesAgree'
  <2>1. {connections'[t] : t \in Occupied'} = {connections[t] : t \in Occupied} \cup {new_conn}
    BY <1>9, <1>10, <1>12 DEF Occupied
  <2>2. {fd_of'[d] : d \in Clients} \ {NoFd} = ({fd_of[d] : d \in Clients} \ {NoFd}) \cup {new_conn}
    BY <1>2, <1>3, <1>10, <1>11
  <2>3. \A t \in Occupied : connections[t] # new_conn
    <3>1. \A t \in Occupied : \E d \in Clients : connections[t] = fd_of[d]
      BY DEF Inv, TablesAgree
    <3>2. QED
      BY <1>3, <3>1
  <2>4. \A t, u \in Occupied' : connections'[t] = connections'[u] => t = u
    BY <1>9, <1>10, <1>12, <2>3 DEF Inv, TablesAgree, Occupied
  <2>5. \A d, e \in Clients : fd_of'[d] = fd_of'[e] /\ fd_of'[d] # NoFd => d = e
    BY <1>3, <1>10, <1>11 DEF Inv, TablesAgree
  <2>6. \A d \in Clients : fd_of'[d] \notin Reserved /\ (fd_of'[d] # NoFd => fd_of'[d] # file')
    BY <1>3, <1>4, <1>10, <1>11 DEF Inv, TablesAgree
  <2>7. QED
    BY <1>4, <2>1, <2>2, <2>4, <2>5, <2>6 DEF Inv, TablesAgree
<1>14. LoopInv'
  BY <1>4, <1>5 DEF LoopInv
<1>15. MarkInv'
  <2>1. new_conn \notin read_fds
    <3>1. all_fds = {ListenFd} \cup {connections[t] : t \in Occupied}
      BY DEF Inv, TablesAgree
    <3>2. \A fd \in all_fds : fd = ListenFd \/ \E d \in Clients : fd = fd_of[d]
      BY <3>1 DEF Inv, TablesAgree
    <3>3. QED
      BY <1>3, <1>4, <3>2 DEF Inv, MarkInv, Reserved, ListenFd
  <2>2. \A fd : fd # NoFd /\ Answering(fd) => Answering(fd)'
    BY <1>2, <1>4, <1>11 DEF Answering, Readable, HasInput, Pending
  <2>3. NoFd \notin read_fds
    BY NofileAssumption DEF Inv, MainTypeOK, Fds, NoFd
  <2>4. \A t \in Slots : (connections[t] \in read_fds => Answering(connections[t]))'
    <3> TAKE t \in Slots
    <3>1. CASE t = s
      BY <1>4, <1>10, <2>1, <3>1
    <3>2. CASE t # s
      <4>1. connections'[t] = connections[t]
        BY <1>9, <3>2
      <4>2. connections[t] \in read_fds => Answering(connections[t])
        BY <1>4 DEF Inv, MarkInv
      <4>3. QED
        BY <1>4, <2>2, <2>3, <4>1, <4>2
    <3>3. QED
      BY <3>1, <3>2
  <2>5. \A t \in Slots : ~(t < 0)
    BY FdSetAssumption DEF Slots
  <2>6. QED
    BY <1>4, <1>5, <2>4, <2>5 DEF MarkInv
<1>16. QED
  BY <1>6, <1>7, <1>8, <1>13, <1>14, <1>15 DEF Inv

\* handle_connection is called on the next marked slot.
LEMMA CallInv ==
  ASSUME Inv, NEW s \in Slots, Handle(s)
  PROVE  Inv'
<1>1. /\ UNCHANGED <<req, peer, wrote, taken, backlog, fd_of, file, closed>>
      /\ UNCHANGED <<connections, all_fds, read_fds, max_fd, total_len>>
      /\ pc = "scan" /\ pc' = "handle" /\ i' = s /\ s \in i .. FD_SETSIZE - 1
      /\ hpc' = "recv" /\ hsock' = connections[s]
  BY FdSetAssumption, NofileAssumption
  DEF Handle, Marked, Call, kernelVars, Slots, Inv, MainTypeOK
<1>2. Answering(connections[s])
  BY <1>1 DEF Handle, Marked, Inv, MarkInv
<1>3. PICK c \in Clients : fd_of[c] = connections[s] /\ Readable(c)
  BY <1>2 DEF Answering
<1>4. ConnInv'
  BY <1>3, ConnCall DEF Handle, Marked, Inv
<1>5. MainTypeOK' /\ MaxFdCovers' /\ TablesAgree'
  <2>1. MainTypeOK' /\ MaxFdCovers'
    BY <1>1, FdSetAssumption, NofileAssumption DEF Inv, MainTypeOK, MaxFdCovers, Slots
  <2>2. \A d \in Clients : fd_of[d] # NoFd => fd_of[d] # file'
    BY <1>1 DEF Inv, TablesAgree
  <2>3. TablesAgree'
    BY <1>1, <2>2, TablesFrame DEF Inv
  <2>4. QED
    BY <2>1, <2>3
<1>6. LoopInv'
  BY <1>1 DEF LoopInv
<1>7. MarkInv'
  <2>1. \A fd : Answering(fd)' = Answering(fd)
    BY <1>1 DEF Answering, Readable, HasInput, Pending
  <2>2. \A t \in Slots : t < s => connections[t] \notin read_fds
    <3>1. \A t \in Slots : t \in 0 .. s - 1 => t < i \/ t \in i .. s - 1
      BY <1>1 DEF Inv, MainTypeOK
    <3>2. NoFd \notin read_fds
      BY NofileAssumption DEF Inv, MainTypeOK, Fds, NoFd
    <3>3. \A t \in Slots : t < s => t \in 0 .. s - 1
      BY FdSetAssumption, NofileAssumption DEF Slots
    <3>4. QED
      BY <1>1, <3>1, <3>2, <3>3 DEF Handle, Marked, Inv, MarkInv
  <2>3. \A t \in Slots : t > s /\ connections[t] \in read_fds => Answering(connections[t])
    BY <1>1, FdSetAssumption DEF Inv, MarkInv, Slots, MainTypeOK
  <2>4. QED
    BY <1>1, <1>2, <2>1, <2>2, <2>3 DEF MarkInv
<1>8. QED
  BY <1>4, <1>5, <1>6, <1>7 DEF Inv

\* A step inside handle_connection leaves the tables alone, and takes input from
\* the served client only.
LEMMA InHandlerInv ==
  ASSUME Inv, NEW c \in Clients, InHandler(c)
  PROVE  Inv'
<1>1. /\ UNCHANGED <<pc, connections, all_fds, read_fds, max_fd, i>>
      /\ UNCHANGED <<peer, wrote, backlog, fd_of, hsock>>
      /\ pc = "handle" /\ hpc # "idle" /\ hpc' # "idle" /\ Serving(c)
  BY HandleStepFrame DEF InHandler
<1>2. ConnInv'
  BY ConnHandleStep DEF InHandler, Inv
<1>3. MainTypeOK' /\ MaxFdCovers' /\ LoopInv'
  BY <1>1 DEF Inv, MainTypeOK, MaxFdCovers, LoopInv
<1>4. TablesAgree'
  <2>1. \A d \in Clients : fd_of[d] # NoFd => fd_of[d] # file'
    BY <1>1, <1>2 DEF ConnInv, FdsInv
  <2>2. QED
    BY <1>1, <2>1, TablesFrame DEF Inv
<1>5. MarkInv'
  <2>1. \A d \in Clients : d # c => taken'[d] = taken[d]
    BY DEF InHandler, HandleStep, Recv, RecvFails, ParseFails, Fopen, FopenFails, SendNotFound,
       SendHeader, Fread, FreadEnds, Send, SendFailed, SendKilled, kernelVars, Inv, ConnInv,
       HandlerInv, SocketsTypeOK
  <2>2. \A fd : fd # fd_of[c] /\ Answering(fd) => Answering(fd)'
    BY <1>1, <2>1 DEF Answering, Readable, HasInput, Pending
  <2>3. \A s \in Slots : s > i /\ connections[s] \in read_fds => connections[s] # fd_of[c]
    <3>1. i \in Slots /\ connections[i] = fd_of[c] /\ fd_of[c] # NoFd
      BY <1>1 DEF Inv, LoopInv, Serving
    <3>2. i \in Occupied /\ i \in Int
      BY <3>1 DEF Occupied, Inv, MainTypeOK
    <3>3. \A s \in Slots : s > i /\ connections[s] = fd_of[c] => s \in Occupied /\ s # i
      BY <3>1, <3>2, FdSetAssumption DEF Occupied, Slots
    <3>4. QED
      BY <3>1, <3>2, <3>3 DEF Inv, TablesAgree
  <2>4. ~(hpc' = "recv" /\ total_len' = 0)
    <3>1. total_len \in Nat
      BY BufsizeAssumption DEF Inv, ConnInv, HandlerInv, HandlerTypeOK
    <3>2. QED
      BY <3>1 DEF InHandler, HandleStep, Recv, RecvFails, ParseFails, Fopen, FopenFails,
         SendNotFound, SendHeader, Fread, FreadEnds, Send, SendFailed, SendKilled
  <2>5. \A s \in Slots : (s > i /\ connections[s] \in read_fds => Answering(connections[s]))'
    BY <1>1, <2>2, <2>3 DEF Inv, MarkInv
  <2>6. QED
    BY <1>1, <2>4, <2>5 DEF Inv, MarkInv
<1>6. QED
  BY <1>2, <1>3, <1>4, <1>5 DEF Inv

\* close(), FD_CLR and the emptied slot take the same descriptor out of all the
\* tables.
LEMMA CloseInv ==
  ASSUME Inv, NEW c \in Clients, Close(c)
  PROVE  Inv'
<1>1. /\ pc = "handle" /\ pc' = "scan" /\ i \in Slots /\ i' = i + 1
      /\ hpc' = "idle" /\ connections[i] = fd_of[c] /\ hsock = fd_of[c] /\ fd_of[c] # NoFd
  BY DEF Close, Forget, Returned, Inv, LoopInv, ConnInv
<1>2. /\ UNCHANGED <<peer, wrote, taken, backlog, file, read_fds, max_fd>>
      /\ fd_of' = [fd_of EXCEPT ![c] = NoFd] /\ fd_of \in [Clients -> Fds \cup {NoFd}]
      /\ connections' = [connections EXCEPT ![i] = NoFd]
      /\ connections \in [Slots -> Fds \cup {NoFd}]
      /\ all_fds' = all_fds \ {fd_of[c]}
  BY <1>1 DEF Close, CloseConnection, Inv, MainTypeOK, ConnInv, HandlerInv, SocketsTypeOK
<1>3. ConnInv'
  BY <1>1, ConnClose DEF Close, Inv, Serving
<1>4. i \in 0 .. FD_SETSIZE - 1
  BY <1>1 DEF Slots
<1>5. MainTypeOK' /\ MaxFdCovers' /\ LoopInv'
  BY <1>1, <1>2, <1>4, FdSetAssumption DEF Inv, MainTypeOK, MaxFdCovers, LoopInv
<1>6. /\ fd_of'[c] = NoFd /\ connections'[i] = NoFd
      /\ \A d \in Clients : d # c => fd_of'[d] = fd_of[d] /\ fd_of[d] # fd_of[c]
      /\ \A s \in Slots : s # i => connections'[s] = connections[s] /\ connections[s] # fd_of[c]
  BY <1>1, <1>2 DEF Inv, TablesAgree, Occupied
<1>7. TablesAgree'
  <2>1. Occupied' = Occupied \ {i}
    BY <1>6 DEF Occupied
  <2>2. {connections'[s] : s \in Occupied'} = {connections[s] : s \in Occupied} \ {fd_of[c]}
    BY <1>1, <1>6, <2>1 DEF Occupied
  <2>3. {fd_of'[d] : d \in Clients} \ {NoFd} = ({fd_of[d] : d \in Clients} \ {NoFd}) \ {fd_of[c]}
    BY <1>1, <1>6
  <2>4. fd_of[c] # ListenFd
    BY DEF Inv, TablesAgree, Reserved, ListenFd
  <2>5. \A s, t \in Occupied' : connections'[s] = connections'[t] => s = t
    BY <1>6, <2>1 DEF Inv, TablesAgree, Occupied
  <2>6. \A d, e \in Clients : fd_of'[d] = fd_of'[e] /\ fd_of'[d] # NoFd => d = e
    BY <1>6 DEF Inv, TablesAgree
  <2>7. \A d \in Clients : fd_of'[d] \notin Reserved /\ (fd_of'[d] # NoFd => fd_of'[d] # file')
    BY <1>2, <1>6 DEF Inv, TablesAgree, NoFd, Reserved, ListenFd
  <2>8. QED
    BY <1>2, <2>2, <2>3, <2>4, <2>5, <2>6, <2>7 DEF Inv, TablesAgree
<1>8. MarkInv'
  <2>1. NoFd \notin read_fds
    BY NofileAssumption DEF Inv, MainTypeOK, Fds, NoFd
  <2>2. \A fd : fd # fd_of[c] /\ Answering(fd) => Answering(fd)'
    BY <1>2, <1>6 DEF Answering, Readable, HasInput, Pending
  <2>3. \A s \in Slots : s < i + 1 => connections'[s] \notin read_fds
    <3>1. \A s \in Slots : s < i + 1 => s < i \/ s = i
      BY <1>4, FdSetAssumption DEF Slots
    <3>2. \A s \in Slots : s < i => connections[s] \notin read_fds
      BY <1>1 DEF Inv, MarkInv
    <3>3. QED
      BY <1>6, <2>1, <3>1, <3>2
  <2>4. \A s \in Slots : (s >= i /\ connections[s] \in read_fds => Answering(connections[s]))'
    <3> TAKE s \in Slots
    <3>1. s >= i + 1 => s > i /\ s # i
      BY <1>4, FdSetAssumption DEF Slots
    <3>2. s > i /\ connections[s] \in read_fds => Answering(connections[s])
      BY <1>1 DEF Inv, MarkInv
    <3>3. QED
      BY <1>1, <1>2, <1>6, <2>2, <3>1, <3>2
  <2>5. QED
    BY <1>1, <1>2, <2>3, <2>4 DEF MarkInv
<1>9. QED
  BY <1>3, <1>5, <1>7, <1>8 DEF Inv

\* A client can only make more connections readable.
LEMMA EnvironmentInv ==
  ASSUME Inv, Environment
  PROVE  Inv'
<1>1. PICK c \in Clients : Peer(c)
  BY DEF Environment
<1>2. /\ UNCHANGED <<taken, fd_of, file>>
      /\ UNCHANGED <<pc, connections, all_fds, read_fds, max_fd, i, hpc, hsock, total_len>>
  BY <1>1, PeerFrame DEF Environment, handlerVars
<1>3. ConnInv'
  BY <1>1, ConnPeer DEF Environment, Inv
<1>4. MainTypeOK' /\ MaxFdCovers' /\ LoopInv'
  BY <1>2 DEF Inv, MainTypeOK, MaxFdCovers, LoopInv
<1>5. TablesAgree'
  BY <1>2, TablesFrame DEF Inv, TablesAgree
<1>6. \A fd : fd # NoFd /\ Answering(fd) => Answering(fd)'
  <2>1. \A d \in Clients : Readable(d) => Readable(d)'
    <3>1. /\ wrote \in [Clients -> Nat] /\ taken \in [Clients -> Nat]
          /\ peer \in [Clients -> {"new", "up", "fin", "rst", "broken"}]
      BY DEF Inv, ConnInv, HandlerInv, SocketsTypeOK
    <3>2. CASE Deliver(c)
      BY <1>2, <3>1, <3>2 DEF Deliver, Readable, HasInput, Pending
    <3>3. CASE ~Deliver(c)
      BY <1>1, <1>2, <3>1, <3>3
      DEF Readable, HasInput, Pending, Peer, Connect, Finish, Abort, Refuse
    <3>4. QED
      BY <3>2, <3>3
  <2>2. QED
    BY <1>2, <2>1 DEF Answering
<1>7. backlog # <<>> => backlog' # <<>>
  BY <1>1 DEF Inv, ConnInv, HandlerInv, SocketsTypeOK, Peer, Connect, Deliver, Finish, Abort, Refuse
<1>8. NoFd \notin read_fds /\ (hpc = "recv" => hsock # NoFd)
  BY NofileAssumption DEF Inv, MainTypeOK, Fds, NoFd, ConnInv
<1>9. MarkInv'
  BY <1>2, <1>6, <1>7, <1>8 DEF Inv, MarkInv
<1>10. QED
  BY <1>3, <1>4, <1>5, <1>9 DEF Inv

LEMMA NextInv == Inv /\ [Next]_vars => Inv'
<1> SUFFICES ASSUME Inv, [Next]_vars PROVE Inv'
  OBVIOUS
<1>1. CASE Select \/ NothingToAccept \/ AcceptFails \/ ScanEnds
  BY <1>1, MainStepInv
<1>2. CASE \E new_conn \in Fds : Accept(new_conn)
  BY <1>2, AcceptInv
<1>3. CASE \E s \in Slots : Handle(s)
  BY <1>3, CallInv
<1>4. CASE \E c \in Clients : InHandler(c)
  BY <1>4, InHandlerInv
<1>5. CASE \E c \in Clients : Close(c)
  BY <1>5, CloseInv
<1>6. CASE Environment
  BY <1>6, EnvironmentInv
<1>7. CASE UNCHANGED vars
  <2>1. ConnInv'
    BY <1>7, ConnStutter DEF vars, connVars, Inv
  <2>2. MainTypeOK' /\ MaxFdCovers' /\ LoopInv'
    BY <1>7 DEF vars, kernelVars, handlerVars, Inv, MainTypeOK, MaxFdCovers, LoopInv
  <2>3. TablesAgree'
    BY <1>7, TablesFrame DEF vars, kernelVars, Inv, TablesAgree
  <2>4. MarkInv'
    BY <1>7 DEF vars, kernelVars, handlerVars, Inv, MarkInv, Answering, Readable, HasInput, Pending
  <2>5. QED
    BY <2>1, <2>2, <2>3, <2>4 DEF Inv
<1>8. QED
  BY <1>1, <1>2, <1>3, <1>4, <1>5, <1>6, <1>7 DEF Next, Server

THEOREM Invariance == Spec => []Inv
  BY InitInv, NextInv, PTL DEF Spec

-----------------------------------------------------------------------------

(***************************************************************************)
(* Every variable of http_server2 keeps its type (http_server2.c:26-291).   *)
(***************************************************************************)
THEOREM TypeCorrect == Spec => []TypeOK
<1>1. Inv => TypeOK
  BY DEF Inv, ConnInv, HandlerInv, MainTypeOK, TypeOK
<1>2. QED
  BY <1>1, Invariance, PTL

(***************************************************************************)
(* The slots, the set given to select() and the kernel's descriptors never  *)
(* disagree (http_server2.c:251-262, 287-289).                              *)
(***************************************************************************)
THEOREM TablesCorrect == Spec => []TablesAgree
<1>1. Inv => TablesAgree
  BY DEF Inv
<1>2. QED
  BY <1>1, Invariance, PTL

(***************************************************************************)
(* select() looks at every descriptor main waits for (http_server2.c:228).  *)
(***************************************************************************)
THEOREM SelectSeesAll == Spec => []MaxFdCovers
<1>1. Inv => MaxFdCovers
  BY DEF Inv
<1>2. QED
  BY <1>1, Invariance, PTL

(***************************************************************************)
(* connections[] never fills up, so "Too many connections" is dead code:    *)
(* the process runs out of descriptors first (http_server2.c:263-266).      *)
(***************************************************************************)
THEOREM NeverTooManyConnections == Spec => []TableHasRoom
<1>1. Inv => TableHasRoom
  BY RoomForAll DEF Inv
<1>2. QED
  BY <1>1, Invariance, PTL

(***************************************************************************)
(* The first recv() of a call never blocks the server                       *)
(* (http_server2.c:228, 272-281).                                           *)
(***************************************************************************)
THEOREM FirstRecvFree == Spec => []FirstRecvNeverBlocks
<1>1. Inv => FirstRecvNeverBlocks
  BY DEF Inv, MarkInv, Answering, FirstRecvNeverBlocks, Serving, ConnInv
<1>2. QED
  BY <1>1, Invariance, PTL

(***************************************************************************)
(* No path through handle_connection forgets to close the file              *)
(* (http_server2.c:105-148).                                                *)
(***************************************************************************)
THEOREM NoFileLeaks == Spec => []FileOpenWhileUsed
<1>1. Inv => FileOpenWhileUsed
  BY DEF Inv, ConnInv
<1>2. QED
  BY <1>1, Invariance, PTL

(***************************************************************************)
(* What a client receives is a prefix of its own file, after a 200 head,    *)
(* however send() splits the chunks (http_server2.c:88-144).                *)
(***************************************************************************)
THEOREM RepliesFaithful == Spec => []ReplyFaithful
<1>1. Inv => ReplyFaithful
  BY RepliesInvImpliesFaithful DEF Inv, ConnInv
<1>2. QED
  BY <1>1, Invariance, PTL

(***************************************************************************)
(* A client that sent its request and did not abort has its whole answer    *)
(* when the server closes (http_server2.c:84-148).                          *)
(***************************************************************************)
THEOREM RepliesComplete == Spec => []CompleteWhenClosed
<1>1. Inv => CompleteWhenClosed
  BY AnswersInvImpliesComplete DEF Inv, ConnInv
<1>2. QED
  BY <1>1, Invariance, PTL

LEMMA ResetStep ==
  ASSUME Inv, ClosedWithoutReset, [Next]_vars
  PROVE  ClosedWithoutReset'
<1>1. CASE \E new_conn \in Fds : Accept(new_conn)
  <2>1. TableHasRoom
    BY RoomForAll DEF Inv
  <2>2. UNCHANGED <<req, peer, wrote, closed>>
    BY <1>1, <2>1 DEF Accept, Admit, TableHasRoom
  <2>3. QED
    BY <2>2, ResetStutter
<1>2. CASE \E c \in Clients : InHandler(c)
  BY <1>2, HandleStepFrame, ResetStutter DEF InHandler
<1>3. CASE \E c \in Clients : Close(c)
  <2>1. PICK c \in Clients : Close(c)
    BY <1>3
  <2>2. Serving(c)
    BY <2>1 DEF Close, Inv, LoopInv, ConnInv, Serving, Returned
  <2>3. QED
    BY <2>1, <2>2, ResetClose DEF Close, Inv
<1>4. CASE Environment
  BY <1>4, ResetPeer DEF Environment, Inv, ConnInv
<1>5. CASE \/ Select \/ NothingToAccept \/ AcceptFails \/ ScanEnds \/ UNCHANGED vars
           \/ \E s \in Slots : Handle(s)
  BY <1>5, ResetStutter
  DEF Select, NothingToAccept, AcceptFails, ScanEnds, Handle, vars, kernelVars
<1>6. QED
  BY <1>1, <1>2, <1>3, <1>4, <1>5 DEF Next, Server

(***************************************************************************)
(* Only bytes behind the blank line or a head that does not fit in buf make *)
(* the server reset the connection of a client that did not abort it        *)
(* (http_server2.c:65-84, 287).                                             *)
(***************************************************************************)
THEOREM NoSelfInflictedReset == Spec => []ClosedWithoutReset
<1>1. Init => ClosedWithoutReset
  BY DEF Init, SocketsInit, ClosedWithoutReset
<1>2. Inv /\ ClosedWithoutReset /\ [Next]_vars => ClosedWithoutReset'
  BY ResetStep
<1>3. QED
  BY <1>1, <1>2, Invariance, PTL DEF Spec

(***************************************************************************)
(* Why no existing file is answered 404 when there are more descriptors than*)
(* clients: were all of them taken while no file is open, two would be of   *)
(* one connection.                                                          *)
(***************************************************************************)
DescriptorForAll == IsFiniteSet(Clients) /\ Cardinality(Clients) < NOFILE - 4

LEMMA DescriptorLeft ==
  ASSUME DescriptorForAll, ConnInv, file = NoFd
  PROVE  FreeFds # {}
<1> SUFFICES ASSUME FreeFds = {} PROVE FALSE
  OBVIOUS
<1> DEFINE Others == 4 .. NOFILE - 1
           owner == [fd \in Others |-> CHOOSE c \in Clients : fd_of[c] = fd]
<1>1. \A fd \in Others : fd # NoFd /\ \E c \in Clients : fd_of[c] = fd
  BY NofileAssumption DEF FreeFds, OpenFds, Fds, Reserved, ListenFd, NoFd
<1>2. owner \in [Others -> Clients] /\ \A fd \in Others : fd_of[owner[fd]] = fd
  BY <1>1
<1>3. IsFiniteSet(Others) /\ Cardinality(Others) = NOFILE - 4
  BY NofileAssumption, FS_Interval
<1> HIDE DEF Others, owner
<1>4. IsFiniteSet(Clients) /\ Cardinality(Clients) < Cardinality(Others)
  BY <1>3 DEF DescriptorForAll
<1>5. \E x, y \in Others : x # y /\ owner[x] = owner[y]
  BY <1>2, <1>3, <1>4, FS_PigeonHole
<1>6. QED
  BY <1>2, <1>5

LEMMA FoundStep ==
  ASSUME DescriptorForAll, Inv, FoundInv, [Next]_vars
  PROVE  FoundInv'
<1>1. CASE Select \/ NothingToAccept \/ AcceptFails \/ ScanEnds \/ UNCHANGED vars
  BY <1>1, FoundStutter
  DEF Select, NothingToAccept, AcceptFails, ScanEnds, vars, kernelVars, replyVars, handlerVars
<1>2. CASE \E new_conn \in Fds : Accept(new_conn)
  <2>1. hpc' # "notfound" /\ UNCHANGED <<req, status>>
    BY <1>2 DEF Accept, Inv, LoopInv, replyVars, handlerVars
  <2>2. QED
    BY <2>1, FoundElsewhere
<1>3. CASE \E s \in Slots : Handle(s)
  BY <1>3, FoundElsewhere DEF Handle, Call, kernelVars, replyVars
<1>4. CASE \E c \in Clients : InHandler(c)
  <2>1. hpc = "open" => FreeFds # {}
    BY DescriptorLeft DEF Inv, ConnInv, FileOpenWhileUsed
  <2>2. QED
    BY <1>4, <2>1, FoundHandleStep DEF InHandler, Inv, ConnInv
<1>5. CASE \E c \in Clients : Close(c)
  BY <1>5, FoundElsewhere DEF Close, Forget, replyVars
<1>6. CASE Environment
  BY <1>6, PeerFrame, FoundStutter DEF Environment, handlerVars, replyVars
<1>7. QED
  BY <1>1, <1>2, <1>3, <1>4, <1>5, <1>6 DEF Next, Server

(***************************************************************************)
(* With a descriptor for every client and one more beside the reserved      *)
(* ones, http_server2 never answers 404 to a request for a file that exists *)
(* (http_server2.c:105, README.md:220-226); with fewer it does.             *)
(***************************************************************************)
THEOREM ExistingFilesFound ==
  ASSUME DescriptorForAll
  PROVE  Spec => []NotFoundOnlyWhenMissing
<1>1. Init => FoundInv
  BY DEF Init, SocketsInit, HandlerInit, FoundInv, NotFoundOnlyWhenMissing
<1>2. Inv /\ FoundInv /\ [Next]_vars => FoundInv'
  BY FoundStep
<1>3. FoundInv => NotFoundOnlyWhenMissing
  BY DEF FoundInv
<1>4. QED
  BY <1>1, <1>2, <1>3, Invariance, PTL DEF Spec

(***************************************************************************)
(* A round ends only when every marked connection has been served           *)
(* (http_server2.c:272-291).                                                *)
(***************************************************************************)
THEOREM RoundsServeAllMarked == Spec => RoundServesAllMarked
<1>1. Inv /\ [Next]_vars => [pc = "scan" /\ pc' = "select" => read_fds \cap all_fds \subseteq {ListenFd}]_vars
  <2> SUFFICES ASSUME Inv, Next, pc = "scan", pc' = "select"
               PROVE  read_fds \cap all_fds \subseteq {ListenFd}
    BY DEF vars
  <2>1. ScanEnds
    BY DEF Next, Server, Select, NothingToAccept, AcceptFails, Accept, Handle, InHandler, Close,
       Environment
  <2>2. \A s \in Occupied : connections[s] \notin read_fds
    <3>1. \A s \in Slots : s < i => connections[s] \notin read_fds
      BY DEF Inv, MarkInv
    <3>2. i \in Nat /\ Slots = 0 .. FD_SETSIZE - 1 /\ FD_SETSIZE \in Nat
      BY FdSetAssumption DEF Inv, MainTypeOK, Slots
    <3>3. \A s \in Slots : s < i \/ s \in i .. FD_SETSIZE - 1
      BY <3>2
    <3>4. QED
      BY <2>1, <3>1, <3>3 DEF ScanEnds, Marked, Occupied
  <2>3. QED
    BY <2>2 DEF Inv, TablesAgree
<1>2. QED
  BY <1>1, Invariance, PTL DEF Spec, RoundServesAllMarked

(***************************************************************************)
(* What a step of http_server2 is to the service.  The rejection of a       *)
(* connection would be an end of it, but never happens.                     *)
(***************************************************************************)
LEMMA ServiceStep == Inv /\ [Next]_vars => [Service!Next]_(Service!serviceVars)
<1> SUFFICES ASSUME Inv, [Next]_vars PROVE [Service!Next]_(Service!serviceVars)
  OBVIOUS
<1>1. CASE Select \/ NothingToAccept \/ AcceptFails \/ ScanEnds
  BY <1>1, ServiceStutter DEF Select, NothingToAccept, AcceptFails, ScanEnds, kernelVars
<1>2. CASE \E new_conn \in Fds : Accept(new_conn)
  <2>1. TableHasRoom
    BY RoomForAll DEF Inv
  <2>2. UNCHANGED <<req, peer, taken, closed, replyVars>>
    BY <1>2, <2>1 DEF Accept, Admit, TableHasRoom
  <2>3. QED
    BY <2>2, ServiceStutter
<1>3. CASE \E s \in Slots : Handle(s)
  BY <1>3, ServiceStutter DEF Handle, kernelVars
<1>4. CASE \E c \in Clients : InHandler(c)
  BY <1>4, ServiceHandleStep DEF InHandler, Inv
<1>5. CASE \E c \in Clients : Close(c)
  <2>1. PICK c \in Clients : Close(c)
    BY <1>5
  <2>2. Serving(c)
    BY <2>1 DEF Close, Inv, LoopInv, ConnInv, Serving, Returned
  <2>3. QED
    BY <2>1, <2>2, ServiceClose DEF Close, Inv
<1>6. CASE Environment
  BY <1>6, ServicePeer DEF Environment, Inv
<1>7. CASE UNCHANGED vars
  BY <1>7, ServiceStutter DEF vars, kernelVars
<1>8. QED
  BY <1>1, <1>2, <1>3, <1>4, <1>5, <1>6, <1>7 DEF Next, Server

(***************************************************************************)
(* http_server2 implements the same service as http_server1: however many   *)
(* connections are open, requests are heard and answered whole, one at a    *)
(* time (http_server2.c:64-148, 272-291).                                   *)
(***************************************************************************)
THEOREM ServiceImplemented == Spec => ImplementsService
<1>1. Init => Service!Init
  BY ServiceInit DEF Init
<1>2. QED
  BY <1>1, Invariance, ServiceStep, PTL DEF Spec, Service!Spec, ImplementsService

=============================================================================
