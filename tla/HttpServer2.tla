----------------------------- MODULE HttpServer2 -----------------------------
(***************************************************************************)
(* http_server2: one thread that waits in select() for the listening socket *)
(* and for every open connection, accepts at most one connection a round    *)
(* and then runs handle_connection to its end for each connection that      *)
(* select() marked readable.                                                *)
(*                                                                          *)
(* A step is one system call together with the straight-line code up to the *)
(* next one.                                                                *)
(***************************************************************************)
EXTENDS HandleConnection

CONSTANT FD_SETSIZE   \* the slots of connections[], and the size of an fd_set

\* The default limit of a Linux process (1024) does not exceed FD_SETSIZE, so
\* every descriptor fits in an fd_set.
ASSUME FdSetAssumption == FD_SETSIZE \in Nat /\ NOFILE <= FD_SETSIZE

VARIABLES
  pc,           \* the next statement of main's loop
  connections,  \* the descriptor in each slot, or NoFd
  all_fds,      \* the descriptors to wait for
  read_fds,     \* those of them that select() marked readable
  max_fd,       \* the largest descriptor ever waited for
  i             \* the slot PART 2 stands at

vars == <<kernelVars, replyVars, handlerVars,
          pc, connections, all_fds, read_fds, max_fd, i>>

Slots    == 0 .. FD_SETSIZE - 1
Occupied == {s \in Slots : connections[s] # NoFd}

Init ==
  /\ SocketsInit
  /\ HandlerInit
  /\ pc = "select"
  /\ connections = [s \in Slots |-> NoFd]
  /\ all_fds = {ListenFd}
  /\ read_fds = {}
  /\ max_fd = ListenFd
  /\ i = 0

-----------------------------------------------------------------------------

\* Descriptor fd is readable: a connection waits for accept(), or the client
\* that fd serves has sent something or is gone.
ReadyFd(fd) ==
  \/ fd = ListenFd /\ backlog # <<>>
  \/ \E c \in Clients : fd_of[c] = fd /\ Readable(c)

\* Faulty variant: select(max_fd, ...) does not look at max_fd itself.
Select_OffByOne ==
  /\ pc = "select"
  /\ read_fds' = {fd \in all_fds : fd < max_fd /\ ReadyFd(fd)}
  /\ read_fds' # {}
  /\ pc' = "accept"
  /\ UNCHANGED <<kernelVars, replyVars, handlerVars, connections, all_fds, max_fd, i>>

\* select(max_fd + 1, &read_fds, ...) blocks until something is readable and
\* looks at no descriptor above max_fd.
Select ==
  /\ pc = "select"
  /\ read_fds' = {fd \in all_fds : fd <= max_fd /\ ReadyFd(fd)}
  /\ read_fds' # {}
  /\ pc' = "accept"
  /\ UNCHANGED <<kernelVars, replyVars, handlerVars, connections, all_fds, max_fd, i>>

\* PART 1 is skipped when the listening socket is not ready.
NothingToAccept ==
  /\ pc = "accept"
  /\ ListenFd \notin read_fds
  /\ pc' = "scan"
  /\ i' = 0
  /\ UNCHANGED <<kernelVars, replyVars, handlerVars, connections, all_fds, read_fds, max_fd>>

\* accept() fails for want of a descriptor, and `continue' skips PART 2.
AcceptFails ==
  /\ pc = "accept"
  /\ ListenFd \in read_fds
  /\ FreeFds = {}
  /\ pc' = "select"
  /\ UNCHANGED <<kernelVars, replyVars, handlerVars, connections, all_fds, read_fds, max_fd, i>>

\* The first empty slot takes the new connection.
FirstEmpty(s) ==
  /\ connections[s] = NoFd
  /\ \A t \in 0 .. s - 1 : connections[t] # NoFd

\* Faulty variant: max_fd follows the newest descriptor down as well as up.
Admit_MaxFdFalls(c, new_conn, s) ==
  /\ fd_of' = [fd_of EXCEPT ![c] = new_conn]
  /\ connections' = [connections EXCEPT ![s] = new_conn]
  /\ all_fds' = all_fds \cup {new_conn}
  /\ max_fd' = new_conn
  /\ UNCHANGED closed

\* Faulty variant: without FD_SET nothing ever waits for the connection.
Admit_NoFdSet(c, new_conn, s) ==
  /\ fd_of' = [fd_of EXCEPT ![c] = new_conn]
  /\ connections' = [connections EXCEPT ![s] = new_conn]
  /\ max_fd' = IF new_conn > max_fd THEN new_conn ELSE max_fd
  /\ UNCHANGED <<closed, all_fds>>

\* The table takes the new connection of c, and select() will wait for it.
Admit(c, new_conn, s) ==
  /\ fd_of' = [fd_of EXCEPT ![c] = new_conn]
  /\ connections' = [connections EXCEPT ![s] = new_conn]
  /\ all_fds' = all_fds \cup {new_conn}
  /\ max_fd' = IF new_conn > max_fd THEN new_conn ELSE max_fd
  /\ UNCHANGED closed

\* "Too many connections": the new connection is closed at once.
Reject(c) ==
  /\ CloseConnection(c)
  /\ UNCHANGED <<connections, all_fds, max_fd>>

\* accept() returns the descriptor new_conn for the oldest waiting connection.
Accept(new_conn) ==
  /\ pc = "accept"
  /\ ListenFd \in read_fds
  /\ backlog # <<>>
  /\ LowestFree(new_conn)
  /\ backlog' = Tail(backlog)
  /\ IF Occupied = Slots
       THEN Reject(Head(backlog))
       ELSE \E s \in Slots : FirstEmpty(s) /\ Admit(Head(backlog), new_conn, s)
  /\ pc' = "scan"
  /\ i' = 0
  /\ UNCHANGED <<req, peer, wrote, taken, file, replyVars, handlerVars, read_fds>>

\* Faulty variant: every open connection is handled, readable or not.
Marked_IfOpen(s) == connections[s] # NoFd

\* Slot s holds a connection that select() marked readable.
Marked(s) == connections[s] # NoFd /\ connections[s] \in read_fds

\* PART 2 calls handle_connection for the next marked slot from i on.
Handle(s) ==
  /\ pc = "scan"
  /\ s >= i
  /\ Marked(s)
  /\ \A t \in i .. s - 1 : ~Marked(t)
  /\ Call(connections[s])
  /\ pc' = "handle"
  /\ i' = s
  /\ UNCHANGED <<kernelVars, replyVars, connections, all_fds, read_fds, max_fd>>

\* PART 2 is over, and the loop starts again.
ScanEnds ==
  /\ pc = "scan"
  /\ \A s \in i .. FD_SETSIZE - 1 : ~Marked(s)
  /\ pc' = "select"
  /\ UNCHANGED <<kernelVars, replyVars, handlerVars, connections, all_fds, read_fds, max_fd, i>>

\* A step of the handler.
InHandler(c) ==
  /\ pc = "handle"
  /\ HandleStep(c)
  /\ UNCHANGED <<pc, connections, all_fds, read_fds, max_fd, i>>

\* Faulty variant: without FD_CLR the closed descriptor stays in all_fds.
Close_NoFdClr(c) ==
  /\ pc = "handle"
  /\ Returned
  /\ fd_of[c] = connections[i]
  /\ CloseConnection(c)
  /\ Forget
  /\ connections' = [connections EXCEPT ![i] = NoFd]
  /\ pc' = "scan"
  /\ i' = i + 1
  /\ UNCHANGED <<req, peer, wrote, taken, backlog, file, replyVars, all_fds, read_fds, max_fd>>

\* Faulty variant: the slot after a closed one is skipped.
Close_SkipsSlot(c) ==
  /\ pc = "handle"
  /\ Returned
  /\ fd_of[c] = connections[i]
  /\ CloseConnection(c)
  /\ Forget
  /\ all_fds' = all_fds \ {connections[i]}
  /\ connections' = [connections EXCEPT ![i] = NoFd]
  /\ pc' = "scan"
  /\ i' = i + 2
  /\ UNCHANGED <<req, peer, wrote, taken, backlog, file, replyVars, read_fds, max_fd>>

\* The handler has returned, whatever its result: close(conn), FD_CLR(conn), and
\* the slot is free.
Close(c) ==
  /\ pc = "handle"
  /\ Returned
  /\ fd_of[c] = connections[i]
  /\ CloseConnection(c)
  /\ Forget
  /\ all_fds' = all_fds \ {connections[i]}
  /\ connections' = [connections EXCEPT ![i] = NoFd]
  /\ pc' = "scan"
  /\ i' = i + 1
  /\ UNCHANGED <<req, peer, wrote, taken, backlog, file, replyVars, read_fds, max_fd>>

Server ==
  \/ Select
  \/ NothingToAccept
  \/ AcceptFails
  \/ \E new_conn \in Fds : Accept(new_conn)
  \/ \E s \in Slots : Handle(s)
  \/ ScanEnds
  \/ \E c \in Clients : InHandler(c)
  \/ \E c \in Clients : Close(c)

\* A client moves; the server's own variables stay.
Environment ==
  /\ \E c \in Clients : Peer(c)
  /\ UNCHANGED <<handlerVars, pc, connections, all_fds, read_fds, max_fd, i>>

Next == Server \/ Environment

(***************************************************************************)
(* Fairness: the operating system runs a process that can run, and a        *)
(* request whose first byte has arrived arrives in full (README.md:255-256);*)
(* send() never blocks (README.md:258), so that the server can always run   *)
(* in it.  A client that sends nothing may stay silent for ever, and no one *)
(* has to send anything behind the blank line.                              *)
(***************************************************************************)
RestArrives(c) ==
  /\ wrote[c] \in 1 .. req[c].len - 1
  /\ Deliver(c)
  /\ UNCHANGED <<handlerVars, pc, connections, all_fds, read_fds, max_fd, i>>

Fairness == WF_vars(Server) /\ \A c \in Clients : WF_vars(RestArrives(c))

Spec     == Init /\ [][Next]_vars
FairSpec == Spec /\ Fairness

-----------------------------------------------------------------------------

(***************************************************************************)
(* Type invariant: every variable of main, of handle_connection and of the  *)
(* sockets has its type (http_server2.c:154-214).                           *)
(***************************************************************************)
TypeOK ==
  /\ SocketsTypeOK
  /\ HandlerTypeOK
  /\ pc \in {"select", "accept", "scan", "handle"}
  /\ connections \in [Slots -> Fds \cup {NoFd}]
  /\ all_fds  \subseteq Fds
  /\ read_fds \subseteq Fds
  /\ max_fd \in Fds
  /\ i \in 0 .. FD_SETSIZE

\* The three records of the open connections never disagree, and no descriptor
\* is in them twice: the slots, the set given to select() and the kernel's table
\* (http_server2.c:251-262, 287-289).  A stale entry would make main handle or
\* close a descriptor that now belongs to another connection or to a file.
TablesAgree ==
  /\ all_fds = {ListenFd} \cup {connections[s] : s \in Occupied}
  /\ {connections[s] : s \in Occupied} = {fd_of[c] : c \in Clients} \ {NoFd}
  /\ \A s, t \in Occupied : connections[s] = connections[t] => s = t
  /\ \A c, d \in Clients : fd_of[c] = fd_of[d] /\ fd_of[c] # NoFd => c = d
  /\ \A c \in Clients : fd_of[c] \notin Reserved /\ (fd_of[c] # NoFd => fd_of[c] # file)

\* select() is asked about every descriptor waited for, although max_fd only
\* grows while descriptors come and go (http_server2.c:211, 228, 255-257).
MaxFdCovers == \A fd \in all_fds : fd <= max_fd

\* The first recv() of handle_connection never blocks: what select() marked
\* readable before the accept and before the connections handled first in this
\* round is still readable, and of the same client (http_server2.c:228, 272-281).
FirstRecvNeverBlocks ==
  hpc = "recv" /\ total_len = 0 => \E c \in Clients : Serving(c) /\ Readable(c)

\* PART 2, once entered, ends only when every connection marked readable has been
\* handled and closed, although slots are emptied while it scans them
\* (http_server2.c:272-291).  When accept() fails PART 2 is not entered, and the
\* marked connections wait for another round.
RoundServesAllMarked ==
  [][pc = "scan" /\ pc' = "select" => read_fds \cap all_fds \subseteq {ListenFd}]_vars

\* Every connection that completes its handshake is accepted in the end
\* (http_server2.c:241-262).
EveryConnectionAccepted ==
  \A c \in Clients : peer[c] # "new" ~> fd_of[c] # NoFd \/ closed[c] # "no"

\* Every accepted connection that has become readable is handled and closed in
\* the end, whatever the silent ones do (http_server2.c:272-291, README.md:299).
ReadableConnectionServed ==
  \A c \in Clients : fd_of[c] # NoFd /\ Readable(c) ~> closed[c] # "no"

=============================================================================
