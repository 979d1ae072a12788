----------------------------- MODULE HttpServer1 -----------------------------
(***************************************************************************)
(* http_server1: accept a connection, handle it to its end, close it, and   *)
(* only then accept the next one.                                           *)
(***************************************************************************)
EXTENDS HandleConnection

VARIABLES
  pc,   \* the next statement of main's loop
  conn  \* the connection socket

vars == <<kernelVars, replyVars, handlerVars, pc, conn>>

Init ==
  /\ SocketsInit
  /\ HandlerInit
  /\ pc = "accept"
  /\ conn = NoFd

-----------------------------------------------------------------------------

\* accept() blocks until a connection waits, and handle_connection is called on
\* it.  An accept() that fails is tried again and changes nothing.
Accept(new_conn) ==
  /\ pc = "accept"
  /\ backlog # <<>>
  /\ LowestFree(new_conn)
  /\ backlog' = Tail(backlog)
  /\ fd_of' = [fd_of EXCEPT ![Head(backlog)] = new_conn]
  /\ conn' = new_conn
  /\ Call(new_conn)
  /\ pc' = "handle"
  /\ UNCHANGED <<req, peer, wrote, taken, file, closed, replyVars>>

\* A step of the handler.
InHandler(c) ==
  /\ pc = "handle"
  /\ HandleStep(c)
  /\ UNCHANGED <<pc, conn>>

\* Faulty variant: the connection is closed only after a success.
Close_OnlyOnSuccess(c) ==
  /\ pc = "handle"
  /\ Returned
  /\ fd_of[c] = conn
  /\ IF hpc = "done" THEN CloseConnection(c) ELSE UNCHANGED <<fd_of, closed>>
  /\ Forget
  /\ conn' = NoFd
  /\ pc' = "accept"
  /\ UNCHANGED <<req, peer, wrote, taken, backlog, file, replyVars>>

\* The handler has returned, whatever its result: close(conn).
Close(c) ==
  /\ pc = "handle"
  /\ Returned
  /\ fd_of[c] = conn
  /\ CloseConnection(c)
  /\ Forget
  /\ conn' = NoFd
  /\ pc' = "accept"
  /\ UNCHANGED <<req, peer, wrote, taken, backlog, file, replyVars>>

Server ==
  \/ \E new_conn \in Fds : Accept(new_conn)
  \/ \E c \in Clients : InHandler(c)
  \/ \E c \in Clients : Close(c)

\* A client moves; the server's own variables stay.
Environment ==
  /\ \E c \in Clients : Peer(c)
  /\ UNCHANGED <<handlerVars, pc, conn>>

Next == Server \/ Environment

(***************************************************************************)
(* Fairness.  The process runs when it can, and what it waits for comes:   *)
(* no client leaves its request unfinished for ever, and none stops taking  *)
(* the file it is sent while it keeps its connection open.  A client that   *)
(* does either stops the server, as README.md:233-247 says of reading and   *)
(* of writing.  (The two heads fit in the buffer of a new socket.)          *)
(***************************************************************************)
Talks(c) ==
  /\ wrote[c] < req[c].len
  /\ Deliver(c)
  /\ UNCHANGED <<handlerVars, pc, conn>>

\* The client makes room for more of the file, or is gone: send() returns.
Listens(c) == hpc = "send" /\ Serving(c) /\ InHandler(c)

\* Every other step needs the process alone.
Runs == hpc # "send" /\ Server

Fairness == WF_vars(Runs) /\ \A c \in Clients : WF_vars(Talks(c)) /\ WF_vars(Listens(c))

Spec     == Init /\ [][Next]_vars
FairSpec == Spec /\ Fairness

-----------------------------------------------------------------------------

(***************************************************************************)
(* Type invariant: every variable of main, of handle_connection and of the  *)
(* sockets has its type (http_server1.c:152-203).                           *)
(***************************************************************************)
TypeOK ==
  /\ SocketsTypeOK
  /\ HandlerTypeOK
  /\ pc \in {"accept", "handle"}
  /\ conn \in Fds \cup {NoFd}

\* One connection is open at a time, and none once the handler's result is dealt
\* with: no path out of the loop body forgets the descriptor
\* (http_server1.c:203-224).
OneConnectionAtATime ==
  \A c \in Clients : fd_of[c] # NoFd => pc = "handle" /\ fd_of[c] = conn /\ Serving(c)

\* Every connection that completes its handshake is handled and closed in the end,
\* whichever way the handling of those before it ends (http_server1.c:203-224): with a
\* reply, at an end of stream in the middle of a head, or on a failed send().  There are
\* two exceptions, a client before it that stops talking or listening (see Fairness) and
\* the SIGPIPE that ends the process (http_server1.c:107, 125, 135).
EveryConnectionServed ==
  \A c \in Clients : peer[c] # "new" ~> closed[c] # "no" \/ hpc = "dead"

=============================================================================
