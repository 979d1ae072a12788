------------------------------- MODULE Sockets -------------------------------
(***************************************************************************)
(* The world both servers live in: the clients at the far end of their TCP  *)
(* connections, the kernel's accept queue and the process's table of file   *)
(* descriptors.  None of it is code of the repository; it is modelled from  *)
(* how http_server1.c and http_server2.c use it (accept, recv, send, close, *)
(* select, fopen) and from what those calls do on Linux.                    *)
(*                                                                          *)
(* A client opens one connection in its life and sends one request.  A byte *)
(* of a file is known by its position, so that a lost, repeated or reordered*)
(* byte of a reply shows.                                                   *)
(***************************************************************************)
EXTENDS Integers, Sequences

CONSTANTS
  Clients,    \* the clients that may connect
  Requests,   \* the requests they may send
  NOFILE,     \* RLIMIT_NOFILE: descriptors are 0 .. NOFILE-1
  BACKLOG,    \* the second argument of listen()
  Faults      \* what clients do besides sending: "fin", "rst", "refuse"

(***************************************************************************)
(* What sscanf() finds in buf: the name of a file that can be read, of one *)
(* that does not exist, or fewer than three tokens in all of buf.           *)
(***************************************************************************)
Kinds == {"file", "missing", "malformed"}

ASSUME RequestsAssumption ==
  Requests \subseteq [len  : Nat \ {0},   \* bytes up to and with the blank line
                      more : Nat,         \* bytes the client may send behind it
                      kind : Kinds,
                      data : Nat]         \* bytes in the file asked for
ASSUME NofileAssumption  == NOFILE \in Nat /\ NOFILE > 4
ASSUME BacklogAssumption == BACKLOG \in Nat \ {0}

VARIABLES
  req,      \* the request of each client
  peer,     \* each client's end of its connection
  wrote,    \* bytes of the client that have reached the server's kernel
  taken,    \* bytes of them that recv() has handed to the server
  backlog,  \* established connections that accept() has not returned yet
  fd_of,    \* the descriptor of each accepted connection
  file,     \* the descriptor of the FILE that fopen() returned, if one is open
  status,   \* the status line each client was sent
  body,     \* the file positions of the bytes that followed it
  closed    \* how the server's kernel ended the connection

kernelVars == <<req, peer, wrote, taken, backlog, fd_of, file, closed>>
replyVars  == <<status, body>>

(***************************************************************************)
(* Descriptors.  0, 1, 2 are the standard streams; socket() in main()       *)
(* returned 3.  A system call that makes a descriptor takes the lowest one  *)
(* that is free and fails (EMFILE) when there is none.                      *)
(***************************************************************************)
NoFd     == -1
Fds      == 0 .. NOFILE - 1
ListenFd == 3
Reserved == 0 .. ListenFd

OpenFds == Reserved \cup (({fd_of[c] : c \in Clients} \cup {file}) \ {NoFd})
FreeFds == Fds \ OpenFds
LowestFree(fd) == fd \in FreeFds /\ \A other \in FreeFds : fd <= other

(***************************************************************************)
(* What select(), recv() and send() find on the connection of c.  A client  *)
(* that closed cleanly ("fin") makes recv() return 0 once its bytes are     *)
(* read, and sends to it still succeed.  A client that aborted ("rst")      *)
(* makes both fail.  A client that had closed and then answered a reply     *)
(* with a reset ("broken") makes the next send() raise SIGPIPE.             *)
(***************************************************************************)
Pending(c)   == wrote[c] - taken[c]
HasInput(c)  == Pending(c) > 0
Gone(c)      == peer[c] \in {"rst", "broken"}
Readable(c)  == HasInput(c) \/ peer[c] \in {"fin", "rst", "broken"}
AtEnd(c)     == Gone(c) \/ (peer[c] = "fin" /\ ~HasInput(c))
SendOk(c)    == peer[c] \in {"up", "fin"}
SendFails(c) == peer[c] = "rst"
SendKills(c) == peer[c] = "broken"

\* close() answers unread input with a reset, which may destroy the reply.
CloseConnection(c) ==
  /\ fd_of'  = [fd_of EXCEPT ![c] = NoFd]
  /\ closed' = [closed EXCEPT ![c] = IF HasInput(c) THEN "rst" ELSE "fin"]

-----------------------------------------------------------------------------

SocketsInit ==
  /\ req \in [Clients -> Requests]
  /\ peer    = [c \in Clients |-> "new"]
  /\ wrote   = [c \in Clients |-> 0]
  /\ taken   = [c \in Clients |-> 0]
  /\ backlog = <<>>
  /\ fd_of   = [c \in Clients |-> NoFd]
  /\ file    = NoFd
  /\ status  = [c \in Clients |-> "none"]
  /\ body    = [c \in Clients |-> <<>>]
  /\ closed  = [c \in Clients |-> "no"]

\* The handshake completes and the connection waits for accept().
Connect(c) ==
  /\ peer[c] = "new"
  /\ Len(backlog) < BACKLOG
  /\ peer'    = [peer EXCEPT ![c] = "up"]
  /\ backlog' = Append(backlog, c)
  /\ UNCHANGED <<req, wrote, taken, fd_of, file, closed, replyVars>>

\* One more byte arrives, of the request or of what the client sends behind it.  What
\* comes after the server closed changes nothing there and is left out.
Deliver(c) ==
  /\ peer[c] = "up"
  /\ closed[c] = "no"
  /\ wrote[c] < req[c].len + req[c].more
  /\ wrote' = [wrote EXCEPT ![c] = @ + 1]
  /\ UNCHANGED <<req, peer, taken, backlog, fd_of, file, closed, replyVars>>

\* The client closes its end, before or after it sent the whole request.
Finish(c) ==
  /\ "fin" \in Faults
  /\ peer[c] = "up"
  /\ closed[c] = "no"
  /\ peer' = [peer EXCEPT ![c] = "fin"]
  /\ UNCHANGED <<req, wrote, taken, backlog, fd_of, file, closed, replyVars>>

\* The client aborts the connection.
Abort(c) ==
  /\ "rst" \in Faults
  /\ peer[c] = "up"
  /\ closed[c] = "no"
  /\ peer' = [peer EXCEPT ![c] = "rst"]
  /\ UNCHANGED <<req, wrote, taken, backlog, fd_of, file, closed, replyVars>>

\* The kernel of a client that has closed answers reply bytes with a reset.
Refuse(c) ==
  /\ "refuse" \in Faults
  /\ peer[c] = "fin"
  /\ closed[c] = "no"
  /\ status[c] # "none"
  /\ peer' = [peer EXCEPT ![c] = "broken"]
  /\ UNCHANGED <<req, wrote, taken, backlog, fd_of, file, closed, replyVars>>

Peer(c) == Connect(c) \/ Deliver(c) \/ Finish(c) \/ Abort(c) \/ Refuse(c)

(***************************************************************************)
(* The types of this module's variables; the servers' type invariants      *)
(* include it.                                                              *)
(***************************************************************************)
SocketsTypeOK ==
  /\ req     \in [Clients -> Requests]
  /\ peer    \in [Clients -> {"new", "up", "fin", "rst", "broken"}]
  /\ wrote   \in [Clients -> Nat]
  /\ taken   \in [Clients -> Nat]
  /\ backlog \in Seq(Clients)
  /\ fd_of   \in [Clients -> Fds \cup {NoFd}]
  /\ file    \in Fds \cup {NoFd}
  /\ status  \in [Clients -> {"none", "200", "404"}]
  /\ body    \in [Clients -> Seq(Nat)]
  /\ closed  \in [Clients -> {"no", "fin", "rst"}]

=============================================================================
