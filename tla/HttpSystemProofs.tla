--------------------------- MODULE HttpSystemProofs ---------------------------
(***************************************************************************)
(* http_client and http_server2 together, for any number of clients,        *)
(* whatever they and the users do to the server: what is on standard output *)
(* after exit code 0, and when the exit code tells whether the file exists. *)
(***************************************************************************)
EXTENDS HttpSystem, HttpServer2Proofs, HttpClientProofs

\* A client that runs keeps its end of the connection open.
StillUp == \A c \in Clients : cpc[c] \notin {"connect", "exited"} => peer[c] = "up"

\* c has been sent the whole of an existing file.
Whole(c) == req[c].kind = "file" /\ Len(body[c]) = req[c].data

\* A 200 reply that ended in order was whole, for a client that still waits for it.
Delivered ==
  \A c \in Clients : cpc[c] # "exited" /\ closed[c] = "fin" /\ status[c] = "200" => Whole(c)

\* The server dies by a client that has exited, so that nobody who still waits had been
\* answered in part when the kernel closes the connections.
CrashInv ==
  hpc = "dead" =>
    /\ pc = "handle"
    /\ Delivered
    /\ \A c \in Clients : cpc[c] # "exited" /\ closed[c] = "no" => status[c] = "none"

ZeroInv == \A c \in Clients : code[c] = "0" => Whole(c)

SysInv ==
  /\ ClientsInv
  /\ StillUp
  /\ hpc # "dead" => Inv
  /\ CrashInv
  /\ ZeroInv

-----------------------------------------------------------------------------

\* While the server lives, Delivered is what it guarantees to clients that do not abort.
LEMMA AliveDelivered == Inv /\ ClientsInv /\ StillUp => Delivered
<1> SUFFICES ASSUME Inv, ClientsInv, StillUp, NEW c \in Clients,
                    cpc[c] # "exited", closed[c] = "fin", status[c] = "200"
             PROVE  Whole(c)
  BY DEF Delivered
<1>1. ~Gone(c)
  BY DEF StillUp, ClientsInv, ClientInv, ConnectionInv, Gone
<1>2. AnswerInv(c) /\ ReplyInv(c)
  BY DEF Inv, ConnInv, AnswersInv, RepliesInv
<1>3. QED
  BY <1>1, <1>2 DEF AnswerInv, ReplyInv, Complete, Whole

LEMMA AlwaysDelivered == SysInv => Delivered
BY AliveDelivered DEF SysInv, CrashInv

\* Sending, receiving and leaving, as the server sees them.
LEMMA ClientKeepsInv ==
  ASSUME Inv, NEW c \in Clients, peer[c] = "up",
         NEW p \in {"up", "fin", "rst"}, NEW w \in Nat, NEW q \in {"no", "fin", "rst"},
         peer' = [peer EXCEPT ![c] = p], wrote' = [wrote EXCEPT ![c] = w],
         closed' = [closed EXCEPT ![c] = q],
         wrote[c] <= w, w <= req[c].len, q = "no" <=> closed[c] = "no",
         UNCHANGED <<req, taken, backlog, fd_of, file, replyVars, mainVars>>
  PROVE  Inv'
<1>1. /\ UNCHANGED <<req, taken, backlog, fd_of, file, status, body>>
      /\ UNCHANGED <<hpc, hsock, total_len, pos, bytes_read, sent>>
      /\ UNCHANGED <<pc, connections, all_fds, read_fds, max_fd, i>>
  BY DEF replyVars, mainVars, handlerVars
<1>2. /\ peer \in [Clients -> {"new", "up", "fin", "rst", "broken"}]
      /\ wrote \in [Clients -> Nat] /\ closed \in [Clients -> {"no", "fin", "rst"}]
  BY DEF Inv, ConnInv, HandlerInv, SocketsTypeOK
<1>3. \A d \in Clients :
        /\ d # c => peer'[d] = peer[d] /\ wrote'[d] = wrote[d]
        /\ closed'[d] = "no" <=> closed[d] = "no"
        /\ peer'[d] = "new" <=> peer[d] = "new"
        /\ Gone(d) => Gone(d)'
        /\ wrote[d] <= wrote'[d]
  BY <1>2 DEF Gone
<1>4. \A d \in Clients : (Readable(d) => Readable(d)') /\ (AtEnd(d) => AtEnd(d)')
  BY <1>1, <1>2, <1>3 DEF Readable, AtEnd, Gone, HasInput, Pending, Inv, ConnInv, HandlerInv,
     SocketsTypeOK
<1>5. HandlerInv'
  BY <1>1, <1>2 DEF Inv, ConnInv, HandlerInv, SocketsTypeOK, HandlerTypeOK
<1>6. FdsInv' /\ QueueInv' /\ FileOpenWhileUsed' /\ (hpc = "idle" <=> hsock = NoFd)'
  BY <1>1, <1>3 DEF Inv, ConnInv, HandlerInv, SocketsTypeOK, FdsInv, QueueInv, FileOpenWhileUsed
<1>7. RepliesInv'
  BY <1>1, <1>3
  DEF Inv, ConnInv, RepliesInv, ReplyInv, ChunkInv, Unanswered, Serving, Prefix
<1>8. AnswersInv'
  BY <1>1, <1>3, <1>4
  DEF Inv, ConnInv, AnswersInv, AnswerInv, ReturnInv, HeadTaken, ReadEnds, Complete, Serving
<1>9. MainTypeOK' /\ TablesAgree' /\ MaxFdCovers' /\ LoopInv'
  BY <1>1, TablesFrame DEF Inv, MainTypeOK, MaxFdCovers, LoopInv, TablesAgree
<1>10. MarkInv'
  <2>1. \A fd : Answering(fd) => Answering(fd)'
    BY <1>1, <1>4 DEF Answering
  <2>2. QED
    BY <1>1, <2>1 DEF Inv, MarkInv
<1>11. QED
  BY <1>5, <1>6, <1>7, <1>8, <1>9, <1>10 DEF Inv, ConnInv

\* What a system call of a client that has connected does to the connection.
LEMMA ClientEffect ==
  ASSUME ClientsInv, StillUp, NEW c \in Clients, ClientStep(c) \/ Interrupt(c),
         cpc[c] # "connect"
  PROVE  /\ peer[c] = "up" /\ cpc[c] # "exited"
         /\ UNCHANGED <<req, taken, backlog, fd_of, file, replyVars>>
         /\ \E p \in {"up", "fin", "rst"}, w \in Nat, q \in {"no", "fin", "rst"} :
              /\ peer' = [peer EXCEPT ![c] = p]
              /\ wrote' = [wrote EXCEPT ![c] = w]
              /\ closed' = [closed EXCEPT ![c] = q]
              /\ wrote[c] <= w /\ w <= req[c].len
              /\ q = "no" <=> closed[c] = "no"
              /\ q = "fin" => closed[c] = "fin"
<1>1. cpc[c] # "exited"
  BY DEF ClientStep, ConnectServer, SendRequest, SendRequestFails, WaitForReply, RecvHead,
     HeadEnds, RecvBody, BodyEnds, RecvError, ErrorEnds, Interrupt
<1>2. /\ peer[c] = "up" /\ wrote[c] \in Nat /\ wrote[c] <= req[c].len
      /\ closed[c] \in {"no", "fin", "rst"} /\ req[c].len \in Nat
  BY <1>1, AskedTypes DEF StillUp, ClientsInv, ClientTypes, ClientInv, ConnectionInv
<1>3. /\ peer \in [Clients -> {"new", "up", "fin", "rst", "broken"}]
      /\ wrote \in [Clients -> Nat] /\ closed \in [Clients -> {"no", "fin", "rst"}]
  BY DEF ClientsInv, ClientTypes
<1>4. /\ peer = [peer EXCEPT ![c] = peer[c]] /\ wrote = [wrote EXCEPT ![c] = wrote[c]]
      /\ closed = [closed EXCEPT ![c] = closed[c]]
  BY <1>3
<1>5. ASSUME NEW n \in 1 .. req[c].len, SendRequest(c, n)
      PROVE  /\ UNCHANGED <<req, taken, backlog, fd_of, file, replyVars, peer>>
             /\ wrote' = [wrote EXCEPT ![c] = wrote[c] + n]
             /\ closed' = [closed EXCEPT ![c] = IF closed[c] = "fin" THEN "rst" ELSE closed[c]]
             /\ wrote[c] + n \in Nat /\ wrote[c] <= wrote[c] + n /\ wrote[c] + n <= req[c].len
  BY <1>2, <1>5 DEF SendRequest
<1>6. ASSUME NEW ret, Exit(c, ret)
      PROVE  /\ UNCHANGED <<req, taken, backlog, fd_of, file, replyVars, wrote, closed>>
             /\ \E p \in {"fin", "rst"} : peer' = [peer EXCEPT ![c] = p]
  BY <1>6 DEF Exit
<1>7. CASE \E n \in 1 .. req[c].len : SendRequest(c, n)
  BY <1>1, <1>2, <1>4, <1>5, <1>7
<1>8. CASE SendRequestFails(c) \/ HeadEnds(c) \/ BodyEnds(c) \/ ErrorEnds(c) \/ Interrupt(c)
  <2>1. \E ret : Exit(c, ret)
    BY <1>8 DEF SendRequestFails, HeadEnds, BodyEnds, ErrorEnds, Interrupt
  <2>2. QED
    BY <1>1, <1>2, <1>4, <1>6, <2>1
<1>9. CASE \/ WaitForReply(c)
           \/ \E n \in 1 .. CBUFSIZE - 1 : RecvHead(c, n) \/ RecvBody(c, n) \/ RecvError(c, n)
  <2>1. UNCHANGED <<kernelVars, replyVars>>
    BY <1>9 DEF WaitForReply, RecvHead, RecvBody, RecvError
  <2>2. QED
    BY <1>1, <1>2, <1>4, <2>1 DEF kernelVars
<1>10. QED
  BY <1>7, <1>8, <1>9 DEF ClientStep, ConnectServer

\* A client's own variables change in its own steps only.
LEMMA ClientFrame ==
  ASSUME ClientsInv, NEW c \in Clients, ClientStep(c) \/ Interrupt(c) \/ ConnectFails(c)
  PROVE  /\ cpc[c] # "exited" /\ UNCHANGED <<req, status, body>>
         /\ \A d \in Clients \ {c} : cpc'[d] = cpc[d] /\ code'[d] = code[d]
<1>1. /\ cpc \in [Clients -> {"connect", "send", "select", "head", "body", "error",
                         "undefined", "exited"}]
      /\ code \in [Clients -> {"none", "0", "-1", "signal"}]
  BY DEF ClientsInv, ClientTypes
<1>2. QED
  BY <1>1 DEF ClientStep, ConnectServer, Connect, SendRequest, SendRequestFails, WaitForReply,
     RecvHead, Receive, Verdict, HeadEnds, RecvBody, BodyEnds, RecvError, ErrorEnds, Interrupt,
     ConnectFails, Exit, kernelVars, replyVars

-----------------------------------------------------------------------------

\* The server changes the reply of one client at a time, and only on a connection that is
\* open: it sends a head, appends to the body or closes.
RepliesTo(c) ==
  /\ closed[c] = "no" /\ peer[c] # "new"
  /\ status[c] = "none" \/ status'[c] = status[c]
  /\ Len(body[c]) <= Len(body'[c])
  /\ \A d \in Clients \ {c} : status'[d] = status[d] /\ body'[d] = body[d] /\ closed'[d] = closed[d]

LEMMA ServerEffect ==
  ASSUME Inv, Server
  PROVE  /\ UNCHANGED <<req, peer, wrote>>
         /\ UNCHANGED <<status, body, closed>> \/ \E c \in Clients : RepliesTo(c)
<1>1. /\ status \in [Clients -> {"none", "200", "404"}] /\ body \in [Clients -> Seq(Nat)]
      /\ closed \in [Clients -> {"no", "fin", "rst"}] /\ \A c \in Clients : Len(body[c]) \in Nat
  BY LenProperties DEF Inv, ConnInv, HandlerInv, SocketsTypeOK
<1>2. ASSUME NEW c \in Clients, Serving(c) PROVE closed[c] = "no" /\ peer[c] # "new"
  BY <1>2 DEF Inv, ConnInv, FdsInv, QueueInv, Serving
<1>3. CASE \E new_conn \in Fds : Accept(new_conn)
  <2>1. TableHasRoom
    BY RoomForAll DEF Inv
  <2>2. QED
    BY <1>3, <2>1 DEF Accept, Admit, TableHasRoom, replyVars
<1>4. CASE \E c \in Clients : InHandler(c)
  <2>1. PICK c \in Clients : InHandler(c)
    BY <1>4
  <2>2. HandleStep(c) /\ Serving(c) /\ UNCHANGED <<req, peer, wrote, closed>>
    BY <2>1, HandleStepFrame DEF InHandler
  <2>3. CASE SendNotFound(c) \/ SendHeader(c)
    <3>1. status[c] = "none"
      BY <2>2, <2>3 DEF Inv, ConnInv, RepliesInv, ChunkInv, Unanswered, SendNotFound, SendHeader
    <3>2. body' = body /\ \A d \in Clients \ {c} : status'[d] = status[d]
      BY <1>1, <2>3 DEF SendNotFound, SendHeader
    <3>3. RepliesTo(c)
      BY <1>1, <1>2, <2>2, <3>1, <3>2 DEF RepliesTo
    <3>4. QED
      BY <2>2, <3>3
  <2>4. ASSUME NEW n \in 1 .. BUFSIZE, Send(c, n) PROVE RepliesTo(c)
    <3> DEFINE more == [k \in 1 .. n |-> pos - bytes_read + sent + k]
    <3>1. body' = [body EXCEPT ![c] = body[c] \o more] /\ status' = status
      BY <2>4 DEF Send
    <3>2. more \in Seq(Int) /\ body[c] \in Seq(Int) /\ Len(more) \in Nat
      <4>1. pos \in Int /\ bytes_read \in Int /\ sent \in Int /\ n \in Nat
        BY BufsizeAssumption DEF Inv, ConnInv, HandlerInv, HandlerTypeOK
      <4>2. \A k \in 1 .. n : pos - bytes_read + sent + k \in Int
        BY <4>1
      <4>3. more \in Seq(Int)
        BY <4>1, <4>2
      <4>4. body[c] \in Seq(Int)
        BY <1>1, SeqMonotonic
      <4>5. QED
        BY <4>3, <4>4, LenProperties
    <3>3. Len(body[c] \o more) = Len(body[c]) + Len(more)
      BY <3>2, ConcatProperties
    <3> HIDE DEF more
    <3>4. /\ body'[c] = body[c] \o more
          /\ \A d \in Clients \ {c} : body'[d] = body[d]
      BY <1>1, <3>1
    <3>5. Len(body[c]) <= Len(body'[c])
      BY <1>1, <3>2, <3>3, <3>4
    <3>6. QED
      BY <1>2, <2>2, <3>1, <3>4, <3>5 DEF RepliesTo
  <2>5. CASE ~(SendNotFound(c) \/ SendHeader(c) \/ \E n \in 1 .. BUFSIZE : Send(c, n))
    <3>1. UNCHANGED <<status, body>>
      BY <2>2, <2>5 DEF HandleStep, Recv, RecvFails, ParseFails, Fopen, FopenFails, Fread,
         FreadEnds, SendFailed, SendKilled, replyVars
    <3>2. QED
      BY <2>2, <3>1
  <2>6. QED
    BY <2>2, <2>3, <2>4, <2>5
<1>5. CASE \E c \in Clients : Close(c)
  <2>1. PICK c \in Clients : Close(c)
    BY <1>5
  <2>2. Serving(c)
    BY <2>1 DEF Close, Inv, LoopInv, ConnInv, Serving, Returned
  <2>3. /\ UNCHANGED <<req, peer, wrote, status, body>>
        /\ \A d \in Clients \ {c} : closed'[d] = closed[d]
    BY <1>1, <2>1 DEF Close, CloseConnection, replyVars
  <2>4. RepliesTo(c)
    BY <1>1, <1>2, <2>2, <2>3 DEF RepliesTo
  <2>5. QED
    BY <2>3, <2>4
<1>6. CASE Select \/ NothingToAccept \/ AcceptFails \/ ScanEnds \/ \E s \in Slots : Handle(s)
  BY <1>6 DEF Select, NothingToAccept, AcceptFails, ScanEnds, Handle, kernelVars, replyVars
<1>7. QED
  BY <1>3, <1>4, <1>5, <1>6 DEF Server

\* A step of the server is nothing that http_client could not meet with any server.
LEMMA ServerKeepsClients ==
  ASSUME Inv, Inv', ClientsInv, Server, UNCHANGED clientVars
  PROVE  ClientsInv'
<1>1. UNCHANGED <<req, peer, wrote>>
  BY ServerEffect
<1>2. ClientTypes'
  BY DEF Inv, ConnInv, HandlerInv, SocketsTypeOK, ClientsInv, ClientTypes, clientVars
<1>3. CASE UNCHANGED <<status, body, closed>>
  BY <1>1, <1>3, ClientsStutter
<1>4. ASSUME NEW c \in Clients, RepliesTo(c) PROVE ClientsInv'
  <2>1. Holds(body'[c], 0, Len(body'[c]))
    <3>1. body'[c] = Prefix(Len(body'[c])) /\ body'[c] \in Seq(Nat)
      BY <1>2 DEF Inv, ConnInv, RepliesInv, ReplyInv, ClientTypes, Prefix
    <3>2. body'[c] \in Seq(Int) /\ Len(body'[c]) \in Nat
      BY <3>1, SeqMonotonic, LenProperties
    <3>3. \A k \in 1 .. Len(body'[c]) : Prefix(Len(body'[c]))[k] = k
      BY DEF Prefix
    <3>4. \A k \in 1 .. Len(body'[c]) : body'[c][k] = 0 + k
      BY <3>1, <3>2, <3>3
    <3>5. QED
      BY <3>2, <3>4 DEF Holds
  <2>2. QED
    BY <1>1, <1>2, <1>4, <2>1, ServerMovesOn DEF RepliesTo
<1>5. QED
  BY <1>3, <1>4, ServerEffect

-----------------------------------------------------------------------------
(***************************************************************************)
(* The steps of the system.                                                 *)
(***************************************************************************)
LEMMA SystemInitInv == SystemInit => SysInv
<1> SUFFICES ASSUME SystemInit PROVE SysInv
  OBVIOUS
<1>1. Inv /\ ClientsInv
  BY InitInv, ClientsInit DEF SystemInit, Init
<1>2. hpc = "idle" /\ \A c \in Clients : cpc[c] = "connect" /\ code[c] = "none"
  BY DEF SystemInit, Init, HandlerInit, ClientInit
<1>3. QED
  BY <1>1, <1>2 DEF SysInv, StillUp, CrashInv, ZeroInv

\* The server's last step, if it dies, is a send() to a client that has exited.
LEMMA RunServerInv ==
  ASSUME SysInv, RunServer
  PROVE  SysInv'
<1>1. Inv /\ ClientsInv /\ StillUp /\ ZeroInv /\ Server /\ UNCHANGED clientVars
  <2>1. hpc = "dead" => ~Server
    BY DEF SysInv, CrashInv, Server, Select, NothingToAccept, AcceptFails, Accept, Handle,
       ScanEnds, InHandler, HandleStep, Recv, RecvFails, ParseFails, Fopen, FopenFails,
       SendNotFound, SendHeader, Fread, FreadEnds, Send, SendFailed, SendKilled, Close, Returned
  <2>2. QED
    BY <2>1 DEF SysInv, RunServer
<1>2. Inv'
  BY <1>1, NextInv DEF Next
<1>3. ClientsInv'
  BY <1>1, <1>2, ServerKeepsClients
<1>4. /\ UNCHANGED <<req, peer, cpc, code>>
      /\ UNCHANGED <<status, body, closed>> \/ \E c \in Clients : RepliesTo(c)
  BY <1>1, ServerEffect DEF clientVars
<1>5. StillUp'
  BY <1>1, <1>4 DEF StillUp
<1>6. ZeroInv'
  <2>1. \A c \in Clients : code[c] = "0" => closed[c] # "no"
    BY <1>1 DEF ClientsInv, ClientInv, ExitInv
  <2>2. QED
    BY <1>1, <1>4, <2>1 DEF ZeroInv, Whole, RepliesTo
<1>7. CrashInv'
  <2>1. Delivered'
    BY <1>2, <1>3, <1>5, AliveDelivered, PTL
  <2>2. SUFFICES ASSUME hpc' = "dead"
                 PROVE  /\ pc' = "handle"
                        /\ \A d \in Clients :
                             cpc'[d] # "exited" /\ closed'[d] = "no" => status'[d] = "none"
    BY <2>1 DEF CrashInv
  <2>3. PICK c \in Clients : InHandler(c) /\ SendKilled(c)
    <3>1. hpc # "dead"
      BY <1>1 DEF Server, Select, NothingToAccept, AcceptFails, Accept, Handle, Call,
         ScanEnds, InHandler, HandleStep, Recv, RecvFails, ParseFails, Fopen, FopenFails,
         SendNotFound, SendHeader, Fread, FreadEnds, Send, SendFailed, SendKilled, Close,
         Returned, Inv, LoopInv
    <3>2. ASSUME ~\E c \in Clients : InHandler(c) /\ SendKilled(c) PROVE hpc' # "dead"
      <4>1. CASE \E c \in Clients : InHandler(c)
        BY <3>1, <3>2, <4>1 DEF InHandler, HandleStep, Recv, RecvFails, ParseFails, Fopen,
           FopenFails, SendNotFound, SendHeader, Fread, FreadEnds, Send, SendFailed
      <4>2. CASE ~\E c \in Clients : InHandler(c)
        BY <1>1, <3>1, <4>2 DEF Server, Select, NothingToAccept, AcceptFails, Accept, Handle,
           Call, ScanEnds, Close, Forget, handlerVars
      <4>3. QED
        BY <4>1, <4>2
    <3>3. QED
      BY <2>2, <3>2
  <2>4. pc' = "handle"
    BY <2>3 DEF InHandler
  <2>5. cpc'[c] = "exited"
    BY <1>1, <1>4, <2>3 DEF SendKilled, SendKills, StillUp, ClientsInv, ClientInv, ConnectionInv
  <2>6. \A d \in Clients : Serving(d)' => d = c
    BY <1>1, <2>3, HandleStepFrame DEF InHandler, Serving, Inv, ConnInv, FdsInv
  <2>7. \A d \in Clients : closed'[d] = "no" /\ ~Serving(d)' => status'[d] = "none"
    BY <1>2 DEF Inv, ConnInv, RepliesInv, ReplyInv, Unanswered
  <2>8. QED
    BY <2>4, <2>5, <2>6, <2>7
<1>8. QED
  BY <1>2, <1>3, <1>5, <1>6, <1>7 DEF SysInv

\* A client exits with 0 only on the end of a reply that was whole.
LEMMA ClientKeepsZero ==
  ASSUME SysInv, ClientsInv', NEW c \in Clients,
         ClientStep(c) \/ Interrupt(c) \/ ConnectFails(c),
         closed'[c] = "fin" => closed[c] = "fin"
  PROVE  ZeroInv'
<1>1. /\ cpc[c] # "exited" /\ UNCHANGED <<req, status, body>>
      /\ \A d \in Clients \ {c} : code'[d] = code[d]
  BY ClientFrame DEF SysInv
<1>2. code'[c] = "0" => Whole(c)
  <2>1. code'[c] = "0" => status'[c] = "200" /\ closed'[c] = "fin"
    BY DEF ClientsInv, ClientInv, ExitInv
  <2>2. QED
    BY <1>1, <2>1, AlwaysDelivered DEF Delivered
<1>3. QED
  BY <1>1, <1>2 DEF SysInv, ZeroInv, Whole

\* A client that has connected sends, waits, receives or leaves.
LEMMA ConnectedInv ==
  ASSUME SysInv, NEW c \in Clients, ClientStep(c) \/ Interrupt(c), cpc[c] # "connect",
         UNCHANGED mainVars
  PROVE  SysInv'
<1>1. ClientsInv /\ StillUp /\ ClientsInv'
  BY ClientMoves DEF SysInv
<1>2. /\ peer[c] = "up" /\ cpc[c] # "exited" /\ UNCHANGED <<hpc, pc>>
      /\ UNCHANGED <<req, taken, backlog, fd_of, file, replyVars>>
      /\ \A d \in Clients \ {c} : cpc'[d] = cpc[d] /\ code'[d] = code[d]
  BY <1>1, ClientEffect, ClientFrame DEF mainVars, handlerVars
<1>3. PICK p \in {"up", "fin", "rst"}, w \in Nat, q \in {"no", "fin", "rst"} :
        /\ peer' = [peer EXCEPT ![c] = p]
        /\ wrote' = [wrote EXCEPT ![c] = w]
        /\ closed' = [closed EXCEPT ![c] = q]
        /\ wrote[c] <= w /\ w <= req[c].len
        /\ q = "no" <=> closed[c] = "no"
        /\ q = "fin" => closed[c] = "fin"
  BY <1>1, ClientEffect
<1>4. hpc # "dead" => Inv'
  BY <1>2, <1>3, ClientKeepsInv DEF SysInv
<1>5. \A d \in Clients : /\ d # c => peer'[d] = peer[d]
                         /\ closed'[d] = "no" => closed[d] = "no"
                         /\ closed'[d] = "fin" => closed[d] = "fin"
  BY <1>1, <1>3 DEF ClientsInv, ClientTypes
<1>6. StillUp'
  <2>1. cpc'[c] \notin {"connect", "exited"} => peer'[c] = "up"
    <3>1. CASE \E ret : Exit(c, ret)
      BY <1>1, <3>1 DEF Exit, ClientsInv, ClientTypes
    <3>2. CASE ~\E ret : Exit(c, ret)
      BY <1>2, <3>2 DEF ClientStep, ConnectServer, SendRequest, SendRequestFails, WaitForReply,
         RecvHead, HeadEnds, RecvBody, BodyEnds, RecvError, ErrorEnds, Interrupt, kernelVars
    <3>3. QED
      BY <3>1, <3>2
  <2>2. QED
    BY <1>1, <1>2, <1>5, <2>1 DEF StillUp
<1>7. ZeroInv'
  BY <1>1, <1>5, ClientKeepsZero
<1>8. CrashInv'
  BY <1>2, <1>5 DEF SysInv, CrashInv, Delivered, Whole, replyVars
<1>9. QED
  BY <1>1, <1>2, <1>4, <1>6, <1>7, <1>8 DEF SysInv

\* A client connects to a server that lives.
LEMMA ConnectInv ==
  ASSUME SysInv, NEW c \in Clients, ConnectServer(c), hpc # "dead", UNCHANGED mainVars
  PROVE  SysInv'
<1>1. Inv /\ ClientsInv /\ StillUp /\ ClientsInv'
  BY ClientMoves DEF SysInv, ClientStep
<1>2. /\ Connect(c) /\ cpc[c] = "connect" /\ cpc' = [cpc EXCEPT ![c] = "send"]
      /\ UNCHANGED <<hpc, closed, code>>
  BY PeerFrame DEF ConnectServer, Connect, Peer, mainVars, handlerVars
<1>3. Environment
  BY <1>2 DEF Environment, Peer, mainVars, handlerVars
<1>4. Inv'
  BY <1>1, <1>3, EnvironmentInv
<1>5. StillUp'
  BY <1>1, <1>2 DEF StillUp, Connect, ClientsInv, ClientTypes
<1>6. ZeroInv'
  BY <1>1, <1>2, ClientKeepsZero DEF ClientStep
<1>7. hpc' # "dead"
  BY <1>2
<1>8. QED
  BY <1>1, <1>4, <1>5, <1>6, <1>7 DEF SysInv, CrashInv

\* The kernel of a client that has exited answers reply bytes with a reset.
LEMMA RefuseInv ==
  ASSUME SysInv, NEW c \in Clients, RefuseReply(c)
  PROVE  SysInv'
<1>1. /\ peer[c] = "fin" /\ closed[c] = "no" /\ peer' = [peer EXCEPT ![c] = "broken"]
      /\ UNCHANGED <<req, wrote, taken, backlog, fd_of, file, closed, status, body>>
      /\ UNCHANGED <<cpc, got, headers, out, err, code, hpc, pc>>
      /\ UNCHANGED <<handlerVars, connections, all_fds, read_fds, max_fd, i>>
  BY DEF RefuseReply, Refuse, replyVars, mainVars, handlerVars, clientVars
<1>2. ClientsInv /\ StillUp /\ ClientTypes /\ ClientInv(c)
  BY DEF SysInv, ClientsInv
<1>3. ClientsInv'
  <2>1. ClientTypes'
    BY <1>1, <1>2 DEF ClientTypes
  <2>2. ClientInv(c)'
    BY <1>1, <1>2
    DEF ClientTypes, ClientInv, ConnectionInv, ReceivedInv, OutputInv, ExitInv, Size, Behind,
        HeadLen, HeadFits
  <2>3. QED
    BY <1>1, <1>2, <2>1, <2>2, OneConnection DEF ClientTypes
<1>4. hpc # "dead" => Inv'
  BY <1>1, EnvironmentInv DEF SysInv, RefuseReply, Environment, Peer
<1>5. StillUp'
  BY <1>1, <1>2 DEF StillUp, ClientTypes
<1>6. CrashInv' /\ ZeroInv'
  BY <1>1 DEF SysInv, CrashInv, Delivered, ZeroInv, Whole
<1>7. QED
  BY <1>1, <1>3, <1>4, <1>5, <1>6 DEF SysInv

\* The kernel closes a connection of the dead server, and nobody can connect any more.
LEMMA ReapInv ==
  ASSUME SysInv, NEW c \in Clients, ReapServer(c)
  PROVE  SysInv'
<1>1. /\ hpc = "dead" /\ peer[c] # "new" /\ closed[c] = "no"
      /\ closed' = [closed EXCEPT ![c] = IF HasInput(c) THEN "rst" ELSE "fin"]
      /\ UNCHANGED <<req, peer, wrote, status, body, hpc, pc, cpc, code, clientVars>>
  BY DEF ReapServer, CloseConnection, replyVars, mainVars, handlerVars, clientVars
<1>2. ClientsInv /\ StillUp /\ CrashInv /\ ZeroInv /\ ClientTypes
  BY DEF SysInv, ClientsInv
<1>3. ClientsInv'
  <2>1. ClientTypes'
    BY <1>1, <1>2 DEF ClientTypes, clientVars
  <2>2. Len(body[c]) \in Nat /\ Holds(body'[c], 0, Len(body'[c])) /\ body'[c] = body[c]
    BY <1>1, <1>2, LenProperties DEF ClientsInv, ClientTypes, ClientInv, ReceivedInv
  <2>3. \A d \in Clients \ {c} :
          status'[d] = status[d] /\ body'[d] = body[d] /\ closed'[d] = closed[d]
    BY <1>1, <1>2 DEF ClientTypes
  <2>4. QED
    BY <1>1, <1>2, <2>1, <2>2, <2>3, ServerMovesOn
<1>4. CrashInv'
  <2>1. \A d \in Clients : d # c => closed'[d] = closed[d]
    BY <1>1, <1>2 DEF ClientTypes
  <2>2. cpc[c] # "exited" => status[c] = "none"
    BY <1>1, <1>2 DEF CrashInv
  <2>3. closed'[c] # "no"
    BY <1>1, <1>2 DEF ClientTypes
  <2>4. QED
    BY <1>1, <1>2, <2>1, <2>2, <2>3 DEF CrashInv, Delivered, Whole
<1>5. StillUp' /\ ZeroInv'
  BY <1>1, <1>2 DEF StillUp, ZeroInv, Whole
<1>6. QED
  BY <1>1, <1>3, <1>4, <1>5 DEF SysInv

LEMMA RefusedInv ==
  ASSUME SysInv, NEW c \in Clients, Refused(c)
  PROVE  SysInv'
<1>1. /\ hpc = "dead" /\ ConnectFails(c)
      /\ UNCHANGED <<req, peer, closed, status, body, hpc, pc>>
      /\ cpc' = [cpc EXCEPT ![c] = "exited"]
  BY DEF Refused, ConnectFails, kernelVars, replyVars, mainVars, handlerVars
<1>2. ClientsInv' /\ StillUp /\ CrashInv /\ ClientTypes
  BY <1>1, ClientMoves DEF SysInv, ClientsInv
<1>3. StillUp' /\ CrashInv'
  BY <1>1, <1>2 DEF StillUp, CrashInv, Delivered, Whole, ClientTypes
<1>4. ZeroInv'
  BY <1>1, <1>2, ClientKeepsZero
<1>5. QED
  BY <1>1, <1>2, <1>3, <1>4 DEF SysInv

LEMMA SystemNextInv == SysInv /\ [SystemNext]_systemVars => SysInv'
<1> SUFFICES ASSUME SysInv, [SystemNext]_systemVars PROVE SysInv'
  OBVIOUS
<1>1. CASE RunServer
  BY <1>1, RunServerInv
<1>2. ASSUME NEW c \in Clients, RunClient(c) PROVE SysInv'
  <2>1. CASE cpc[c] = "connect"
    <3>1. ConnectServer(c)
      BY <1>2, <2>1 DEF RunClient, ClientStep, SendRequest, SendRequestFails, WaitForReply,
         RecvHead, HeadEnds, RecvBody, BodyEnds, RecvError, ErrorEnds
    <3>2. QED
      BY <1>2, <2>1, <3>1, ConnectInv DEF RunClient
  <2>2. CASE cpc[c] # "connect"
    BY <1>2, <2>2, ConnectedInv DEF RunClient
  <2>3. QED
    BY <2>1, <2>2
<1>3. ASSUME NEW c \in Clients, StopClient(c) PROVE SysInv'
  BY <1>3, ConnectedInv DEF StopClient, Interrupt
<1>4. ASSUME NEW c \in Clients, RefuseReply(c) PROVE SysInv'
  BY <1>4, RefuseInv
<1>5. ASSUME NEW c \in Clients, ReapServer(c) PROVE SysInv'
  BY <1>5, ReapInv
<1>6. ASSUME NEW c \in Clients, Refused(c) PROVE SysInv'
  BY <1>6, RefusedInv
<1>7. CASE UNCHANGED systemVars
  <2>1. /\ UNCHANGED <<req, peer, wrote, status, body, closed, clientVars, hpc, pc, cpc, code>>
        /\ UNCHANGED vars
    BY <1>7 DEF systemVars, vars, kernelVars, replyVars, handlerVars, clientVars
  <2>2. ClientsInv' /\ (hpc # "dead" => Inv')
    BY <2>1, ClientsStutter, NextInv DEF SysInv
  <2>3. StillUp' /\ CrashInv' /\ ZeroInv'
    BY <2>1 DEF SysInv, StillUp, CrashInv, Delivered, ZeroInv, Whole
  <2>4. QED
    BY <2>1, <2>2, <2>3 DEF SysInv
<1>8. QED
  BY <1>1, <1>2, <1>3, <1>4, <1>5, <1>6, <1>7 DEF SystemNext

\* The invariant, of http_client and http_server2 together.
THEOREM SystemInvariance == SystemSpec => []SysInv
BY SystemInitInv, SystemNextInv, PTL DEF SystemSpec

-----------------------------------------------------------------------------

(***************************************************************************)
(* Of files without NUL bytes: when http_client exits with 0, its standard  *)
(* output is the file it asked for, byte by byte, also when the server was  *)
(* killed by another client meanwhile; the client never looks at            *)
(* Content-length (http_client.c:242-255, http_server2.c:84-148).           *)
(***************************************************************************)
THEOREM FilesArriveWhole == ASSUME NulBytes = {} PROVE SystemSpec => []ExitZeroMeansFile
<1>1. SysInv => ExitZeroMeansFile
  <2> SUFFICES ASSUME SysInv, NEW c \in Clients, code[c] = "0"
               PROVE  req[c].kind = "file" /\ out[c] = [k \in 1 .. req[c].data |-> k]
    BY DEF ExitZeroMeansFile
  <2> DEFINE n == req[c].data
             whole == [k \in 1 .. n |-> k]
  <2>1. req[c].kind = "file" /\ n \in Nat /\ Holds(out[c], 0, n)
    <3>1. Whole(c) /\ Holds(out[c], 0, Len(body[c])) /\ ClientTypes
      BY DEF SysInv, ZeroInv, ClientsInv, ClientInv, ExitInv
    <3>2. QED
      BY <3>1, AskedTypes DEF Whole
  <2>2. Holds(whole, 0, n)
    BY <2>1 DEF Holds
  <2>3. out[c] = whole
    BY <2>1, <2>2, HoldsEqual
  <2>4. QED
    BY <2>1, <2>3
<1>2. QED
  BY <1>1, SystemInvariance, PTL

-----------------------------------------------------------------------------
(***************************************************************************)
(* Why an exit code tells whether the file exists, when there is a          *)
(* descriptor for everybody and requests fit in the server's buffer: until  *)
(* the server dies no client is refused, reset or answered in part.          *)
(***************************************************************************)
RequestsFit == \A r \in Requests : r.len < BUFSIZE

\* A connection that has ended under its client was read and answered in full.
EndedInOrder(c) ==
  cpc[c] \notin {"connect", "exited"} /\ closed[c] # "no" =>
    closed[c] = "fin" /\ wrote[c] = req[c].len /\ taken[c] = req[c].len

TellInv ==
  /\ FoundInv
  /\ \A c \in Clients :
       /\ EndedInOrder(c)
       /\ taken[c] <= wrote[c]
       /\ cpc[c] = "send" => wrote[c] < req[c].len
       /\ code[c] = "-1" => req[c].kind # "file"

AliveInv == SysInv /\ (hpc # "dead" => TellInv)

LEMMA DeadServer == SysInv /\ hpc = "dead" => ~Server
BY DEF SysInv, CrashInv, Server, Select, NothingToAccept, AcceptFails, Accept, Handle,
   ScanEnds, InHandler, HandleStep, Recv, RecvFails, ParseFails, Fopen, FopenFails,
   SendNotFound, SendHeader, Fread, FreadEnds, Send, SendFailed, SendKilled, Close, Returned

\* The numbers in the invariants.
LEMMA TellTypes ==
  ASSUME SysInv, hpc # "dead", NEW c \in Clients
  PROVE  /\ req[c].len \in Nat \ {0} /\ wrote[c] \in Nat /\ taken[c] \in Nat
         /\ wrote[c] <= req[c].len /\ BUFSIZE \in Nat
         /\ RequestsFit => req[c].len < BUFSIZE
<1>1. HandlerInv /\ wrote[c] <= req[c].len
  BY DEF SysInv, Inv, ConnInv, ClientsInv, ClientInv, ConnectionInv
<1>2. req[c] \in Requests /\ wrote[c] \in Nat /\ taken[c] \in Nat
  BY <1>1 DEF HandlerInv, SocketsTypeOK
<1>3. QED
  BY <1>1, <1>2, RequestTypes, BufsizeAssumption DEF RequestsFit

\* What recv() takes was written.
LEMMA TakenStep ==
  ASSUME SysInv, TellInv, Server
  PROVE  /\ \A c \in Clients : taken'[c] <= wrote[c]
         /\ \A c \in Clients : closed[c] # "no" => taken'[c] = taken[c]
<1>1. taken \in [Clients -> Nat] /\ wrote \in [Clients -> Nat] /\ Inv
  BY DeadServer DEF SysInv, Inv, ConnInv, HandlerInv, SocketsTypeOK
<1>2. \A c \in Clients : taken[c] <= wrote[c]
  BY DEF TellInv
<1>3. ASSUME NEW c \in Clients, NEW n \in 1 .. BUFSIZE - 1, Recv(c, n)
      PROVE  /\ \A d \in Clients : taken'[d] <= wrote[d]
             /\ \A d \in Clients : closed[d] # "no" => taken'[d] = taken[d]
  <2>1. taken' = [taken EXCEPT ![c] = taken[c] + n] /\ n <= wrote[c] - taken[c]
    BY <1>3 DEF Recv, Pending
  <2>2. closed[c] = "no"
    BY <1>1, <1>3 DEF Recv, Inv, ConnInv, FdsInv, Serving
  <2>3. taken[c] + n <= wrote[c]
    BY <1>1, <2>1, BufsizeAssumption
  <2>4. QED
    BY <1>1, <1>2, <2>1, <2>2, <2>3
<1>4. CASE ~\E c \in Clients, n \in 1 .. BUFSIZE - 1 : Recv(c, n)
  <2>1. taken' = taken
    BY <1>4 DEF Server, Select, NothingToAccept, AcceptFails, Accept, Handle,
       ScanEnds, InHandler, HandleStep, RecvFails, ParseFails, Fopen, FopenFails,
       SendNotFound, SendHeader, Fread, FreadEnds, Send, SendFailed, SendKilled, Close, kernelVars
  <2>2. QED
    BY <1>2, <2>1
<1>5. QED
  BY <1>3, <1>4

\* close() comes after the whole request was read.
LEMMA CloseStep ==
  ASSUME RequestsFit, SysInv, TellInv, NEW c \in Clients, Close(c), cpc[c] \notin {"connect", "exited"}
  PROVE  /\ closed'[c] = "fin" /\ wrote[c] = req[c].len /\ taken[c] = req[c].len
         /\ \A d \in Clients \ {c} : closed'[d] = closed[d]
<1>1. Inv /\ hpc # "dead" /\ peer[c] = "up" /\ taken[c] <= wrote[c]
  BY DEF SysInv, StillUp, TellInv, Close, Returned
<1>2. Serving(c)
  BY <1>1 DEF Close, Inv, LoopInv, ConnInv, Serving, Returned
<1>3. HeadTaken(c)
  BY <1>1, <1>2 DEF Inv, ConnInv, AnswersInv, ReturnInv, Close, Returned, Gone, AtEnd
<1>4. taken[c] = req[c].len /\ wrote[c] = req[c].len
  BY <1>1, <1>3, TellTypes DEF HeadTaken, ReadEnds
<1>5. ~HasInput(c)
  BY <1>1, <1>4, TellTypes DEF HasInput, Pending
<1>6. closed' = [closed EXCEPT ![c] = "fin"] /\ closed \in [Clients -> {"no", "fin", "rst"}]
  BY <1>1, <1>5 DEF Close, CloseConnection, Inv, ConnInv, HandlerInv, SocketsTypeOK
<1>7. QED
  BY <1>4, <1>6

\* The server.
LEMMA ServerTells ==
  ASSUME DescriptorForAll, RequestsFit, SysInv, TellInv, RunServer
  PROVE  TellInv'
<1>1. Inv /\ Server /\ UNCHANGED <<req, peer, wrote, cpc, code>>
  BY DeadServer, ServerEffect DEF SysInv, RunServer, clientVars
<1>2. FoundInv'
  BY <1>1, FoundStep DEF TellInv, Next
<1>3. /\ \A c \in Clients : taken'[c] <= wrote'[c]
      /\ \A c \in Clients : closed[c] # "no" => taken'[c] = taken[c]
  BY <1>1, TakenStep
<1>4. \A c \in Clients : EndedInOrder(c)'
  <2>1. CASE \E c \in Clients : Close(c)
    <3>1. PICK c \in Clients : Close(c)
      BY <2>1
    <3>2. /\ UNCHANGED taken
          /\ \A d \in Clients \ {c} : closed'[d] = closed[d]
      BY <1>1, <3>1 DEF Close, CloseConnection, Inv, ConnInv, HandlerInv, SocketsTypeOK
    <3>3. \A d \in Clients \ {c} : EndedInOrder(d)'
      BY <1>1, <3>2 DEF TellInv, EndedInOrder
    <3>4. EndedInOrder(c)'
      BY <1>1, <3>1, <3>2, CloseStep DEF EndedInOrder
    <3>5. QED
      BY <3>3, <3>4
  <2>2. CASE ~\E c \in Clients : Close(c)
    <3>1. closed' = closed
      <4>1. TableHasRoom
        BY <1>1, RoomForAll DEF Inv
      <4>2. QED
        BY <1>1, <2>2, <4>1, HandleStepFrame DEF Server, Select, NothingToAccept, AcceptFails,
           Accept, Admit, TableHasRoom, Handle, ScanEnds, InHandler, kernelVars
    <3>2. QED
      BY <1>1, <1>3, <3>1 DEF TellInv, EndedInOrder
  <2>3. QED
    BY <2>1, <2>2
<1>5. QED
  BY <1>1, <1>2, <1>3, <1>4 DEF TellInv

\* A client that waits for a file is answered it to its end: it gets all of the head, and
\* nothing but the end of the file ends its loops.
LEMMA NoErrorForFiles ==
  ASSUME SysInv, TellInv, hpc # "dead", NEW c \in Clients, req[c].kind = "file"
  PROVE  /\ ~SendRequestFails(c) /\ ~HeadEnds(c) /\ ~ErrorEnds(c)
         /\ cpc[c] = "body" => ~AtReset(c)
<1>1. /\ Inv /\ ClientsInv /\ ClientInv(c) /\ EndedInOrder(c)
      /\ cpc[c] = "send" => wrote[c] < req[c].len
      /\ status[c] # "404" /\ wrote[c] \in Nat /\ req[c].len \in Nat
  BY TellTypes DEF SysInv, ClientsInv, TellInv, FoundInv, NotFoundOnlyWhenMissing
<1>2. ~SendRequestFails(c) /\ (cpc[c] = "body" => ~AtReset(c))
  BY <1>1 DEF SendRequestFails, AtReset, EndedInOrder
<1>3. ~ErrorEnds(c)
  BY <1>1 DEF ErrorEnds, ClientInv, OutputInv
<1>4. ASSUME HeadEnds(c) PROVE FALSE
  <2>1. cpc[c] = "head" /\ closed[c] = "fin" /\ taken[c] = req[c].len /\ Unread(c) = 0
    BY <1>1, <1>4 DEF HeadEnds, AtEof, AtReset, EndedInOrder
  <2>2. peer[c] = "up"
    BY <2>1 DEF SysInv, StillUp
  <2>3. status[c] = "200"
    BY <1>1, <2>1, <2>2 DEF Inv, ConnInv, AnswersInv, AnswerInv, HeadTaken, ReadEnds, Gone, Complete
  <2>4. /\ Len(Stream(c)) = HeadLen(c) + Len(body[c]) /\ Len(body[c]) \in Nat
        /\ got[c] < HeadLen(c) /\ got[c] \in Nat /\ HeadLen(c) \in Nat
    BY <1>1, <2>1, <2>3, StreamHolds, AskedTypes, LenProperties
       DEF Holds, Size, ClientInv, OutputInv, ClientsInv, ClientTypes
  <2>5. QED
    BY <2>1, <2>4 DEF Unread
<1>5. QED
  BY <1>2, <1>3, <1>4

\* A client that has connected.
LEMMA ConnectedTells ==
  ASSUME SysInv, TellInv, hpc # "dead", NEW c \in Clients, ClientStep(c) \/ Interrupt(c),
         cpc[c] # "connect", UNCHANGED mainVars
  PROVE  TellInv'
<1>1. /\ ClientsInv /\ StillUp /\ cpc[c] # "exited"
      /\ UNCHANGED <<req, taken, backlog, fd_of, file, status, body, hpc, hsock>>
      /\ \A d \in Clients \ {c} : cpc'[d] = cpc[d] /\ code'[d] = code[d]
  BY ClientEffect, ClientFrame DEF SysInv, mainVars, handlerVars, replyVars
<1>2. FoundInv'
  BY <1>1, FoundStutter DEF TellInv
<1>3. /\ wrote \in [Clients -> Nat] /\ closed \in [Clients -> {"no", "fin", "rst"}]
      /\ cpc \in [Clients -> {"connect", "send", "select", "head", "body", "error",
                         "undefined", "exited"}]
      /\ code \in [Clients -> {"none", "0", "-1", "signal"}]
      /\ taken[c] \in Nat /\ wrote[c] \in Nat /\ req[c].len \in Nat
      /\ code[c] = "none"
  BY <1>1, TellTypes DEF ClientsInv, ClientTypes, ClientInv, OutputInv
<1>4. ASSUME NEW n \in 1 .. req[c].len, SendRequest(c, n) PROVE TellInv'
  <2>1. cpc[c] = "send" /\ wrote[c] < req[c].len /\ closed[c] = "no"
    BY <1>1, <1>3, <1>4 DEF SendRequest, TellInv, EndedInOrder
  <2>2. /\ wrote' = [wrote EXCEPT ![c] = wrote[c] + n] /\ closed' = closed /\ code' = code
        /\ cpc' = [cpc EXCEPT ![c] = IF wrote'[c] = req[c].len THEN "select" ELSE "send"]
        /\ n <= req[c].len - wrote[c]
    BY <1>3, <1>4, <2>1 DEF SendRequest
  <2>3. /\ taken'[c] <= wrote'[c] /\ (cpc'[c] = "send" => wrote'[c] < req'[c].len)
        /\ EndedInOrder(c)' /\ (code'[c] = "-1" => req'[c].kind # "file")
    <3>1. taken[c] <= wrote[c] /\ wrote'[c] = wrote[c] + n
      BY <1>3, <2>2 DEF TellInv
    <3>2. cpc'[c] = IF wrote'[c] = req[c].len THEN "select" ELSE "send"
      BY <1>3, <2>2
    <3>3. wrote[c] + n <= req[c].len /\ taken[c] <= wrote[c] + n
      BY <1>3, <2>2, <3>1
    <3>4. QED
      BY <1>1, <1>3, <2>1, <2>2, <3>1, <3>2, <3>3 DEF EndedInOrder
  <2>4. \A d \in Clients \ {c} : wrote'[d] = wrote[d] /\ cpc'[d] = cpc[d]
    BY <1>1, <1>3, <2>2
  <2>5. QED
    BY <1>1, <1>2, <2>2, <2>3, <2>4 DEF TellInv, EndedInOrder
<1>5. ASSUME NEW ret, Exit(c, ret), ret = "-1" => req[c].kind # "file" PROVE TellInv'
  <2>1. /\ cpc' = [cpc EXCEPT ![c] = "exited"] /\ code' = [code EXCEPT ![c] = ret]
        /\ wrote' = wrote /\ closed' = closed
    BY <1>5 DEF Exit
  <2>2. cpc'[c] = "exited" /\ code'[c] = ret
    BY <1>3, <2>1
  <2>3. QED
    BY <1>1, <1>2, <1>5, <2>1, <2>2 DEF TellInv, EndedInOrder
<1>6. CASE \/ WaitForReply(c)
           \/ \E n \in 1 .. CBUFSIZE - 1 : RecvHead(c, n) \/ RecvBody(c, n) \/ RecvError(c, n)
  <2>1. UNCHANGED <<wrote, closed, code>>
    BY <1>6 DEF WaitForReply, RecvHead, RecvBody, RecvError, kernelVars
  <2>2. cpc'[c] # "send"
    BY <1>3, <1>6 DEF WaitForReply, RecvHead, Verdict, RecvBody, RecvError
  <2>3. QED
    BY <1>1, <1>2, <2>1, <2>2 DEF TellInv, EndedInOrder
<1>7. CASE SendRequestFails(c) \/ HeadEnds(c) \/ BodyEnds(c) \/ ErrorEnds(c) \/ Interrupt(c)
  <2>1. \E ret : Exit(c, ret) /\ (ret = "-1" => req[c].kind # "file")
    <3>1. CASE SendRequestFails(c) \/ HeadEnds(c) \/ ErrorEnds(c)
      <4>1. req[c].kind # "file"
        BY <3>1, NoErrorForFiles
      <4>2. \E ret : Exit(c, ret)
        BY <3>1 DEF SendRequestFails, HeadEnds, ErrorEnds
      <4>3. QED
        BY <4>1, <4>2
    <3>2. CASE BodyEnds(c)
      BY <3>2, NoErrorForFiles DEF BodyEnds
    <3>3. CASE Interrupt(c)
      BY <3>3 DEF Interrupt
    <3>4. QED
      BY <1>7, <3>1, <3>2, <3>3
  <2>2. QED
    BY <1>5, <2>1
<1>8. QED
  BY <1>4, <1>6, <1>7 DEF ClientStep, ConnectServer

LEMMA TellsNext ==
  ASSUME DescriptorForAll, RequestsFit, AliveInv, [SystemNext]_systemVars
  PROVE  AliveInv'
<1>1. SysInv /\ SysInv'
  BY SystemNextInv DEF AliveInv
<1>2. SUFFICES ASSUME hpc' # "dead" PROVE TellInv'
  BY <1>1 DEF AliveInv
<1>3. CASE RunServer
  <2>1. hpc # "dead"
    BY <1>1, <1>3, DeadServer DEF RunServer
  <2>2. QED
    BY <1>1, <1>3, <2>1, ServerTells DEF AliveInv
<1>4. ASSUME NEW c \in Clients, ClientStep(c) \/ Interrupt(c), cpc[c] # "connect", UNCHANGED mainVars
      PROVE  TellInv'
  <2>1. hpc # "dead"
    BY <1>2, <1>4 DEF mainVars, handlerVars
  <2>2. QED
    BY <1>1, <1>4, <2>1, ConnectedTells DEF AliveInv
<1>5. ASSUME NEW c \in Clients, ConnectServer(c), UNCHANGED mainVars PROVE TellInv'
  <2>1. /\ hpc # "dead" /\ TellInv /\ Connect(c) /\ cpc' = [cpc EXCEPT ![c] = "send"]
        /\ UNCHANGED <<req, wrote, taken, fd_of, closed, status, code, hpc, hsock>>
    BY <1>2, <1>5 DEF AliveInv, ConnectServer, Connect, mainVars, handlerVars, replyVars
  <2>2. wrote[c] = 0 /\ closed[c] = "no" /\ wrote[c] < req[c].len /\ ClientTypes
    <3>1. ClientInv(c) /\ ClientTypes
      BY <1>1 DEF SysInv, ClientsInv
    <3>2. wrote[c] = 0 /\ closed[c] = "no"
      BY <2>1, <3>1 DEF ClientInv, ConnectionInv, Connect
    <3>3. wrote[c] < req[c].len
      BY <3>1, <3>2, AskedTypes
    <3>4. QED
      BY <3>1, <3>2, <3>3
  <2>3. FoundInv'
    BY <2>1, FoundStutter DEF TellInv
  <2>4. EndedInOrder(c)'
    BY <2>1, <2>2 DEF EndedInOrder
  <2>5. \A d \in Clients \ {c} : cpc'[d] = cpc[d]
    BY <2>1, <2>2 DEF ClientTypes
  <2>6. QED
    BY <2>1, <2>2, <2>3, <2>4, <2>5 DEF TellInv, EndedInOrder
<1>6. ASSUME NEW c \in Clients, RunClient(c) PROVE TellInv'
  <2>1. CASE cpc[c] = "connect"
    <3>1. ConnectServer(c)
      BY <1>6, <2>1 DEF RunClient, ClientStep, SendRequest, SendRequestFails, WaitForReply,
         RecvHead, HeadEnds, RecvBody, BodyEnds, RecvError, ErrorEnds
    <3>2. QED
      BY <1>5, <1>6, <3>1 DEF RunClient
  <2>2. QED
    BY <1>4, <1>6, <2>1 DEF RunClient
<1>7. ASSUME NEW c \in Clients, StopClient(c) PROVE TellInv'
  BY <1>4, <1>7 DEF StopClient, Interrupt
<1>8. CASE \/ \E c \in Clients : RefuseReply(c)
           \/ UNCHANGED systemVars
  <2>1. UNCHANGED <<req, wrote, taken, fd_of, closed, status, cpc, code, hpc, hsock>>
    BY <1>8 DEF RefuseReply, Refuse, mainVars, handlerVars, clientVars, systemVars, vars,
       kernelVars, replyVars
  <2>2. TellInv
    BY <1>2, <2>1 DEF AliveInv
  <2>3. FoundInv'
    BY <2>1, <2>2, FoundStutter DEF TellInv
  <2>4. QED
    BY <2>1, <2>2, <2>3 DEF TellInv, EndedInOrder
<1>9. CASE \E c \in Clients : ReapServer(c) \/ Refused(c)
  BY <1>2, <1>9 DEF ReapServer, Refused, mainVars, handlerVars
<1>10. QED
  BY <1>3, <1>6, <1>7, <1>8, <1>9 DEF SystemNext

(***************************************************************************)
(* With a descriptor for every client beside the one for the file, and      *)
(* requests that fit in buf: as long as the server lives, a client that     *)
(* exits by itself does so with 0 exactly when the file exists              *)
(* (README.md:141-147, 218-226).                                            *)
(***************************************************************************)
THEOREM ExitCodesTell ==
  ASSUME DescriptorForAll, RequestsFit
  PROVE  SystemSpec => []ExitCodeTellsFile
<1>1. SystemInit => AliveInv
  <2> SUFFICES ASSUME SystemInit PROVE AliveInv
    OBVIOUS
  <2>1. SysInv
    BY SystemInitInv
  <2>2. FoundInv
    BY DEF SystemInit, Init, SocketsInit, HandlerInit, FoundInv, NotFoundOnlyWhenMissing
  <2>3. QED
    BY <2>1, <2>2
    DEF SystemInit, Init, SocketsInit, ClientInit, AliveInv, TellInv, EndedInOrder
<1>2. AliveInv /\ [SystemNext]_systemVars => AliveInv'
  BY TellsNext
<1>3. AliveInv => ExitCodeTellsFile
  BY DEF AliveInv, SysInv, ZeroInv, Whole, TellInv, ExitCodeTellsFile
<1>4. QED
  BY <1>1, <1>2, <1>3, PTL DEF SystemSpec

=============================================================================
