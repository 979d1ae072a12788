------------------------ MODULE HandleConnectionProofs ------------------------
(***************************************************************************)
(* What a step of a client and a step of handle_connection preserve,        *)
(* whichever server the handler runs in.  The proofs about the servers cite *)
(* these lemmas instead of looking into the seventeen actions again.        *)
(***************************************************************************)
EXTENDS HandleConnection, SequenceTheorems, TLAPS

\* The types, and the chunk in buf is the last part of the file that was read.
HandlerInv ==
  /\ SocketsTypeOK
  /\ HandlerTypeOK
  /\ bytes_read <= pos
  /\ sent <= bytes_read

(***************************************************************************)
(* A request asks for at least one byte, and files have a length.           *)
(***************************************************************************)
LEMMA RequestTypes ==
  ASSUME HandlerInv, NEW c \in Clients
  PROVE  req[c].len \in Nat \ {0} /\ req[c].data \in Nat
<1>1. \A r \in Requests : r.len \in Nat \ {0} /\ r.data \in Nat
  BY RequestsAssumption
<1>2. QED
  BY <1>1 DEF HandlerInv, SocketsTypeOK

(***************************************************************************)
(* The initial state has the types.                                         *)
(***************************************************************************)
LEMMA InitHandlerInv == SocketsInit /\ HandlerInit => HandlerInv
  BY NofileAssumption, BufsizeAssumption
  DEF SocketsInit, HandlerInit, HandlerInv, SocketsTypeOK, HandlerTypeOK, Fds, NoFd

(***************************************************************************)
(* A client only ever touches its own end, what it wrote and the accept     *)
(* queue.                                                                   *)
(***************************************************************************)
LEMMA PeerFrame ==
  ASSUME NEW c \in Clients, Peer(c)
  PROVE  UNCHANGED <<req, taken, fd_of, file, closed, replyVars>>
  BY DEF Peer, Connect, Deliver, Finish, Abort, Refuse, replyVars

LEMMA PeerInv ==
  ASSUME HandlerInv, NEW c \in Clients, Peer(c), UNCHANGED handlerVars
  PROVE  HandlerInv'
<1>1. HandlerTypeOK' /\ (bytes_read <= pos)' /\ (sent <= bytes_read)'
  BY DEF HandlerInv, HandlerTypeOK, handlerVars
<1>2. UNCHANGED <<req, taken, fd_of, file, closed, status, body>>
  BY PeerFrame DEF replyVars
<1>3. peer' \in [Clients -> {"new", "up", "fin", "rst", "broken"}]
  BY DEF HandlerInv, SocketsTypeOK, Peer, Connect, Deliver, Finish, Abort, Refuse
<1>4. wrote' \in [Clients -> Nat]
  <2>1. CASE Deliver(c)
    BY <2>1 DEF HandlerInv, SocketsTypeOK, Deliver
  <2>2. CASE ~Deliver(c)
    BY <2>2 DEF HandlerInv, SocketsTypeOK, Peer, Connect, Finish, Abort, Refuse
  <2>3. QED
    BY <2>1, <2>2
<1>5. backlog' \in Seq(Clients)
  <2>1. CASE Connect(c)
    BY <2>1 DEF HandlerInv, SocketsTypeOK, Connect
  <2>2. CASE ~Connect(c)
    BY <2>2 DEF HandlerInv, SocketsTypeOK, Peer, Deliver, Finish, Abort, Refuse
  <2>3. QED
    BY <2>1, <2>2
<1>6. QED
  BY <1>1, <1>2, <1>3, <1>4, <1>5 DEF HandlerInv, SocketsTypeOK

(***************************************************************************)
(* A step of the handler leaves the descriptors of the connections alone,   *)
(* never starts or ends a call, and opens its file on a free descriptor.    *)
(***************************************************************************)
LEMMA HandleStepFrame ==
  ASSUME NEW c \in Clients, HandleStep(c)
  PROVE  /\ UNCHANGED <<req, peer, wrote, backlog, fd_of, closed, hsock>>
         /\ file' \in {file, NoFd} \cup FreeFds
         /\ hpc # "idle"
         /\ hpc' # "idle"
         /\ Serving(c)
  BY DEF HandleStep, Recv, RecvFails, ParseFails, Fopen, FopenFails, SendNotFound,
         SendHeader, Fread, FreadEnds, Send, SendFailed, SendKilled,
         kernelVars, replyVars, localVars, LowestFree

LEMMA HandleStepInv ==
  ASSUME HandlerInv, NEW c \in Clients, HandleStep(c)
  PROVE  HandlerInv'
<1> USE BufsizeAssumption, RequestsAssumption
        DEF HandlerInv, SocketsTypeOK, HandlerTypeOK, kernelVars, replyVars, localVars
<1>1. CASE \E n \in 1 .. BUFSIZE - 1 : Recv(c, n)
  BY <1>1 DEF Recv, Pending
<1>2. CASE RecvFails(c)
  BY <1>2 DEF RecvFails
<1>3. CASE ParseFails(c)
  BY <1>3 DEF ParseFails
<1>4. CASE Fopen(c)
  BY <1>4 DEF Fopen
<1>5. CASE FopenFails(c)
  BY <1>5 DEF FopenFails
<1>6. CASE SendNotFound(c)
  BY <1>6 DEF SendNotFound
<1>7. CASE SendHeader(c)
  BY <1>7 DEF SendHeader
<1>8. CASE Fread(c)
  <2>1. req[c].data \in Nat
    OBVIOUS
  <2>2. bytes_read' \in 0 .. BUFSIZE /\ pos' \in Nat /\ bytes_read' <= pos' /\ sent' = 0
    BY <1>8, <2>1 DEF Fread
  <2>3. QED
    BY <1>8, <2>2 DEF Fread
<1>9. CASE FreadEnds(c)
  BY <1>9 DEF FreadEnds
<1>10. CASE \E n \in 1 .. BUFSIZE : Send(c, n)
  <2>1. PICK n \in 1 .. BUFSIZE : Send(c, n)
    BY <1>10
  <2>2. sent' \in 0 .. BUFSIZE /\ sent' <= bytes_read
    BY <2>1 DEF Send
  <2>3. [k \in 1 .. n |-> pos - bytes_read + sent + k] \in Seq(Nat)
    <3>1. \A k \in 1 .. n : pos - bytes_read + sent + k \in Nat
      OBVIOUS
    <3>2. QED
      BY <3>1
  <2>4. body' \in [Clients -> Seq(Nat)]
    BY <2>1, <2>3 DEF Send
  <2>5. QED
    BY <2>1, <2>2, <2>4 DEF Send
<1>11. CASE SendFailed(c)
  BY <1>11 DEF SendFailed
<1>12. CASE SendKilled(c)
  BY <1>12 DEF SendKilled
<1>13. QED
  BY <1>1, <1>2, <1>3, <1>4, <1>5, <1>6, <1>7, <1>8, <1>9, <1>10, <1>11, <1>12
  DEF HandleStep

-----------------------------------------------------------------------------
(***************************************************************************)
(* The descriptors in use are distinct, so that hsock names one client.     *)
(***************************************************************************)
FdsInv ==
  /\ \A c, d \in Clients : fd_of[c] = fd_of[d] /\ fd_of[c] # NoFd => c = d
  /\ \A c \in Clients : fd_of[c] \notin Reserved /\ (fd_of[c] # NoFd => fd_of[c] # file)
  /\ \A c \in Clients : fd_of[c] # NoFd => closed[c] = "no"
  /\ file \notin Reserved

LEMMA HandleStepFds ==
  ASSUME HandlerInv, FdsInv, NEW c \in Clients, HandleStep(c)
  PROVE  FdsInv'
<1>1. fd_of' = fd_of /\ closed' = closed /\ file' \in {file, NoFd} \cup FreeFds
  BY HandleStepFrame
<1>2. \A fd \in FreeFds : fd # NoFd /\ fd \notin Reserved /\ \A d \in Clients : fd # fd_of[d]
  BY NofileAssumption DEF FreeFds, OpenFds, Fds, NoFd
<1>3. NoFd \notin Reserved
  BY DEF NoFd, Reserved, ListenFd
<1>4. QED
  BY <1>1, <1>2, <1>3 DEF FdsInv

(***************************************************************************)
(* A FILE is open on the paths that use it and on no other.                 *)
(***************************************************************************)
LEMMA HandleStepFile ==
  ASSUME HandlerInv, FileOpenWhileUsed, NEW c \in Clients, HandleStep(c)
  PROVE  FileOpenWhileUsed'
<1>1. \A fd \in FreeFds : fd # NoFd
  BY NofileAssumption DEF FreeFds, Fds, NoFd
<1>2. QED
  BY <1>1 DEF FileOpenWhileUsed, HandleStep, Recv, RecvFails, ParseFails, Fopen, FopenFails,
     SendNotFound, SendHeader, Fread, FreadEnds, Send, SendFailed, SendKilled,
     kernelVars, replyVars, localVars, LowestFree

-----------------------------------------------------------------------------
(***************************************************************************)
(* Why ReplyFaithful holds: while c is served, what it has been sent is the *)
(* part of the file before the unsent rest of the chunk in buf; before its  *)
(* call it has been sent nothing.                                           *)
(***************************************************************************)
Prefix(n) == [k \in 1 .. n |-> k]

Unanswered(c) == status[c] = "none" /\ body[c] = <<>>

ReplyInv(c) ==
  /\ body[c] = Prefix(Len(body[c]))
  /\ Len(body[c]) <= req[c].data
  /\ body[c] # <<>> => status[c] = "200"
  /\ status[c] = "200" => req[c].kind = "file"
  /\ req[c].kind = "malformed" => status[c] = "none"
  /\ closed[c] = "no" /\ ~Serving(c) => Unanswered(c)

ChunkInv(c) ==
  /\ hpc \in {"recv", "open", "notfound", "header"} =>
       Unanswered(c) /\ pos = 0 /\ bytes_read = 0 /\ sent = 0
  /\ hpc = "notfound" => req[c].kind # "malformed"
  /\ hpc = "header" => req[c].kind = "file"
  /\ hpc = "read" => status[c] = "200" /\ Len(body[c]) = pos
  /\ hpc = "send" => status[c] = "200" /\ Len(body[c]) = pos - bytes_read + sent
  /\ pos <= req[c].data

RepliesInv ==
  /\ \A c \in Clients : ReplyInv(c)
  /\ \A c \in Clients : Serving(c) => ChunkInv(c)
  /\ hpc = "idle" => pos = 0 /\ bytes_read = 0 /\ sent = 0

(***************************************************************************)
(* Appending the next positions to a prefix of a file gives a prefix.       *)
(***************************************************************************)
LEMMA PrefixExtends ==
  ASSUME NEW m \in Nat, NEW n \in Nat
  PROVE  /\ Prefix(m) \o [k \in 1 .. n |-> m + k] = Prefix(m + n)
         /\ Len(Prefix(m)) = m
<1> DEFINE rest  == [k \in 1 .. n |-> m + k]
           whole == [k \in 1 .. m + n |-> k]
<1>1. Prefix(m) \in Seq(Nat) /\ Len(Prefix(m)) = m /\ \A k \in 1 .. m : Prefix(m)[k] = k
  BY DEF Prefix
<1>2. rest \in Seq(Nat) /\ Len(rest) = n /\ \A k \in 1 .. n : rest[k] = m + k
  <2>1. \A k \in 1 .. n : m + k \in Nat
    OBVIOUS
  <2>2. QED
    BY <2>1
<1>3. whole \in Seq(Nat) /\ Len(whole) = m + n /\ \A k \in 1 .. m + n : whole[k] = k
  OBVIOUS
<1> HIDE DEF rest, whole
<1>4. /\ Prefix(m) \o rest \in Seq(Nat)
      /\ Len(Prefix(m) \o rest) = m + n
      /\ \A k \in 1 .. m + n :
           (Prefix(m) \o rest)[k] = IF k <= m THEN Prefix(m)[k] ELSE rest[k - m]
  <2>1. \A s, t \in Seq(Nat) :
          /\ s \o t \in Seq(Nat)
          /\ Len(s \o t) = Len(s) + Len(t)
          /\ \A k \in 1 .. Len(s) + Len(t) :
               (s \o t)[k] = IF k <= Len(s) THEN s[k] ELSE t[k - Len(s)]
    BY ConcatProperties
  <2>2. /\ Prefix(m) \o rest \in Seq(Nat)
        /\ Len(Prefix(m) \o rest) = Len(Prefix(m)) + Len(rest)
        /\ \A k \in 1 .. Len(Prefix(m)) + Len(rest) :
             (Prefix(m) \o rest)[k]
               = IF k <= Len(Prefix(m)) THEN Prefix(m)[k] ELSE rest[k - Len(Prefix(m))]
    BY <1>1, <1>2, <2>1, Zenon
  <2>3. QED
    BY <1>1, <1>2, <2>2
<1>5. \A k \in 1 .. m + n : (Prefix(m) \o rest)[k] = whole[k]
  BY <1>1, <1>2, <1>3, <1>4
<1>6. Prefix(m) \o rest = whole
  BY <1>3, <1>4, <1>5, SeqEqual
<1>7. QED
  BY <1>1, <1>6 DEF Prefix, rest, whole

LEMMA RepliesInvImpliesFaithful == RepliesInv => ReplyFaithful
  BY DEF RepliesInv, ReplyInv, ReplyFaithful, Prefix

(***************************************************************************)
(* The clients have no hand in what they are sent.                          *)
(***************************************************************************)
LEMMA PeerReplies ==
  ASSUME RepliesInv, NEW c \in Clients, Peer(c), UNCHANGED handlerVars
  PROVE  RepliesInv'
  BY PeerFrame
  DEF RepliesInv, ReplyInv, ChunkInv, Unanswered, Serving, Prefix, replyVars, handlerVars

(***************************************************************************)
(* fread() takes the next chunk of the file into buf.                       *)
(***************************************************************************)
LEMMA FreadChunk ==
  ASSUME HandlerInv, NEW c \in Clients, Fread(c)
  PROVE  /\ pos' - bytes_read' + sent' = pos
         /\ pos' <= req[c].data
<1>1. req[c].data \in Nat /\ pos \in Nat
  BY RequestsAssumption DEF HandlerInv, SocketsTypeOK, HandlerTypeOK
<1>2. bytes_read' \in Nat /\ bytes_read' <= req[c].data - pos
  BY <1>1, BufsizeAssumption DEF Fread
<1>3. pos' = pos + bytes_read' /\ sent' = 0
  BY DEF Fread
<1>4. \A b, d, p \in Nat : b <= d - p => (p + b) - b + 0 = p /\ p + b <= d
  OBVIOUS
<1>5. QED
  BY <1>1, <1>2, <1>3, <1>4

(***************************************************************************)
(* send() lengthens a prefix of the file to a longer prefix.                *)
(***************************************************************************)
LEMMA SendExtends ==
  ASSUME HandlerInv, NEW c \in Clients, NEW n \in Nat, Send(c, n),
         NEW m \in Nat, body[c] = Prefix(m), m = pos - bytes_read + sent
  PROVE  body'[c] = Prefix(m + n) /\ Len(body'[c]) = m + n
<1>1. m + n \in Nat
  OBVIOUS
<1>2. body'[c] = Prefix(m) \o [k \in 1 .. n |-> m + k]
  BY DEF Send, HandlerInv, SocketsTypeOK
<1>3. Prefix(m) \o [k \in 1 .. n |-> m + k] = Prefix(m + n)
  BY PrefixExtends, Zenon
<1>4. Len(Prefix(m + n)) = m + n
  BY <1>1, PrefixExtends, Zenon
<1>5. QED
  BY <1>2, <1>3, <1>4

(***************************************************************************)
(* Only the served client is sent anything, and what it gets comes next.    *)
(***************************************************************************)
LEMMA HandleStepReplies ==
  ASSUME HandlerInv, FdsInv, RepliesInv, NEW c \in Clients, HandleStep(c)
  PROVE  RepliesInv'
<1>1. /\ Serving(c)
      /\ \A d \in Clients : Serving(d)' = Serving(d)
      /\ \A d \in Clients : d # c => ~Serving(d)
  BY HandleStepFrame DEF Serving, FdsInv
<1>2. /\ req' = req /\ closed' = closed /\ hpc' # "idle"
      /\ status \in [Clients -> {"none", "200", "404"}] /\ body \in [Clients -> Seq(Nat)]
  BY HandleStepFrame DEF HandlerInv, SocketsTypeOK
<1>3. \A d \in Clients : d # c => status'[d] = status[d] /\ body'[d] = body[d]
  BY <1>2 DEF HandleStep, Recv, RecvFails, ParseFails, Fopen, FopenFails, SendNotFound,
     SendHeader, Fread, FreadEnds, Send, SendFailed, SendKilled,
     kernelVars, replyVars, localVars
<1>4. ReplyInv(c) /\ ChunkInv(c) /\ hpc # "idle"
  BY <1>1, HandleStepFrame DEF RepliesInv
<1>5. ReplyInv(c)' /\ ChunkInv(c)'
  <2> USE <1>1, <1>2, <1>4 DEF ReplyInv, ChunkInv, Unanswered, kernelVars, replyVars, localVars
  <2>1. CASE \E n \in 1 .. BUFSIZE - 1 : Recv(c, n)
    BY <2>1 DEF Recv
  <2>2. CASE RecvFails(c) \/ ParseFails(c)
    BY <2>2 DEF RecvFails, ParseFails
  <2>3. CASE Fopen(c)
    BY <2>3 DEF Fopen
  <2>4. CASE FopenFails(c)
    BY <2>4 DEF FopenFails
  <2>5. CASE SendNotFound(c)
    BY <2>5 DEF SendNotFound
  <2>6. CASE SendHeader(c)
    BY <2>6 DEF SendHeader
  <2>7. CASE Fread(c)
    <3>1. pos' - bytes_read' + sent' = pos /\ pos' <= req[c].data
      BY <2>7, FreadChunk
    <3>2. QED
      BY <2>7, <3>1 DEF Fread
  <2>8. CASE FreadEnds(c)
    BY <2>8 DEF FreadEnds
  <2>9. CASE \E n \in 1 .. BUFSIZE : Send(c, n)
    <3>1. PICK n \in 1 .. BUFSIZE : Send(c, n)
      BY <2>9
    <3> DEFINE m == Len(body[c])
    <3>2. /\ m \in Nat /\ m = pos - bytes_read + sent
          /\ pos \in Nat /\ bytes_read \in Nat /\ sent \in Nat /\ n \in Nat
      BY <3>1, BufsizeAssumption DEF Send, HandlerInv, HandlerTypeOK
    <3>3. body[c] = Prefix(m)
      OBVIOUS
    <3> HIDE DEF m
    <3>4. body'[c] = Prefix(m + n) /\ Len(body'[c]) = m + n
      BY <3>1, <3>2, <3>3, SendExtends
    <3>5. m + n <= pos
      BY <3>1, <3>2 DEF Send
    <3>6. Len(body'[c]) <= req[c].data
      <4>1. req[c].data \in Nat
        BY RequestsAssumption DEF HandlerInv, SocketsTypeOK
      <4>2. QED
        BY <3>1, <3>2, <3>4, <3>5, <4>1 DEF Send
    <3>7. status' = status /\ status[c] = "200" /\ pos' = pos /\ bytes_read' = bytes_read
      BY <3>1 DEF Send
    <3>8. sent' = sent + n /\ hpc' = IF sent' = bytes_read THEN "read" ELSE "send"
      BY <3>1 DEF Send
    <3>9. ReplyInv(c)'
      BY <3>1, <3>2, <3>4, <3>6, <3>7 DEF m
    <3>10. ChunkInv(c)'
      <4>1. Len(body'[c]) = pos' - bytes_read' + sent' /\ Len(body'[c]) = m + n
        BY <3>2, <3>4, <3>7, <3>8
      <4>2. hpc' = "read" => Len(body'[c]) = pos'
        BY <3>2, <3>7, <3>8, <4>1
      <4>3. hpc' \in {"read", "send"} /\ pos' <= req'[c].data
        BY <3>1, <3>7, <3>8 DEF Send
      <4>4. QED
        BY <3>7, <4>1, <4>2, <4>3
    <3>11. QED
      BY <3>9, <3>10
  <2>10. CASE SendFailed(c) \/ SendKilled(c)
    BY <2>10 DEF SendFailed, SendKilled
  <2>11. QED
    BY <2>1, <2>2, <2>3, <2>4, <2>5, <2>6, <2>7, <2>8, <2>9, <2>10 DEF HandleStep
<1>6. \A d \in Clients : d # c => ReplyInv(d)'
  BY <1>1, <1>2, <1>3 DEF RepliesInv, ReplyInv, Unanswered, Prefix
<1>7. QED
  BY <1>1, <1>2, <1>5, <1>6 DEF RepliesInv

-----------------------------------------------------------------------------
(***************************************************************************)
(* Why CompleteWhenClosed holds: total_len counts what was taken from c, and*)
(* tells whether the whole head was.                                        *)
(***************************************************************************)
Complete(c) ==
  \/ req[c].kind = "malformed"
  \/ status[c] = "404"
  \/ status[c] = "200" /\ Len(body[c]) = req[c].data

ReturnInv(c) ==
  /\ taken[c] = total_len
  /\ hpc = "recv" => ~HeadTaken(c)
  /\ hpc \in {"open", "notfound", "header", "read", "send", "done"} => HeadTaken(c)
  /\ hpc = "done" => Complete(c)
  /\ hpc = "failed" =>
       \/ Gone(c)
       \/ HeadTaken(c) /\ Complete(c)
       \/ ~HeadTaken(c) /\ AtEnd(c)

AnswerInv(c) ==
  /\ closed[c] = "no" /\ ~Serving(c) => taken[c] = 0
  /\ closed[c] # "no" /\ ~Gone(c) /\ HeadTaken(c) => Complete(c)
  /\ status[c] # "none" => HeadTaken(c)

AnswersInv ==
  /\ \A c \in Clients : AnswerInv(c)
  /\ \A c \in Clients : Serving(c) => ReturnInv(c)
  /\ hpc = "idle" => total_len = 0

LEMMA AnswersInvImpliesComplete == AnswersInv => CompleteWhenClosed
  BY DEF AnswersInv, AnswerInv, HeadTaken, ReadEnds, Complete, CompleteWhenClosed

(***************************************************************************)
(* A client that is gone stays gone, and one at its end sends nothing more. *)
(***************************************************************************)
LEMMA PeerAnswers ==
  ASSUME HandlerInv, AnswersInv, NEW c \in Clients, Peer(c), UNCHANGED handlerVars
  PROVE  AnswersInv'
<1>1. UNCHANGED <<req, taken, fd_of, closed, status, body, hpc, hsock, total_len>>
  BY PeerFrame DEF replyVars, handlerVars
<1>2. \A d \in Clients : Gone(d) => Gone(d)'
  BY DEF HandlerInv, SocketsTypeOK, Gone, Peer, Connect, Deliver, Finish, Abort, Refuse
<1>3. \A d \in Clients : AtEnd(d) => AtEnd(d)'
  BY <1>1, <1>2 DEF HandlerInv, SocketsTypeOK, AtEnd, Gone, HasInput, Pending, Peer, Connect,
     Deliver, Finish, Abort, Refuse
<1>4. QED
  BY <1>1, <1>2, <1>3
  DEF AnswersInv, AnswerInv, ReturnInv, HeadTaken, ReadEnds, Complete, Serving

(***************************************************************************)
(* The handler returns 0 only after the whole answer, and -1 only when the  *)
(* client is gone, has stopped short, or asked for nothing.                 *)
(***************************************************************************)
LEMMA HandleStepAnswers ==
  ASSUME HandlerInv, FdsInv, RepliesInv, AnswersInv, NEW c \in Clients, HandleStep(c)
  PROVE  AnswersInv'
<1>1. /\ Serving(c)
      /\ \A d \in Clients : Serving(d)' = Serving(d)
      /\ \A d \in Clients : d # c => ~Serving(d)
      /\ UNCHANGED <<req, peer, wrote, closed>> /\ hpc' # "idle"
  BY HandleStepFrame DEF Serving, FdsInv
<1>2. /\ status \in [Clients -> {"none", "200", "404"}] /\ body \in [Clients -> Seq(Nat)]
      /\ taken \in [Clients -> Nat] /\ total_len \in Nat
  BY BufsizeAssumption DEF HandlerInv, SocketsTypeOK, HandlerTypeOK
<1>3. \A d \in Clients : d # c =>
        status'[d] = status[d] /\ body'[d] = body[d] /\ taken'[d] = taken[d]
  BY <1>2 DEF HandleStep, Recv, RecvFails, ParseFails, Fopen, FopenFails, SendNotFound,
     SendHeader, Fread, FreadEnds, Send, SendFailed, SendKilled,
     kernelVars, replyVars, localVars
<1>4. AnswerInv(c) /\ ReturnInv(c) /\ ReplyInv(c) /\ ChunkInv(c)
  BY <1>1, HandleStepFrame DEF RepliesInv, AnswersInv
<1>5. AnswerInv(c)'
  <2>1. closed[c] = "no"
    BY <1>1 DEF FdsInv, Serving
  <2>2. (status[c] # "none" => HeadTaken(c))'
    <3>1. CASE \E n \in 1 .. BUFSIZE - 1 : Recv(c, n)
      BY <1>4, <3>1 DEF Recv, ChunkInv, Unanswered, replyVars
    <3>2. CASE SendNotFound(c) \/ SendHeader(c) \/ \E n \in 1 .. BUFSIZE : Send(c, n)
      BY <1>1, <1>4, <3>2 DEF SendNotFound, SendHeader, Send, ReturnInv, HeadTaken, ReadEnds, kernelVars
    <3>3. CASE \/ RecvFails(c) \/ ParseFails(c) \/ Fopen(c) \/ FopenFails(c) \/ Fread(c)
               \/ FreadEnds(c) \/ SendFailed(c) \/ SendKilled(c)
      BY <1>1, <1>4, <3>3 DEF RecvFails, ParseFails, Fopen, FopenFails, Fread, FreadEnds,
         SendFailed, SendKilled, AnswerInv, HeadTaken, ReadEnds, kernelVars, replyVars
    <3>4. QED
      BY <3>1, <3>2, <3>3 DEF HandleStep
  <2>3. QED
    BY <1>1, <1>4, <2>1, <2>2 DEF AnswerInv
<1>6. ReturnInv(c)'
  <2> USE <1>1, <1>2, <1>4 DEF ReturnInv, HeadTaken, ReadEnds, kernelVars, replyVars, localVars
  <2>1. CASE \E n \in 1 .. BUFSIZE - 1 : Recv(c, n)
    BY <2>1 DEF Recv
  <2>2. CASE RecvFails(c)
    BY <2>2 DEF RecvFails, AtEnd, Gone, HasInput, Pending
  <2>3. CASE ParseFails(c)
    BY <2>3 DEF ParseFails, Complete
  <2>4. CASE Fopen(c) \/ FopenFails(c)
    BY <2>4 DEF Fopen, FopenFails
  <2>5. CASE SendNotFound(c)
    BY <2>5 DEF SendNotFound, Complete
  <2>6. CASE SendHeader(c)
    BY <2>6 DEF SendHeader
  <2>7. CASE Fread(c)
    BY <2>7 DEF Fread
  <2>8. CASE FreadEnds(c)
    BY <2>8 DEF FreadEnds, Complete, ChunkInv
  <2>9. CASE \E n \in 1 .. BUFSIZE : Send(c, n)
    BY <2>9 DEF Send
  <2>10. CASE SendFailed(c)
    BY <2>10 DEF SendFailed, SendFails, Gone
  <2>11. CASE SendKilled(c)
    BY <2>11 DEF SendKilled
  <2>12. QED
    BY <2>1, <2>2, <2>3, <2>4, <2>5, <2>6, <2>7, <2>8, <2>9, <2>10, <2>11 DEF HandleStep
<1>7. \A d \in Clients : d # c => AnswerInv(d)'
  BY <1>1, <1>3 DEF AnswersInv, AnswerInv, HeadTaken, ReadEnds, Complete, Gone
<1>8. QED
  BY <1>1, <1>5, <1>6, <1>7 DEF AnswersInv

-----------------------------------------------------------------------------
(***************************************************************************)
(* The accept queue: every connection in it is once there, established and  *)
(* untouched.                                                               *)
(***************************************************************************)
QueueInv ==
  /\ \A k \in DOMAIN backlog :
       LET c == backlog[k] IN fd_of[c] = NoFd /\ closed[c] = "no" /\ peer[c] # "new"
  /\ \A j, k \in DOMAIN backlog : backlog[j] = backlog[k] => j = k
  /\ \A c \in Clients : peer[c] = "new" => fd_of[c] = NoFd /\ closed[c] = "no"

LEMMA PeerQueue ==
  ASSUME HandlerInv, QueueInv, NEW c \in Clients, Peer(c)
  PROVE  QueueInv'
<1>1. UNCHANGED <<fd_of, closed>>
  BY PeerFrame
<1>2. CASE Connect(c)
  <2>1. /\ backlog \in Seq(Clients) /\ backlog' = Append(backlog, c)
        /\ peer \in [Clients -> {"new", "up", "fin", "rst", "broken"}]
        /\ peer[c] = "new" /\ peer' = [peer EXCEPT ![c] = "up"]
    BY <1>2 DEF Connect, HandlerInv, SocketsTypeOK
  <2>2. /\ Len(backlog) \in Nat /\ DOMAIN backlog = 1 .. Len(backlog)
        /\ DOMAIN backlog' = 1 .. Len(backlog) + 1
        /\ \A k \in DOMAIN backlog : backlog'[k] = backlog[k]
        /\ backlog'[Len(backlog) + 1] = c
    BY <2>1
  <2>3. \A k \in DOMAIN backlog : backlog[k] \in Clients /\ backlog[k] # c
    BY <2>1 DEF QueueInv
  <2>4. QED
    BY <1>1, <2>1, <2>2, <2>3 DEF QueueInv
<1>3. CASE ~Connect(c)
  <2>1. backlog' = backlog /\ \A d \in Clients : peer'[d] = "new" <=> peer[d] = "new"
    BY <1>3 DEF HandlerInv, SocketsTypeOK, Peer, Deliver, Finish, Abort, Refuse
  <2>2. \A k \in DOMAIN backlog : backlog[k] \in Clients
    BY DEF HandlerInv, SocketsTypeOK
  <2>3. QED
    BY <1>1, <2>1, <2>2 DEF QueueInv
<1>4. QED
  BY <1>2, <1>3

-----------------------------------------------------------------------------
(***************************************************************************)
(* All of it together, for the servers: what holds of the connections, the  *)
(* handler and the replies, and what each way of moving them preserves.     *)
(***************************************************************************)
ConnInv ==
  /\ HandlerInv
  /\ FdsInv
  /\ QueueInv
  /\ FileOpenWhileUsed
  /\ RepliesInv
  /\ AnswersInv
  /\ hpc = "idle" <=> hsock = NoFd

connVars == <<kernelVars, replyVars, handlerVars>>

LEMMA ConnInit == SocketsInit /\ HandlerInit => ConnInv
<1> SUFFICES ASSUME SocketsInit, HandlerInit PROVE ConnInv
  OBVIOUS
<1>1. HandlerInv
  BY InitHandlerInv
<1>2. FdsInv /\ QueueInv /\ FileOpenWhileUsed
  BY DEF SocketsInit, HandlerInit, FdsInv, QueueInv, FileOpenWhileUsed, NoFd, Reserved, ListenFd
<1>3. \A c \in Clients : req[c].len \in Nat \ {0} /\ req[c].data \in Nat
  <2>1. \A r \in Requests : r.len \in Nat \ {0} /\ r.data \in Nat
    BY RequestsAssumption
  <2>2. \A c \in Clients : req[c] \in Requests
    BY DEF SocketsInit
  <2>3. QED
    BY <2>1, <2>2
<1>4. RepliesInv
  <2>1. Prefix(0) = <<>>
    BY DEF Prefix
  <2>2. QED
    BY <1>3, <2>1
    DEF SocketsInit, HandlerInit, RepliesInv, ReplyInv, ChunkInv, Unanswered, Serving
<1>5. AnswersInv
  BY <1>3, BufsizeAssumption
  DEF SocketsInit, HandlerInit, AnswersInv, AnswerInv, ReturnInv, HeadTaken, ReadEnds, Serving
<1>6. QED
  BY <1>1, <1>2, <1>4, <1>5 DEF ConnInv, HandlerInit

LEMMA ConnStutter ==
  ASSUME ConnInv, UNCHANGED connVars
  PROVE  ConnInv'
  BY DEF ConnInv, connVars, kernelVars, replyVars, handlerVars, HandlerInv, SocketsTypeOK,
     HandlerTypeOK, FdsInv, QueueInv, FileOpenWhileUsed, RepliesInv, ReplyInv, ChunkInv,
     Unanswered, Serving, AnswersInv, AnswerInv, ReturnInv, HeadTaken, ReadEnds, Complete, Gone, AtEnd,
     HasInput, Pending

LEMMA ConnPeer ==
  ASSUME ConnInv, NEW c \in Clients, Peer(c), UNCHANGED handlerVars
  PROVE  ConnInv'
<1>1. HandlerInv' /\ QueueInv' /\ RepliesInv' /\ AnswersInv'
  BY PeerInv, PeerQueue, PeerReplies, PeerAnswers DEF ConnInv
<1>2. FdsInv' /\ FileOpenWhileUsed' /\ (hpc = "idle" <=> hsock = NoFd)'
  BY PeerFrame DEF ConnInv, FdsInv, FileOpenWhileUsed, handlerVars
<1>3. QED
  BY <1>1, <1>2 DEF ConnInv

LEMMA ConnHandleStep ==
  ASSUME ConnInv, NEW c \in Clients, HandleStep(c)
  PROVE  ConnInv'
<1>1. HandlerInv' /\ FdsInv' /\ FileOpenWhileUsed' /\ RepliesInv' /\ AnswersInv'
  BY HandleStepInv, HandleStepFds, HandleStepFile, HandleStepReplies, HandleStepAnswers
  DEF ConnInv
<1>2. QueueInv'
  BY HandleStepFrame DEF ConnInv, QueueInv
<1>3. (hpc = "idle" <=> hsock = NoFd)'
  BY HandleStepFrame DEF ConnInv
<1>4. QED
  BY <1>1, <1>2, <1>3 DEF ConnInv

\* accept() takes the oldest waiting connection and gives it a free descriptor;
\* the handler may be called on it at once.
LEMMA ConnAccept ==
  ASSUME ConnInv, hpc = "idle", backlog # <<>>, NEW fd, LowestFree(fd),
         backlog' = Tail(backlog),
         fd_of' = [fd_of EXCEPT ![Head(backlog)] = fd],
         UNCHANGED <<req, peer, wrote, taken, file, closed, replyVars>>,
         UNCHANGED handlerVars \/ Call(fd)
  PROVE  ConnInv'
<1> DEFINE c == Head(backlog)
<1>1. /\ backlog \in Seq(Clients) /\ c \in Clients /\ c = backlog[1]
      /\ backlog' \in Seq(Clients)
      /\ 1 \in DOMAIN backlog
      /\ \A k \in DOMAIN backlog' :
           k + 1 \in DOMAIN backlog /\ k + 1 # 1 /\ backlog'[k] = backlog[k + 1]
  <2>1. backlog \in Seq(Clients) /\ Len(backlog) \in Nat \ {0} /\ DOMAIN backlog = 1 .. Len(backlog)
    BY DEF ConnInv, HandlerInv, SocketsTypeOK
  <2>2. /\ Tail(backlog) \in Seq(Clients) /\ DOMAIN Tail(backlog) = 1 .. Len(backlog) - 1
        /\ \A k \in 1 .. Len(backlog) - 1 : Tail(backlog)[k] = backlog[k + 1]
    BY <2>1
  <2>3. c = backlog[1] /\ c \in Clients
    BY <2>1
  <2>4. \A k \in 1 .. Len(backlog) - 1 : k + 1 \in 1 .. Len(backlog) /\ k + 1 # 1
    BY <2>1
  <2>5. QED
    BY <2>1, <2>2, <2>3, <2>4
<1>2. fd_of[c] = NoFd /\ closed[c] = "no" /\ peer[c] # "new"
  BY <1>1 DEF ConnInv, QueueInv
<1>3. /\ fd \in Fds /\ fd # NoFd /\ fd \notin Reserved /\ fd # file
      /\ \A d \in Clients : fd_of[d] # fd
  BY NofileAssumption DEF LowestFree, FreeFds, OpenFds, Fds, NoFd
<1>4. fd_of \in [Clients -> Fds \cup {NoFd}] /\ hsock = NoFd
  BY DEF ConnInv, HandlerInv, SocketsTypeOK
<1>5. /\ fd_of' \in [Clients -> Fds \cup {NoFd}] /\ fd_of'[c] = fd
      /\ \A d \in Clients : d # c => fd_of'[d] = fd_of[d]
  BY <1>1, <1>3, <1>4
<1> HIDE DEF c
<1>6. HandlerInv'
  BY <1>1, <1>3, <1>5, BufsizeAssumption
  DEF ConnInv, HandlerInv, SocketsTypeOK, HandlerTypeOK, replyVars, handlerVars, Call
<1>7. FdsInv'
  BY <1>1, <1>2, <1>3, <1>5 DEF ConnInv, FdsInv
<1>8. QueueInv'
  <2>1. \A k \in DOMAIN backlog' : backlog'[k] \in Clients /\ backlog'[k] # c
    BY <1>1 DEF ConnInv, QueueInv
  <2>2. \A k \in DOMAIN backlog' : backlog'[k] = backlog[k + 1] /\ k + 1 \in DOMAIN backlog /\ k \in Nat
    BY <1>1
  <2>3. \A j, k \in DOMAIN backlog' : backlog'[j] = backlog'[k] => j = k
    BY <2>2 DEF ConnInv, QueueInv
  <2>4. \A k \in DOMAIN backlog' :
          fd_of'[backlog'[k]] = NoFd /\ closed'[backlog'[k]] = "no" /\ peer'[backlog'[k]] # "new"
    BY <1>5, <2>1, <2>2 DEF ConnInv, QueueInv
  <2>5. \A d \in Clients : peer'[d] = "new" => fd_of'[d] = NoFd /\ closed'[d] = "no"
    BY <1>2, <1>5 DEF ConnInv, QueueInv
  <2>6. QED
    BY <2>3, <2>4, <2>5 DEF QueueInv
<1>9. FileOpenWhileUsed' /\ (hpc = "idle" <=> hsock = NoFd)'
  BY <1>3 DEF ConnInv, FileOpenWhileUsed, handlerVars, Call
<1>10. \A d \in Clients : ~Serving(d) /\ (Serving(d)' => d = c /\ Call(fd))
  <2>1. hsock' = NoFd \/ (hsock' = fd /\ Call(fd))
    BY <1>4 DEF handlerVars, Call
  <2>2. QED
    BY <1>3, <1>4, <1>5, <2>1 DEF Serving
<1>11. \A d \in Clients : req[d].len \in Nat \ {0} /\ req[d].data \in Nat
  BY RequestTypes DEF ConnInv
<1>12. RepliesInv'
  <2>1. UNCHANGED <<req, status, body, closed, pos, bytes_read, sent>>
    BY DEF replyVars, handlerVars, Call
  <2>2. \A d \in Clients : ReplyInv(d) /\ (closed[d] = "no" => Unanswered(d))
    BY <1>10 DEF ConnInv, RepliesInv, ReplyInv
  <2>3. \A d \in Clients : ReplyInv(d)'
    <3> TAKE d \in Clients
    <3>1. /\ body'[d] = body[d] /\ status'[d] = status[d]
          /\ req'[d] = req[d] /\ closed'[d] = closed[d]
      BY <2>1
    <3>2. ReplyInv(d) /\ (closed[d] = "no" => Unanswered(d))
      BY <2>2
    <3>3. QED
      BY <3>1, <3>2 DEF ReplyInv, Unanswered, Prefix
  <2>4. pos = 0 /\ bytes_read = 0 /\ sent = 0
    BY DEF ConnInv, RepliesInv
  <2>5. \A d \in Clients : Serving(d)' => ChunkInv(d)'
    BY <1>1, <1>2, <1>10, <1>11, <2>1, <2>2, <2>4 DEF ChunkInv, Unanswered, Call
  <2>6. QED
    BY <2>1, <2>3, <2>4, <2>5 DEF RepliesInv
<1>13. AnswersInv'
  BY <1>1, <1>2, <1>10, <1>11, BufsizeAssumption
  DEF ConnInv, AnswersInv, AnswerInv, ReturnInv, HeadTaken, ReadEnds, Complete, Gone,
      replyVars, handlerVars, Call
<1>14. QED
  BY <1>6, <1>7, <1>8, <1>9, <1>12, <1>13 DEF ConnInv

\* handle_connection is called on the descriptor of an open connection.
LEMMA ConnCall ==
  ASSUME ConnInv, NEW c \in Clients, fd_of[c] # NoFd, Call(fd_of[c]),
         UNCHANGED <<kernelVars, replyVars>>
  PROVE  ConnInv'
<1>1. /\ UNCHANGED <<req, peer, wrote, taken, backlog, fd_of, file, closed, status, body>>
      /\ UNCHANGED <<total_len, pos, bytes_read, sent>>
      /\ hpc = "idle" /\ hpc' = "recv" /\ hsock = NoFd /\ hsock' = fd_of[c]
  BY DEF Call, kernelVars, replyVars, ConnInv
<1>2. HandlerInv' /\ FdsInv' /\ QueueInv' /\ FileOpenWhileUsed'
  BY <1>1 DEF ConnInv, HandlerInv, SocketsTypeOK, HandlerTypeOK, FdsInv, QueueInv, FileOpenWhileUsed
<1>3. \A d \in Clients : ~Serving(d) /\ (Serving(d)' => d = c)
  BY <1>1 DEF ConnInv, FdsInv, Serving
<1>4. closed[c] = "no" /\ req[c].len \in Nat \ {0} /\ req[c].data \in Nat
  BY RequestTypes DEF ConnInv, FdsInv
<1>5. RepliesInv'
  BY <1>1, <1>3, <1>4 DEF ConnInv, RepliesInv, ReplyInv, ChunkInv, Unanswered, Prefix
<1>6. AnswersInv'
  BY <1>1, <1>3, <1>4, BufsizeAssumption
  DEF ConnInv, AnswersInv, AnswerInv, ReturnInv, HeadTaken, ReadEnds, Complete, Gone
<1>7. QED
  BY <1>1, <1>2, <1>5, <1>6 DEF ConnInv

\* The handler has returned and its connection is closed.
LEMMA ConnClose ==
  ASSUME ConnInv, NEW c \in Clients, Serving(c), Returned, CloseConnection(c), Forget,
         UNCHANGED <<req, peer, wrote, taken, backlog, file, replyVars>>
  PROVE  ConnInv'
<1>1. /\ UNCHANGED <<req, peer, wrote, taken, backlog, file, status, body>>
      /\ hpc' = "idle" /\ hsock' = NoFd
      /\ total_len' = 0 /\ pos' = 0 /\ bytes_read' = 0 /\ sent' = 0
  BY DEF Forget, replyVars
<1>2. fd_of \in [Clients -> Fds \cup {NoFd}] /\ closed \in [Clients -> {"no", "fin", "rst"}]
  BY DEF ConnInv, HandlerInv, SocketsTypeOK
<1>3. /\ fd_of'[c] = NoFd /\ closed'[c] = IF HasInput(c) THEN "rst" ELSE "fin"
      /\ \A d \in Clients : d # c => fd_of'[d] = fd_of[d] /\ closed'[d] = closed[d]
      /\ fd_of' \in [Clients -> Fds \cup {NoFd}]
      /\ closed' \in [Clients -> {"no", "fin", "rst"}]
  BY <1>2 DEF CloseConnection
<1>4. HandlerInv'
  BY <1>1, <1>3, BufsizeAssumption DEF ConnInv, HandlerInv, SocketsTypeOK, HandlerTypeOK
<1>5. FdsInv'
  BY <1>1, <1>3 DEF ConnInv, FdsInv, NoFd, Reserved, ListenFd
<1>6. fd_of[c] # NoFd /\ closed[c] = "no" /\ peer[c] # "new"
  BY DEF ConnInv, FdsInv, QueueInv, Serving
<1>7. QueueInv'
  <2>1. \A k \in DOMAIN backlog : backlog[k] \in Clients /\ backlog[k] # c
    BY <1>6 DEF ConnInv, QueueInv, HandlerInv, SocketsTypeOK
  <2>2. QED
    BY <1>1, <1>3, <1>6, <2>1 DEF ConnInv, QueueInv
<1>8. FileOpenWhileUsed' /\ (hpc = "idle" <=> hsock = NoFd)'
  BY <1>1 DEF ConnInv, FileOpenWhileUsed, Returned
<1>9. \A d \in Clients : ~Serving(d)' /\ (d # c => ~Serving(d))
  BY <1>1 DEF ConnInv, FdsInv, Serving
<1>10. RepliesInv'
  BY <1>1, <1>3, <1>9 DEF ConnInv, RepliesInv, ReplyInv, Unanswered, Prefix
<1>11. AnswerInv(c)'
  <2>1. AnswerInv(c) /\ ReturnInv(c)
    BY DEF ConnInv, AnswersInv
  <2>2. ~Gone(c) /\ HeadTaken(c) => Complete(c)
    BY <2>1 DEF ReturnInv, Returned
  <2>3. QED
    BY <1>1, <1>3, <2>1, <2>2 DEF AnswerInv, HeadTaken, ReadEnds, Complete, Gone
<1>12. \A d \in Clients : d # c => AnswerInv(d)'
  BY <1>1, <1>3, <1>9 DEF ConnInv, AnswersInv, AnswerInv, HeadTaken, ReadEnds, Complete, Gone
<1>13. AnswersInv'
  BY <1>1, <1>9, <1>11, <1>12 DEF AnswersInv
<1>14. QED
  BY <1>4, <1>5, <1>7, <1>8, <1>10, <1>13 DEF ConnInv

-----------------------------------------------------------------------------
(***************************************************************************)
(* Why ClosedWithoutReset holds: when the handler has returned, the head has*)
(* been read, unless it did not fit or the client is gone, so that any byte *)
(* left unread lies behind it.                                              *)
(***************************************************************************)
LEMMA ResetStutter ==
  ASSUME ClosedWithoutReset, UNCHANGED <<req, peer, wrote, closed>>
  PROVE  ClosedWithoutReset'
BY DEF ClosedWithoutReset, Gone

LEMMA ResetPeer ==
  ASSUME HandlerInv, ClosedWithoutReset, NEW c \in Clients, Peer(c)
  PROVE  ClosedWithoutReset'
<1>1. UNCHANGED <<req, closed>>
  BY PeerFrame
<1>2. \A d \in Clients : Gone(d) => Gone(d)'
  BY DEF HandlerInv, SocketsTypeOK, Gone, Peer, Connect, Deliver, Finish, Abort, Refuse
<1>3. \A d \in Clients : wrote[d] \in Nat /\ wrote'[d] \in Nat /\ wrote[d] <= wrote'[d]
  <2>1. wrote \in [Clients -> Nat]
    BY DEF HandlerInv, SocketsTypeOK
  <2>2. wrote' = wrote \/ wrote' = [wrote EXCEPT ![c] = wrote[c] + 1]
    BY DEF Peer, Connect, Deliver, Finish, Abort, Refuse
  <2>3. QED
    BY <2>1, <2>2
<1>4. \A d \in Clients : req[d].len \in Nat
  BY RequestTypes
<1>5. QED
  BY <1>1, <1>2, <1>3, <1>4 DEF ClosedWithoutReset

LEMMA ResetClose ==
  ASSUME ConnInv, ClosedWithoutReset, NEW c \in Clients, Serving(c), Returned,
         CloseConnection(c), UNCHANGED <<req, peer, wrote>>
  PROVE  ClosedWithoutReset'
<1>1. /\ wrote[c] \in Nat /\ taken[c] \in Nat /\ req[c].len \in Nat /\ ReturnInv(c)
  BY RequestTypes DEF ConnInv, HandlerInv, SocketsTypeOK, AnswersInv
<1>2. HasInput(c) => wrote[c] > req[c].len \/ req[c].len > BUFSIZE - 1 \/ Gone(c)
  BY <1>1, BufsizeAssumption
  DEF ReturnInv, Returned, HeadTaken, ReadEnds, HasInput, Pending, AtEnd
<1>3. /\ closed'[c] = IF HasInput(c) THEN "rst" ELSE "fin"
      /\ \A d \in Clients : d # c => closed'[d] = closed[d]
  BY DEF CloseConnection, ConnInv, HandlerInv, SocketsTypeOK
<1>4. QED
  BY <1>2, <1>3 DEF ClosedWithoutReset, Gone

-----------------------------------------------------------------------------
(***************************************************************************)
(* Why no existing file is answered 404 as long as a descriptor is left for *)
(* fopen().                                                                 *)
(***************************************************************************)
FoundInv ==
  /\ NotFoundOnlyWhenMissing
  /\ hpc = "notfound" => \A c \in Clients : Serving(c) => req[c].kind = "missing"

LEMMA FoundHandleStep ==
  ASSUME HandlerInv, FdsInv, FoundInv, hpc = "open" => FreeFds # {},
         NEW c \in Clients, HandleStep(c)
  PROVE  FoundInv'
<1>1. /\ UNCHANGED <<req, fd_of, hsock>> /\ Serving(c)
      /\ \A d \in Clients : Serving(d)' => d = c
  BY HandleStepFrame DEF FdsInv, Serving
<1>2. CASE FopenFails(c)
  <2>1. req[c].kind = "missing"
    BY <1>2 DEF FopenFails
  <2>2. QED
    BY <1>1, <1>2, <2>1 DEF FopenFails, FoundInv, NotFoundOnlyWhenMissing, replyVars
<1>3. CASE SendNotFound(c)
  <2>1. req[c].kind = "missing" /\ hpc' = "done"
    BY <1>1, <1>3 DEF SendNotFound, FoundInv
  <2>2. \A d \in Clients : d # c => status'[d] = status[d]
    BY <1>3 DEF SendNotFound, HandlerInv, SocketsTypeOK
  <2>3. QED
    BY <1>1, <2>1, <2>2 DEF FoundInv, NotFoundOnlyWhenMissing
<1>4. CASE SendHeader(c)
  <2>1. hpc' = "read" /\ \A d \in Clients : status'[d] \in {status[d], "200"}
    BY <1>4 DEF SendHeader, HandlerInv, SocketsTypeOK
  <2>2. QED
    BY <1>1, <2>1 DEF FoundInv, NotFoundOnlyWhenMissing
<1>5. CASE ~(FopenFails(c) \/ SendNotFound(c) \/ SendHeader(c))
  <2>1. status' = status /\ hpc' # "notfound"
    BY <1>5 DEF HandleStep, Recv, RecvFails, ParseFails, Fopen, Fread, FreadEnds, Send,
       SendFailed, SendKilled, replyVars
  <2>2. QED
    BY <1>1, <2>1 DEF FoundInv, NotFoundOnlyWhenMissing
<1>6. QED
  BY <1>2, <1>3, <1>4, <1>5

\* Nobody but the handler answers.
LEMMA FoundStutter ==
  ASSUME FoundInv, UNCHANGED <<req, status, fd_of, hpc, hsock>>
  PROVE  FoundInv'
BY DEF FoundInv, NotFoundOnlyWhenMissing, Serving

LEMMA FoundElsewhere ==
  ASSUME FoundInv, UNCHANGED <<req, status>>, hpc' # "notfound"
  PROVE  FoundInv'
BY DEF FoundInv, NotFoundOnlyWhenMissing

-----------------------------------------------------------------------------
(***************************************************************************)
(* The service: what each way of moving the connections is, seen as a step  *)
(* of HttpService.  The steps not named here move none of its variables.    *)
(***************************************************************************)
LEMMA ServiceInit == SocketsInit => Service!Init
<1> SUFFICES ASSUME SocketsInit PROVE Service!Init
  OBVIOUS
<1>1. \A c \in Clients : req[c].len \in Nat \ {0} /\ taken[c] = 0 /\ peer[c] = "new"
  <2>1. \A r \in Requests : r.len \in Nat \ {0}
    BY RequestsAssumption
  <2>2. QED
    BY <2>1 DEF SocketsInit
<1>2. \A c \in Clients : ~HeadTaken(c) /\ ~Gone(c)
  <2>1. BUFSIZE - 1 # 0
    BY BufsizeAssumption
  <2>2. ASSUME NEW c \in Clients PROVE ~HeadTaken(c)
    <3>1. taken[c] = 0 /\ ~(0 >= req[c].len)
      BY <1>1
    <3>2. QED
      BY <2>1, <3>1 DEF HeadTaken, ReadEnds
  <2>3. \A c \in Clients : ~Gone(c)
    BY <1>1 DEF Gone
  <2>4. QED
    BY <2>2, <2>3
<1>3. QED
  BY <1>2 DEF Service!Init, SocketsInit

LEMMA ServiceStutter ==
  ASSUME UNCHANGED <<req, peer, taken, closed, replyVars>>
  PROVE  UNCHANGED Service!serviceVars
<1>1. \A c \in Clients : HeadTaken(c)' = HeadTaken(c) /\ Gone(c)' = Gone(c)
  BY DEF HeadTaken, ReadEnds, Gone
<1>2. QED
  BY <1>1 DEF Service!serviceVars, replyVars

\* An abort, or a reset that answers a reply, is a loss; what else a client does
\* the service does not see.
LEMMA ServicePeer ==
  ASSUME ConnInv, NEW c \in Clients, Peer(c)
  PROVE  [Service!Next]_(Service!serviceVars)
<1>1. UNCHANGED <<req, taken, closed, replyVars>>
  BY PeerFrame
<1>2. {d \in Clients : HeadTaken(d)}' = {d \in Clients : HeadTaken(d)}
  BY <1>1 DEF HeadTaken, ReadEnds
<1>3. peer \in [Clients -> {"new", "up", "fin", "rst", "broken"}]
  BY DEF ConnInv, HandlerInv, SocketsTypeOK
<1>4. CASE Abort(c) \/ Refuse(c)
  <2>1. \A d \in Clients : Gone(d)' <=> Gone(d) \/ d = c
    BY <1>3, <1>4 DEF Abort, Refuse, Gone
  <2>2. Service!Lose(c)
    BY <1>1, <1>2, <2>1 DEF Service!Lose, replyVars
  <2>3. QED
    BY <2>2 DEF Service!Next
<1>5. CASE ~(Abort(c) \/ Refuse(c))
  <2>1. \A d \in Clients : Gone(d)' <=> Gone(d)
    BY <1>3, <1>5 DEF Peer, Connect, Deliver, Finish, Gone
  <2>2. QED
    BY <1>1, <1>2, <2>1 DEF Service!serviceVars, replyVars
<1>6. QED
  BY <1>4, <1>5

\* The step of recv() that completes a head hears the request, the two heads and
\* the sends are the answer.
LEMMA ServiceHandleStep ==
  ASSUME ConnInv, NEW c \in Clients, HandleStep(c)
  PROVE  [Service!Next]_(Service!serviceVars)
<1>1. UNCHANGED <<req, peer, closed>> /\ Serving(c) /\ closed[c] = "no"
  BY HandleStepFrame DEF ConnInv, FdsInv, Serving
<1>2. \A d \in Clients : d # c => ~Serving(d)
  BY <1>1 DEF ConnInv, FdsInv, Serving
<1>3. {d \in Clients : Gone(d)}' = {d \in Clients : Gone(d)}
  BY <1>1 DEF Gone
<1>4. /\ status \in [Clients -> {"none", "200", "404"}] /\ body \in [Clients -> Seq(Nat)]
      /\ taken \in [Clients -> Nat] /\ req[c].len \in Nat \ {0} /\ req[c].data \in Nat
      /\ total_len \in Nat /\ pos \in Nat /\ bytes_read \in Nat /\ sent \in Nat
      /\ bytes_read <= pos /\ sent <= bytes_read
  BY RequestTypes, BufsizeAssumption DEF ConnInv, HandlerInv, SocketsTypeOK, HandlerTypeOK
<1>5. ReturnInv(c) /\ ChunkInv(c)
  BY <1>1 DEF ConnInv, RepliesInv, AnswersInv
<1>6. CASE \E n \in 1 .. BUFSIZE - 1 : Recv(c, n)
  <2>1. UNCHANGED <<status, body>> /\ \A d \in Clients : d # c => taken'[d] = taken[d]
    BY <1>4, <1>6 DEF Recv, replyVars
  <2>2. \A d \in Clients : d # c => (HeadTaken(d)' <=> HeadTaken(d))
    BY <1>1, <2>1 DEF HeadTaken, ReadEnds
  <2>3. ~HeadTaken(c)
    BY <1>5, <1>6 DEF ReturnInv, Recv
  <2>4. \A d \in Clients : HeadTaken(d) => closed[d] # "no"
    <3>1. SUFFICES ASSUME NEW d \in Clients, d # c, closed[d] = "no" PROVE ~HeadTaken(d)
      BY <2>3
    <3>2. taken[d] = 0 /\ req[d].len \in Nat \ {0}
      BY <1>2, <3>1, RequestTypes DEF ConnInv, AnswersInv, AnswerInv
    <3>3. QED
      BY <3>2, BufsizeAssumption DEF HeadTaken, ReadEnds
  <2>5. CASE HeadTaken(c)'
    <3>1. Service!Hear(c)
      BY <1>1, <1>3, <2>1, <2>2, <2>4, <2>5 DEF Service!Hear, Service!Open
    <3>2. QED
      BY <3>1 DEF Service!Next
  <2>6. CASE ~HeadTaken(c)'
    BY <1>1, <1>3, <2>1, <2>2, <2>3, <2>6 DEF Service!serviceVars
  <2>7. QED
    BY <2>5, <2>6
<1>7. CASE SendNotFound(c) \/ SendHeader(c)
  <2>1. taken' = taken /\ body' = body
    BY <1>7 DEF SendNotFound, SendHeader, kernelVars
  <2>2. {d \in Clients : HeadTaken(d)}' = {d \in Clients : HeadTaken(d)}
    BY <1>1, <2>1 DEF HeadTaken, ReadEnds
  <2>3. HeadTaken(c) /\ status[c] = "none"
    BY <1>5, <1>7 DEF ReturnInv, ChunkInv, Unanswered, SendNotFound, SendHeader
  <2>4. \/ req[c].kind = "file" /\ status' = [status EXCEPT ![c] = "200"]
        \/ req[c].kind # "malformed" /\ status' = [status EXCEPT ![c] = "404"]
    BY <1>5, <1>7 DEF ChunkInv, SendNotFound, SendHeader
  <2>5. Service!Begin(c)
    BY <1>1, <1>3, <2>1, <2>2, <2>3, <2>4 DEF Service!Begin, Service!Open
  <2>6. QED
    BY <2>5 DEF Service!Next
<1>8. CASE \E n \in 1 .. BUFSIZE : Send(c, n)
  <2>1. PICK n \in 1 .. BUFSIZE : Send(c, n)
    BY <1>8
  <2>2. taken' = taken /\ status' = status
    BY <2>1 DEF Send, kernelVars
  <2>3. {d \in Clients : HeadTaken(d)}' = {d \in Clients : HeadTaken(d)}
    BY <1>1, <2>2 DEF HeadTaken, ReadEnds
  <2>4. HeadTaken(c) /\ status[c] = "200" /\ Len(body[c]) = pos - bytes_read + sent
    BY <1>5, <2>1 DEF ReturnInv, ChunkInv, Send
  <2>5. n <= req[c].data - Len(body[c]) /\ n \in 1 .. req[c].data
    <3>1. n <= bytes_read - sent /\ pos <= req[c].data
      BY <1>5, <2>1 DEF ChunkInv, Send
    <3>2. /\ n \in Nat \ {0} /\ Len(body[c]) \in Nat /\ req[c].data \in Int
          /\ pos \in Int /\ bytes_read \in Int /\ sent \in Int
      BY <1>4, BufsizeAssumption
    <3>3. QED
      BY <2>4, <3>1, <3>2
  <2>6. body' = [body EXCEPT ![c] = body[c] \o [k \in 1 .. n |-> Len(body[c]) + k]]
    BY <2>1, <2>4 DEF Send
  <2>7. Service!Continue(c, n)
    BY <1>1, <1>3, <2>2, <2>3, <2>4, <2>5, <2>6 DEF Service!Continue, Service!Open
  <2>8. QED
    BY <2>5, <2>7 DEF Service!Next
<1>9. CASE \/ RecvFails(c) \/ ParseFails(c) \/ Fopen(c) \/ FopenFails(c) \/ Fread(c)
           \/ FreadEnds(c) \/ SendFailed(c) \/ SendKilled(c)
  <2>1. UNCHANGED <<req, peer, taken, closed, replyVars>>
    BY <1>1, <1>9 DEF RecvFails, ParseFails, Fopen, FopenFails, Fread, FreadEnds, SendFailed,
       SendKilled, kernelVars
  <2>2. QED
    BY <2>1, ServiceStutter
<1>10. QED
  BY <1>6, <1>7, <1>8, <1>9 DEF HandleStep

\* A close() after the handler has returned ends a connection in order.
LEMMA ServiceClose ==
  ASSUME ConnInv, NEW c \in Clients, Serving(c), Returned, CloseConnection(c),
         UNCHANGED <<req, peer, taken, replyVars>>
  PROVE  [Service!Next]_(Service!serviceVars)
<1>1. closed[c] = "no"
  BY DEF ConnInv, FdsInv, Serving
<1>2. HeadTaken(c) /\ ~Gone(c) => Service!Answered(c)
  BY DEF ConnInv, AnswersInv, ReturnInv, Returned, Complete, Service!Answered
<1>3. \E how \in {"fin", "rst"} : closed' = [closed EXCEPT ![c] = how]
  BY DEF CloseConnection
<1>4. /\ {d \in Clients : HeadTaken(d)}' = {d \in Clients : HeadTaken(d)}
      /\ {d \in Clients : Gone(d)}' = {d \in Clients : Gone(d)}
  BY DEF HeadTaken, ReadEnds, Gone
<1>5. Service!End(c)
  BY <1>1, <1>2, <1>3, <1>4 DEF Service!End, Service!Open, replyVars
<1>6. QED
  BY <1>5 DEF Service!Next

=============================================================================
