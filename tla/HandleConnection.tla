--------------------------- MODULE HandleConnection ---------------------------
(***************************************************************************)
(* handle_connection(sock), the function that http_server1.c and            *)
(* http_server2.c share word for word: read a request, open the file it     *)
(* names, send the reply.  It runs in the only thread of the process, so    *)
(* its local variables are global here, and hpc says where it stands.       *)
(* Every recv(), fopen(), fread() and send() is a step of its own: between  *)
(* two of them the clients move.                                            *)
(*                                                                          *)
(* Data is abstracted to lengths: a request to how many bytes lead to the   *)
(* blank line, how many may follow it and what its first line asks for, a   *)
(* file to its size.                                                        *)
(***************************************************************************)
EXTENDS Sockets, FiniteSets

CONSTANT BUFSIZE   \* the size of buf

ASSUME BufsizeAssumption == BUFSIZE \in Nat /\ BUFSIZE > 1

VARIABLES
  hpc,         \* the next statement of handle_connection
  hsock,       \* its parameter sock
  total_len,   \* bytes of the request read so far
  pos,         \* the position in the file
  bytes_read,  \* the size of the chunk in buf
  sent         \* how much of that chunk has been sent

localVars   == <<hsock, total_len, pos, bytes_read, sent>>
handlerVars == <<hpc, hsock, total_len, pos, bytes_read, sent>>

HandlerInit ==
  /\ hpc = "idle"
  /\ hsock = NoFd
  /\ total_len = 0
  /\ pos = 0
  /\ bytes_read = 0
  /\ sent = 0

\* The function is entered with the descriptor s.
Call(s) ==
  /\ hpc = "idle"
  /\ hpc' = "recv"
  /\ hsock' = s
  /\ UNCHANGED <<total_len, pos, bytes_read, sent>>

\* It has returned: 0 from "done", -1 from "failed".
Returned == hpc \in {"done", "failed"}

\* The frame of the call is popped.
Forget ==
  /\ hpc' = "idle"
  /\ hsock' = NoFd
  /\ total_len' = 0
  /\ pos' = 0
  /\ bytes_read' = 0
  /\ sent' = 0

Serving(c) == hsock # NoFd /\ fd_of[c] = hsock

-----------------------------------------------------------------------------
(***************************************************************************)
(* Reading the request.                                                     *)
(***************************************************************************)

\* With n bytes in buf the loop ends: the blank line is among them, or buf is full.
ReadEnds(c, n) == n >= req[c].len \/ n = BUFSIZE - 1

\* Faulty variant: recv() is offered the whole of buf every time.
Recv_NoBound(c, n) ==
  /\ hpc = "recv"
  /\ Serving(c)
  /\ n <= Pending(c)
  /\ taken'     = [taken EXCEPT ![c] = @ + n]
  /\ total_len' = total_len + n
  /\ hpc' = IF ReadEnds(c, total_len') THEN "open" ELSE "recv"
  /\ UNCHANGED <<req, peer, wrote, backlog, fd_of, file, closed, replyVars>>
  /\ UNCHANGED <<hsock, pos, bytes_read, sent>>

\* Faulty variant: one recv() is taken for the whole request, as in the code that
\* http_server2.c:55-62 keeps in a comment.
Recv_Once(c, n) ==
  /\ hpc = "recv"
  /\ Serving(c)
  /\ n <= Pending(c)
  /\ taken'     = [taken EXCEPT ![c] = @ + n]
  /\ total_len' = n
  /\ hpc'       = "open"
  /\ UNCHANGED <<req, peer, wrote, backlog, fd_of, file, closed, replyVars>>
  /\ UNCHANGED <<hsock, pos, bytes_read, sent>>

\* recv() returns some of what has arrived, never more than fits in buf, but perhaps
\* more than the head.
Recv(c, n) ==
  /\ hpc = "recv"
  /\ Serving(c)
  /\ n <= Pending(c)
  /\ n <= BUFSIZE - 1 - total_len
  /\ taken'     = [taken EXCEPT ![c] = @ + n]
  /\ total_len' = total_len + n
  /\ hpc' = IF ReadEnds(c, total_len') THEN "open" ELSE "recv"
  /\ UNCHANGED <<req, peer, wrote, backlog, fd_of, file, closed, replyVars>>
  /\ UNCHANGED <<hsock, pos, bytes_read, sent>>

\* Faulty variant: 0 from recv() is not taken for a failure.
RecvFails_NotAtEof(c) ==
  /\ hpc = "recv"
  /\ Serving(c)
  /\ Gone(c)
  /\ hpc' = "failed"
  /\ UNCHANGED <<kernelVars, replyVars, localVars>>

\* recv() returns 0 at the end of the stream or -1 after an abort: -1 to main.
RecvFails(c) ==
  /\ hpc = "recv"
  /\ Serving(c)
  /\ AtEnd(c)
  /\ hpc' = "failed"
  /\ UNCHANGED <<kernelVars, replyVars, localVars>>

\* sscanf() does not find three tokens: no reply at all.
ParseFails(c) ==
  /\ hpc = "open"
  /\ Serving(c)
  /\ req[c].kind = "malformed"
  /\ hpc' = "failed"
  /\ UNCHANGED <<kernelVars, replyVars, localVars>>

-----------------------------------------------------------------------------
(***************************************************************************)
(* Opening the file.                                                        *)
(***************************************************************************)

Fopen(c) ==
  /\ hpc = "open"
  /\ Serving(c)
  /\ req[c].kind = "file"
  /\ \E fd \in Fds : LowestFree(fd) /\ file' = fd
  /\ hpc' = "header"
  /\ UNCHANGED <<req, peer, wrote, taken, backlog, fd_of, closed>>
  /\ UNCHANGED <<replyVars, localVars>>

\* Faulty variant: fopen() may fail on a file that could be opened.
FopenFails_Always(c) ==
  /\ hpc = "open"
  /\ Serving(c)
  /\ req[c].kind # "malformed"
  /\ hpc' = "notfound"
  /\ UNCHANGED <<kernelVars, replyVars, localVars>>

\* fopen() returns NULL when the file does not exist, and just as well when the
\* process has no descriptor left.
FopenFails(c) ==
  /\ hpc = "open"
  /\ Serving(c)
  /\ \/ req[c].kind = "missing"
     \/ req[c].kind = "file" /\ FreeFds = {}
  /\ hpc' = "notfound"
  /\ UNCHANGED <<kernelVars, replyVars, localVars>>

-----------------------------------------------------------------------------
(***************************************************************************)
(* Sending the reply.  The two heads are shorter than the free buffer of a  *)
(* new socket, so the single send() each gets takes all of it.              *)
(***************************************************************************)

SendNotFound(c) ==
  /\ hpc = "notfound"
  /\ Serving(c)
  /\ SendOk(c)
  /\ status' = [status EXCEPT ![c] = "404"]
  /\ hpc' = "done"
  /\ UNCHANGED <<kernelVars, body, localVars>>

SendHeader(c) ==
  /\ hpc = "header"
  /\ Serving(c)
  /\ SendOk(c)
  /\ status' = [status EXCEPT ![c] = "200"]
  /\ hpc' = "read"
  /\ UNCHANGED <<kernelVars, body, localVars>>

\* The next chunk of the file.
Fread(c) ==
  /\ hpc = "read"
  /\ Serving(c)
  /\ pos < req[c].data
  /\ bytes_read' = IF req[c].data - pos < BUFSIZE THEN req[c].data - pos ELSE BUFSIZE
  /\ pos' = pos + bytes_read'
  /\ sent' = 0
  /\ hpc' = "send"
  /\ UNCHANGED <<kernelVars, replyVars, hsock, total_len>>

\* The end of the file: fclose() and return 0.
FreadEnds(c) ==
  /\ hpc = "read"
  /\ Serving(c)
  /\ pos = req[c].data
  /\ file' = NoFd
  /\ hpc' = "done"
  /\ UNCHANGED <<req, peer, wrote, taken, backlog, fd_of, closed>>
  /\ UNCHANGED <<replyVars, localVars>>

\* Faulty variant: after a short send() the chunk is sent from its start again.
Send_FromStart(c, n) ==
  /\ hpc = "send"
  /\ Serving(c)
  /\ SendOk(c)
  /\ n <= bytes_read - sent
  /\ body' = [body EXCEPT ![c] = @ \o [k \in 1 .. n |-> pos - bytes_read + k]]
  /\ sent' = sent + n
  /\ hpc' = IF sent' = bytes_read THEN "read" ELSE "send"
  /\ UNCHANGED <<kernelVars, status, hsock, total_len, pos, bytes_read>>

\* Faulty variant: a short send() is taken for a full one.
Send_Once(c, n) ==
  /\ hpc = "send"
  /\ Serving(c)
  /\ SendOk(c)
  /\ n <= bytes_read - sent
  /\ body' = [body EXCEPT ![c] = @ \o [k \in 1 .. n |-> pos - bytes_read + sent + k]]
  /\ sent' = sent + n
  /\ hpc' = "read"
  /\ UNCHANGED <<kernelVars, status, hsock, total_len, pos, bytes_read>>

\* send() takes n bytes of what is left of the chunk, perhaps not all.
Send(c, n) ==
  /\ hpc = "send"
  /\ Serving(c)
  /\ SendOk(c)
  /\ n <= bytes_read - sent
  /\ body' = [body EXCEPT ![c] = @ \o [k \in 1 .. n |-> pos - bytes_read + sent + k]]
  /\ sent' = sent + n
  /\ hpc' = IF sent' = bytes_read THEN "read" ELSE "send"
  /\ UNCHANGED <<kernelVars, status, hsock, total_len, pos, bytes_read>>

\* Faulty variant: the error path does not fclose().
SendFailed_Leak(c) ==
  /\ hpc \in {"notfound", "header", "send"}
  /\ Serving(c)
  /\ SendFails(c)
  /\ hpc' = "failed"
  /\ UNCHANGED <<kernelVars, replyVars, localVars>>

\* send() returns -1; the file is closed where it was open.
SendFailed(c) ==
  /\ hpc \in {"notfound", "header", "send"}
  /\ Serving(c)
  /\ SendFails(c)
  /\ file' = NoFd
  /\ hpc' = "failed"
  /\ UNCHANGED <<req, peer, wrote, taken, backlog, fd_of, closed>>
  /\ UNCHANGED <<replyVars, localVars>>

\* SIGPIPE, which nothing handles or ignores, ends the process.
SendKilled(c) ==
  /\ hpc \in {"notfound", "header", "send"}
  /\ Serving(c)
  /\ SendKills(c)
  /\ hpc' = "dead"
  /\ UNCHANGED <<kernelVars, replyVars, localVars>>

HandleStep(c) ==
  \/ \E n \in 1 .. BUFSIZE - 1 : Recv(c, n)
  \/ RecvFails(c)
  \/ ParseFails(c)
  \/ Fopen(c)
  \/ FopenFails(c)
  \/ SendNotFound(c)
  \/ SendHeader(c)
  \/ Fread(c)
  \/ FreadEnds(c)
  \/ \E n \in 1 .. BUFSIZE : Send(c, n)
  \/ SendFailed(c)
  \/ SendKilled(c)

HandlerTypeOK ==
  /\ hpc \in {"idle", "recv", "open", "notfound", "header", "read", "send",
              "done", "failed", "dead"}
  /\ hsock \in Fds \cup {NoFd}
  /\ total_len  \in 0 .. BUFSIZE - 1
  /\ pos        \in Nat
  /\ bytes_read \in 0 .. BUFSIZE
  /\ sent       \in 0 .. BUFSIZE

-----------------------------------------------------------------------------
(***************************************************************************)
(* What a caller of handle_connection may rely on, in either server.        *)
(***************************************************************************)

\* Every FILE that fopen() returned is closed on every path out of the function,
\* and is open on exactly the paths that use it (http_server2.c:105-147).
FileOpenWhileUsed == hpc # "dead" => (file # NoFd <=> hpc \in {"header", "read", "send"})

\* A client never sees a byte of its reply twice, out of order or before a 200
\* head, whatever send() splits the chunks into and however the handling ends;
\* 200 answers only existing files, and malformed requests get nothing
\* (http_server2.c:88-144).
ReplyFaithful ==
  \A c \in Clients :
    /\ body[c] = [k \in 1 .. Len(body[c]) |-> k]
    /\ Len(body[c]) <= req[c].data
    /\ body[c] # <<>> => status[c] = "200"
    /\ status[c] = "200" => req[c].kind = "file"
    /\ req[c].kind = "malformed" => status[c] = "none"

\* The request of c has been read: to its blank line, or until buf was full.
HeadTaken(c) == ReadEnds(c, taken[c])

\* A client that did not abort and whose request could be parsed has its whole
\* answer when the server closes: the Content-length bytes of the file that the
\* head announced, or the 404 page (http_server2.c:84-148).
CompleteWhenClosed ==
  \A c \in Clients :
    closed[c] # "no" /\ ~Gone(c) /\ HeadTaken(c) =>
      \/ req[c].kind = "malformed"
      \/ status[c] = "404"
      \/ status[c] = "200" /\ Len(body[c]) = req[c].data

\* The server closes on unread input, which may destroy the reply, only on a client
\* that sent something behind the blank line or whose head does not fit in buf: of a
\* request that ends with its head it never leaves a byte unread, however the bytes
\* arrive and whatever becomes of the reply (http_server2.c:65-84, 287).
ClosedWithoutReset ==
  \A c \in Clients :
    closed[c] = "rst" => wrote[c] > req[c].len \/ req[c].len > BUFSIZE - 1 \/ Gone(c)

\* A file that exists is never answered with 404, the process having descriptors
\* enough: fopen() needs one beside those of the connections (README.md:220-226).
NotFoundOnlyWhenMissing ==
  \A c \in Clients : status[c] = "404" => req[c].kind = "missing"

(***************************************************************************)
(* The whole service: requests are read and answered one at a time, though  *)
(* many connections are open, each answer after its own request and in full *)
(* before the connection ends (http_server2.c:64-148, 272-291,              *)
(* http_server1.c:63-147, 203-224).                                         *)
(***************************************************************************)
Service == INSTANCE HttpService
  WITH asked <- req,
       heard <- {c \in Clients : HeadTaken(c)},
       lost  <- {c \in Clients : Gone(c)}

ImplementsService == Service!Spec

\* No client can end the server (README.md:207, 287: repeatedly).
SurvivesClients == hpc # "dead"

=============================================================================
