------------------------------ MODULE HttpClient ------------------------------
(***************************************************************************)
(* http_client: connect, send one request, wait for the reply, collect the  *)
(* head, print the body.  One process per client; the far end of its        *)
(* connection (status, body, closed) is somebody else's.                    *)
(*                                                                          *)
(* The bytes of a reply are numbers: the head is 1 - HeadLen .. 0, where 0  *)
(* is the end of its blank line, and k > 0 is byte k of the file.           *)
(***************************************************************************)
EXTENDS Sockets, FiniteSets

CONSTANTS
  CBUFSIZE,  \* BUFSIZE of http_client.c
  HEADLEN,   \* bytes in the head of the reply to each request, its blank line included
  NulBytes   \* the positions at which the files hold a NUL byte

\* A head may be of any length, longer than headers too.
ASSUME HeadAssumption ==
  /\ CBUFSIZE \in Nat /\ CBUFSIZE > 1
  /\ HEADLEN \in [Requests -> Nat \ {0}]
  /\ NulBytes \subseteq Nat \ {0}

VARIABLES
  cpc,      \* the next statement of each client's main; "undefined" after a write past headers
  got,      \* bytes of the reply it has received
  headers,  \* the C string in its headers array
  out,      \* what it wrote to standard output
  err,      \* what it wrote of the reply to standard error
  code      \* its exit code

clientVars == <<cpc, got, headers, out, err, code>>

ClientInit ==
  /\ cpc     = [c \in Clients |-> "connect"]
  /\ got     = [c \in Clients |-> 0]
  /\ headers = [c \in Clients |-> <<>>]
  /\ out     = [c \in Clients |-> <<>>]
  /\ err     = [c \in Clients |-> <<>>]
  /\ code    = [c \in Clients |-> "none"]

-----------------------------------------------------------------------------

HeadLen(c) == HEADLEN[req[c]]

\* What the server has sent to c so far, and how much of it c has not received.
Stream(c) ==
  IF status[c] = "none" THEN <<>>
  ELSE [k \in 1 .. HeadLen(c) |-> k - HeadLen(c)] \o body[c]
Unread(c) == Len(Stream(c)) - got[c]

\* A buffer read as a C string ends before its first NUL byte.
CString(s) ==
  LET beforeNul == {k \in 1 .. Len(s) : \A j \in 1 .. k : s[j] \notin NulBytes}
  IN  SubSeq(s, 1, Cardinality(beforeNul))

\* recv() hands over the next n bytes, and this is what strcat() or printf() sees.
Text(c, n) == CString(SubSeq(Stream(c), got[c] + 1, got[c] + n))
Receive(c, n) ==
  /\ n <= Unread(c)
  /\ got' = [got EXCEPT ![c] = @ + n]

\* Faulty variant: only the end of headers is looked at.
HasBlankLine_AtEnd(s) == Len(s) > 0 /\ s[Len(s)] = 0

\* Faulty variant: the body is taken to start with the next chunk.
BodyStart_NextChunk(s) == <<>>

\* The blank line is in headers; what follows it there is body.
HasBlankLine(s) == \E k \in 1 .. Len(s) : s[k] = 0
BodyStart(s)    == LET blank == CHOOSE k \in 1 .. Len(s) : s[k] = 0
                   IN  SubSeq(s, blank + 1, Len(s))

\* headers[BUFSIZE*5] has no room for this string and its terminating byte.
Overruns(s) == Len(s) > 5 * CBUFSIZE - 1

\* recv() returns 0 at the end of the reply.  After a reset it returns -1, and
\* what had not been received may be lost.
AtEof(c)  == closed[c] = "fin" /\ Unread(c) = 0
AtReset(c) == closed[c] = "rst"

\* close(s) and the exit code.  Closing on unread input resets the connection.
Exit(c, ret) ==
  /\ cpc'  = [cpc EXCEPT ![c] = "exited"]
  /\ code' = [code EXCEPT ![c] = ret]
  /\ peer' = [peer EXCEPT ![c] = IF Unread(c) > 0 THEN "rst" ELSE "fin"]
  /\ UNCHANGED <<req, wrote, taken, backlog, fd_of, file, closed, replyVars>>

-----------------------------------------------------------------------------

ConnectServer(c) ==
  /\ cpc[c] = "connect"
  /\ Connect(c)
  /\ cpc' = [cpc EXCEPT ![c] = "send"]
  /\ UNCHANGED <<got, headers, out, err, code>>

\* connect() is refused when nobody listens.
ConnectFails(c) ==
  /\ cpc[c] = "connect"
  /\ cpc'  = [cpc EXCEPT ![c] = "exited"]
  /\ code' = [code EXCEPT ![c] = "-1"]
  /\ UNCHANGED <<kernelVars, replyVars, got, headers, out, err>>

\* Faulty variant: every send() is given the length of the whole request.
SendRequest_WholeLength(c, n) ==
  /\ cpc[c] = "send"
  /\ closed[c] # "rst"
  /\ wrote' = [wrote EXCEPT ![c] = @ + n]
  /\ closed' = [closed EXCEPT ![c] = IF @ = "fin" THEN "rst" ELSE @]
  /\ cpc' = [cpc EXCEPT ![c] = IF wrote'[c] >= req[c].len THEN "select" ELSE "send"]
  /\ UNCHANGED <<req, peer, taken, backlog, fd_of, file, replyVars>>
  /\ UNCHANGED <<got, headers, out, err, code>>

\* send() takes n more bytes of the request.  A server that has closed its end
\* answers them with a reset.
SendRequest(c, n) ==
  /\ cpc[c] = "send"
  /\ closed[c] # "rst"
  /\ n <= req[c].len - wrote[c]
  /\ wrote' = [wrote EXCEPT ![c] = @ + n]
  /\ closed' = [closed EXCEPT ![c] = IF @ = "fin" THEN "rst" ELSE @]
  /\ cpc' = [cpc EXCEPT ![c] = IF wrote'[c] = req[c].len THEN "select" ELSE "send"]
  /\ UNCHANGED <<req, peer, taken, backlog, fd_of, file, replyVars>>
  /\ UNCHANGED <<got, headers, out, err, code>>

\* After a reset send() returns -1, or raises SIGPIPE where the end of the stream
\* had come before the reset.
SendRequestFails(c) ==
  /\ cpc[c] = "send"
  /\ AtReset(c)
  /\ \E ret \in {"-1", "signal"} : Exit(c, ret)
  /\ UNCHANGED <<got, headers, out, err>>

\* select() waits until the reply begins or the connection ends.
WaitForReply(c) ==
  /\ cpc[c] = "select"
  /\ Unread(c) > 0 \/ closed[c] # "no"
  /\ cpc' = [cpc EXCEPT ![c] = "head"]
  /\ UNCHANGED <<kernelVars, replyVars, got, headers, out, err, code>>

\* A 200 sends what followed the head to standard output; any other status sends
\* all there is to standard error.
Verdict(c, head) ==
  \/ /\ status[c] = "200"
     /\ cpc' = [cpc EXCEPT ![c] = "body"]
     /\ out' = [out EXCEPT ![c] = BodyStart(head)]
     /\ UNCHANGED err
  \/ /\ status[c] # "200"
     /\ cpc' = [cpc EXCEPT ![c] = "error"]
     /\ err' = [err EXCEPT ![c] = head]
     /\ UNCHANGED out

\* The first read loop appends to headers until the blank line is there.  Nothing bounds
\* it: a strcat() that writes past the array ends what can be said of the program.
RecvHead(c, n) ==
  /\ cpc[c] = "head"
  /\ Receive(c, n)
  /\ headers' = [headers EXCEPT ![c] = @ \o Text(c, n)]
  /\ \/ /\ Overruns(headers'[c])
        /\ cpc' = [cpc EXCEPT ![c] = "undefined"]
        /\ UNCHANGED <<out, err>>
     \/ /\ ~Overruns(headers'[c]) /\ ~HasBlankLine(headers'[c])
        /\ UNCHANGED <<cpc, out, err>>
     \/ /\ ~Overruns(headers'[c]) /\ HasBlankLine(headers'[c])
        /\ Verdict(c, headers'[c])
  /\ UNCHANGED <<kernelVars, replyVars, code>>

\* Faulty variant: recv() returning 0 is not taken for the end.
HeadEnds_NotAtEof(c) ==
  /\ cpc[c] = "head"
  /\ AtReset(c)
  /\ Exit(c, "-1")
  /\ UNCHANGED <<got, headers, out, err>>

\* The connection ends before the head does.
HeadEnds(c) ==
  /\ cpc[c] = "head"
  /\ AtEof(c) \/ AtReset(c)
  /\ Exit(c, "-1")
  /\ UNCHANGED <<got, headers, out, err>>

\* The second read loop prints what it receives.
RecvBody(c, n) ==
  /\ cpc[c] = "body"
  /\ Receive(c, n)
  /\ out' = [out EXCEPT ![c] = @ \o Text(c, n)]
  /\ UNCHANGED <<kernelVars, replyVars, cpc, headers, err, code>>

\* Faulty variant: recv() returning -1 ends the body as well.
BodyEnds_AnyHow(c) ==
  /\ cpc[c] = "body"
  /\ AtEof(c) \/ AtReset(c)
  /\ Exit(c, "0")
  /\ UNCHANGED <<got, headers, out, err>>

\* The end of the stream is the end of the body; an error is an error.
BodyEnds(c) ==
  /\ cpc[c] = "body"
  /\ \/ AtEof(c) /\ Exit(c, "0")
     \/ AtReset(c) /\ Exit(c, "-1")
  /\ UNCHANGED <<got, headers, out, err>>

\* Any other status: the rest of the reply goes to standard error.
RecvError(c, n) ==
  /\ cpc[c] = "error"
  /\ Receive(c, n)
  /\ err' = [err EXCEPT ![c] = @ \o Text(c, n)]
  /\ UNCHANGED <<kernelVars, replyVars, cpc, headers, out, code>>

\* Faulty variant: the rest of an error reply is not read.
ErrorEnds_AtOnce(c) ==
  /\ cpc[c] = "error"
  /\ Exit(c, "-1")
  /\ UNCHANGED <<got, headers, out, err>>

\* Whichever way the reply ends, the exit code is -1.
ErrorEnds(c) ==
  /\ cpc[c] = "error"
  /\ AtEof(c) \/ AtReset(c)
  /\ Exit(c, "-1")
  /\ UNCHANGED <<got, headers, out, err>>

ClientStep(c) ==
  \/ ConnectServer(c)
  \/ \E n \in 1 .. req[c].len : SendRequest(c, n)
  \/ SendRequestFails(c)
  \/ WaitForReply(c)
  \/ \E n \in 1 .. CBUFSIZE - 1 : RecvHead(c, n)
  \/ HeadEnds(c)
  \/ \E n \in 1 .. CBUFSIZE - 1 : RecvBody(c, n)
  \/ BodyEnds(c)
  \/ \E n \in 1 .. CBUFSIZE - 1 : RecvError(c, n)
  \/ ErrorEnds(c)

\* A signal from the user ends the client wherever it stands.
Interrupt(c) ==
  /\ cpc[c] \notin {"connect", "undefined", "exited"}
  /\ Exit(c, "signal")
  /\ UNCHANGED <<got, headers, out, err>>

(***************************************************************************)
(* Type invariant: the client never sends past its request nor receives     *)
(* past the reply, and its other variables have their types.                *)
(***************************************************************************)
ClientTypeOK ==
  /\ cpc \in [Clients -> {"connect", "send", "select", "head", "body", "error",
                         "undefined", "exited"}]
  /\ \A c \in Clients : wrote[c] \in 0 .. req[c].len /\ got[c] \in 0 .. Len(Stream(c))
  /\ headers \in [Clients -> Seq(Int)]
  /\ out     \in [Clients -> Seq(Int)]
  /\ err     \in [Clients -> Seq(Int)]
  /\ code    \in [Clients -> {"none", "0", "-1", "signal"}]

-----------------------------------------------------------------------------

\* A head for which headers[BUFSIZE*5] has room whatever arrives with its last bytes.
HeadFits(c) == HeadLen(c) <= 4 * CBUFSIZE + 1

\* Of a reply with a head of at most 4 * BUFSIZE + 1 bytes, strcat() writes nothing past
\* the end of headers[BUFSIZE*5], however the reply is cut (http_client.c:166, 199).  The
\* loop has no bound of its own: a head one byte longer can overrun the array, and the
\* client is then "undefined".
HeadersFit ==
  \A c \in Clients : HeadFits(c) => ~Overruns(headers[c]) /\ cpc[c] # "undefined"

\* Exit code 0 means that standard output holds the body the server sent, all of
\* it and nothing else, however the reply was cut into chunks (README.md:141-144).
ExitZeroMeansBody ==
  \A c \in Clients : code[c] = "0" => status[c] = "200" /\ out[c] = body[c] /\ err[c] = <<>>

\* A client that exits by itself and was answered an error has written the full
\* reply it was sent, head included, to standard error, and nothing to standard
\* output (README.md:144-147).
ErrorIsReported ==
  \A c \in Clients :
    code[c] = "-1" /\ status[c] = "404" /\ closed[c] = "fin" =>
      err[c] = Stream(c) /\ out[c] = <<>>

=============================================================================
