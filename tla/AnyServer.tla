------------------------------ MODULE AnyServer ------------------------------
(***************************************************************************)
(* http_client against a server that is not this repository's: it answers   *)
(* as HTTP/1.0 has it, in pieces and at a time of its own choosing, or it   *)
(* fails in one of the ways of ServerFaults.                                *)
(*   "silent"  it closes without an answer                                  *)
(*   "rst"     it aborts the connection at any point                        *)
(*   "cut"     it closes in the middle of the body                          *)
(* An error reply has a page too; data is the length of the file or page.   *)
(***************************************************************************)
EXTENDS HttpClient

CONSTANT ServerFaults

anyVars == <<kernelVars, replyVars, clientVars>>

AnyInit == SocketsInit /\ ClientInit

\* The head, once the request is there.
Answer(c) ==
  /\ wrote[c] = req[c].len
  /\ closed[c] = "no" /\ status[c] = "none"
  /\ req[c].kind # "malformed"
  /\ status' = [status EXCEPT ![c] = IF req[c].kind = "file" THEN "200" ELSE "404"]
  /\ UNCHANGED <<kernelVars, body, clientVars>>

\* The next byte of the file or of the error page.
AnswerMore(c) ==
  /\ closed[c] = "no" /\ status[c] # "none"
  /\ Len(body[c]) < req[c].data
  /\ body' = [body EXCEPT ![c] = Append(@, Len(@) + 1)]
  /\ UNCHANGED <<kernelVars, status, clientVars>>

\* The end of the connection.
Hangup(c, how) ==
  /\ peer[c] # "new" /\ closed[c] = "no"
  /\ \/ how = "fin" /\ status[c] # "none" /\ Len(body[c]) = req[c].data
     \/ how = "fin" /\ wrote[c] = req[c].len /\ req[c].kind = "malformed"
     \/ how = "fin" /\ status[c] = "none" /\ "silent" \in ServerFaults
     \/ how = "fin" /\ status[c] # "none" /\ "cut" \in ServerFaults
     \/ how = "rst" /\ "rst" \in ServerFaults
  /\ closed' = [closed EXCEPT ![c] = how]
  /\ UNCHANGED <<req, peer, wrote, taken, backlog, fd_of, file, replyVars, clientVars>>

ServerMoves(c) == Answer(c) \/ AnswerMore(c) \/ \E how \in {"fin", "rst"} : Hangup(c, how)

\* Nobody listens, or the user loses patience.
Unlucky(c) == ConnectFails(c) \/ Interrupt(c)

AnyNext == \E c \in Clients : ClientStep(c) \/ ServerMoves(c) \/ Unlucky(c)

\* Both ends are run when they can; nothing makes a connection fail.
AnySpec ==
  /\ AnyInit /\ [][AnyNext]_anyVars
  /\ \A c \in Clients : WF_anyVars(ClientStep(c)) /\ WF_anyVars(ServerMoves(c))

-----------------------------------------------------------------------------

\* The client ends whenever its server answers or hangs up, in whatever pieces, unless
\* the head is one that may overrun headers (http_client.c:121-268).
ClientExits == \A c \in Clients : HeadFits(c) ~> cpc[c] = "exited"

=============================================================================
