------------------------------ MODULE HttpSystem ------------------------------
(***************************************************************************)
(* http_client processes talking to one http_server2.  The clients of       *)
(* Sockets, which did anything, are now the program: what reaches the       *)
(* server, and when a connection ends, follows from http_client.c.          *)
(***************************************************************************)
EXTENDS HttpServer2, HttpClient

CONSTANT Interruptible   \* the clients a user may interrupt

\* The heads http_server2 sends are a few lines, and fit (http_server2.c:30-38).
ASSUME OwnHeadsFit == \A r \in Requests : HEADLEN[r] <= 4 * CBUFSIZE + 1

mainVars == <<handlerVars, pc, connections, all_fds, read_fds, max_fd, i>>

SystemInit == Init /\ ClientInit

\* A system call of one client.
RunClient(c) ==
  /\ ClientStep(c)
  /\ hpc # "dead" \/ cpc[c] # "connect"
  /\ UNCHANGED mainVars

\* The user interrupts a client.
StopClient(c) ==
  /\ c \in Interruptible
  /\ Interrupt(c)
  /\ UNCHANGED mainVars

\* A client's kernel answers what arrives after its process has gone.
RefuseReply(c) ==
  /\ Refuse(c)
  /\ UNCHANGED <<mainVars, clientVars>>

\* The kernel ends the connections of a server that was killed.
ReapServer(c) ==
  /\ hpc = "dead"
  /\ peer[c] # "new"
  /\ closed[c] = "no"
  /\ CloseConnection(c)
  /\ UNCHANGED <<req, peer, wrote, taken, backlog, file, replyVars, mainVars, clientVars>>

\* Nobody listens any more.
Refused(c) ==
  /\ hpc = "dead"
  /\ ConnectFails(c)
  /\ UNCHANGED mainVars

RunServer == Server /\ UNCHANGED clientVars

SystemNext ==
  \/ RunServer
  \/ \E c \in Clients : RunClient(c) \/ StopClient(c) \/ RefuseReply(c)
                        \/ ReapServer(c) \/ Refused(c)

systemVars == <<vars, clientVars>>

(***************************************************************************)
(* Fairness: the operating systems run the processes that can run and tell  *)
(* the ends of a connection about its end.  Nothing makes a user interrupt. *)
(***************************************************************************)
SystemFairness ==
  /\ WF_systemVars(RunServer)
  /\ \A c \in Clients : WF_systemVars(RunClient(c) \/ ReapServer(c) \/ Refused(c))

SystemSpec == SystemInit /\ [][SystemNext]_systemVars /\ SystemFairness

-----------------------------------------------------------------------------

\* While the server lives, the exit code of a client that was not interrupted tells
\* exactly whether the file exists (README.md:141-147, 218-226).
ExitCodeTellsFile ==
  \A c \in Clients :
    hpc # "dead" /\ code[c] \in {"0", "-1"} => (code[c] = "0" <=> req[c].kind = "file")

\* Exit code 0 means that standard output is the file asked for, byte by byte, even
\* when the server was killed meanwhile: the client does not look at Content-length
\* and relies on the server closing after the last byte only (http_client.c:242-255).
ExitZeroMeansFile ==
  \A c \in Clients :
    code[c] = "0" => req[c].kind = "file" /\ out[c] = [k \in 1 .. req[c].data |-> k]

\* Every client exits in the end, whatever the others do to the server: interrupted
\* in the middle of its reply, one of them may well end it (http_client.c:121-268,
\* http_server2.c:137).
EveryClientExits == \A c \in Clients : <>(cpc[c] = "exited")

=============================================================================
