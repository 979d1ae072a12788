---------------------------- MODULE HttpService ----------------------------
(***************************************************************************)
(* What either server promises the clients together, without a descriptor,  *)
(* a buffer or a system call: requests are heard whole and answered one at  *)
(* a time; an answer begins after its request and after the end of the one  *)
(* before, only grows, and is whole at the end unless the client is lost;   *)
(* and an ended connection stays ended and as it was.                       *)
(***************************************************************************)
EXTENDS Integers, Sequences

CONSTANTS Clients, Requests

VARIABLES
  asked,   \* what each client asks for
  heard,   \* the clients whose requests have been read
  lost,    \* the clients that broke off
  status,  \* the status line of each answer, or "none"
  body,    \* the file positions that followed it
  closed   \* how each connection ended, or "no"

serviceVars == <<asked, heard, lost, status, body, closed>>

Init ==
  /\ asked \in [Clients -> Requests]
  /\ heard = {}
  /\ lost = {}
  /\ status = [c \in Clients |-> "none"]
  /\ body   = [c \in Clients |-> <<>>]
  /\ closed = [c \in Clients |-> "no"]

Open(c) == closed[c] = "no"

\* The answer of c is whole; a malformed request has none.
Answered(c) ==
  \/ asked[c].kind = "malformed"
  \/ status[c] = "404"
  \/ status[c] = "200" /\ Len(body[c]) = asked[c].data

\* A request is read whole, when the one before has been dealt with.
Hear(c) ==
  /\ Open(c)
  /\ \A d \in heard : ~Open(d)
  /\ heard' = heard \cup {c}
  /\ UNCHANGED <<asked, lost, status, body, closed>>

\* The answer begins.  404 may answer a file that exists: it could not be opened.
Begin(c) ==
  /\ c \in heard /\ Open(c)
  /\ status[c] = "none"
  /\ \/ asked[c].kind = "file" /\ status' = [status EXCEPT ![c] = "200"]
     \/ asked[c].kind # "malformed" /\ status' = [status EXCEPT ![c] = "404"]
  /\ UNCHANGED <<asked, heard, lost, body, closed>>

\* The next n bytes of the file follow.
Continue(c, n) ==
  /\ c \in heard /\ Open(c)
  /\ status[c] = "200"
  /\ n <= asked[c].data - Len(body[c])
  /\ body' = [body EXCEPT ![c] = @ \o [k \in 1 .. n |-> Len(@) + k]]
  /\ UNCHANGED <<asked, heard, lost, status, closed>>

\* The connection ends, the answer being whole if it was owed and could be sent.
End(c) ==
  /\ Open(c)
  /\ c \in heard \ lost => Answered(c)
  /\ \E how \in {"fin", "rst"} : closed' = [closed EXCEPT ![c] = how]
  /\ UNCHANGED <<asked, heard, lost, status, body>>

\* A client breaks off.
Lose(c) ==
  /\ lost' = lost \cup {c}
  /\ UNCHANGED <<asked, heard, status, body, closed>>

Next ==
  \E c \in Clients :
    \/ Hear(c)
    \/ Begin(c)
    \/ \E n \in 1 .. asked[c].data : Continue(c, n)
    \/ End(c)
    \/ Lose(c)

Spec == Init /\ [][Next]_serviceVars

=============================================================================
