---------------------------- MODULE MCHttpSystem ----------------------------
(***************************************************************************)
(* Two http_client processes and one http_server2.  The user may interrupt  *)
(* the second client.                                                       *)
(***************************************************************************)
EXTENDS HttpSystem

CONSTANTS c1, c2

TwoClients == {c1, c2}
SecondOnly == {c2}

SystemRequests ==
  {[len |-> 2, more |-> 0, kind |-> "file",      data |-> 4],
   [len |-> 1, more |-> 0, kind |-> "missing",   data |-> 0],
   [len |-> 2, more |-> 0, kind |-> "malformed", data |-> 0]}

ShortHeads == [r \in SystemRequests |-> 2]

Refusals == {"refuse"}
NoNul    == {}

=============================================================================
