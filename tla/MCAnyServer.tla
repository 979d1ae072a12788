----------------------------- MODULE MCAnyServer -----------------------------
(***************************************************************************)
(* One http_client against any server.  CBUFSIZE = 3 receives at most two   *)
(* bytes at a time; a head of 13 = 4 * CBUFSIZE + 1 bytes is the longest    *)
(* that is certain to fit in headers, and one of 14, as the error reply     *)
(* has, fits or not depending on how it is cut.                             *)
(***************************************************************************)
EXTENDS AnyServer

CONSTANT c1

OneClient == {c1}

ClientRequests ==
  {[len |-> 3, more |-> 0, kind |-> "file",      data |-> 5],
   [len |-> 1, more |-> 0, kind |-> "file",      data |-> 0],
   [len |-> 2, more |-> 0, kind |-> "missing",   data |-> 3],
   [len |-> 2, more |-> 0, kind |-> "malformed", data |-> 0]}

ReplyHeads == [r \in ClientRequests |-> IF r.kind = "file" THEN 13 ELSE 14]

ServerMayFail == {"silent", "rst", "cut"}
NoFaults      == {}
NoNul         == {}
SomeNul       == {2}

=============================================================================
