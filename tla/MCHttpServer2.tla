---------------------------- MODULE MCHttpServer2 ----------------------------
(***************************************************************************)
(* Small instances of HttpServer2 for TLC.                                  *)
(***************************************************************************)
EXTENDS HttpServer2, TLC

CONSTANTS c1, c2, c3

TwoClients   == {c1, c2}
ThreeClients == {c1, c2, c3}
Symmetry     == Permutations(Clients)

\* With BUFSIZE = 3 the buffer holds 2 bytes: one head fills it, and a byte behind that
\* head stays unread; the file takes two chunks.
SafetyRequests ==
  {[len |-> 2, more |-> 1, kind |-> "file",    data |-> 4],
   [len |-> 1, more |-> 0, kind |-> "missing", data |-> 0]}

\* One head does not fit in the buffer; behind the other a byte may be read with it, later
\* or not at all.
LiveRequests ==
  {[len |-> 3, more |-> 0, kind |-> "file",    data |-> 1],
   [len |-> 1, more |-> 1, kind |-> "missing", data |-> 0]}

\* The shortest exchanges, for the runs that only need the connections.
ShortRequests == {[len |-> 1, more |-> 0, kind |-> "missing", data |-> 0]}

AllFaults   == {"fin", "rst", "refuse"}
PlainFaults == {"fin", "rst"}
NoFaults    == {}

=============================================================================
