---------------------------- MODULE MCHttpServer1 ----------------------------
(***************************************************************************)
(* A small instance of HttpServer1 for TLC.                                 *)
(***************************************************************************)
EXTENDS HttpServer1

CONSTANTS c1, c2

TwoClients == {c1, c2}

\* With BUFSIZE = 3 the buffer holds 2 bytes: one head fills it, one does not fit, one
\* may have a byte behind it that is read along or not; one file takes two chunks, one
\* is empty.
AllRequests ==
  {[len |-> 2, more |-> 0, kind |-> "file",      data |-> 4],
   [len |-> 3, more |-> 0, kind |-> "file",      data |-> 0],
   [len |-> 1, more |-> 1, kind |-> "missing",   data |-> 0],
   [len |-> 2, more |-> 0, kind |-> "malformed", data |-> 0]}

AllFaults == {"fin", "rst", "refuse"}

=============================================================================
