---------------------------- MODULE HttpClientProofs ----------------------------
(***************************************************************************)
(* http_client against any server: a head that fits never overruns headers, *)
(* and its exit code and outputs agree with the reply, for any reply, cut   *)
(* into any pieces, and any size of its buffers.                            *)
(***************************************************************************)
EXTENDS AnyServer, SequenceTheorems, FiniteSetTheorems, TLAPS

\* s holds the bytes after from, n of them, in order.
Holds(s, from, n) == s \in Seq(Int) /\ Len(s) = n /\ \A k \in 1 .. n : s[k] = from + k

(***************************************************************************)
(* Sequences of bytes.                                                      *)
(***************************************************************************)
LEMMA HoldsConcat ==
  ASSUME NEW s, NEW t, NEW from \in Int, NEW m \in Nat, NEW n \in Nat,
         Holds(s, from, m), Holds(t, from + m, n)
  PROVE  Holds(s \o t, from, m + n)
<1>1. /\ s \o t \in Seq(Int) /\ Len(s \o t) = m + n
      /\ \A k \in 1 .. m + n : (s \o t)[k] = IF k <= m THEN s[k] ELSE t[k - m]
  BY ConcatProperties DEF Holds
<1>2. \A k \in 1 .. m + n : (s \o t)[k] = from + k
  BY <1>1 DEF Holds
<1>3. QED
  BY <1>1, <1>2 DEF Holds

LEMMA HoldsSubSeq ==
  ASSUME NEW s, NEW from \in Int, NEW n \in Nat, Holds(s, from, n),
         NEW a \in Nat, NEW b \in Nat, a <= b, b <= n
  PROVE  Holds(SubSeq(s, a + 1, b), from + a, b - a)
<1>1. \A i \in a + 1 .. b : s[i] \in Int
  BY DEF Holds
<1>2. /\ SubSeq(s, a + 1, b) \in Seq(Int)
      /\ Len(SubSeq(s, a + 1, b)) = IF a + 1 <= b THEN b - (a + 1) + 1 ELSE 0
      /\ \A i \in 1 .. b - (a + 1) + 1 : SubSeq(s, a + 1, b)[i] = s[a + 1 + i - 1]
  BY <1>1, SubSeqProperties
<1>3. QED
  BY <1>2 DEF Holds

LEMMA HoldsEqual ==
  ASSUME NEW s, NEW t, NEW from \in Int, NEW n \in Nat, Holds(s, from, n), Holds(t, from, n)
  PROVE  s = t
BY SeqEqual DEF Holds

\* A C string is the beginning of its buffer, up to the first NUL byte.
LEMMA CStringIsPrefix ==
  ASSUME NEW s \in Seq(Int)
  PROVE  \E m \in 0 .. Len(s) :
           /\ CString(s) = SubSeq(s, 1, m)
           /\ \A n \in 0 .. Len(s) : (\A k \in 1 .. n : s[k] \notin NulBytes) => n <= m
<1> DEFINE beforeNul == {k \in 1 .. Len(s) : \A j \in 1 .. k : s[j] \notin NulBytes}
           m == Cardinality(beforeNul)
<1>1. IsFiniteSet(beforeNul) /\ m \in 0 .. Len(s)
  <2>1. IsFiniteSet(1 .. Len(s)) /\ Cardinality(1 .. Len(s)) = Len(s)
    <3>1. Len(s) \in Nat
      BY LenProperties
    <3>2. \A n \in Nat : IsFiniteSet(1 .. n) /\ Cardinality(1 .. n) = n
      BY FS_Interval
    <3>3. QED
      BY <3>1, <3>2
  <2>2. IsFiniteSet(beforeNul) /\ m <= Len(s)
    BY <2>1, FS_Subset
  <2>3. QED
    BY <2>2, FS_CardinalityType, LenProperties
<1>2. ASSUME NEW n \in 0 .. Len(s), \A k \in 1 .. n : s[k] \notin NulBytes
      PROVE  n <= m
  <2>1. 1 .. n \subseteq beforeNul
    BY <1>2
  <2>2. Cardinality(1 .. n) <= m
    BY <1>1, <2>1, FS_Subset
  <2>3. Cardinality(1 .. n) = n
    BY FS_Interval
  <2>4. QED
    BY <2>2, <2>3
<1>3. CString(s) = SubSeq(s, 1, m)
  BY DEF CString
<1>4. QED
  BY <1>1, <1>2, <1>3

\* What of the bytes after from, n of them, is a C string.
LEMMA CStringHolds ==
  ASSUME NEW s, NEW from \in Int, NEW n \in Nat, Holds(s, from, n)
  PROVE  \E m \in 0 .. n :
           /\ Holds(CString(s), from, m)
           /\ NulBytes = {} => m = n
           /\ from + n <= 0 => m = n
           /\ from <= 0 /\ from + n >= 0 => from + m >= 0
<1>1. PICK m \in 0 .. n :
        /\ CString(s) = SubSeq(s, 1, m)
        /\ \A i \in 0 .. n : (\A k \in 1 .. i : s[k] \notin NulBytes) => i <= m
  BY CStringIsPrefix DEF Holds
<1>2. Holds(CString(s), from, m)
  <2>1. Holds(SubSeq(s, 0 + 1, m), from + 0, m - 0)
    BY HoldsSubSeq
  <2>2. QED
    BY <1>1, <2>1
<1>3. \A k \in 1 .. n : from + k <= 0 => s[k] \notin NulBytes
  BY HeadAssumption DEF Holds
<1>4. NulBytes = {} => m = n
  BY <1>1
<1>5. from + n <= 0 => m = n
  BY <1>1, <1>3
<1>6. from <= 0 /\ from + n >= 0 => from + m >= 0
  <2>1. SUFFICES ASSUME from <= 0, from + n >= 0 PROVE from + m >= 0
    OBVIOUS
  <2>2. -from \in 0 .. n /\ \A k \in 1 .. -from : s[k] \notin NulBytes
    BY <1>3, <2>1
  <2>3. QED
    BY <1>1, <2>2
<1>7. QED
  BY <1>2, <1>4, <1>5, <1>6

\* The blank line is found in the beginning of a reply, and what is behind it is body.
LEMMA BlankLineFound ==
  ASSUME NEW len \in Nat \ {0}, NEW s, NEW n \in Nat, Holds(s, -len, n)
  PROVE  /\ HasBlankLine(s) <=> n >= len
         /\ n >= len => Holds(BodyStart(s), 0, n - len)
<1>1. len \in Nat \ {0} /\ Len(s) = n /\ \A k \in 1 .. n : s[k] = 0 <=> k = len
  BY DEF Holds
<1>2. HasBlankLine(s) <=> n >= len
  BY <1>1 DEF HasBlankLine
<1>3. ASSUME n >= len PROVE Holds(BodyStart(s), 0, n - len)
  <2>1. (CHOOSE k \in 1 .. Len(s) : s[k] = 0) = len
    BY <1>1, <1>3
  <2>2. BodyStart(s) = SubSeq(s, len + 1, n)
    BY <1>1, <2>1 DEF BodyStart
  <2>3. Holds(SubSeq(s, len + 1, n), -len + len, n - len)
    BY <1>1, <1>3, HoldsSubSeq
  <2>4. QED
    BY <1>1, <2>2, <2>3
<1>4. QED
  BY <1>2, <1>3

-----------------------------------------------------------------------------
(***************************************************************************)
(* The inductive invariant.  Size is the length of Stream.                  *)
(***************************************************************************)
ClientTypes ==
  /\ req     \in [Clients -> Requests]
  /\ peer    \in [Clients -> {"new", "up", "fin", "rst", "broken"}]
  /\ wrote   \in [Clients -> Nat]
  /\ status  \in [Clients -> {"none", "200", "404"}]
  /\ body    \in [Clients -> Seq(Nat)]
  /\ closed  \in [Clients -> {"no", "fin", "rst"}]
  /\ cpc     \in [Clients -> {"connect", "send", "select", "head", "body", "error",
                             "undefined", "exited"}]
  /\ got     \in [Clients -> Nat]
  /\ headers \in [Clients -> Seq(Int)]
  /\ out     \in [Clients -> Seq(Int)]
  /\ err     \in [Clients -> Seq(Int)]
  /\ code    \in [Clients -> {"none", "0", "-1", "signal"}]

Size(c) == IF status[c] = "none" THEN 0 ELSE HeadLen(c) + Len(body[c])
Behind(c) == got[c] - HeadLen(c)

\* The connection: nothing happens on one that was never made.
ConnectionInv(c) ==
  /\ wrote[c] <= req[c].len
  /\ cpc[c] = "connect" => peer[c] = "new"
  /\ cpc[c] \notin {"connect", "exited"} => peer[c] # "new"
  /\ peer[c] = "new" => wrote[c] = 0 /\ closed[c] = "no" /\ status[c] = "none"

\* The reply, and how much of it has been received.
ReceivedInv(c) ==
  /\ Holds(body[c], 0, Len(body[c]))
  /\ got[c] <= Size(c)

\* What the client has kept of it.
OutputInv(c) ==
  /\ cpc[c] # "exited" <=> code[c] = "none"
  /\ cpc[c] \in {"connect", "send", "select"} => got[c] = 0
  /\ cpc[c] \in {"connect", "send", "select", "head"} =>
       /\ got[c] < HeadLen(c)
       /\ Holds(headers[c], -HeadLen(c), got[c])
       /\ out[c] = <<>> /\ err[c] = <<>>
  /\ cpc[c] = "body" =>
       /\ status[c] = "200" /\ err[c] = <<>> /\ got[c] >= HeadLen(c)
       /\ NulBytes = {} => Holds(out[c], 0, Behind(c))
  /\ cpc[c] = "error" =>
       /\ status[c] = "404" /\ out[c] = <<>>
       /\ NulBytes = {} => Holds(err[c], -HeadLen(c), got[c])
  /\ HeadFits(c) => ~Overruns(headers[c]) /\ cpc[c] # "undefined"

\* What an exit code says.
ExitInv(c) ==
  /\ code[c] = "0" =>
       /\ status[c] = "200" /\ closed[c] = "fin" /\ err[c] = <<>>
       /\ NulBytes = {} => Holds(out[c], 0, Len(body[c]))
  /\ code[c] = "-1" => peer[c] = "new" \/ closed[c] # "no"
  /\ code[c] = "-1" /\ closed[c] = "fin" /\ status[c] = "404" =>
       /\ out[c] = <<>>
       /\ NulBytes = {} => Holds(err[c], -HeadLen(c), Size(c))

ClientInv(c) == ConnectionInv(c) /\ ReceivedInv(c) /\ OutputInv(c) /\ ExitInv(c)

ClientsInv == ClientTypes /\ \A c \in Clients : ClientInv(c)

LEMMA AskedTypes ==
  ASSUME ClientTypes, NEW c \in Clients
  PROVE  req[c].len \in Nat \ {0} /\ req[c].data \in Nat /\ HeadLen(c) \in Nat \ {0}
<1>1. \A r \in Requests : r.len \in Nat \ {0} /\ r.data \in Nat
  BY RequestsAssumption
<1>2. HeadLen(c) \in Nat \ {0}
  BY HeadAssumption DEF ClientTypes, HeadLen
<1>3. QED
  BY <1>1, <1>2 DEF ClientTypes

\* A client's invariant is about its own variables only.
LEMMA Undisturbed ==
  ASSUME NEW c \in Clients, ClientInv(c),
         req'[c] = req[c], peer'[c] = peer[c], wrote'[c] = wrote[c], status'[c] = status[c],
         body'[c] = body[c], closed'[c] = closed[c], cpc'[c] = cpc[c], got'[c] = got[c],
         headers'[c] = headers[c], out'[c] = out[c], err'[c] = err[c], code'[c] = code[c]
  PROVE  ClientInv(c)'
BY DEF ClientInv, ConnectionInv, ReceivedInv, OutputInv, ExitInv, Size, Behind, HeadLen, HeadFits

\* A head, and what was sent of the file behind it.
LEMMA StreamHolds ==
  ASSUME ClientsInv, NEW c \in Clients
  PROVE  Size(c) \in Nat /\ Holds(Stream(c), -HeadLen(c), Size(c))
<1>1. /\ HeadLen(c) \in Nat /\ Len(body[c]) \in Nat
      /\ Holds(body[c], 0, Len(body[c]))
  BY AskedTypes, LenProperties DEF ClientsInv, ClientTypes, ClientInv, ReceivedInv
<1>2. CASE status[c] = "none"
  BY <1>1, <1>2, EmptySeq DEF Stream, Size, Holds
<1>3. CASE status[c] # "none"
  <2> DEFINE h == [k \in 1 .. HeadLen(c) |-> k - HeadLen(c)]
  <2>1. Holds(h, -HeadLen(c), HeadLen(c))
    BY <1>1 DEF Holds
  <2>2. Holds(h \o body[c], -HeadLen(c), HeadLen(c) + Len(body[c]))
    BY <1>1, <2>1, HoldsConcat
  <2>3. QED
    BY <1>1, <1>3, <2>2 DEF Stream, Size
<1>4. QED
  BY <1>2, <1>3

\* What recv() hands over, as strcat() and printf() see it.
LEMMA TextHolds ==
  ASSUME ClientsInv, NEW c \in Clients, NEW n \in Nat, n <= Unread(c)
  PROVE  /\ got[c] + n <= Size(c)
         /\ \E m \in 0 .. n :
              /\ Holds(Text(c, n), Behind(c), m)
              /\ NulBytes = {} => m = n
              /\ got[c] + n <= HeadLen(c) => m = n
              /\ got[c] <= HeadLen(c) /\ got[c] + n >= HeadLen(c) => got[c] + m >= HeadLen(c)
<1>1. /\ got[c] \in Nat /\ HeadLen(c) \in Nat /\ Size(c) \in Nat
      /\ Holds(Stream(c), -HeadLen(c), Size(c)) /\ Len(Stream(c)) = Size(c)
  BY StreamHolds, AskedTypes DEF ClientsInv, ClientTypes, Holds
<1>2. got[c] + n <= Size(c)
  BY <1>1 DEF Unread
<1>3. Holds(SubSeq(Stream(c), got[c] + 1, got[c] + n), -HeadLen(c) + got[c], got[c] + n - got[c])
  BY <1>1, <1>2, HoldsSubSeq
<1>4. Holds(SubSeq(Stream(c), got[c] + 1, got[c] + n), Behind(c), n)
  BY <1>1, <1>3 DEF Behind
<1>5. Behind(c) \in Int
  BY <1>1 DEF Behind
<1>6. PICK m \in 0 .. n :
        /\ Holds(Text(c, n), Behind(c), m)
        /\ NulBytes = {} => m = n
        /\ Behind(c) + n <= 0 => m = n
        /\ Behind(c) <= 0 /\ Behind(c) + n >= 0 => Behind(c) + m >= 0
  BY <1>4, <1>5, CStringHolds DEF Text
<1>7. QED
  BY <1>1, <1>2, <1>6 DEF Behind

-----------------------------------------------------------------------------
(***************************************************************************)
(* The steps.  Each is one client's, or its server's on its connection.     *)
(***************************************************************************)
LEMMA OneConnection ==
  ASSUME ClientsInv, NEW c \in Clients, ClientTypes', ClientInv(c)',
         \A d \in Clients \ {c} :
           /\ req'[d] = req[d] /\ peer'[d] = peer[d] /\ wrote'[d] = wrote[d]
           /\ status'[d] = status[d] /\ body'[d] = body[d] /\ closed'[d] = closed[d]
           /\ cpc'[d] = cpc[d] /\ got'[d] = got[d] /\ headers'[d] = headers[d]
           /\ out'[d] = out[d] /\ err'[d] = err[d] /\ code'[d] = code[d]
  PROVE  ClientsInv'
<1>1. ASSUME NEW d \in Clients, d # c PROVE ClientInv(d)'
  BY <1>1, Undisturbed DEF ClientsInv
<1>2. QED
  BY <1>1 DEF ClientsInv

LEMMA ClientsInit == SocketsInit /\ ClientInit => ClientsInv
<1> SUFFICES ASSUME SocketsInit /\ ClientInit PROVE ClientsInv
  OBVIOUS
<1>1. ClientTypes
  BY EmptySeq DEF SocketsInit, ClientInit, ClientTypes
<1>2. ASSUME NEW c \in Clients PROVE ClientInv(c)
  <2>1. /\ peer[c] = "new" /\ wrote[c] = 0 /\ closed[c] = "no" /\ status[c] = "none"
        /\ body[c] = <<>> /\ cpc[c] = "connect" /\ got[c] = 0 /\ headers[c] = <<>>
        /\ out[c] = <<>> /\ err[c] = <<>> /\ code[c] = "none"
    BY DEF SocketsInit, ClientInit
  <2>2. req[c].len \in Nat /\ HeadLen(c) \in Nat \ {0} /\ CBUFSIZE \in Nat /\ CBUFSIZE > 1
    BY <1>1, AskedTypes, HeadAssumption
  <2>3. Len(<<>>) = 0 /\ \A from \in Int : Holds(<<>>, from, 0)
    BY EmptySeq DEF Holds
  <2>4. QED
    BY <2>1, <2>2, <2>3
    DEF ClientInv, ConnectionInv, ReceivedInv, OutputInv, ExitInv, Size, Overruns
<1>3. QED
  BY <1>1, <1>2 DEF ClientsInv

\* Connecting, sending and waiting leave the reply alone.
LEMMA OpeningInv ==
  ASSUME ClientsInv, NEW c \in Clients,
         \/ ConnectServer(c) \/ ConnectFails(c) \/ WaitForReply(c)
         \/ \E n \in 1 .. req[c].len : SendRequest(c, n)
  PROVE  ClientsInv'
<1>1. ClientTypes /\ ClientInv(c) /\ req[c].len \in Nat \ {0}
  BY AskedTypes DEF ClientsInv
<1>2. CASE ConnectServer(c)
  <2>1. /\ ClientTypes'
        /\ peer' = [peer EXCEPT ![c] = "up"] /\ cpc' = [cpc EXCEPT ![c] = "send"]
        /\ UNCHANGED <<req, wrote, status, body, closed, got, headers, out, err, code>>
        /\ cpc[c] = "connect"
    BY <1>1, <1>2 DEF ConnectServer, Connect, ClientTypes, replyVars
  <2>2. ClientInv(c)'
    BY <1>1, <2>1
    DEF ClientTypes, ClientInv, ConnectionInv, ReceivedInv, OutputInv, ExitInv, Size, Behind,
        HeadLen, HeadFits
  <2>3. QED
    BY <1>1, <2>1, <2>2, OneConnection DEF ClientTypes
<1>3. CASE ConnectFails(c)
  <2>1. /\ ClientTypes'
        /\ cpc' = [cpc EXCEPT ![c] = "exited"] /\ code' = [code EXCEPT ![c] = "-1"]
        /\ UNCHANGED <<req, peer, wrote, status, body, closed, got, headers, out, err>>
        /\ cpc[c] = "connect"
    BY <1>1, <1>3 DEF ConnectFails, ClientTypes, kernelVars, replyVars
  <2>2. ClientInv(c)'
    BY <1>1, <2>1
    DEF ClientTypes, ClientInv, ConnectionInv, ReceivedInv, OutputInv, ExitInv, Size, Behind,
        HeadLen, HeadFits
  <2>3. QED
    BY <1>1, <2>1, <2>2, OneConnection DEF ClientTypes
<1>4. CASE WaitForReply(c)
  <2>1. /\ ClientTypes'
        /\ cpc' = [cpc EXCEPT ![c] = "head"]
        /\ UNCHANGED <<req, peer, wrote, status, body, closed, got, headers, out, err, code>>
        /\ cpc[c] = "select"
    BY <1>1, <1>4 DEF WaitForReply, ClientTypes, kernelVars, replyVars
  <2>2. ClientInv(c)'
    BY <1>1, <2>1
    DEF ClientTypes, ClientInv, ConnectionInv, ReceivedInv, OutputInv, ExitInv, Size, Behind,
        HeadLen, HeadFits
  <2>3. QED
    BY <1>1, <2>1, <2>2, OneConnection DEF ClientTypes
<1>5. ASSUME NEW n \in 1 .. req[c].len, SendRequest(c, n) PROVE ClientsInv'
  <2>1. /\ wrote' = [wrote EXCEPT ![c] = @ + n] /\ wrote[c] + n <= req[c].len
        /\ closed' = [closed EXCEPT ![c] = IF @ = "fin" THEN "rst" ELSE @]
        /\ cpc' = [cpc EXCEPT ![c] = IF wrote'[c] = req[c].len THEN "select" ELSE "send"]
        /\ UNCHANGED <<req, peer, status, body, got, headers, out, err, code>>
        /\ cpc[c] = "send"
    BY <1>1, <1>5 DEF SendRequest, ClientTypes, replyVars
  <2>2. ClientTypes'
    BY <1>1, <2>1 DEF ClientTypes
  <2>3. peer[c] # "new"
    BY <1>1, <2>1 DEF ClientInv, ConnectionInv
  <2>4. ClientInv(c)'
    BY <1>1, <2>1, <2>3
    DEF ClientTypes, ClientInv, ConnectionInv, ReceivedInv, OutputInv, ExitInv, Size, Behind,
        HeadLen, HeadFits
  <2>5. QED
    BY <1>1, <2>1, <2>2, <2>4, OneConnection DEF ClientTypes
<1>6. QED
  BY <1>2, <1>3, <1>4, <1>5

\* What Exit leaves, whatever its code.
LEMMA ExitLeaves ==
  ASSUME ClientsInv, NEW c \in Clients, NEW ret \in {"0", "-1", "signal"},
         Exit(c, ret), UNCHANGED <<got, headers, out, err>>,
         cpc[c] \notin {"connect", "exited"},
         ret = "0" =>
           /\ status[c] = "200" /\ closed[c] = "fin" /\ err[c] = <<>>
           /\ NulBytes = {} => Holds(out[c], 0, Len(body[c])),
         ret = "-1" => closed[c] # "no",
         ret = "-1" /\ closed[c] = "fin" /\ status[c] = "404" =>
           /\ out[c] = <<>>
           /\ NulBytes = {} => Holds(err[c], -HeadLen(c), Size(c))
  PROVE  ClientsInv'
<1>1. ClientTypes /\ ClientInv(c)
  BY DEF ClientsInv
<1>2. /\ ClientTypes'
      /\ cpc' = [cpc EXCEPT ![c] = "exited"] /\ code' = [code EXCEPT ![c] = ret]
      /\ peer'[c] # "new" /\ \A d \in Clients \ {c} : peer'[d] = peer[d]
      /\ UNCHANGED <<req, wrote, closed, status, body, got, headers, out, err>>
  BY <1>1 DEF Exit, ClientTypes, replyVars
<1>3. cpc'[c] = "exited" /\ code'[c] = ret
  BY <1>1, <1>2 DEF ClientTypes
<1>4. ClientInv(c)'
  BY <1>1, <1>2, <1>3
  DEF ClientInv, ConnectionInv, ReceivedInv, OutputInv, ExitInv, Size, Behind, HeadLen, HeadFits
<1>5. QED
  BY <1>1, <1>2, <1>4, OneConnection DEF ClientTypes

LEMMA EndingInv ==
  ASSUME ClientsInv, NEW c \in Clients,
         SendRequestFails(c) \/ HeadEnds(c) \/ BodyEnds(c) \/ ErrorEnds(c) \/ Interrupt(c)
  PROVE  ClientsInv'
<1>1. /\ ClientTypes /\ ClientInv(c) /\ HeadLen(c) \in Nat \ {0}
      /\ got[c] \in Nat /\ Size(c) \in Nat /\ Len(body[c]) \in Nat
      /\ Len(Stream(c)) = Size(c)
      /\ UNCHANGED <<got, headers, out, err>>
  BY StreamHolds, AskedTypes, LenProperties
  DEF ClientsInv, ClientTypes, Holds, SendRequestFails, HeadEnds, BodyEnds, ErrorEnds, Interrupt
<1>2. AtEof(c) => closed[c] = "fin" /\ got[c] = Size(c)
  BY <1>1 DEF AtEof, Unread
<1>3. AtReset(c) => closed[c] = "rst"
  BY DEF AtReset
<1>4. CASE SendRequestFails(c)
  BY <1>1, <1>3, <1>4, ExitLeaves DEF SendRequestFails
<1>5. CASE HeadEnds(c)
  <2>1. /\ cpc[c] = "head" /\ Exit(c, "-1")
        /\ closed[c] # "no" /\ (closed[c] = "fin" => got[c] = Size(c))
    BY <1>2, <1>3, <1>5 DEF HeadEnds
  <2>2. closed[c] = "fin" => status[c] # "404"
    BY <1>1, <2>1 DEF ClientInv, OutputInv, Size
  <2>3. QED
    BY <1>1, <2>1, <2>2, ExitLeaves
<1>6. CASE BodyEnds(c)
  <2>1. /\ cpc[c] = "body" /\ status[c] = "200" /\ err[c] = <<>>
        /\ NulBytes = {} => Holds(out[c], 0, Behind(c))
    BY <1>1, <1>6 DEF BodyEnds, ClientInv, OutputInv
  <2>2. CASE AtEof(c) /\ Exit(c, "0")
    <3>1. Behind(c) = Len(body[c])
      BY <1>1, <1>2, <2>1, <2>2 DEF Behind, Size
    <3>2. QED
      BY <1>1, <1>2, <2>1, <2>2, <3>1, ExitLeaves
  <2>3. CASE AtReset(c) /\ Exit(c, "-1")
    BY <1>1, <1>3, <2>1, <2>3, ExitLeaves
  <2>4. QED
    BY <1>6, <2>2, <2>3 DEF BodyEnds
<1>7. CASE ErrorEnds(c)
  <2>1. /\ cpc[c] = "error" /\ out[c] = <<>> /\ Exit(c, "-1")
        /\ NulBytes = {} => Holds(err[c], -HeadLen(c), got[c])
        /\ closed[c] # "no" /\ (closed[c] = "fin" => got[c] = Size(c))
    BY <1>1, <1>2, <1>3, <1>7 DEF ErrorEnds, ClientInv, OutputInv
  <2>2. QED
    BY <1>1, <2>1, ExitLeaves
<1>8. CASE Interrupt(c)
  BY <1>1, <1>8, ExitLeaves DEF Interrupt
<1>9. QED
  BY <1>4, <1>5, <1>6, <1>7, <1>8

LEMMA SetOne ==
  ASSUME NEW f \in [Clients -> Seq(Int)], NEW c \in Clients, NEW v \in Seq(Int),
         NEW g, g = [f EXCEPT ![c] = v]
  PROVE  g \in [Clients -> Seq(Int)] /\ g[c] = v
OBVIOUS

\* The read loops.
LEMMA ReceivingInv ==
  ASSUME ClientsInv, NEW c \in Clients, NEW n \in 1 .. CBUFSIZE - 1,
         RecvHead(c, n) \/ RecvBody(c, n) \/ RecvError(c, n)
  PROVE  ClientsInv'
<1>1. /\ ClientTypes /\ ClientInv(c) /\ n \in Nat
      /\ HeadLen(c) \in Nat \ {0} /\ CBUFSIZE \in Nat
      /\ got[c] \in Nat /\ Size(c) \in Nat
      /\ n <= Unread(c) /\ got' = [got EXCEPT ![c] = @ + n]
      /\ UNCHANGED <<req, peer, wrote, status, body, closed, code>>
  <2>1. ClientTypes /\ ClientInv(c) /\ got[c] \in Nat
    BY DEF ClientsInv, ClientTypes
  <2>2. n \in Nat /\ HeadLen(c) \in Nat \ {0} /\ CBUFSIZE \in Nat /\ Size(c) \in Nat
    BY <2>1, StreamHolds, AskedTypes, HeadAssumption
  <2>3. /\ n <= Unread(c) /\ got' = [got EXCEPT ![c] = @ + n]
        /\ UNCHANGED <<req, peer, wrote, status, body, closed, code>>
    BY DEF RecvHead, RecvBody, RecvError, Receive, kernelVars, replyVars
  <2>4. QED
    BY <2>1, <2>2, <2>3
<1>2. got[c] + n <= Size(c)
  BY <1>1, TextHolds
<1>3. PICK m \in 0 .. n :
        /\ Holds(Text(c, n), Behind(c), m)
        /\ NulBytes = {} => m = n
        /\ got[c] + n <= HeadLen(c) => m = n
        /\ got[c] <= HeadLen(c) /\ got[c] + n >= HeadLen(c) => got[c] + m >= HeadLen(c)
  BY <1>1, TextHolds
<1>4. /\ HeadLen(c)' = HeadLen(c) /\ HeadFits(c)' = HeadFits(c)
      /\ Size(c)' = Size(c) /\ Behind(c)' = Behind(c) + n /\ got'[c] = got[c] + n
  BY <1>1 DEF Size, Behind, HeadLen, HeadFits, ClientTypes
<1>5. status[c] # "none"
  BY <1>1, <1>2 DEF Size
<1>6. CASE RecvHead(c, n)
  <2> DEFINE h == headers[c] \o Text(c, n)
  <2>1. /\ cpc[c] = "head" /\ code[c] = "none" /\ peer[c] # "new"
        /\ got[c] < HeadLen(c) /\ Holds(headers[c], -HeadLen(c), got[c])
        /\ out[c] = <<>> /\ err[c] = <<>>
        /\ headers' = [headers EXCEPT ![c] = h]
    BY <1>1, <1>6 DEF RecvHead, ClientInv, OutputInv, ConnectionInv
  <2>2. Holds(h, -HeadLen(c), got[c] + m)
    <3>1. Behind(c) = -HeadLen(c) + got[c]
      BY <1>1 DEF Behind
    <3>2. QED
      BY <1>1, <1>3, <2>1, <3>1, HoldsConcat
  <2>3. /\ HasBlankLine(h) <=> got[c] + m >= HeadLen(c)
        /\ got[c] + m >= HeadLen(c) => Holds(BodyStart(h), 0, got[c] + m - HeadLen(c))
    BY <1>1, <2>2, BlankLineFound
  <2>4. h \in Seq(Int) /\ Len(h) = got[c] + m
    BY <2>2 DEF Holds
  <2>5. HeadFits(c) => ~Overruns(h)
    BY <1>1, <2>1, <2>4 DEF HeadFits, Overruns
  <2> HIDE DEF h
  <2>6. headers'[c] = h
    BY <1>1, <2>1 DEF ClientTypes
  <2>7. CASE ~Overruns(h) /\ ~HasBlankLine(h)
    <3>1. UNCHANGED <<cpc, out, err>>
      BY <1>6, <2>6, <2>7 DEF RecvHead
    <3>2. m = n /\ got[c] + n < HeadLen(c)
      BY <1>1, <1>3, <2>1, <2>3, <2>7
    <3>3. ClientTypes'
      BY <1>1, <2>1, <2>4, <3>1 DEF ClientTypes
    <3>4. ClientInv(c)'
      BY <1>1, <1>2, <1>4, <2>1, <2>2, <2>5, <2>6, <3>1, <3>2
      DEF ClientInv, ConnectionInv, ReceivedInv, OutputInv, ExitInv
    <3>5. QED
      BY <1>1, <2>1, <3>1, <3>3, <3>4, OneConnection DEF ClientTypes
  <2>8. CASE ~Overruns(h) /\ HasBlankLine(h) /\ status[c] = "200"
    <3>1. /\ cpc' = [cpc EXCEPT ![c] = "body"] /\ out' = [out EXCEPT ![c] = BodyStart(h)]
          /\ UNCHANGED err
      BY <1>6, <2>6, <2>8 DEF RecvHead, Verdict
    <3>2. Holds(BodyStart(h), 0, got[c] + m - HeadLen(c)) /\ got[c] + n >= HeadLen(c)
      BY <1>1, <1>3, <2>3, <2>8
    <3>3. ClientTypes' /\ cpc'[c] = "body" /\ out'[c] = BodyStart(h)
      <4>1. out \in [Clients -> Seq(Int)] /\ BodyStart(h) \in Seq(Int)
        BY <1>1, <3>2 DEF ClientTypes, Holds
      <4>2. out' \in [Clients -> Seq(Int)] /\ out'[c] = BodyStart(h)
        BY <3>1, <4>1, SetOne
      <4>3. cpc'[c] = "body" /\ cpc' \in [Clients -> {"connect", "send", "select", "head",
                                                  "body", "error", "undefined", "exited"}]
        BY <1>1, <3>1 DEF ClientTypes
      <4>4. headers' \in [Clients -> Seq(Int)] /\ got' \in [Clients -> Nat]
        BY <1>1, <2>1, <2>4 DEF ClientTypes
      <4>5. ClientTypes'
        BY <1>1, <3>1, <4>2, <4>3, <4>4 DEF ClientTypes
      <4>6. QED
        BY <4>2, <4>3, <4>5
    <3>4. NulBytes = {} => Holds(out'[c], 0, Behind(c)')
      BY <1>1, <1>3, <1>4, <3>2, <3>3 DEF Behind
    <3>5. ClientInv(c)'
      BY <1>1, <1>2, <1>4, <2>1, <2>5, <2>6, <2>8, <3>1, <3>2, <3>3, <3>4
      DEF ClientInv, ConnectionInv, ReceivedInv, OutputInv, ExitInv
    <3>6. QED
      BY <1>1, <2>1, <3>1, <3>3, <3>5, OneConnection DEF ClientTypes
  <2>9. CASE ~Overruns(h) /\ HasBlankLine(h) /\ status[c] # "200"
    <3>1. /\ cpc' = [cpc EXCEPT ![c] = "error"] /\ err' = [err EXCEPT ![c] = h]
          /\ UNCHANGED out
      BY <1>6, <2>6, <2>9 DEF RecvHead, Verdict
    <3>2. ClientTypes' /\ cpc'[c] = "error" /\ err'[c] = h
      <4>1. err' \in [Clients -> Seq(Int)] /\ err'[c] = h
        BY <1>1, <2>4, <3>1, SetOne DEF ClientTypes
      <4>2. cpc'[c] = "error" /\ cpc' \in [Clients -> {"connect", "send", "select", "head",
                                                   "body", "error", "undefined", "exited"}]
        BY <1>1, <3>1 DEF ClientTypes
      <4>3. QED
        BY <1>1, <2>1, <3>1, <4>1, <4>2 DEF ClientTypes
    <3>3. status[c] = "404"
      BY <1>1, <1>5, <2>9 DEF ClientTypes
    <3>4. NulBytes = {} => Holds(err'[c], -HeadLen(c), got'[c])
      BY <1>3, <1>4, <2>2, <3>2
    <3>5. ClientInv(c)'
      BY <1>1, <1>2, <1>4, <2>1, <2>5, <2>6, <3>1, <3>2, <3>3, <3>4
      DEF ClientInv, ConnectionInv, ReceivedInv, OutputInv, ExitInv
    <3>6. QED
      BY <1>1, <2>1, <3>1, <3>2, <3>5, OneConnection DEF ClientTypes
  <2>10. CASE Overruns(h)
    <3>1. cpc' = [cpc EXCEPT ![c] = "undefined"] /\ UNCHANGED <<out, err>>
      BY <1>6, <2>10, <2>6 DEF RecvHead
    <3>2. ClientTypes' /\ cpc'[c] = "undefined"
      BY <1>1, <2>1, <2>4, <3>1 DEF ClientTypes
    <3>3. ClientInv(c)'
      BY <1>1, <1>2, <1>4, <2>10, <2>1, <2>5, <3>1, <3>2
      DEF ClientInv, ConnectionInv, ReceivedInv, OutputInv, ExitInv
    <3>4. QED
      BY <1>1, <2>1, <3>1, <3>2, <3>3, OneConnection DEF ClientTypes
  <2>11. QED
    BY <2>7, <2>8, <2>9, <2>10
<1>7. CASE RecvBody(c, n)
  <2>0. UNCHANGED <<cpc, headers, err>>
    BY <1>7 DEF RecvBody
  <2>1. /\ cpc[c] = "body" /\ code[c] = "none" /\ peer[c] # "new" /\ status[c] = "200"
        /\ err[c] = <<>> /\ got[c] >= HeadLen(c)
        /\ NulBytes = {} => Holds(out[c], 0, Behind(c))
        /\ out' = [out EXCEPT ![c] = @ \o Text(c, n)]
    BY <1>1, <1>7 DEF RecvBody, ClientInv, OutputInv, ConnectionInv
  <2>2. Text(c, n) \in Seq(Int) /\ out[c] \o Text(c, n) \in Seq(Int)
    BY <1>1, <1>3, ConcatProperties DEF Holds, ClientTypes
  <2>3. ClientTypes' /\ out'[c] = out[c] \o Text(c, n)
    <3>1. out' = [out EXCEPT ![c] = out[c] \o Text(c, n)] /\ out \in [Clients -> Seq(Int)]
      BY <1>1, <2>1 DEF ClientTypes
    <3>2. out' \in [Clients -> Seq(Int)] /\ out'[c] = out[c] \o Text(c, n)
      BY <2>2, <3>1, SetOne
    <3>3. out' \in [Clients -> Seq(Int)]
      BY <3>2
    <3>4. got' \in [Clients -> Nat]
      BY <1>1 DEF ClientTypes
    <3>5. ClientTypes'
      BY <1>1, <2>0, <3>3, <3>4 DEF ClientTypes
    <3>6. QED
      BY <3>2, <3>5
  <2>4. NulBytes = {} => Holds(out'[c], 0, Behind(c)')
    <3>1. Behind(c) \in Nat
      BY <1>1, <2>1 DEF Behind
    <3>2. NulBytes = {} => Holds(out[c] \o Text(c, n), 0, Behind(c) + n)
      BY <1>1, <1>3, <2>1, <3>1, HoldsConcat
    <3>3. QED
      BY <1>4, <2>3, <3>2
  <2>5. ClientInv(c)'
    BY <1>1, <1>2, <1>4, <2>0, <2>1, <2>3, <2>4
    DEF ClientInv, ConnectionInv, ReceivedInv, OutputInv, ExitInv
  <2>6. QED
    BY <1>1, <2>0, <2>1, <2>3, <2>5, OneConnection DEF ClientTypes
<1>8. CASE RecvError(c, n)
  <2>0. UNCHANGED <<cpc, headers, out>>
    BY <1>8 DEF RecvError
  <2>1. /\ cpc[c] = "error" /\ code[c] = "none" /\ peer[c] # "new" /\ status[c] = "404"
        /\ out[c] = <<>>
        /\ NulBytes = {} => Holds(err[c], -HeadLen(c), got[c])
        /\ err' = [err EXCEPT ![c] = @ \o Text(c, n)]
    BY <1>1, <1>8 DEF RecvError, ClientInv, OutputInv, ConnectionInv
  <2>2. Text(c, n) \in Seq(Int) /\ err[c] \o Text(c, n) \in Seq(Int)
    BY <1>1, <1>3, ConcatProperties DEF Holds, ClientTypes
  <2>3. ClientTypes' /\ err'[c] = err[c] \o Text(c, n)
    <3>1. err' = [err EXCEPT ![c] = err[c] \o Text(c, n)] /\ err \in [Clients -> Seq(Int)]
      BY <1>1, <2>1 DEF ClientTypes
    <3>2. err' \in [Clients -> Seq(Int)] /\ err'[c] = err[c] \o Text(c, n)
      BY <2>2, <3>1, SetOne
    <3>3. err' \in [Clients -> Seq(Int)]
      BY <3>2
    <3>4. got' \in [Clients -> Nat]
      BY <1>1 DEF ClientTypes
    <3>5. ClientTypes'
      BY <1>1, <2>0, <3>3, <3>4 DEF ClientTypes
    <3>6. QED
      BY <3>2, <3>5
  <2>4. NulBytes = {} => Holds(err'[c], -HeadLen(c), got'[c])
    <3>1. Behind(c) = -HeadLen(c) + got[c]
      BY <1>1 DEF Behind
    <3>2. NulBytes = {} => Holds(err[c] \o Text(c, n), -HeadLen(c), got[c] + n)
      BY <1>1, <1>3, <2>1, <3>1, HoldsConcat
    <3>3. QED
      BY <1>4, <2>3, <3>2
  <2>5. ClientInv(c)'
    BY <1>1, <1>2, <1>4, <2>0, <2>1, <2>3, <2>4
    DEF ClientInv, ConnectionInv, ReceivedInv, OutputInv, ExitInv
  <2>6. QED
    BY <1>1, <2>0, <2>1, <2>3, <2>5, OneConnection DEF ClientTypes
<1>9. QED
  BY <1>6, <1>7, <1>8

\* Whatever http_client does, and however it ends.
LEMMA ClientMoves ==
  ASSUME ClientsInv, NEW c \in Clients, ClientStep(c) \/ ConnectFails(c) \/ Interrupt(c)
  PROVE  ClientsInv'
BY OpeningInv, EndingInv, ReceivingInv DEF ClientStep

\* The server sends a head or more of the body, or closes: only on a connection it has
\* not closed, and never taking back what it sent.
LEMMA ServerMovesOn ==
  ASSUME ClientsInv, NEW c \in Clients, peer[c] # "new", closed[c] = "no",
         UNCHANGED <<req, peer, wrote, clientVars>>, ClientTypes',
         status[c] = "none" \/ status'[c] = status[c],
         Len(body[c]) <= Len(body'[c]), Holds(body'[c], 0, Len(body'[c])),
         \A d \in Clients \ {c} :
           status'[d] = status[d] /\ body'[d] = body[d] /\ closed'[d] = closed[d]
  PROVE  ClientsInv'
<1>1. /\ ClientTypes /\ ClientInv(c) /\ got[c] \in Nat /\ HeadLen(c) \in Nat \ {0}
      /\ Len(body[c]) \in Nat /\ Len(body'[c]) \in Nat
      /\ UNCHANGED <<cpc, got, headers, out, err, code>>
  BY AskedTypes, LenProperties DEF ClientsInv, ClientTypes, clientVars
<1>2. /\ HeadLen(c)' = HeadLen(c) /\ HeadFits(c)' = HeadFits(c)
      /\ got[c] <= Size(c)' /\ Behind(c)' = Behind(c)
  <2>1. HeadLen(c)' = HeadLen(c) /\ HeadFits(c)' = HeadFits(c)
    BY DEF HeadLen, HeadFits
  <2>2. got[c] <= Size(c) /\ Size(c) <= Size(c)' /\ Size(c) \in Nat /\ Size(c)' \in Nat
    BY <1>1, <2>1 DEF ClientInv, ReceivedInv, Size
  <2>3. QED
    BY <1>1, <2>1, <2>2 DEF Behind
<1>3. ConnectionInv(c)' /\ ReceivedInv(c)'
  BY <1>1, <1>2 DEF ClientInv, ConnectionInv, ReceivedInv
<1>4. OutputInv(c)'
  BY <1>1, <1>2 DEF ClientInv, OutputInv
<1>5. code[c] \notin {"0", "-1"}
  BY <1>1 DEF ClientInv, ExitInv
<1>6. ClientInv(c)'
  BY <1>1, <1>3, <1>4, <1>5 DEF ClientInv, ExitInv
<1>7. QED
  BY <1>1, <1>6, OneConnection

\* Steps that are neither the client's nor the server's on its connection.
LEMMA ClientsStutter ==
  ASSUME ClientsInv, UNCHANGED <<req, peer, wrote, status, body, closed, clientVars>>
  PROVE  ClientsInv'
<1>1. ClientTypes'
  BY DEF ClientsInv, ClientTypes, clientVars
<1>2. ASSUME NEW c \in Clients PROVE ClientInv(c)'
  BY Undisturbed DEF ClientsInv, clientVars
<1>3. QED
  BY <1>1, <1>2 DEF ClientsInv

-----------------------------------------------------------------------------
(***************************************************************************)
(* The client with any server of AnyServer.                                 *)
(***************************************************************************)
LEMMA AnyInitInv == AnyInit => ClientsInv
BY ClientsInit DEF AnyInit

LEMMA ServerInv ==
  ASSUME ClientsInv, NEW c \in Clients, ServerMoves(c)
  PROVE  ClientsInv'
<1>1. /\ ClientTypes /\ ClientInv(c) /\ req[c].len \in Nat \ {0}
      /\ closed[c] = "no" /\ UNCHANGED <<req, peer, wrote, clientVars>>
      /\ body[c] \in Seq(Nat) /\ Len(body[c]) \in Nat /\ Holds(body[c], 0, Len(body[c]))
  BY AskedTypes, LenProperties
  DEF ClientsInv, ClientTypes, ClientInv, ReceivedInv, ServerMoves, Answer, AnswerMore, Hangup,
      kernelVars
<1>2. CASE Answer(c)
  <2>1. /\ status[c] = "none" /\ UNCHANGED <<body, closed>> /\ peer[c] # "new"
        /\ status' = [status EXCEPT ![c] = IF req[c].kind = "file" THEN "200" ELSE "404"]
    BY <1>1, <1>2 DEF Answer, ClientInv, ConnectionInv, kernelVars
  <2>2. ClientTypes'
    BY <1>1, <2>1 DEF ClientTypes, clientVars
  <2>3. /\ status[c] = "none" \/ status'[c] = status[c]
        /\ Len(body[c]) <= Len(body'[c]) /\ Holds(body'[c], 0, Len(body'[c]))
        /\ \A d \in Clients \ {c} :
          status'[d] = status[d] /\ body'[d] = body[d] /\ closed'[d] = closed[d]
    BY <1>1, <2>1 DEF ClientTypes
  <2>4. QED
    BY <1>1, <2>1, <2>2, <2>3, ServerMovesOn
<1>3. CASE AnswerMore(c)
  <2> DEFINE b == Append(body[c], Len(body[c]) + 1)
  <2>1. status[c] # "none" /\ body' = [body EXCEPT ![c] = b] /\ UNCHANGED <<status, closed>>
    BY <1>3 DEF AnswerMore, kernelVars
  <2>2. b \in Seq(Nat) /\ Len(b) = Len(body[c]) + 1 /\ Holds(b, 0, Len(b))
    <3>1. /\ b \in Seq(Nat) /\ Len(b) = Len(body[c]) + 1
          /\ \A k \in 1 .. Len(b) : b[k] = IF k <= Len(body[c]) THEN body[c][k] ELSE Len(body[c]) + 1
      BY <1>1, AppendProperties
    <3>2. b \in Seq(Int)
      BY <3>1, SeqMonotonic
    <3>3. \A k \in 1 .. Len(b) : b[k] = 0 + k
      BY <1>1, <3>1 DEF Holds
    <3>4. QED
      BY <3>1, <3>2, <3>3 DEF Holds
  <2> HIDE DEF b
  <2>3. ClientTypes' /\ body'[c] = b
    BY <1>1, <2>1, <2>2 DEF ClientTypes, clientVars
  <2>4. peer[c] # "new" /\ Len(body[c]) <= Len(body'[c])
    BY <1>1, <2>1, <2>2, <2>3 DEF ClientInv, ConnectionInv
  <2>5. \A d \in Clients \ {c} :
          status'[d] = status[d] /\ body'[d] = body[d] /\ closed'[d] = closed[d]
    BY <1>1, <2>1 DEF ClientTypes
  <2>6. QED
    BY <1>1, <2>1, <2>2, <2>3, <2>4, <2>5, ServerMovesOn
<1>4. ASSUME NEW how \in {"fin", "rst"}, Hangup(c, how) PROVE ClientsInv'
  <2>1. /\ peer[c] # "new" /\ closed' = [closed EXCEPT ![c] = how]
        /\ UNCHANGED <<status, body>>
    BY <1>4 DEF Hangup, replyVars
  <2>2. ClientTypes'
    BY <1>1, <2>1 DEF ClientTypes, clientVars
  <2>3. /\ status[c] = "none" \/ status'[c] = status[c]
        /\ Len(body[c]) <= Len(body'[c]) /\ Holds(body'[c], 0, Len(body'[c]))
        /\ \A d \in Clients \ {c} :
          status'[d] = status[d] /\ body'[d] = body[d] /\ closed'[d] = closed[d]
    BY <1>1, <2>1 DEF ClientTypes
  <2>4. QED
    BY <1>1, <2>1, <2>2, <2>3, ServerMovesOn
<1>5. QED
  BY <1>2, <1>3, <1>4 DEF ServerMoves

LEMMA AnyNextInv == ClientsInv /\ [AnyNext]_anyVars => ClientsInv'
<1> SUFFICES ASSUME ClientsInv, [AnyNext]_anyVars PROVE ClientsInv'
  OBVIOUS
<1>1. ASSUME NEW c \in Clients, ClientStep(c) \/ Unlucky(c) PROVE ClientsInv'
  BY <1>1, ClientMoves DEF Unlucky
<1>2. ASSUME NEW c \in Clients, ServerMoves(c) PROVE ClientsInv'
  BY <1>2, ServerInv
<1>3. ASSUME UNCHANGED anyVars PROVE ClientsInv'
  BY <1>3, ClientsStutter DEF anyVars, kernelVars, replyVars
<1>4. QED
  BY <1>1, <1>2, <1>3 DEF AnyNext

-----------------------------------------------------------------------------

\* The invariant, of http_client with any server.
THEOREM ClientInvariance == AnySpec => []ClientsInv
BY AnyInitInv, AnyNextInv, PTL DEF AnySpec

\* The client never sends past its request nor takes more than it was sent
\* (http_client.c:117-206, 242-263).
THEOREM ClientTypeCorrect == AnySpec => []ClientTypeOK
<1>1. ClientsInv => ClientTypeOK
  <2> SUFFICES ASSUME ClientsInv PROVE ClientTypeOK
    OBVIOUS
  <2>1. ASSUME NEW c \in Clients
        PROVE  wrote[c] \in 0 .. req[c].len /\ got[c] \in 0 .. Len(Stream(c))
    <3>1. /\ req[c].len \in Nat /\ wrote[c] \in Nat /\ wrote[c] <= req[c].len
          /\ got[c] \in Nat /\ got[c] <= Size(c)
      BY AskedTypes DEF ClientsInv, ClientTypes, ClientInv, ConnectionInv, ReceivedInv
    <3>2. Len(Stream(c)) = Size(c) /\ Size(c) \in Nat
      BY StreamHolds DEF Holds
    <3>3. QED
      BY <3>1, <3>2
  <2>2. QED
    BY <2>1 DEF ClientTypeOK, ClientsInv, ClientTypes
<1>2. QED
  BY <1>1, ClientInvariance, PTL

\* Of every reply with a head of at most 4 * BUFSIZE + 1 bytes, strcat() writes nothing
\* past the end of headers[BUFSIZE*5], however it is cut, NUL bytes or not; of a longer
\* head nothing is claimed (http_client.c:166, 199).
THEOREM HeadersNeverOverflow == AnySpec => []HeadersFit
<1>1. ClientsInv => HeadersFit
  BY DEF ClientsInv, ClientInv, OutputInv, HeadersFit
<1>2. QED
  BY <1>1, ClientInvariance, PTL

\* Of replies without NUL bytes: exit code 0 means that all of the body and nothing else
\* is on standard output (README.md:141-144).
THEOREM ExitZeroIsBody == ASSUME NulBytes = {} PROVE AnySpec => []ExitZeroMeansBody
<1>1. ClientsInv => ExitZeroMeansBody
  <2> SUFFICES ASSUME ClientsInv, NEW c \in Clients, code[c] = "0"
               PROVE  status[c] = "200" /\ out[c] = body[c] /\ err[c] = <<>>
    BY DEF ExitZeroMeansBody
  <2>1. /\ status[c] = "200" /\ err[c] = <<>> /\ Len(body[c]) \in Nat
        /\ Holds(out[c], 0, Len(body[c])) /\ Holds(body[c], 0, Len(body[c]))
    BY LenProperties DEF ClientsInv, ClientTypes, ClientInv, ReceivedInv, ExitInv
  <2>2. QED
    BY <2>1, HoldsEqual
<1>2. QED
  BY <1>1, ClientInvariance, PTL

\* Of replies without NUL bytes: a client that exits with -1 after a whole error reply has
\* all of it on standard error and nothing on standard output (README.md:144-147).
THEOREM ErrorsReported == ASSUME NulBytes = {} PROVE AnySpec => []ErrorIsReported
<1>1. ClientsInv => ErrorIsReported
  <2> SUFFICES ASSUME ClientsInv, NEW c \in Clients,
                      code[c] = "-1" /\ status[c] = "404" /\ closed[c] = "fin"
               PROVE  err[c] = Stream(c) /\ out[c] = <<>>
    BY DEF ErrorIsReported
  <2>1. out[c] = <<>> /\ Holds(err[c], -HeadLen(c), Size(c))
    BY DEF ClientsInv, ClientInv, ExitInv
  <2>2. /\ Size(c) \in Nat /\ Holds(Stream(c), -HeadLen(c), Size(c)) /\ -HeadLen(c) \in Int
    BY StreamHolds, AskedTypes DEF ClientsInv
  <2>3. QED
    BY <2>1, <2>2, HoldsEqual
<1>2. QED
  BY <1>1, ClientInvariance, PTL

=============================================================================
