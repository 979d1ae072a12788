-------------------------- MODULE PetHashtableLinks ---------------------------
(***************************************************************************)
(* Why pet_hashtable.c never tears a chain: an inductive invariant that     *)
(* speaks of single pointers, and what follows from it for the walks along  *)
(* them.                                                                    *)
(***************************************************************************)
EXTENDS PetHashtable, FiniteSetTheorems, SequenceTheorems, TLAPS

-----------------------------------------------------------------------------
(***************************************************************************)
(* Induction.                                                               *)
(***************************************************************************)

LEMMA LeastNat ==
  ASSUME NEW S \in SUBSET Nat, S # {}
  PROVE  \E m \in S : \A k \in S : m <= k
<1>1. PICK m \in S : \A k \in S : ~(<<k, m>> \in OpToRel(<, Nat))
  BY WFMin, NatLessThanWellFounded, Zenon
<1>2. ASSUME NEW k \in S PROVE m <= k
  <2>1. ~(<<k, m>> \in OpToRel(<, Nat))
    BY <1>1
  <2>2. k \in Nat /\ m \in Nat
    OBVIOUS
  <2>3. QED
    BY <2>1, <2>2 DEF OpToRel
<1>3. QED
  BY <1>2

LEMMA NatsByInduction ==
  ASSUME NEW S, 0 \in S, \A n \in Nat : n \in S => n + 1 \in S
  PROVE  Nat \subseteq S
<1> SUFFICES ASSUME Nat \ S # {} PROVE FALSE
  OBVIOUS
<1>1. PICK m \in Nat \ S : \A k \in Nat \ S : m <= k
  BY LeastNat
<1>2. m - 1 \in Nat \ S \/ m = 0
  BY <1>1
<1>3. QED
  BY <1>1, <1>2

\* The greatest of some numbers up to n, and the least of some.
LEMMA MaxOf ==
  ASSUME NEW n \in Nat, NEW S \in SUBSET (0 .. n), S # {}
  PROVE  Max(S) \in S /\ \A k \in S : k <= Max(S)
<1> DEFINE Above == {n - k : k \in S}
<1>1. Above \in SUBSET Nat /\ Above # {}
  <2>1. \A k \in S : n - k \in Nat
    OBVIOUS
  <2>2. PICK k \in S : TRUE
    OBVIOUS
  <2>3. n - k \in Above
    OBVIOUS
  <2>4. QED
    BY <2>1, <2>3
<1>2. PICK a \in Above : \A b \in Above : a <= b
  <2> HIDE DEF Above
  <2> QED
    BY <1>1, LeastNat
<1>3. PICK m \in S : a = n - m
  OBVIOUS
<1>4. ASSUME NEW k \in S PROVE m >= k
  <2>1. n - m <= n - k
    BY <1>2, <1>3
  <2>2. QED
    BY <2>1
<1>5. QED
  BY <1>4 DEF Max

LEMMA MinOf ==
  ASSUME NEW S \in SUBSET Nat, S # {}
  PROVE  Min(S) \in S /\ \A k \in S : Min(S) <= k
<1>1. \E m \in S : \A k \in S : m <= k
  BY LeastNat
<1>2. QED
  BY <1>1 DEF Min

-----------------------------------------------------------------------------
(***************************************************************************)
(* The invariant.  t and h are a table of len chains and a heap.  Chains    *)
(* are said to be sound without walking them: a link leads to an entry of   *)
(* the same chain and of a lower rank, and every entry is pointed to by one *)
(* pointer.                                                                 *)
(***************************************************************************)
CellsTyped(t, h) ==
  /\ DOMAIN h \subseteq Cells /\ IsFiniteSet(DOMAIN h)
  /\ \A e \in DOMAIN h : h[e] \in [key : Keys, value : Values, next : DOMAIN h \cup {NULL}]
  /\ \A j \in DOMAIN t : t[j] \in DOMAIN h \cup {NULL}

\* Entries lie where they will be looked for.
InPlace(t, h, len) ==
  /\ \A j \in DOMAIN t : t[j] # NULL => IndexFor(len, h[t[j]].key) = j
  /\ \A e \in DOMAIN h : h[e].next # NULL =>
       IndexFor(len, h[h[e].next].key) = IndexFor(len, h[e].key)

\* One pointer leads to each entry.
PointedOnce(t, h) ==
  /\ \A e \in DOMAIN h : (\E j \in DOMAIN t : t[j] = e) \/ (\E d \in DOMAIN h : h[d].next = e)
  /\ \A j \in DOMAIN t, d \in DOMAIN h : t[j] = h[d].next => t[j] = NULL
  /\ \A c, d \in DOMAIN h : h[c].next = h[d].next => h[c].next = NULL \/ c = d

Falls(h, rank) == \A e \in DOMAIN h : h[e].next # NULL => rank[h[e].next] < rank[e]
Acyclic(h) == \E top \in Nat : \E rank \in [DOMAIN h -> 0 .. top] : Falls(h, rank)

Linked(t, h, len) ==
  /\ len \in Nat /\ DOMAIN t = 0 .. len - 1
  /\ CellsTyped(t, h) /\ InPlace(t, h, len) /\ PointedOnce(t, h) /\ Acyclic(h)

-----------------------------------------------------------------------------
(***************************************************************************)
(* Walks.                                                                   *)
(***************************************************************************)

\* What holds behind the end of every chain, and of an entry when it holds of the next
\* one, holds of all entries.
LEMMA WalkInduction ==
  ASSUME NEW t, NEW h, NEW len, Linked(t, h, len),
         NEW T, NULL \in T, \A e \in DOMAIN h : h[e].next \in T => e \in T
  PROVE  DOMAIN h \subseteq T
<1>0. PICK top \in Nat : \E rank \in [DOMAIN h -> 0 .. top] : Falls(h, rank)
  BY DEF Linked, Acyclic
<1>1. PICK rank \in [DOMAIN h -> 0 .. top] : Falls(h, rank)
  BY <1>0
<1>2. \A e \in DOMAIN h : h[e].next \in DOMAIN h \cup {NULL}
  BY DEF Linked, CellsTyped
<1> DEFINE S == {n \in Nat : \A e \in DOMAIN h : rank[e] < n => e \in T}
<1>3. 0 \in S
  OBVIOUS
<1>4. ASSUME NEW n \in Nat, n \in S PROVE n + 1 \in S
  <2> SUFFICES ASSUME NEW e \in DOMAIN h, rank[e] < n + 1 PROVE e \in T
    OBVIOUS
  <2>1. h[e].next # NULL => rank[h[e].next] < n
    BY <1>1, <1>2 DEF Falls
  <2>2. h[e].next \in T
    BY <1>2, <1>4, <2>1
  <2>3. QED
    BY <2>2
<1>5. Nat \subseteq S
  <2> HIDE DEF S
  <2> QED
    BY <1>3, <1>4, NatsByInduction
<1>6. top + 1 \in S
  BY <1>5
<1>7. QED
  BY <1>1, <1>6

\* What holds of the head of every chain, and of the next entry when it holds of an entry,
\* holds of all entries.
LEMMA ReachInduction ==
  ASSUME NEW t, NEW h, NEW len, Linked(t, h, len),
         NEW T, \A j \in DOMAIN t : t[j] # NULL => t[j] \in T,
         \A d \in DOMAIN h : d \in T /\ h[d].next # NULL => h[d].next \in T
  PROVE  DOMAIN h \subseteq T
<1>0. PICK top \in Nat : \E rank \in [DOMAIN h -> 0 .. top] : Falls(h, rank)
  BY DEF Linked, Acyclic
<1>1. PICK rank \in [DOMAIN h -> 0 .. top] : Falls(h, rank)
  BY <1>0
<1>2. /\ NULL \notin DOMAIN h
      /\ \A e \in DOMAIN h : (\E j \in DOMAIN t : t[j] = e) \/ (\E d \in DOMAIN h : h[d].next = e)
  BY CellsAssumption DEF Linked, CellsTyped, PointedOnce
<1> DEFINE S == {n \in Nat : \A e \in DOMAIN h : top - rank[e] < n => e \in T}
<1>3. 0 \in S
  OBVIOUS
<1>4. ASSUME NEW n \in Nat, n \in S PROVE n + 1 \in S
  <2> SUFFICES ASSUME NEW e \in DOMAIN h, top - rank[e] < n + 1 PROVE e \in T
    OBVIOUS
  <2>1. CASE \E j \in DOMAIN t : t[j] = e
    BY <1>2, <2>1
  <2>2. ASSUME NEW d \in DOMAIN h, h[d].next = e PROVE e \in T
    <3>1. rank[e] < rank[d]
      BY <1>1, <1>2, <2>2 DEF Falls
    <3>2. top - rank[d] < n
      BY <3>1
    <3>3. QED
      BY <1>2, <1>4, <2>2, <3>2
  <2>3. QED
    BY <1>2, <2>1, <2>2
<1>5. Nat \subseteq S
  <2> HIDE DEF S
  <2> QED
    BY <1>3, <1>4, NatsByInduction
<1>6. top + 1 \in S
  BY <1>5
<1>7. QED
  BY <1>6

\* The walks from all entries, and from NULL.
Stops == DOMAIN heap \cup {NULL}
Walk  == [d \in Stops |-> ChainFrom(d)]

Walks(g, S) == g = [d \in S |-> IF d = NULL THEN <<>> ELSE <<d>> \o g[heap[d].next]]

\* The recursion of ChainFrom ends.
LEMMA WalkExists ==
  ASSUME Linked(table, heap, TableLength)
  PROVE  \E g : Walks(g, Stops)
<1>0. PICK top \in Nat : \E rank \in [DOMAIN heap -> 0 .. top] : Falls(heap, rank)
  BY DEF Linked, Acyclic
<1>1. PICK rank \in [DOMAIN heap -> 0 .. top] : Falls(heap, rank)
  BY <1>0
<1>2. NULL \notin DOMAIN heap /\ \A e \in DOMAIN heap : heap[e].next \in Stops
  BY CellsAssumption DEF Linked, CellsTyped, Stops
<1> DEFINE B(n) == {d \in Stops : d # NULL => rank[d] < n}
           S == {n \in Nat : \E g : Walks(g, B(n))}
<1>3. 0 \in S
  <2>1. B(0) = {NULL}
    BY DEF Stops
  <2>2. Walks([d \in B(0) |-> <<>>], B(0))
    BY <2>1 DEF Walks
  <2>3. QED
    BY <2>2
<1>4. ASSUME NEW n \in Nat, n \in S PROVE n + 1 \in S
  <2>1. PICK g : Walks(g, B(n))
    BY <1>4
  <2> DEFINE f == [d \in B(n + 1) |-> IF d = NULL THEN <<>> ELSE <<d>> \o g[heap[d].next]]
  <2>2. \A d \in B(n + 1) : d # NULL => heap[d].next \in B(n)
    BY <1>1, <1>2 DEF Stops, Falls
  <2>3. ASSUME NEW d \in B(n) PROVE d \in B(n + 1) /\ f[d] = g[d]
    <3>1. d \in B(n + 1)
      BY <1>1 DEF Stops
    <3>2. g[d] = IF d = NULL THEN <<>> ELSE <<d>> \o g[heap[d].next]
      <4> HIDE DEF B
      <4> QED
        BY <2>1 DEF Walks
    <3>3. QED
      BY <3>1, <3>2
  <2>4. Walks(f, B(n + 1))
    <3> HIDE DEF B
    <3> QED
      BY <2>2, <2>3 DEF Walks
  <2>5. QED
    <3> HIDE DEF B, f
    <3> QED
      BY <2>4
<1>5. Nat \subseteq S
  <2> HIDE DEF S
  <2> QED
    BY <1>3, <1>4, NatsByInduction
<1>6. \E g : Walks(g, B(top + 1))
  <2>1. top + 1 \in S
    <3> HIDE DEF S
    <3> QED
      BY <1>5
  <2>2. QED
    BY <2>1
<1>7. B(top + 1) = Stops
  BY <1>1 DEF Stops
<1>8. QED
  BY <1>6, <1>7

LEMMA WalkEquation ==
  ASSUME Linked(table, heap, TableLength)
  PROVE  Walks(Walk, Stops)
<1>1. PICK w : w = [d \in DOMAIN heap \cup {NULL} |->
                      IF d = NULL THEN <<>> ELSE <<d>> \o w[heap[d].next]]
               /\ \A e : ChainFrom(e) = w[e]
  BY WalkExists DEF ChainFrom, Walks, Stops
<1>2. Walk = w
  BY <1>1 DEF Walk, Stops
<1>3. QED
  BY <1>1, <1>2 DEF Walks, Stops

\* A walk begins where it starts and goes on as the one from the next entry.
LEMMA WalkStep ==
  ASSUME Linked(table, heap, TableLength)
  PROVE  /\ Walk[NULL] = <<>>
         /\ \A d \in Stops : Walk[d] \in Seq(DOMAIN heap)
         /\ \A e \in DOMAIN heap :
              LET next == heap[e].next
              IN  /\ e # NULL /\ next \in Stops
                  /\ Len(Walk[e]) = Len(Walk[next]) + 1
                  /\ Walk[e][1] = e
                  /\ \A n \in 1 .. Len(Walk[next]) : Walk[e][n + 1] = Walk[next][n]
<1>1. /\ NULL \in Stops
      /\ \A e \in DOMAIN heap : e \in Stops /\ e # NULL /\ heap[e].next \in Stops
  BY CellsAssumption DEF Linked, CellsTyped, Stops
<1>2. /\ Walk[NULL] = <<>>
      /\ \A e \in DOMAIN heap : Walk[e] = <<e>> \o Walk[heap[e].next]
  BY <1>1, WalkEquation DEF Walks
<1>3. \A d \in Stops : Walk[d] \in Seq(DOMAIN heap)
  <2> DEFINE T == {d \in Stops : Walk[d] \in Seq(DOMAIN heap)}
  <2>1. NULL \in T
    BY <1>1, <1>2, EmptySeq
  <2>2. ASSUME NEW e \in DOMAIN heap, heap[e].next \in T PROVE e \in T
    <3>1. <<e>> \in Seq(DOMAIN heap) /\ Walk[heap[e].next] \in Seq(DOMAIN heap)
      BY <2>2
    <3>2. QED
      BY <1>1, <1>2, <3>1, ConcatProperties
  <2>3. DOMAIN heap \subseteq T
    <3> HIDE DEF T
    <3> QED
      BY <2>1, <2>2, WalkInduction
  <2>4. QED
    BY <2>1, <2>3 DEF Stops
<1>4. ASSUME NEW e \in DOMAIN heap
      PROVE  LET next == heap[e].next
             IN  /\ Len(Walk[e]) = Len(Walk[next]) + 1
                 /\ Walk[e][1] = e
                 /\ \A n \in 1 .. Len(Walk[next]) : Walk[e][n + 1] = Walk[next][n]
  <2> DEFINE w == Walk[heap[e].next]
  <2>1. <<e>> \in Seq(DOMAIN heap) /\ w \in Seq(DOMAIN heap) /\ Len(<<e>>) = 1 /\ <<e>>[1] = e
    BY <1>1, <1>3
  <2>2. Walk[e] = <<e>> \o w
    BY <1>2
  <2> HIDE DEF w
  <2>3. /\ Len(w) \in Nat /\ Len(<<e>> \o w) = 1 + Len(w)
        /\ \A i \in 1 .. 1 + Len(w) : (<<e>> \o w)[i] = IF i <= 1 THEN <<e>>[i] ELSE w[i - 1]
    BY <2>1, ConcatProperties, LenProperties
  <2>4. Len(Walk[e]) = Len(w) + 1 /\ Walk[e][1] = e
    BY <2>1, <2>2, <2>3
  <2>5. ASSUME NEW n \in 1 .. Len(w) PROVE Walk[e][n + 1] = w[n]
    <3>1. n + 1 \in 1 .. 1 + Len(w) /\ ~(n + 1 <= 1) /\ (n + 1) - 1 = n
      BY <2>3
    <3>2. QED
      BY <2>2, <2>3, <3>1
  <2>6. QED
    BY <2>4, <2>5 DEF w
<1>5. QED
  BY <1>1, <1>2, <1>3, <1>4

Home(e) == IndexFor(TableLength, heap[e].key)

\* Along a walk each entry links to the one behind it, the last to none.
Straight(c) ==
  \A n \in 1 .. Len(c) : heap[c[n]].next = IF n < Len(c) THEN c[n + 1] ELSE NULL

\* A walk stays in its chain and never meets an entry twice.
LEMMA WalkLaws ==
  ASSUME Linked(table, heap, TableLength), NEW e \in DOMAIN heap
  PROVE  /\ Straight(Walk[e])
         /\ \A n \in 1 .. Len(Walk[e]) : Home(Walk[e][n]) = Home(e)
         /\ \A m, n \in 1 .. Len(Walk[e]) : Walk[e][m] = Walk[e][n] => m = n
<1>0. PICK top \in Nat : \E rank \in [DOMAIN heap -> 0 .. top] : Falls(heap, rank)
  BY DEF Linked, Acyclic
<1>1. PICK rank \in [DOMAIN heap -> 0 .. top] : Falls(heap, rank)
  BY <1>0
<1>2. /\ \A d \in DOMAIN heap : heap[d].next # NULL =>
            Home(heap[d].next) = Home(d) /\ rank[heap[d].next] < rank[d]
  BY <1>1 DEF Linked, InPlace, Home, Falls
<1> DEFINE Good(d) ==
             /\ Straight(Walk[d])
             /\ \A n \in 1 .. Len(Walk[d]) :
                  /\ Walk[d][n] \in DOMAIN heap
                  /\ Home(Walk[d][n]) = Home(d)
                  /\ n > 1 => rank[Walk[d][n]] < rank[d]
             /\ \A m, n \in 1 .. Len(Walk[d]) : Walk[d][m] = Walk[d][n] => m = n
           T == {d \in Stops : Good(d)}
<1>3. NULL \in T
  <2>1. Walk[NULL] = <<>> /\ Len(<<>>) = 0
    BY WalkStep
  <2>2. QED
    BY <2>1 DEF Stops, Straight
<1>4. ASSUME NEW d \in DOMAIN heap, heap[d].next \in T PROVE d \in T
  <2> DEFINE x == heap[d].next
             w == Walk[x]
             c == Walk[d]
  <2>1. /\ d # NULL /\ x \in Stops /\ Len(c) = Len(w) + 1 /\ c[1] = d
        /\ \A n \in 1 .. Len(w) : c[n + 1] = w[n]
        /\ w \in Seq(DOMAIN heap) /\ Len(w) \in Nat
        /\ Walk[NULL] = <<>> /\ (x # NULL => Len(w) > 0 /\ w[1] = x)
    <3>1. /\ d # NULL /\ x \in Stops /\ Len(c) = Len(w) + 1 /\ c[1] = d
          /\ \A n \in 1 .. Len(w) : c[n + 1] = w[n]
          /\ Walk[NULL] = <<>>
      BY WalkStep
    <3>2. w \in Seq(DOMAIN heap) /\ Len(w) \in Nat
      BY <3>1, WalkStep, LenProperties
    <3>3. ASSUME x # NULL PROVE Len(w) > 0 /\ w[1] = x
      <4>1. x \in DOMAIN heap
        BY <3>1, <3>3 DEF Stops
      <4>2. /\ Len(w) = Len(Walk[heap[x].next]) + 1 /\ w[1] = x
            /\ heap[x].next \in Stops
        BY <4>1, WalkStep
      <4>3. Len(Walk[heap[x].next]) \in Nat
        BY <4>2, WalkStep, LenProperties
      <4>4. QED
        BY <4>2, <4>3
    <3>4. QED
      BY <3>1, <3>2, <3>3
  <2>2. /\ Straight(w)
        /\ \A n \in 1 .. Len(w) :
             /\ w[n] \in DOMAIN heap
             /\ Home(w[n]) = Home(x)
             /\ n > 1 => rank[w[n]] < rank[x]
        /\ \A m, n \in 1 .. Len(w) : w[m] = w[n] => m = n
    BY <1>4
  <2>3. /\ rank[d] \in Nat /\ \A n \in 1 .. Len(w) : rank[w[n]] \in Nat
        /\ x # NULL => rank[x] \in Nat /\ rank[x] < rank[d] /\ Home(x) = Home(d)
        /\ x = NULL => Len(w) = 0
    BY <1>2, <2>1, <2>2 DEF Stops
  <2> HIDE DEF c, w, x
  <2>4. Straight(c)
    <3> SUFFICES ASSUME NEW n \in 1 .. Len(c)
                 PROVE  heap[c[n]].next = IF n < Len(c) THEN c[n + 1] ELSE NULL
      BY DEF Straight
    <3>1. CASE n = 1
      <4>1. heap[c[n]].next = x
        BY <2>1, <3>1 DEF x
      <4>2. QED
        BY <2>1, <2>3, <3>1, <4>1
    <3>2. CASE n > 1
      <4>1. n - 1 \in 1 .. Len(w) /\ (n - 1) + 1 = n /\ (n < Len(c) <=> n - 1 < Len(w))
        BY <2>1, <3>2
      <4>2. c[n] = w[n - 1] /\ (n < Len(c) => c[n + 1] = w[n])
        BY <2>1, <4>1
      <4>3. heap[w[n - 1]].next = IF n - 1 < Len(w) THEN w[n] ELSE NULL
        BY <2>2, <4>1 DEF Straight
      <4>4. QED
        BY <4>1, <4>2, <4>3
    <3>3. QED
      BY <2>1, <3>1, <3>2
  <2>5. \A n \in 1 .. Len(c) : n = 1 \/ (n - 1 \in 1 .. Len(w) /\ c[n] = w[n - 1])
    <3> SUFFICES ASSUME NEW n \in 1 .. Len(c), n # 1
                 PROVE  n - 1 \in 1 .. Len(w) /\ c[n] = w[n - 1]
      OBVIOUS
    <3>1. n - 1 \in 1 .. Len(w) /\ (n - 1) + 1 = n
      BY <2>1
    <3>2. QED
      BY <2>1, <3>1
  <2>6. ASSUME NEW n \in 1 .. Len(c)
        PROVE  /\ c[n] \in DOMAIN heap
               /\ Home(c[n]) = Home(d)
               /\ n > 1 => rank[c[n]] < rank[d]
    <3>1. CASE n = 1
      BY <2>1, <3>1
    <3>2. CASE n # 1
      <4>1. n - 1 \in 1 .. Len(w) /\ c[n] = w[n - 1] /\ x # NULL
        BY <2>3, <2>5, <3>2
      <4>2. n - 1 = 1 \/ n - 1 > 1
        BY <4>1
      <4>3. rank[w[n - 1]] <= rank[x]
        BY <2>1, <2>2, <2>3, <4>1, <4>2
      <4>4. QED
        BY <2>2, <2>3, <4>1, <4>3
    <3>3. QED
      BY <3>1, <3>2
  <2>7. ASSUME NEW m \in 1 .. Len(c), NEW n \in 1 .. Len(c), c[m] = c[n] PROVE m = n
    <3>1. m = 1 <=> n = 1
      BY <2>1, <2>3, <2>6, <2>7
    <3>2. CASE m # 1 /\ n # 1
      <4>1. /\ m - 1 \in 1 .. Len(w) /\ c[m] = w[m - 1]
            /\ n - 1 \in 1 .. Len(w) /\ c[n] = w[n - 1]
        BY <2>5, <3>2
      <4>2. m - 1 = n - 1
        BY <2>2, <2>7, <4>1
      <4>3. QED
        BY <4>1, <4>2
    <3>3. QED
      BY <3>1, <3>2
  <2>8. QED
    BY <2>4, <2>6, <2>7 DEF c, Stops
<1>5. DOMAIN heap \subseteq T
  <2> HIDE DEF T
  <2> QED
    BY <1>3, <1>4, WalkInduction
<1>6. QED
  BY <1>5

\* Every entry is met in the chain where it will be looked for, once, and nowhere else.
LEMMA ChainLaws ==
  ASSUME Linked(table, heap, TableLength)
  PROVE  /\ \A j \in DOMAIN table :
              LET c == Chain(j)
              IN  /\ c = Walk[table[j]] /\ c \in Seq(DOMAIN heap) /\ Straight(c)
                  /\ table[j] = NULL <=> Len(c) = 0
                  /\ Len(c) > 0 => c[1] = table[j]
                  /\ \A n \in 1 .. Len(c) : Home(c[n]) = j
                  /\ \A m, n \in 1 .. Len(c) : c[m] = c[n] => m = n
         /\ \A e \in DOMAIN heap :
              /\ Home(e) \in DOMAIN table
              /\ \E n \in 1 .. Len(Chain(Home(e))) : Chain(Home(e))[n] = e
<1>1. ASSUME NEW j \in DOMAIN table
      PROVE  LET c == Chain(j)
             IN  /\ c = Walk[table[j]] /\ c \in Seq(DOMAIN heap) /\ Straight(c)
                 /\ table[j] = NULL <=> Len(c) = 0
                 /\ Len(c) > 0 => c[1] = table[j]
                 /\ \A n \in 1 .. Len(c) : Home(c[n]) = j
                 /\ \A m, n \in 1 .. Len(c) : c[m] = c[n] => m = n
  <2> DEFINE c == Chain(j)
  <2>1. table[j] \in Stops /\ (table[j] # NULL => Home(table[j]) = j)
    BY DEF Linked, CellsTyped, InPlace, Stops, Home
  <2>2. c = Walk[table[j]] /\ c \in Seq(DOMAIN heap) /\ Len(c) \in Nat
    BY <2>1, WalkStep, LenProperties DEF Chain, Walk
  <2> HIDE DEF c
  <2>3. CASE table[j] = NULL
    <3>1. Len(c) = 0
      BY <2>2, <2>3, WalkStep
    <3>2. QED
      BY <2>2, <2>3, <3>1 DEF Straight, c
  <2>4. CASE table[j] # NULL
    <3>1. table[j] \in DOMAIN heap
      BY <2>1, <2>4 DEF Stops
    <3>2. Len(c) > 0 /\ c[1] = table[j]
      <4>1. /\ heap[table[j]].next \in Stops /\ c[1] = table[j]
            /\ Len(c) = Len(Walk[heap[table[j]].next]) + 1
        BY <2>2, <3>1, WalkStep
      <4>2. Len(Walk[heap[table[j]].next]) \in Nat
        BY <4>1, WalkStep, LenProperties
      <4>3. QED
        BY <4>1, <4>2
    <3>3. QED
      BY <2>1, <2>2, <2>4, <3>1, <3>2, WalkLaws DEF c
  <2>5. QED
    BY <2>3, <2>4
<1> DEFINE T == {e \in DOMAIN heap : Home(e) \in DOMAIN table /\
                   \E n \in 1 .. Len(Chain(Home(e))) : Chain(Home(e))[n] = e}
<1>2. ASSUME NEW j \in DOMAIN table, table[j] # NULL PROVE table[j] \in T
  <2> DEFINE c == Chain(j)
  <2>1. Len(c) \in Nat /\ Len(c) > 0 /\ c[1] = table[j] /\ table[j] \in DOMAIN heap
    BY <1>1, <1>2, LenProperties DEF Linked, CellsTyped
  <2>2. Home(table[j]) = j
    BY <1>2 DEF Linked, InPlace, Home
  <2> HIDE DEF c
  <2>3. 1 \in 1 .. Len(c)
    BY <2>1
  <2>4. QED
    BY <2>1, <2>2, <2>3 DEF c
<1>3. ASSUME NEW d \in DOMAIN heap, d \in T, heap[d].next # NULL PROVE heap[d].next \in T
  <2> DEFINE c == Chain(Home(d))
  <2>1. PICK n \in 1 .. Len(c) : c[n] = d
    BY <1>3
  <2>2. Home(d) \in DOMAIN table
    BY <1>3
  <2>3. Straight(c) /\ c \in Seq(DOMAIN heap) /\ Len(c) \in Nat
    BY <1>1, <2>2, LenProperties
  <2>4. heap[d].next \in DOMAIN heap /\ Home(heap[d].next) = Home(d)
    BY <1>3 DEF Linked, CellsTyped, InPlace, Home
  <2> HIDE DEF c
  <2>5. n < Len(c) /\ c[n + 1] = heap[d].next
    BY <1>3, <2>1, <2>3 DEF Straight
  <2>6. n + 1 \in 1 .. Len(c)
    BY <2>3, <2>5
  <2>7. QED
    BY <2>2, <2>4, <2>5, <2>6 DEF c
<1>4. DOMAIN heap \subseteq T
  <2> HIDE DEF T
  <2> QED
    BY <1>2, <1>3, ReachInduction
<1>5. QED
  BY <1>1, <1>4

\* An entry, its chain and its predecessor there, NULL for the head.
At(t, h, len, parent, j, e) ==
  /\ e \in DOMAIN h /\ j \in DOMAIN t
  /\ IndexFor(len, h[e].key) = j
  /\ IF parent = NULL THEN t[j] = e ELSE parent \in DOMAIN h /\ h[parent].next = e

Located(parent, j, e) == At(table, heap, TableLength, parent, j, e)

\* Place n of a chain, and its predecessor.
LEMMA PlaceInChain ==
  ASSUME Linked(table, heap, TableLength), NEW j \in DOMAIN table,
         NEW n \in 1 .. Len(Chain(j))
  PROVE  Located(Before(Chain(j), n), j, Chain(j)[n])
<1> DEFINE c == Chain(j)
<1>1. /\ c \in Seq(DOMAIN heap) /\ Straight(c) /\ Home(c[n]) = j
      /\ Len(c) > 0 => c[1] = table[j]
  BY ChainLaws
<1>2. Len(c) \in Nat /\ \A m \in 1 .. Len(c) : c[m] \in DOMAIN heap
  BY <1>1, LenProperties
<1> HIDE DEF c
<1>3. n \in 1 .. Len(c)
  BY DEF c
<1>4. NULL \notin DOMAIN heap
  BY CellsAssumption DEF Linked, CellsTyped
<1>5. CASE n = 1
  BY <1>1, <1>2, <1>3, <1>5 DEF Located, At, Before, Home, c
<1>6. CASE n # 1
  <2>1. n - 1 \in 1 .. Len(c) /\ n - 1 < Len(c) /\ (n - 1) + 1 = n
    BY <1>2, <1>3, <1>6
  <2>2. heap[c[n - 1]].next = c[n] /\ c[n - 1] \in DOMAIN heap
    BY <1>1, <1>2, <2>1 DEF Straight
  <2>3. Before(c, n) = c[n - 1]
    BY <1>6 DEF Before
  <2>4. QED
    BY <1>1, <1>2, <1>3, <1>4, <2>2, <2>3 DEF Located, At, Home, c
<1>7. QED
  BY <1>5, <1>6

\* A search finds an entry of the key if there is one, and where it can be unlinked.
LEMMA Lookup ==
  ASSUME Linked(table, heap, TableLength), TableLength > 0, NEW k \in Keys
  PROVE  /\ IndexFor(TableLength, k) \in DOMAIN table
         /\ Found(k) <=> \E e \in DOMAIN heap : heap[e].key = k
         /\ Found(k) => /\ Match(k) \in DOMAIN heap /\ heap[Match(k)].key = k
                        /\ Located(Before(Bucket(k), Place(k)), IndexFor(TableLength, k), Match(k))
<1> DEFINE j == IndexFor(TableLength, k)
<1>1. j \in DOMAIN table
  <2>1. Hash[k] \in Nat /\ TableLength \in Nat /\ DOMAIN table = 0 .. TableLength - 1
    BY KeysAssumption DEF Linked
  <2>2. QED
    BY <2>1 DEF IndexFor
<1>2. Bucket(k) = Chain(j)
  BY DEF Bucket
<1>3. Chain(j) \in Seq(DOMAIN heap) /\ Len(Chain(j)) \in Nat
  BY <1>1, ChainLaws, LenProperties
<1>4. ASSUME Found(k)
      PROVE  Place(k) \in 1 .. Len(Chain(j)) /\ heap[Match(k)].key = k
  <2>1. Hits(k) \in SUBSET Nat /\ Hits(k) # {}
    BY <1>2, <1>3, <1>4 DEF Hits, Found
  <2>2. Place(k) \in Hits(k)
    BY <2>1, MinOf DEF Place
  <2>3. QED
    BY <1>2, <2>2 DEF Hits, Match
<1>5. Found(k) => /\ Match(k) \in DOMAIN heap /\ heap[Match(k)].key = k
                  /\ Located(Before(Bucket(k), Place(k)), j, Match(k))
  BY <1>1, <1>2, <1>3, <1>4, PlaceInChain DEF Match, Located, At
<1>6. ASSUME NEW e \in DOMAIN heap, heap[e].key = k PROVE Found(k)
  <2>1. Home(e) = j
    BY <1>6 DEF Home
  <2>2. PICK n \in 1 .. Len(Chain(j)) : Chain(j)[n] = e
    BY <2>1, ChainLaws
  <2>3. n \in Hits(k)
    BY <1>2, <1>6, <2>2 DEF Hits
  <2>4. QED
    BY <2>3 DEF Found
<1>7. QED
  BY <1>1, <1>5, <1>6

-----------------------------------------------------------------------------
(***************************************************************************)
(* What the operations do to the links.                                     *)
(***************************************************************************)

\* Every pointer to e is made to skip it.
Skips(t, h, t2, h2, e) ==
  LET Skip(x) == IF x = e THEN h[e].next ELSE x
  IN  /\ DOMAIN h2 = DOMAIN h \ {e} /\ DOMAIN t2 = DOMAIN t
      /\ \A d \in DOMAIN h2 : h2[d] = [h[d] EXCEPT !.next = Skip(h[d].next)]
      /\ \A i \in DOMAIN t : t2[i] = Skip(t[i])

LEMMA SkippingKeepsLinks ==
  ASSUME NEW t, NEW h, NEW len, NEW t2, NEW h2, NEW e \in DOMAIN h,
         Linked(t, h, len), Skips(t, h, t2, h2, e)
  PROVE  Linked(t2, h2, len)
<1>0. PICK top \in Nat : \E rank \in [DOMAIN h -> 0 .. top] : Falls(h, rank)
  BY DEF Linked, Acyclic
<1>1. PICK rank \in [DOMAIN h -> 0 .. top] : Falls(h, rank)
  BY <1>0
<1>2. /\ NULL \notin DOMAIN h /\ h[e].next # e /\ h[e].next \in DOMAIN h \cup {NULL}
      /\ DOMAIN h2 = DOMAIN h \ {e} /\ DOMAIN t2 = DOMAIN t
      /\ \A d \in DOMAIN h : h[d] \in [key : Keys, value : Values, next : DOMAIN h \cup {NULL}]
  BY <1>1, CellsAssumption DEF Linked, CellsTyped, Falls, Skips
<1>3. \A i \in DOMAIN t : t2[i] = IF t[i] = e THEN h[e].next ELSE t[i]
  BY DEF Skips
<1>4. \A d \in DOMAIN h2 : /\ h2[d].key = h[d].key /\ h2[d].value = h[d].value
                           /\ h2[d].next = IF h[d].next = e THEN h[e].next ELSE h[d].next
                           /\ h2[d] \in [key : Keys, value : Values, next : DOMAIN h2 \cup {NULL}]
  BY <1>2 DEF Skips
<1>5. CellsTyped(t2, h2)
  <2>1. IsFiniteSet(DOMAIN h2) /\ DOMAIN h2 \subseteq Cells
    BY <1>2, FS_RemoveElement DEF Linked, CellsTyped
  <2>2. \A j \in DOMAIN t2 : t2[j] \in DOMAIN h2 \cup {NULL}
    BY <1>2, <1>3 DEF Linked, CellsTyped
  <2>3. QED
    BY <1>4, <2>1, <2>2 DEF CellsTyped
<1>6. InPlace(t2, h2, len)
  <2>1. \A j \in DOMAIN t2 : t2[j] # NULL => IndexFor(len, h2[t2[j]].key) = j
    BY <1>2, <1>3, <1>4, <1>5 DEF Linked, InPlace, CellsTyped
  <2>2. \A d \in DOMAIN h2 : h2[d].next # NULL =>
          IndexFor(len, h2[h2[d].next].key) = IndexFor(len, h2[d].key)
    BY <1>2, <1>4, <1>5 DEF Linked, InPlace, CellsTyped
  <2>3. QED
    BY <2>1, <2>2 DEF InPlace
<1>7. PointedOnce(t2, h2)
  <2>1. ASSUME NEW x \in DOMAIN h2
        PROVE  (\E j \in DOMAIN t2 : t2[j] = x) \/ (\E d \in DOMAIN h2 : h2[d].next = x)
    <3>1. ASSUME NEW y \in DOMAIN h, y = x \/ (y = e /\ h[e].next = x),
                 (\E j \in DOMAIN t : t[j] = y) \/ (\E d \in DOMAIN h2 : h[d].next = y)
          PROVE  (\E j \in DOMAIN t2 : t2[j] = x) \/ (\E d \in DOMAIN h2 : h2[d].next = x)
      BY <1>2, <1>3, <1>4, <3>1
    <3>2. x \in DOMAIN h /\ x # e
      BY <1>2
    <3>3. CASE h[e].next = x
      <4>1. (\E j \in DOMAIN t : t[j] = e) \/ (\E d \in DOMAIN h2 : h[d].next = e)
        BY <1>2 DEF Linked, PointedOnce
      <4>2. QED
        BY <3>1, <3>3, <4>1
    <3>4. CASE h[e].next # x
      <4>1. (\E j \in DOMAIN t : t[j] = x) \/ (\E d \in DOMAIN h2 : h[d].next = x)
        BY <1>2, <3>2, <3>4 DEF Linked, PointedOnce
      <4>2. QED
        BY <3>1, <3>2, <4>1
    <3>5. QED
      BY <3>3, <3>4
  <2>2. ASSUME NEW j \in DOMAIN t2, NEW d \in DOMAIN h2, t2[j] = h2[d].next PROVE t2[j] = NULL
    BY <1>2, <1>3, <1>4, <2>2 DEF Linked, PointedOnce
  <2>3. ASSUME NEW c \in DOMAIN h2, NEW d \in DOMAIN h2, h2[c].next = h2[d].next
        PROVE  h2[c].next = NULL \/ c = d
    BY <1>2, <1>4, <2>3 DEF Linked, PointedOnce
  <2>4. QED
    BY <2>1, <2>2, <2>3 DEF PointedOnce
<1>8. Acyclic(h2)
  <2> DEFINE rank2 == [d \in DOMAIN h2 |-> rank[d]]
  <2>1. rank2 \in [DOMAIN h2 -> 0 .. top]
    BY <1>2
  <2>2. ASSUME NEW d \in DOMAIN h2, h2[d].next # NULL PROVE rank2[h2[d].next] < rank2[d]
    <3>1. h2[d].next \in DOMAIN h2 /\ d \in DOMAIN h
      BY <1>2, <1>4, <2>2
    <3>2. rank[h2[d].next] < rank[d]
      <4>1. CASE h[d].next = e
        <5>1. rank[h[e].next] < rank[e] /\ rank[e] < rank[d] /\ h2[d].next = h[e].next
          BY <1>1, <1>2, <1>4, <2>2, <3>1, <4>1 DEF Falls
        <5>2. QED
          BY <1>2, <3>1, <5>1
      <4>2. CASE h[d].next # e
        BY <1>1, <1>4, <2>2, <3>1, <4>2 DEF Falls
      <4>3. QED
        BY <4>1, <4>2
    <3>3. QED
      BY <3>1, <3>2
  <2>3. Falls(h2, rank2)
    BY <2>2 DEF Falls
  <2>4. QED
    BY <2>1, <2>3 DEF Acyclic
<1>9. QED
  BY <1>2, <1>5, <1>6, <1>7, <1>8 DEF Linked

\* The pointer that Unlink changes is the only one to e.
LEMMA UnlinkSkips ==
  ASSUME Linked(table, heap, TableLength), NEW parent, NEW j, NEW e,
         Located(parent, j, e), Unlink(parent, j, e)
  PROVE  Skips(table, heap, table', heap', e)
<1>0. PICK top \in Nat : \E rank \in [DOMAIN heap -> 0 .. top] : Falls(heap, rank)
  BY DEF Linked, Acyclic
<1>1. PICK rank \in [DOMAIN heap -> 0 .. top] : Falls(heap, rank)
  BY <1>0
<1>2. /\ NULL \notin DOMAIN heap /\ e \in DOMAIN heap /\ j \in DOMAIN table
      /\ \A d \in DOMAIN heap :
           heap[d] \in [key : Keys, value : Values, next : DOMAIN heap \cup {NULL}]
      /\ \A i \in DOMAIN table : table[i] = e => i = j
  BY CellsAssumption DEF Linked, CellsTyped, InPlace, Located, At
<1>3. CASE parent = NULL
  <2>1. table[j] = e /\ \A d \in DOMAIN heap : heap[d].next # e
    BY <1>2, <1>3 DEF Located, At, Linked, PointedOnce
  <2>2. /\ table' = [table EXCEPT ![j] = heap[e].next]
        /\ heap' = [d \in DOMAIN heap \ {e} |-> heap[d]]
    BY <1>3 DEF Unlink
  <2>3. \A d \in DOMAIN heap : heap[d] = [heap[d] EXCEPT !.next = heap[d].next]
    BY <1>2
  <2>4. QED
    BY <1>2, <2>1, <2>2, <2>3 DEF Skips
<1>4. CASE parent # NULL
  <2>1. /\ parent \in DOMAIN heap /\ heap[parent].next = e
        /\ \A i \in DOMAIN table : table[i] # e
        /\ \A d \in DOMAIN heap : heap[d].next = e => d = parent
        /\ parent # e
    BY <1>1, <1>2, <1>4 DEF Located, At, Linked, PointedOnce, Falls
  <2>2. /\ table' = table
        /\ heap' = [d \in DOMAIN heap \ {e} |->
                      IF d = parent THEN [heap[d] EXCEPT !.next = heap[e].next] ELSE heap[d]]
    BY <1>4 DEF Unlink
  <2>3. \A d \in DOMAIN heap : heap[d] = [heap[d] EXCEPT !.next = heap[d].next]
    BY <1>2
  <2>4. QED
    BY <1>2, <2>1, <2>2, <2>3 DEF Skips
<1>5. QED
  BY <1>3, <1>4

\* e is pushed in front of the chain of its key.
Pushes(t, h, len, t2, h2, e, k, v) ==
  LET j == IndexFor(len, k)
  IN  /\ t2 = [t EXCEPT ![j] = e]
      /\ h2 = [d \in DOMAIN h \cup {e} |->
                 IF d = e THEN [key |-> k, value |-> v, next |-> t[j]] ELSE h[d]]

LEMMA PushingKeepsLinks ==
  ASSUME NEW t, NEW h, NEW len, NEW t2, NEW h2, NEW k \in Keys, NEW v \in Values,
         NEW e \in Cells \ DOMAIN h,
         Linked(t, h, len), len > 0, Pushes(t, h, len, t2, h2, e, k, v)
  PROVE  Linked(t2, h2, len)
<1> DEFINE j == IndexFor(len, k)
<1>0. PICK top \in Nat : \E rank \in [DOMAIN h -> 0 .. top] : Falls(h, rank)
  BY DEF Linked, Acyclic
<1>1. PICK rank \in [DOMAIN h -> 0 .. top] : Falls(h, rank)
  BY <1>0
<1>2. j \in DOMAIN t
  <2>1. Hash[k] \in Nat /\ len \in Nat /\ DOMAIN t = 0 .. len - 1
    BY KeysAssumption DEF Linked
  <2>2. QED
    BY <2>1 DEF IndexFor
<1> HIDE DEF j
<1>3. /\ e # NULL /\ NULL \notin DOMAIN h /\ DOMAIN h2 = DOMAIN h \cup {e} /\ DOMAIN t2 = DOMAIN t
      /\ h2[e] = [key |-> k, value |-> v, next |-> t[j]]
      /\ \A d \in DOMAIN h : h2[d] = h[d] /\ d # e
      /\ t2[j] = e /\ \A i \in DOMAIN t : i # j => t2[i] = t[i]
  BY <1>2, CellsAssumption DEF Pushes, Linked, CellsTyped, j
<1>4. /\ \A d \in DOMAIN h : h[d] \in [key : Keys, value : Values, next : DOMAIN h \cup {NULL}]
      /\ \A i \in DOMAIN t : t[i] \in DOMAIN h \cup {NULL}
  BY DEF Linked, CellsTyped
<1>5. CellsTyped(t2, h2)
  <2>1. IsFiniteSet(DOMAIN h2) /\ DOMAIN h2 \subseteq Cells
    BY <1>3, FS_AddElement DEF Linked, CellsTyped
  <2>2. \A d \in DOMAIN h2 :
          h2[d] \in [key : Keys, value : Values, next : DOMAIN h2 \cup {NULL}]
    BY <1>2, <1>3, <1>4
  <2>3. \A i \in DOMAIN t2 : t2[i] \in DOMAIN h2 \cup {NULL}
    BY <1>3, <1>4
  <2>4. QED
    BY <2>1, <2>2, <2>3 DEF CellsTyped
<1>6. InPlace(t2, h2, len)
  <2>1. \A i \in DOMAIN t2 : t2[i] # NULL => IndexFor(len, h2[t2[i]].key) = i
    BY <1>3, <1>4 DEF Linked, InPlace, j
  <2>2. ASSUME NEW d \in DOMAIN h2, h2[d].next # NULL
        PROVE  IndexFor(len, h2[h2[d].next].key) = IndexFor(len, h2[d].key)
    <3>1. CASE d = e
      <4>1. h2[d].next = t[j] /\ t[j] \in DOMAIN h /\ h2[d].key = k
        BY <1>2, <1>3, <1>4, <2>2, <3>1
      <4>2. IndexFor(len, h[t[j]].key) = j
        BY <1>2, <2>2, <4>1 DEF Linked, InPlace
      <4>3. QED
        BY <1>3, <4>1, <4>2 DEF j
    <3>2. CASE d # e
      BY <1>3, <1>4, <2>2, <3>2 DEF Linked, InPlace
    <3>3. QED
      BY <3>1, <3>2
  <2>3. QED
    BY <2>1, <2>2 DEF InPlace
<1>7. PointedOnce(t2, h2)
  <2>1. ASSUME NEW x \in DOMAIN h2
        PROVE  (\E i \in DOMAIN t2 : t2[i] = x) \/ (\E d \in DOMAIN h2 : h2[d].next = x)
    <3>1. CASE x = e \/ x = t[j]
      BY <1>2, <1>3, <3>1
    <3>2. CASE x # e /\ x # t[j]
      <4>1. (\E i \in DOMAIN t : t[i] = x) \/ (\E d \in DOMAIN h : h[d].next = x)
        BY <1>3, <3>2 DEF Linked, PointedOnce
      <4>2. QED
        BY <1>3, <3>2, <4>1
    <3>3. QED
      BY <3>1, <3>2
  <2>2. ASSUME NEW i \in DOMAIN t2, NEW d \in DOMAIN h2, t2[i] = h2[d].next PROVE t2[i] = NULL
    <3>1. h2[d].next # e
      BY <1>2, <1>3, <1>4
    <3>2. i # j /\ t2[i] = t[i] /\ i \in DOMAIN t
      BY <1>3, <2>2, <3>1
    <3>3. CASE d = e
      <4>0. h2[e].next = t[j]
        BY <1>3
      <4>1. t[i] = t[j]
        BY <2>2, <3>2, <3>3, <4>0
      <4>2. \A n \in DOMAIN t : t[n] # NULL => IndexFor(len, h[t[n]].key) = n
        BY DEF Linked, InPlace
      <4>3. QED
        BY <1>2, <3>2, <4>1, <4>2
    <3>4. CASE d # e
      BY <1>3, <2>2, <3>2, <3>4 DEF Linked, PointedOnce
    <3>5. QED
      BY <3>3, <3>4
  <2>3. ASSUME NEW c \in DOMAIN h2, NEW d \in DOMAIN h2, h2[c].next = h2[d].next
        PROVE  h2[c].next = NULL \/ c = d
    BY <1>2, <1>3, <2>3 DEF Linked, PointedOnce
  <2>4. QED
    BY <2>1, <2>2, <2>3 DEF PointedOnce
<1>8. Acyclic(h2)
  <2> DEFINE rank2 == [d \in DOMAIN h2 |-> IF d = e THEN top + 1 ELSE rank[d]]
  <2>1. rank2 \in [DOMAIN h2 -> 0 .. top + 1]
    BY <1>3
  <2>2. ASSUME NEW d \in DOMAIN h2, h2[d].next # NULL PROVE rank2[h2[d].next] < rank2[d]
    <3>1. h2[d].next \in DOMAIN h /\ h2[d].next \in DOMAIN h2 /\ h2[d].next # e
      BY <1>2, <1>3, <1>4, <2>2
    <3>2. d # e => rank[h2[d].next] < rank[d]
      BY <1>1, <1>3, <2>2 DEF Falls
    <3>3. QED
      BY <1>3, <3>1, <3>2
  <2>3. Falls(h2, rank2)
    BY <2>2 DEF Falls
  <2>4. QED
    <3>1. top + 1 \in Nat
      OBVIOUS
    <3>2. QED
      BY <2>1, <2>3, <3>1 DEF Acyclic
<1>9. QED
  BY <1>3, <1>5, <1>6, <1>7, <1>8 DEF Linked

\* e has a new value.
Revalues(h, h2, e, v) == h2 = [h EXCEPT ![e].value = v]

LEMMA ValuesKeepLinks ==
  ASSUME NEW t, NEW h, NEW len, NEW e \in DOMAIN h, NEW v \in Values, NEW h2,
         Linked(t, h, len), Revalues(h, h2, e, v)
  PROVE  Linked(t, h2, len)
<1>1. \A d \in DOMAIN h : h[d] \in [key : Keys, value : Values, next : DOMAIN h \cup {NULL}]
  BY DEF Linked, CellsTyped
<1>2. /\ DOMAIN h2 = DOMAIN h
      /\ \A d \in DOMAIN h : /\ h2[d].key = h[d].key /\ h2[d].next = h[d].next
                             /\ h2[d] \in [key : Keys, value : Values, next : DOMAIN h \cup {NULL}]
  BY <1>1 DEF Revalues
<1>3. CellsTyped(t, h2)
  BY <1>2 DEF Linked, CellsTyped
<1>4. InPlace(t, h2, len)
  BY <1>2, <1>3 DEF Linked, InPlace, CellsTyped
<1>5. PointedOnce(t, h2)
  BY <1>2 DEF Linked, PointedOnce
<1>6. Acyclic(h2)
  BY <1>2 DEF Linked, Acyclic, Falls
<1>7. QED
  BY <1>3, <1>4, <1>5, <1>6 DEF Linked

-----------------------------------------------------------------------------
(***************************************************************************)
(* A walk over the whole table, and growth, which follows it.               *)
(***************************************************************************)
\* The recursion of FlattenSeq over n sequences.
Flat(g, seqs, n) == g = [i \in 1 .. n |-> IF i = 1 THEN seqs[i] ELSE g[i - 1] \o seqs[i]]

LEMMA FlatExists ==
  ASSUME NEW n \in Nat, NEW seqs
  PROVE  \E g : Flat(g, seqs, n)
<1> DEFINE S == {m \in Nat : \E g : Flat(g, seqs, m)}
<1>1. 0 \in S
  <2>1. Flat([i \in 1 .. 0 |-> seqs[i]], seqs, 0)
    BY DEF Flat
  <2>2. QED
    BY <2>1
<1>2. ASSUME NEW m \in Nat, m \in S PROVE m + 1 \in S
  <2>1. PICK g : Flat(g, seqs, m)
    BY <1>2
  <2> DEFINE f == [i \in 1 .. m + 1 |-> IF i = 1 THEN seqs[i] ELSE g[i - 1] \o seqs[i]]
  <2>2. \A i \in 1 .. m + 1 : i # 1 => i - 1 \in 1 .. m
    OBVIOUS
  <2>3. ASSUME NEW i \in 1 .. m PROVE f[i] = g[i]
    <3>1. f[i] = IF i = 1 THEN seqs[i] ELSE g[i - 1] \o seqs[i]
      <4>1. i \in 1 .. m + 1
        OBVIOUS
      <4>2. QED
        BY <4>1, Zenon
    <3>2. g[i] = IF i = 1 THEN seqs[i] ELSE g[i - 1] \o seqs[i]
      BY <2>1, Zenon DEF Flat
    <3>3. QED
      BY <3>1, <3>2, Zenon
  <2>4. f = [i \in 1 .. m + 1 |-> IF i = 1 THEN seqs[i] ELSE f[i - 1] \o seqs[i]]
    <3> DEFINE r == [i \in 1 .. m + 1 |-> IF i = 1 THEN seqs[i] ELSE f[i - 1] \o seqs[i]]
    <3>1. \A i \in 1 .. m + 1 : f[i] = r[i]
      BY <2>2, <2>3
    <3>2. QED
      BY <3>1
  <2> HIDE DEF f
  <2>5. Flat(f, seqs, m + 1)
    BY <2>4, Zenon DEF Flat
  <2>6. m + 1 \in Nat
    OBVIOUS
  <2>7. QED
    BY <2>5, <2>6, Zenon
<1> HIDE DEF S
<1>3. n \in S
  BY <1>1, <1>2, NatsByInduction
<1>4. QED
  BY <1>3 DEF S

\* No sequence meets an element twice.
Once(s) == \A m, n \in 1 .. Len(s) : s[m] = s[n] => m = n
Meets(s, x) == \E n \in 1 .. Len(s) : s[n] = x

\* Two sequences with nothing in common, one behind the other.
LEMMA Behind ==
  ASSUME NEW S, NEW s \in Seq(S), NEW r \in Seq(S), Once(s), Once(r),
         \A x : ~(Meets(s, x) /\ Meets(r, x))
  PROVE  /\ s \o r \in Seq(S) /\ Once(s \o r)
         /\ \A x : Meets(s \o r, x) <=> Meets(s, x) \/ Meets(r, x)
<1> DEFINE c == s \o r
<1>1. /\ c \in Seq(S) /\ Len(s) \in Nat /\ Len(r) \in Nat /\ Len(c) = Len(s) + Len(r)
      /\ \A i \in 1 .. Len(s) + Len(r) : c[i] = IF i <= Len(s) THEN s[i] ELSE r[i - Len(s)]
  BY ConcatProperties, LenProperties
<1> HIDE DEF c
<1>2. ASSUME NEW i \in 1 .. Len(c)
      PROVE  \/ i \in 1 .. Len(s) /\ c[i] = s[i]
             \/ i - Len(s) \in 1 .. Len(r) /\ c[i] = r[i - Len(s)]
  BY <1>1
<1>3. ASSUME NEW x PROVE Meets(c, x) <=> Meets(s, x) \/ Meets(r, x)
  <2>1. Meets(c, x) => Meets(s, x) \/ Meets(r, x)
    BY <1>2 DEF Meets
  <2>2. ASSUME NEW i \in 1 .. Len(s), s[i] = x PROVE Meets(c, x)
    <3>1. i \in 1 .. Len(c) /\ c[i] = x
      BY <1>1, <2>2
    <3>2. QED
      BY <3>1 DEF Meets
  <2>3. ASSUME NEW i \in 1 .. Len(r), r[i] = x PROVE Meets(c, x)
    <3>1. Len(s) + i \in 1 .. Len(c) /\ c[Len(s) + i] = x
      <4>1. Len(s) + i \in 1 .. Len(s) + Len(r) /\ ~(Len(s) + i <= Len(s)) /\ (Len(s) + i) - Len(s) = i
        BY <1>1
      <4>2. QED
        BY <1>1, <2>3, <4>1
    <3>2. QED
      BY <3>1 DEF Meets
  <2>4. QED
    BY <2>1, <2>2, <2>3 DEF Meets
<1>4. Once(c)
  <2> SUFFICES ASSUME NEW m \in 1 .. Len(c), NEW n \in 1 .. Len(c), c[m] = c[n] PROVE m = n
    BY DEF Once
  <2>1. \A i \in 1 .. Len(s), j \in 1 .. Len(r) : s[i] # r[j]
    BY DEF Meets
  <2>2. CASE m \in 1 .. Len(s) /\ c[m] = s[m]
    <3>1. n \in 1 .. Len(s) /\ c[n] = s[n]
      BY <1>2, <2>1, <2>2
    <3>2. QED
      BY <2>2, <3>1 DEF Once
  <2>3. CASE m - Len(s) \in 1 .. Len(r) /\ c[m] = r[m - Len(s)]
    <3>1. n - Len(s) \in 1 .. Len(r) /\ c[n] = r[n - Len(s)]
      BY <1>2, <2>1, <2>3
    <3>2. m - Len(s) = n - Len(s)
      BY <2>3, <3>1 DEF Once
    <3>3. QED
      BY <1>1, <3>2
  <2>4. QED
    BY <1>2, <2>2, <2>3
<1>5. QED
  BY <1>1, <1>3, <1>4 DEF c

\* Sequences that have nothing in common are flattened to one that meets each element once.
LEMMA FlattenLaws ==
  ASSUME NEW S, NEW n \in Nat, NEW seqs \in [1 .. n -> Seq(S)],
         \A i \in 1 .. n : Once(seqs[i]),
         \A i, j \in 1 .. n : \A x : Meets(seqs[i], x) /\ Meets(seqs[j], x) => i = j
  PROVE  /\ FlattenSeq(seqs) \in Seq(S) /\ Once(FlattenSeq(seqs))
         /\ \A x : Meets(FlattenSeq(seqs), x) <=> \E i \in 1 .. n : Meets(seqs[i], x)
<1>1. seqs \in Seq(Seq(S)) /\ Len(seqs) = n
  BY LenProperties
<1>2. CASE n = 0
  <2>1. FlattenSeq(seqs) = seqs
    BY <1>1, <1>2 DEF FlattenSeq
  <2>2. seqs = <<>>
    BY <1>1, <1>2, EmptySeq
  <2>3. QED
    BY <1>2, <2>1, <2>2, EmptySeq DEF Once, Meets
<1>3. CASE n > 0
  <2>1. PICK g : /\ g = [i \in 1 .. n |-> IF i = 1 THEN seqs[i] ELSE g[i - 1] \o seqs[i]]
                 /\ FlattenSeq(seqs) = g[n]
    <3>1. \E g : g = [i \in 1 .. n |-> IF i = 1 THEN seqs[i] ELSE g[i - 1] \o seqs[i]]
      BY FlatExists DEF Flat
    <3> DEFINE flatten == CHOOSE g : g = [i \in 1 .. n |-> IF i = 1 THEN seqs[i] ELSE g[i - 1] \o seqs[i]]
    <3>2. flatten = [i \in 1 .. n |-> IF i = 1 THEN seqs[i] ELSE flatten[i - 1] \o seqs[i]]
      BY <3>1
    <3>3. FlattenSeq(seqs) = flatten[n]
      BY <1>1, <1>3 DEF FlattenSeq
    <3>4. QED
      BY <3>2, <3>3
  <2> DEFINE Good(m) == /\ g[m] \in Seq(S) /\ Once(g[m])
                        /\ \A x : Meets(g[m], x) <=> \E i \in 1 .. m : Meets(seqs[i], x)
             T == {m \in Nat : m \in 1 .. n => Good(m)}
  <2>2. 0 \in T
    OBVIOUS
  <2>3. ASSUME NEW m \in Nat, m \in T PROVE m + 1 \in T
    <3> SUFFICES ASSUME m + 1 \in 1 .. n PROVE Good(m + 1)
      OBVIOUS
    <3>1. CASE m = 0
      <4>1. g[1] = seqs[1] /\ 1 \in 1 .. n
        BY <1>3, <2>1
      <4>2. \A i \in 1 .. 1 : i = 1
        OBVIOUS
      <4>3. 1 \in 1 .. 1
        OBVIOUS
      <4>4. Good(1)
        BY <4>1, <4>2, <4>3
      <4>5. QED
        BY <3>1, <4>4
    <3>2. CASE m # 0
      <4>1. m \in 1 .. n /\ g[m + 1] = g[m] \o seqs[m + 1]
        <5>1. m \in 1 .. n /\ m + 1 # 1 /\ (m + 1) - 1 = m
          BY <3>2
        <5>2. QED
          BY <2>1, <5>1
      <4>2. Good(m)
        BY <2>3, <4>1
      <4>3. \A i \in 1 .. m : i \in 1 .. n /\ i # m + 1
        BY <4>1
      <4>4. \A x : ~(Meets(g[m], x) /\ Meets(seqs[m + 1], x))
        BY <4>2, <4>3
      <4>5. seqs[m + 1] \in Seq(S) /\ Once(seqs[m + 1])
        OBVIOUS
      <4>6. /\ g[m + 1] \in Seq(S) /\ Once(g[m + 1])
            /\ \A x : Meets(g[m + 1], x) <=> Meets(g[m], x) \/ Meets(seqs[m + 1], x)
        <5> HIDE DEF Good
        <5>1. g[m] \in Seq(S) /\ Once(g[m])
          BY <4>2 DEF Good
        <5>2. QED
          BY <4>1, <4>4, <4>5, <5>1, Behind
      <4>7. \A i : i \in 1 .. m + 1 <=> i \in 1 .. m \/ i = m + 1
        OBVIOUS
      <4>8. QED
        BY <4>2, <4>6, <4>7
    <3>3. QED
      BY <3>1, <3>2
  <2> HIDE DEF T
  <2>4. n \in T
    BY <2>2, <2>3, NatsByInduction
  <2>5. Good(n)
    BY <1>3, <2>4 DEF T
  <2>6. QED
    BY <2>1, <2>5
<1>4. QED
  BY <1>2, <1>3

\* The order of a walk over the table meets every entry once.
LEMMA OrderLaws ==
  ASSUME Linked(table, heap, TableLength)
  PROVE  /\ Order \in Seq(DOMAIN heap) /\ Once(Order)
         /\ \A e \in DOMAIN heap : Meets(Order, e)
<1> DEFINE seqs == [j \in 1 .. TableLength |-> Chain(j - 1)]
<1>1. TableLength \in Nat /\ DOMAIN table = 0 .. TableLength - 1
  BY DEF Linked
<1>2. ASSUME NEW i \in 1 .. TableLength
      PROVE  /\ i - 1 \in DOMAIN table /\ seqs[i] = Chain(i - 1) /\ Chain(i - 1) \in Seq(DOMAIN heap)
             /\ Once(Chain(i - 1))
             /\ \A x : Meets(Chain(i - 1), x) => Home(x) = i - 1
  <2>1. i - 1 \in DOMAIN table
    BY <1>1
  <2> DEFINE c == Chain(i - 1)
  <2>2. /\ c \in Seq(DOMAIN heap)
        /\ \A n \in 1 .. Len(c) : Home(c[n]) = i - 1
        /\ \A m, n \in 1 .. Len(c) : c[m] = c[n] => m = n
    BY <2>1, ChainLaws
  <2>3. seqs[i] = c
    OBVIOUS
  <2> HIDE DEF c
  <2>4. Once(c) /\ \A x : Meets(c, x) => Home(x) = i - 1
    BY <2>2 DEF Once, Meets
  <2>5. QED
    BY <2>1, <2>2, <2>3, <2>4 DEF c
<1>3. seqs \in [1 .. TableLength -> Seq(DOMAIN heap)]
  BY <1>2
<1>4. \A i \in 1 .. TableLength : Once(seqs[i])
  BY <1>2
<1>5. \A i, j \in 1 .. TableLength : \A x : Meets(seqs[i], x) /\ Meets(seqs[j], x) => i = j
  <2> SUFFICES ASSUME NEW i \in 1 .. TableLength, NEW j \in 1 .. TableLength, NEW x,
                      Meets(seqs[i], x), Meets(seqs[j], x)
               PROVE  i = j
    OBVIOUS
  <2>1. i - 1 = j - 1
    BY <1>2
  <2>2. QED
    BY <1>1, <2>1
<1>6. Order = FlattenSeq(seqs)
  BY DEF Order
<1>7. ASSUME NEW e \in DOMAIN heap PROVE \E i \in 1 .. TableLength : Meets(seqs[i], e)
  <2>1. Home(e) \in DOMAIN table /\ Meets(Chain(Home(e)), e)
    BY ChainLaws DEF Meets
  <2>2. Home(e) + 1 \in 1 .. TableLength /\ (Home(e) + 1) - 1 = Home(e)
    BY <1>1, <2>1
  <2>3. seqs[Home(e) + 1] = Chain(Home(e))
    BY <2>2
  <2>4. QED
    BY <2>1, <2>2, <2>3
<1> HIDE DEF seqs
<1>8. QED
  BY <1>1, <1>3, <1>4, <1>5, <1>6, <1>7, FlattenLaws

\* A walk over the table is as long as the heap has entries.
LEMMA OrderCounts ==
  ASSUME Linked(table, heap, TableLength)
  PROVE  ToSet(Order) = DOMAIN heap /\ Len(Order) = Cardinality(DOMAIN heap)
<1>1. /\ Order \in [1 .. Len(Order) -> DOMAIN heap] /\ Len(Order) \in Nat
      /\ DOMAIN Order = 1 .. Len(Order)
  BY OrderLaws, LenProperties
<1>2. \A m, n \in 1 .. Len(Order) : Order[m] = Order[n] => m = n
  BY OrderLaws DEF Once
<1>3. \A e \in DOMAIN heap : \E n \in 1 .. Len(Order) : Order[n] = e
  BY OrderLaws DEF Meets
<1>4. ToSet(Order) = DOMAIN heap
  BY <1>1, <1>3 DEF ToSet
<1>5. Order \in Bijection(1 .. Len(Order), DOMAIN heap)
  BY <1>1, <1>2, <1>3 DEF Bijection, Injection, Surjection, IsInjective
<1>6. IsFiniteSet(1 .. Len(Order)) /\ Cardinality(1 .. Len(Order)) = Len(Order)
  <2>1. /\ IsFiniteSet(1 .. Len(Order))
        /\ Cardinality(1 .. Len(Order)) = IF 1 > Len(Order) THEN 0 ELSE Len(Order) - 1 + 1
    BY <1>1, FS_Interval
  <2>2. QED
    BY <1>1, <2>1
<1>7. Cardinality(DOMAIN heap) = Cardinality(1 .. Len(Order))
  BY <1>5, <1>6, FS_Bijection DEF ExistsBijection
<1>8. QED
  BY <1>4, <1>6, <1>7

\* The chains of len that pushing the entries of met one by one gives.
Newest(met, h, len, j, upto) ==
  LET same == {n \in 1 .. upto : IndexFor(len, h[met[n]].key) = j}
  IN  IF same = {} THEN NULL ELSE met[Max(same)]

Relinked(met, h, len, t2, h2) ==
  /\ t2 = [j \in 0 .. len - 1 |-> Newest(met, h, len, j, Len(met))]
  /\ DOMAIN h2 = DOMAIN h
  /\ \A n \in 1 .. Len(met) :
       h2[met[n]] = [h[met[n]] EXCEPT !.next =
                       Newest(met, h, len, IndexFor(len, h[met[n]].key), n - 1)]

\* Newest is the last entry of chain j before upto, or there is none.
LEMMA NewestLaws ==
  ASSUME NEW h, NEW met \in Seq(DOMAIN h), NEW len, NEW j, NEW upto \in 0 .. Len(met)
  PROVE  LET x == Newest(met, h, len, j, upto)
             Of(n) == IndexFor(len, h[met[n]].key)
         IN  \/ x = NULL /\ \A n \in 1 .. upto : Of(n) # j
             \/ \E n \in 1 .. upto :
                  x = met[n] /\ Of(n) = j /\ \A m \in 1 .. upto : Of(m) = j => m <= n
<1> DEFINE same == {n \in 1 .. upto : IndexFor(len, h[met[n]].key) = j}
<1>1. CASE same = {}
  BY <1>1 DEF Newest
<1>2. CASE same # {}
  <2>1. Len(met) \in Nat /\ upto \in Nat
    BY LenProperties
  <2>2. same \in SUBSET (0 .. upto)
    BY <2>1
  <2> HIDE DEF same
  <2>3. Max(same) \in same /\ \A m \in same : m <= Max(same)
    BY <1>2, <2>1, <2>2, MaxOf
  <2>4. Newest(met, h, len, j, upto) = met[Max(same)]
    BY <1>2 DEF Newest, same
  <2>5. QED
    BY <2>3, <2>4 DEF same
<1>3. QED
  BY <1>1, <1>2

LEMMA RelinkingKeepsLinks ==
  ASSUME NEW t, NEW h, NEW met \in Seq(DOMAIN h), NEW len \in Nat \ {0}, NEW t2, NEW h2,
         CellsTyped(t, h), Once(met), \A e \in DOMAIN h : Meets(met, e),
         Relinked(met, h, len, t2, h2)
  PROVE  Linked(t2, h2, len)
<1> DEFINE Of(n) == IndexFor(len, h[met[n]].key)
           Latest(j, upto, x) ==
             \/ x = NULL /\ \A n \in 1 .. upto : Of(n) # j
             \/ \E n \in 1 .. upto :
                  x = met[n] /\ Of(n) = j /\ \A m \in 1 .. upto : Of(m) = j => m <= n
<1>1. /\ Len(met) \in Nat /\ \A n \in 1 .. Len(met) : met[n] \in DOMAIN h
      /\ \A m, n \in 1 .. Len(met) : met[m] = met[n] => m = n
      /\ \A e \in DOMAIN h : \E n \in 1 .. Len(met) : met[n] = e
      /\ NULL \notin DOMAIN h
      /\ \A e \in DOMAIN h : h[e] \in [key : Keys, value : Values, next : DOMAIN h \cup {NULL}]
  BY LenProperties, CellsAssumption DEF Once, Meets, CellsTyped
<1>2. /\ DOMAIN t2 = 0 .. len - 1 /\ DOMAIN h2 = DOMAIN h
      /\ \A j \in 0 .. len - 1 : t2[j] = Newest(met, h, len, j, Len(met))
  BY DEF Relinked
<1>3. \A n \in 1 .. Len(met) :
        /\ h2[met[n]].next = Newest(met, h, len, Of(n), n - 1)
        /\ h2[met[n]].key = h[met[n]].key /\ h2[met[n]].value = h[met[n]].value
        /\ h2[met[n]] = [key |-> h[met[n]].key, value |-> h[met[n]].value,
                         next |-> Newest(met, h, len, Of(n), n - 1)]
  <2> SUFFICES ASSUME NEW n \in 1 .. Len(met)
               PROVE  h2[met[n]] = [key |-> h[met[n]].key, value |-> h[met[n]].value,
                                    next |-> Newest(met, h, len, Of(n), n - 1)]
    OBVIOUS
  <2>1. h2[met[n]] = [h[met[n]] EXCEPT !.next = Newest(met, h, len, Of(n), n - 1)]
    BY DEF Relinked
  <2>2. h[met[n]] \in [key : Keys, value : Values, next : DOMAIN h \cup {NULL}]
    BY <1>1
  <2>3. QED
    BY <2>1, <2>2
<1>4. \A j \in 0 .. len - 1 : Latest(j, Len(met), t2[j])
  <2> SUFFICES ASSUME NEW j \in 0 .. len - 1 PROVE Latest(j, Len(met), t2[j])
    OBVIOUS
  <2>1. Len(met) \in 0 .. Len(met)
    BY <1>1
  <2>2. Latest(j, Len(met), Newest(met, h, len, j, Len(met)))
    BY <2>1, NewestLaws
  <2>3. QED
    BY <1>2, <2>2
<1>5. \A n \in 1 .. Len(met) : Latest(Of(n), n - 1, h2[met[n]].next)
  <2> SUFFICES ASSUME NEW n \in 1 .. Len(met) PROVE Latest(Of(n), n - 1, h2[met[n]].next)
    OBVIOUS
  <2>1. n - 1 \in 0 .. Len(met)
    <3>1. Len(met) \in Nat
      BY <1>1
    <3>2. QED
      BY <3>1
  <2>2. Latest(Of(n), n - 1, Newest(met, h, len, Of(n), n - 1))
    BY <2>1, NewestLaws
  <2>3. QED
    BY <1>3, <2>2
<1>6. \A n \in 1 .. Len(met) : Of(n) \in 0 .. len - 1
  <2> SUFFICES ASSUME NEW n \in 1 .. Len(met) PROVE Of(n) \in 0 .. len - 1
    OBVIOUS
  <2>1. Hash[h[met[n]].key] \in Nat
    BY <1>1, KeysAssumption
  <2>2. QED
    BY <2>1 DEF IndexFor
<1>7. \A n \in 1 .. Len(met) : Of(n) = IndexFor(len, h[met[n]].key)
  OBVIOUS
<1> HIDE DEF Of, Latest
<1> DEFINE Place1(e) == CHOOSE n \in 1 .. Len(met) : met[n] = e
           rank == [e \in DOMAIN h2 |-> Place1(e)]
<1>8. /\ rank \in [DOMAIN h2 -> 0 .. Len(met)]
      /\ \A n \in 1 .. Len(met) : rank[met[n]] = n
      /\ \A e \in DOMAIN h2 : rank[e] \in 1 .. Len(met) /\ met[rank[e]] = e
  <2>1. \A e \in DOMAIN h : Place1(e) \in 1 .. Len(met) /\ met[Place1(e)] = e
    BY <1>1
  <2> HIDE DEF Place1
  <2>2. \A n \in 1 .. Len(met) : Place1(met[n]) = n
    <3> SUFFICES ASSUME NEW n \in 1 .. Len(met) PROVE Place1(met[n]) = n
      OBVIOUS
    <3>1. met[n] \in DOMAIN h
      BY <1>1
    <3>2. Place1(met[n]) \in 1 .. Len(met) /\ met[Place1(met[n])] = met[n]
      BY <2>1, <3>1
    <3>3. QED
      BY <1>1, <3>2
  <2>3. \A e \in DOMAIN h2 : rank[e] = Place1(e)
    OBVIOUS
  <2>4. \A e \in DOMAIN h2 : rank[e] \in 1 .. Len(met) /\ met[rank[e]] = e
    BY <1>2, <2>1, <2>3
  <2>5. rank \in [DOMAIN h2 -> 0 .. Len(met)]
    BY <1>2, <2>1
  <2>6. \A n \in 1 .. Len(met) : rank[met[n]] = n
    BY <1>1, <1>2, <2>2, <2>3
  <2>7. QED
    BY <2>4, <2>5, <2>6
<1> HIDE DEF rank, Place1
<1>9. ASSUME NEW e \in DOMAIN h2, h2[e].next # NULL
      PROVE  \E m \in 1 .. rank[e] - 1 :
               h2[e].next = met[m] /\ Of(m) = Of(rank[e]) /\ m \in 1 .. Len(met)
  <2>1. rank[e] \in 1 .. Len(met) /\ met[rank[e]] = e
    BY <1>8
  <2>2. Latest(Of(rank[e]), rank[e] - 1, h2[e].next)
    <3>1. Latest(Of(rank[e]), rank[e] - 1, h2[met[rank[e]]].next)
      BY <1>5, <2>1
    <3>2. QED
      BY <2>1, <3>1
  <2>3. PICK m \in 1 .. rank[e] - 1 : h2[e].next = met[m] /\ Of(m) = Of(rank[e])
    BY <1>9, <2>2 DEF Latest
  <2>4. m \in 1 .. Len(met)
    BY <1>1, <2>1
  <2>5. QED
    BY <2>3, <2>4
<1>10. CellsTyped(t2, h2)
  <2>1. ASSUME NEW j \in DOMAIN t2 PROVE t2[j] \in DOMAIN h2 \cup {NULL}
    <3>1. Latest(j, Len(met), t2[j])
      BY <1>2, <1>4
    <3>2. QED
      BY <1>1, <1>2, <3>1 DEF Latest
  <2>2. ASSUME NEW e \in DOMAIN h2
        PROVE  h2[e] \in [key : Keys, value : Values, next : DOMAIN h2 \cup {NULL}]
    <3> DEFINE n == rank[e]
    <3>1. n \in 1 .. Len(met) /\ met[n] = e
      BY <1>8
    <3> HIDE DEF n
    <3>3. h2[e].next \in DOMAIN h2 \cup {NULL}
      BY <1>1, <1>2, <1>9
    <3>4. h2[e] = [key |-> h[e].key, value |-> h[e].value, next |-> h2[e].next]
      BY <1>3, <3>1
    <3>5. h[e].key \in Keys /\ h[e].value \in Values
      BY <1>1, <1>2
    <3>6. QED
      BY <3>3, <3>4, <3>5
  <2>3. QED
    BY <1>2, <2>1, <2>2 DEF CellsTyped
<1>11. InPlace(t2, h2, len)
  <2>1. ASSUME NEW j \in DOMAIN t2, t2[j] # NULL PROVE IndexFor(len, h2[t2[j]].key) = j
    <3>1. PICK n \in 1 .. Len(met) : t2[j] = met[n] /\ Of(n) = j
      BY <1>2, <1>4, <2>1 DEF Latest
    <3>2. QED
      BY <1>3, <1>7, <3>1
  <2>2. ASSUME NEW e \in DOMAIN h2, h2[e].next # NULL
        PROVE  IndexFor(len, h2[h2[e].next].key) = IndexFor(len, h2[e].key)
    <3>1. PICK m \in 1 .. rank[e] - 1 :
            h2[e].next = met[m] /\ Of(m) = Of(rank[e]) /\ m \in 1 .. Len(met)
      BY <1>9, <2>2
    <3>2. rank[e] \in 1 .. Len(met) /\ met[rank[e]] = e
      BY <1>8
    <3>3. h2[met[m]].key = h[met[m]].key /\ h2[e].key = h[e].key
      BY <1>3, <3>1, <3>2
    <3>4. Of(m) = IndexFor(len, h[met[m]].key) /\ Of(rank[e]) = IndexFor(len, h[e].key)
      BY <1>7, <3>1, <3>2
    <3>5. QED
      BY <3>1, <3>3, <3>4
  <2>3. QED
    BY <2>1, <2>2 DEF InPlace
<1>12. PointedOnce(t2, h2)
  <2>1. ASSUME NEW e \in DOMAIN h2
        PROVE  (\E j \in DOMAIN t2 : t2[j] = e) \/ (\E d \in DOMAIN h2 : h2[d].next = e)
    <3> DEFINE n == rank[e]
               later == {m \in n + 1 .. Len(met) : Of(m) = Of(n)}
    <3>1. n \in 1 .. Len(met) /\ met[n] = e
      BY <1>8
    <3> HIDE DEF n
    <3>2. CASE later = {}
      <4>1. Of(n) \in DOMAIN t2 /\ Latest(Of(n), Len(met), t2[Of(n)])
        BY <1>2, <1>4, <1>6, <3>1
      <4>2. \A m \in 1 .. Len(met) : Of(m) = Of(n) => m <= n
        <5> SUFFICES ASSUME NEW m \in 1 .. Len(met), Of(m) = Of(n), n < m PROVE FALSE
          BY <1>1, <3>1
        <5>1. m \in n + 1 .. Len(met)
          BY <1>1, <3>1
        <5>2. QED
          BY <3>2, <5>1
      <4>3. PICK m \in 1 .. Len(met) : t2[Of(n)] = met[m] /\ Of(m) = Of(n) /\ n <= m
        BY <3>1, <4>1 DEF Latest
      <4>4. m = n
        BY <3>1, <4>2, <4>3
      <4>5. QED
        BY <3>1, <4>1, <4>3, <4>4
    <3>3. CASE later # {}
      <4>1. later \in SUBSET Nat
        BY <1>1, <3>1
      <4>2. PICK q \in later : \A m \in later : q <= m
        <5> HIDE DEF later
        <5> QED
          BY <3>3, <4>1, LeastNat
      <4>3. /\ q \in 1 .. Len(met) /\ Of(q) = Of(n) /\ n \in 1 .. q - 1
            /\ \A m \in 1 .. q - 1 : Of(m) = Of(n) => m <= n
        BY <1>1, <3>1, <4>2
      <4>4. Latest(Of(q), q - 1, h2[met[q]].next)
        BY <1>5, <4>3
      <4>5. PICK m \in 1 .. q - 1 : h2[met[q]].next = met[m] /\ Of(m) = Of(n) /\ n <= m
        BY <4>3, <4>4 DEF Latest
      <4>6. m = n
        BY <3>1, <4>3, <4>5
      <4>7. h2[met[q]].next = e /\ met[q] \in DOMAIN h2
        BY <1>1, <1>2, <3>1, <4>3, <4>5, <4>6
      <4>8. QED
        BY <4>7
    <3>4. QED
      BY <3>2, <3>3
  <2>2. ASSUME NEW j \in DOMAIN t2, NEW d \in DOMAIN h2, t2[j] = h2[d].next, t2[j] # NULL
        PROVE  FALSE
    <3>1. PICK m \in 1 .. rank[d] - 1 :
            h2[d].next = met[m] /\ Of(m) = Of(rank[d]) /\ m \in 1 .. Len(met)
      BY <1>9, <2>2
    <3>2. PICK n \in 1 .. Len(met) :
            t2[j] = met[n] /\ Of(n) = j /\ \A i \in 1 .. Len(met) : Of(i) = j => i <= n
      BY <1>2, <1>4, <2>2 DEF Latest
    <3>3. m = n
      BY <1>1, <2>2, <3>1, <3>2
    <3>4. rank[d] \in 1 .. Len(met) /\ rank[d] <= n
      BY <1>8, <3>1, <3>2, <3>3
    <3>5. QED
      BY <3>1, <3>3, <3>4
  <2>3. ASSUME NEW c \in DOMAIN h2, NEW d \in DOMAIN h2, h2[c].next = h2[d].next,
               h2[c].next # NULL
        PROVE  c = d
    <3>1. ASSUME NEW x \in DOMAIN h2, NEW y \in DOMAIN h2, h2[x].next = h2[y].next,
                 h2[x].next # NULL, rank[x] < rank[y]
          PROVE  FALSE
      <4>1. PICK m \in 1 .. rank[x] - 1 :
              h2[x].next = met[m] /\ Of(m) = Of(rank[x]) /\ m \in 1 .. Len(met)
        BY <1>9, <3>1
      <4>2. rank[x] \in 1 .. Len(met) /\ rank[y] \in 1 .. Len(met) /\ met[rank[y]] = y
        BY <1>8
      <4>3. Latest(Of(rank[y]), rank[y] - 1, h2[y].next)
        BY <1>5, <4>2
      <4>4. PICK n \in 1 .. rank[y] - 1 :
              /\ h2[y].next = met[n] /\ Of(n) = Of(rank[y])
              /\ \A i \in 1 .. rank[y] - 1 : Of(i) = Of(rank[y]) => i <= n
        BY <3>1, <4>3 DEF Latest
      <4>5. n \in 1 .. Len(met) /\ m = n
        <5>1. n \in 1 .. Len(met)
          BY <1>1, <4>2, <4>4
        <5>2. met[m] = met[n]
          BY <3>1, <4>1, <4>4
        <5>3. QED
          BY <1>1, <4>1, <5>1, <5>2
      <4>6. rank[x] \in 1 .. rank[y] - 1 /\ Of(rank[x]) = Of(rank[y])
        BY <3>1, <4>1, <4>2, <4>4, <4>5
      <4>7. rank[x] <= n
        BY <4>4, <4>6
      <4>8. QED
        BY <4>1, <4>2, <4>5, <4>7
    <3>2. rank[c] \in 1 .. Len(met) /\ rank[d] \in 1 .. Len(met)
          /\ met[rank[c]] = c /\ met[rank[d]] = d
      BY <1>8
    <3>3. rank[c] = rank[d] \/ rank[c] < rank[d] \/ rank[d] < rank[c]
      BY <3>2
    <3>4. QED
      BY <2>3, <3>1, <3>2, <3>3
  <2>4. QED
    BY <2>1, <2>2, <2>3 DEF PointedOnce
<1>13. Acyclic(h2)
  <2>1. ASSUME NEW e \in DOMAIN h2, h2[e].next # NULL PROVE rank[h2[e].next] < rank[e]
    <3>1. PICK m \in 1 .. rank[e] - 1 : h2[e].next = met[m] /\ m \in 1 .. Len(met)
      BY <1>9, <2>1
    <3>2. rank[h2[e].next] = m /\ rank[e] \in 1 .. Len(met)
      BY <1>8, <3>1
    <3>3. QED
      BY <3>1, <3>2
  <2>2. Falls(h2, rank)
    BY <2>1 DEF Falls
  <2>3. QED
    BY <1>1, <1>8, <2>2 DEF Acyclic
<1>14. QED
  BY <1>2, <1>10, <1>11, <1>12, <1>13 DEF Linked

LEMMA RehashKeepsLinks ==
  ASSUME Linked(table, heap, TableLength), NEW len \in Nat \ {0}
  PROVE  /\ Linked(Rehash(len).table, Rehash(len).heap, len)
         /\ DOMAIN Rehash(len).heap = DOMAIN heap
         /\ \A e \in DOMAIN heap : /\ Rehash(len).heap[e].key = heap[e].key
                                   /\ Rehash(len).heap[e].value = heap[e].value
<1> DEFINE R == Rehash(len)
<1>1. /\ Order \in Seq(DOMAIN heap) /\ Once(Order) /\ CellsTyped(table, heap)
      /\ \A e \in DOMAIN heap : Meets(Order, e)
      /\ \A e \in DOMAIN heap :
           heap[e] \in [key : Keys, value : Values, next : DOMAIN heap \cup {NULL}]
  BY OrderLaws DEF Linked, CellsTyped
<1> DEFINE Rank(e) == CHOOSE n \in 1 .. Len(Order) : Order[n] = e
           Of(n) == IndexFor(len, heap[Order[n]].key)
<1>2. /\ R.table = [j \in 0 .. len - 1 |-> Newest(Order, heap, len, j, Len(Order))]
      /\ R.heap = [e \in DOMAIN heap |->
                     [heap[e] EXCEPT !.next = Newest(Order, heap, len, Of(Rank(e)), Rank(e) - 1)]]
  BY DEF Rehash, Newest
<1>3. \A n \in 1 .. Len(Order) : Order[n] \in DOMAIN heap /\ Rank(Order[n]) = n
  BY <1>1 DEF Once
<1> HIDE DEF R, Rank
<1>4. Relinked(Order, heap, len, R.table, R.heap)
  <2>1. DOMAIN R.heap = DOMAIN heap
    BY <1>2
  <2>2. ASSUME NEW n \in 1 .. Len(Order)
        PROVE  R.heap[Order[n]] =
                 [heap[Order[n]] EXCEPT !.next = Newest(Order, heap, len, Of(n), n - 1)]
    BY <1>2, <1>3
  <2>3. QED
    BY <1>2, <2>1, <2>2 DEF Relinked
<1>5. Linked(R.table, R.heap, len)
  BY <1>1, <1>4, RelinkingKeepsLinks
<1>6. /\ DOMAIN R.heap = DOMAIN heap
      /\ \A e \in DOMAIN heap : R.heap[e].key = heap[e].key /\ R.heap[e].value = heap[e].value
  BY <1>1, <1>2
<1>7. QED
  BY <1>5, <1>6 DEF R

-----------------------------------------------------------------------------
(***************************************************************************)
(* What an iterator has still to visit, told from single links: the later   *)
(* chains, and in its own chain what comes behind it.                       *)
(***************************************************************************)
ToCome(t, h, len, it, R) ==
  /\ R \subseteq DOMAIN h
  /\ \A d \in DOMAIN h : /\ IndexFor(len, h[d].key) > it.index => d \in R
                         /\ IndexFor(len, h[d].key) < it.index => d \notin R
  /\ t[it.index] \notin R /\ it.entry \notin R
  /\ \A d \in DOMAIN h : IndexFor(len, h[d].key) = it.index /\ h[d].next # NULL =>
       (h[d].next \in R <=> d \in R \/ d = it.entry)

\* Every entry lies in one of the chains, and the chain of an entry is not empty.
LEMMA HomeLaws ==
  ASSUME NEW t, NEW h, NEW len, Linked(t, h, len), NEW d \in DOMAIN h
  PROVE  IndexFor(len, h[d].key) \in DOMAIN t /\ t[IndexFor(len, h[d].key)] # NULL
<1> DEFINE T == {c \in DOMAIN h : /\ IndexFor(len, h[c].key) \in DOMAIN t
                                  /\ t[IndexFor(len, h[c].key)] # NULL}
<1>1. /\ \A j \in DOMAIN t : t[j] # NULL => t[j] \in DOMAIN h /\ IndexFor(len, h[t[j]].key) = j
      /\ \A c \in DOMAIN h : h[c].next # NULL =>
           h[c].next \in DOMAIN h /\ IndexFor(len, h[h[c].next].key) = IndexFor(len, h[c].key)
  BY DEF Linked, CellsTyped, InPlace
<1>2. \A j \in DOMAIN t : t[j] # NULL => t[j] \in T
  BY <1>1
<1>3. \A c \in DOMAIN h : c \in T /\ h[c].next # NULL => h[c].next \in T
  BY <1>1
<1> HIDE DEF T
<1>4. DOMAIN h \subseteq T
  BY <1>2, <1>3, ReachInduction
<1>5. QED
  BY <1>4 DEF T

\* They say it of one set only.
LEMMA ToComeUnique ==
  ASSUME NEW t, NEW h, NEW len, NEW it, NEW Q, NEW R, Linked(t, h, len),
         it.index \in DOMAIN t, ToCome(t, h, len, it, Q), ToCome(t, h, len, it, R)
  PROVE  Q = R
<1> DEFINE T == {d \in DOMAIN h : d \in Q <=> d \in R}
<1>1. /\ \A j \in DOMAIN t : t[j] # NULL => t[j] \in DOMAIN h /\ IndexFor(len, h[t[j]].key) = j
      /\ \A d \in DOMAIN h : h[d].next # NULL =>
           h[d].next \in DOMAIN h /\ IndexFor(len, h[h[d].next].key) = IndexFor(len, h[d].key)
      /\ \A d \in DOMAIN h : IndexFor(len, h[d].key) \in DOMAIN t
      /\ len \in Nat /\ DOMAIN t = 0 .. len - 1
  BY HomeLaws DEF Linked, CellsTyped, InPlace
<1>2. \A d \in DOMAIN h : IndexFor(len, h[d].key) # it.index => d \in T
  <2> SUFFICES ASSUME NEW d \in DOMAIN h, IndexFor(len, h[d].key) # it.index PROVE d \in T
    OBVIOUS
  <2>1. IndexFor(len, h[d].key) > it.index \/ IndexFor(len, h[d].key) < it.index
    BY <1>1
  <2>2. QED
    BY <2>1 DEF ToCome
<1>3. ASSUME NEW j \in DOMAIN t, t[j] # NULL PROVE t[j] \in T
  <2>1. CASE j = it.index
    BY <1>1, <1>3, <2>1 DEF ToCome
  <2>2. CASE j # it.index
    BY <1>1, <1>2, <1>3, <2>2
  <2>3. QED
    BY <2>1, <2>2
<1>4. ASSUME NEW d \in DOMAIN h, d \in T, h[d].next # NULL PROVE h[d].next \in T
  <2>1. CASE IndexFor(len, h[d].key) = it.index
    BY <1>1, <1>4, <2>1 DEF ToCome
  <2>2. CASE IndexFor(len, h[d].key) # it.index
    BY <1>1, <1>2, <1>4, <2>2
  <2>3. QED
    BY <2>1, <2>2
<1> HIDE DEF T
<1>5. DOMAIN h \subseteq T
  BY <1>3, <1>4, ReachInduction
<1>6. Q \subseteq DOMAIN h /\ R \subseteq DOMAIN h
  BY DEF ToCome
<1>7. QED
  BY <1>5, <1>6 DEF T

\* It is so of the set that ImplementsMultimap has the iterator visit.
LEMMA RemainingLaws ==
  ASSUME Linked(table, heap, TableLength), iter.entry # NULL,
         Located(iter.parent, iter.index, iter.entry)
  PROVE  ToCome(table, heap, TableLength, iter, Remaining)
<1> DEFINE e == iter.entry
           w == Walk[heap[e].next]
           R == Remaining
<1>1. /\ e \in DOMAIN heap /\ iter.index \in DOMAIN table /\ Home(e) = iter.index
      /\ TableLength \in Nat /\ DOMAIN table = 0 .. TableLength - 1
      /\ NULL \notin DOMAIN heap
      /\ heap[e].next \in Stops /\ heap[e].next \in DOMAIN heap \cup {NULL}
  BY CellsAssumption DEF Located, At, Home, Linked, CellsTyped, Stops
<1>2. /\ w \in Seq(DOMAIN heap) /\ Len(w) \in Nat /\ DOMAIN w = 1 .. Len(w)
      /\ \A n \in 1 .. Len(w) : w[n] \in DOMAIN heap
  BY <1>1, WalkStep, LenProperties
<1>3. \A d \in DOMAIN heap : heap[d].next # NULL =>
        heap[d].next \in DOMAIN heap /\ Home(heap[d].next) = Home(d)
  BY DEF Linked, CellsTyped, InPlace, Home
<1>4. /\ heap[e].next = NULL => Len(w) = 0
      /\ heap[e].next # NULL => Len(w) > 0 /\ w[1] = heap[e].next
      /\ Straight(w) /\ \A n \in 1 .. Len(w) : Home(w[n]) = iter.index
  <2>1. CASE heap[e].next = NULL
    <3>1. Len(w) = 0
      BY <2>1, WalkStep
    <3>2. QED
      BY <2>1, <3>1 DEF Straight
  <2>2. CASE heap[e].next # NULL
    <3>1. heap[e].next \in DOMAIN heap /\ Home(heap[e].next) = iter.index
      BY <1>1, <1>3, <2>2
    <3>2. Straight(w) /\ \A n \in 1 .. Len(w) : Home(w[n]) = Home(heap[e].next)
      BY <3>1, WalkLaws
    <3>3. w[1] = heap[e].next /\ Len(w) > 0
      <4>1. /\ w[1] = heap[e].next /\ heap[heap[e].next].next \in Stops
            /\ Len(w) = Len(Walk[heap[heap[e].next].next]) + 1
        BY <3>1, WalkStep
      <4>2. Len(Walk[heap[heap[e].next].next]) \in Nat
        BY <4>1, WalkStep, LenProperties
      <4>3. QED
        BY <4>1, <4>2
    <3>4. QED
      BY <2>2, <3>1, <3>2, <3>3
  <2>3. QED
    BY <2>1, <2>2
<1>5. \A n \in 1 .. Len(w) : w[n] # e
  <2> SUFFICES ASSUME NEW n \in 1 .. Len(w), w[n] = e PROVE FALSE
    OBVIOUS
  <2>1. Len(Walk[e]) = Len(w) + 1 /\ Walk[e][1] = e /\ Walk[e][n + 1] = w[n]
    BY <1>1, WalkStep
  <2>2. \A m, i \in 1 .. Len(Walk[e]) : Walk[e][m] = Walk[e][i] => m = i
    BY <1>1, WalkLaws
  <2>3. 1 \in 1 .. Len(Walk[e]) /\ n + 1 \in 1 .. Len(Walk[e]) /\ n + 1 # 1
    BY <1>2, <2>1
  <2>4. QED
    BY <2>1, <2>2, <2>3
<1>6. \A d : d \in R <=> \/ \E n \in 1 .. Len(w) : w[n] = d
                         \/ d \in DOMAIN heap /\ Home(d) > iter.index
  <2>1. R = ToSet(w) \cup UNION {ToSet(Chain(j)) : j \in {j \in DOMAIN table : j > iter.index}}
    BY <1>1 DEF Remaining, Walk
  <2>2. \A d : d \in ToSet(w) <=> \E n \in 1 .. Len(w) : w[n] = d
    BY <1>2 DEF ToSet
  <2>3. ASSUME NEW j \in DOMAIN table, NEW d
        PROVE  d \in ToSet(Chain(j)) <=> d \in DOMAIN heap /\ Home(d) = j
    <3> DEFINE c == Chain(j)
    <3>1. c \in Seq(DOMAIN heap) /\ \A n \in 1 .. Len(c) : Home(c[n]) = j
      BY ChainLaws
    <3>2. d \in DOMAIN heap /\ Home(d) = j => \E n \in 1 .. Len(c) : c[n] = d
      BY ChainLaws
    <3> HIDE DEF c
    <3>3. DOMAIN c = 1 .. Len(c) /\ \A n \in 1 .. Len(c) : c[n] \in DOMAIN heap
      BY <3>1, LenProperties
    <3>4. d \in ToSet(c) <=> d \in DOMAIN heap /\ Home(d) = j
      BY <3>1, <3>3, <3>2 DEF ToSet
    <3>5. QED
      BY <3>4 DEF c
  <2>4. \A d \in DOMAIN heap : Home(d) \in DOMAIN table
    BY ChainLaws
  <2> HIDE DEF w, R
  <2>5. QED
    BY <2>1, <2>2, <2>3, <2>4
<1> HIDE DEF R, w
<1>7. \A d \in DOMAIN heap : Home(d) \in Nat /\ iter.index \in Nat
  BY <1>1, ChainLaws
<1>8. \A d \in DOMAIN heap : Home(d) = iter.index => (d \in R <=> \E n \in 1 .. Len(w) : w[n] = d)
  BY <1>6, <1>7
<1>9. R \subseteq DOMAIN heap
  BY <1>2, <1>6
<1>10. \A d \in DOMAIN heap : (Home(d) > iter.index => d \in R) /\ (Home(d) < iter.index => d \notin R)
  BY <1>4, <1>6, <1>7
<1>11. /\ \A j \in DOMAIN table, d \in DOMAIN heap : table[j] = heap[d].next => table[j] = NULL
       /\ \A c, d \in DOMAIN heap : heap[c].next = heap[d].next => heap[c].next = NULL \/ c = d
       /\ \A j \in DOMAIN table : table[j] # NULL => table[j] \in DOMAIN heap /\ Home(table[j]) = j
  BY DEF Linked, PointedOnce, CellsTyped, InPlace, Home
\* What the walk meets is pointed to by what it met before, or by e.
<1>12. ASSUME NEW n \in 1 .. Len(w)
       PROVE  \/ n = 1 /\ w[n] = heap[e].next
              \/ n - 1 \in 1 .. Len(w) /\ heap[w[n - 1]].next = w[n]
  <2>1. CASE n = 1
    BY <1>4, <2>1
  <2>2. CASE n # 1
    <3>1. n - 1 \in 1 .. Len(w) /\ n - 1 < Len(w) /\ (n - 1) + 1 = n
      BY <1>2, <2>2
    <3>2. QED
      BY <1>4, <3>1 DEF Straight
  <2>3. QED
    BY <2>1, <2>2
<1>13. table[iter.index] \notin R
  <2> SUFFICES ASSUME table[iter.index] \in R PROVE FALSE
    OBVIOUS
  <2>1. table[iter.index] \in DOMAIN heap /\ Home(table[iter.index]) = iter.index
    BY <1>1, <1>9, <1>11
  <2>2. PICK n \in 1 .. Len(w) : w[n] = table[iter.index]
    BY <1>8, <2>1
  <2>3. \E d \in DOMAIN heap : heap[d].next = table[iter.index]
    BY <1>1, <1>2, <1>12, <2>2
  <2>4. QED
    BY <1>1, <1>11, <2>1, <2>3
<1>14. e \notin R
  BY <1>1, <1>5, <1>8
<1>15. ASSUME NEW d \in DOMAIN heap, Home(d) = iter.index, heap[d].next # NULL
       PROVE  heap[d].next \in R <=> d \in R \/ d = e
  <2>1. heap[d].next \in DOMAIN heap /\ Home(heap[d].next) = iter.index
    BY <1>3, <1>15
  <2>2. CASE d = e
    <3>1. 1 \in 1 .. Len(w) /\ w[1] = heap[d].next
      BY <1>2, <1>4, <1>15, <2>2
    <3>2. QED
      BY <1>8, <2>1, <2>2, <3>1
  <2>3. ASSUME d \in R PROVE heap[d].next \in R
    <3>1. PICK n \in 1 .. Len(w) : w[n] = d
      BY <1>8, <1>15, <2>3
    <3>2. n < Len(w) /\ w[n + 1] = heap[d].next
      BY <1>2, <1>4, <1>15, <3>1 DEF Straight
    <3>3. n + 1 \in 1 .. Len(w)
      BY <1>2, <3>2
    <3>4. QED
      BY <1>8, <2>1, <3>2, <3>3
  <2>4. ASSUME heap[d].next \in R PROVE d \in R \/ d = e
    <3>1. PICK n \in 1 .. Len(w) : w[n] = heap[d].next
      BY <1>8, <2>1, <2>4
    <3>2. CASE n = 1 /\ w[n] = heap[e].next
      BY <1>1, <1>11, <1>15, <3>1, <3>2
    <3>3. CASE n - 1 \in 1 .. Len(w) /\ heap[w[n - 1]].next = w[n]
      <4>1. w[n - 1] = d
        BY <1>2, <1>11, <1>15, <3>1, <3>3
      <4>2. QED
        BY <1>8, <1>15, <3>3, <4>1
    <3>4. QED
      BY <1>12, <3>2, <3>3
  <2>5. QED
    BY <2>2, <2>3, <2>4
<1>16. ToCome(table, heap, TableLength, iter, R)
  BY <1>9, <1>10, <1>13, <1>14, <1>15 DEF ToCome, Home
<1>17. QED
  BY <1>16 DEF R

\* A new head is still to come when it comes into a later chain.
LEMMA PushToCome ==
  ASSUME NEW t, NEW h, NEW len \in Nat \ {0}, NEW t2, NEW h2, NEW k \in Keys, NEW v,
         NEW e, e \notin DOMAIN h, NEW it, NEW R, it.index \in DOMAIN t, it.entry \in DOMAIN h,
         Linked(t, h, len), Pushes(t, h, len, t2, h2, e, k, v), e # NULL, ToCome(t, h, len, it, R)
  PROVE  ToCome(t2, h2, len, it, IF IndexFor(len, k) > it.index THEN R \cup {e} ELSE R)
<1> DEFINE j == IndexFor(len, k)
           Q == IF j > it.index THEN R \cup {e} ELSE R
<1>1. /\ len \in Nat /\ DOMAIN t = 0 .. len - 1 /\ j \in DOMAIN t /\ NULL \notin DOMAIN h
      /\ \A i \in DOMAIN t : t[i] \in DOMAIN h \cup {NULL}
      /\ \A d \in DOMAIN h : h[d].next \in DOMAIN h \cup {NULL}
  <2>1. Hash[k] \in Nat /\ DOMAIN t = 0 .. len - 1
    BY KeysAssumption DEF Linked
  <2>2. j \in DOMAIN t
    BY <2>1 DEF IndexFor
  <2>3. QED
    BY <2>1, <2>2, CellsAssumption DEF Linked, CellsTyped
<1> HIDE DEF j
<1>2. /\ DOMAIN h2 = DOMAIN h \cup {e} /\ DOMAIN t2 = DOMAIN t
      /\ \A d \in DOMAIN h : h2[d] = h[d] /\ d # e
      /\ h2[e].key = k /\ h2[e].next = t[j]
      /\ t2[j] = e /\ \A i \in DOMAIN t : i # j => t2[i] = t[i]
  BY <1>1 DEF Pushes, j
<1>3. R \subseteq DOMAIN h /\ t[it.index] \notin R /\ it.entry \notin R
  BY DEF ToCome
<1>4. Q \subseteq DOMAIN h2
  BY <1>2, <1>3
<1>5. ASSUME NEW d \in DOMAIN h2
      PROVE  /\ IndexFor(len, h2[d].key) > it.index => d \in Q
             /\ IndexFor(len, h2[d].key) < it.index => d \notin Q
  <2>1. CASE d = e
    BY <1>1, <1>2, <1>3, <2>1 DEF j
  <2>2. CASE d # e
    BY <1>2, <2>2 DEF ToCome
  <2>3. QED
    BY <2>1, <2>2
<1>6. t2[it.index] \notin Q /\ it.entry \notin Q
  <2>1. CASE it.index = j
    BY <1>1, <1>2, <1>3, <2>1
  <2>2. CASE it.index # j
    BY <1>1, <1>2, <1>3, <2>2
  <2>3. QED
    BY <2>1, <2>2
<1>7. ASSUME NEW d \in DOMAIN h2, IndexFor(len, h2[d].key) = it.index, h2[d].next # NULL
      PROVE  h2[d].next \in Q <=> d \in Q \/ d = it.entry
  <2>1. CASE d = e
    <3>1. j = it.index /\ h2[d].next = t[j] /\ t[j] # e
      BY <1>1, <1>2, <1>7, <2>1 DEF j
    <3>2. QED
      BY <1>1, <1>2, <1>3, <2>1, <3>1
  <2>2. CASE d # e
    <3>1. d \in DOMAIN h /\ h2[d] = h[d] /\ h[d].next # e
      BY <1>1, <1>2, <1>7, <2>2
    <3>2. h[d].next \in R <=> d \in R \/ d = it.entry
      BY <1>7, <3>1 DEF ToCome
    <3>3. QED
      BY <2>2, <3>1, <3>2
  <2>3. QED
    BY <2>1, <2>2
<1> HIDE DEF Q
<1>8. ToCome(t2, h2, len, it, Q)
  BY <1>4, <1>5, <1>6, <1>7 DEF ToCome
<1>9. QED
  BY <1>8 DEF Q, j

\* An entry that is unlinked elsewhere is no longer to come.
LEMMA SkipToCome ==
  ASSUME NEW t, NEW h, NEW len, NEW t2, NEW h2, NEW e \in DOMAIN h, NEW it, NEW R,
         it.index \in DOMAIN t, it.entry # e,
         Linked(t, h, len), Skips(t, h, t2, h2, e), ToCome(t, h, len, it, R)
  PROVE  ToCome(t2, h2, len, it, R \ {e})
<1>1. /\ DOMAIN h2 = DOMAIN h \ {e} /\ DOMAIN t2 = DOMAIN t /\ NULL \notin DOMAIN h
      /\ \A d \in DOMAIN h2 : /\ h2[d].key = h[d].key
                              /\ h2[d].next = IF h[d].next = e THEN h[e].next ELSE h[d].next
      /\ \A i \in DOMAIN t : t2[i] = IF t[i] = e THEN h[e].next ELSE t[i]
  <2>1. \A d \in DOMAIN h : h[d] \in [key : Keys, value : Values, next : DOMAIN h \cup {NULL}]
    BY DEF Linked, CellsTyped
  <2>2. QED
    BY <2>1, CellsAssumption DEF Skips, Linked, CellsTyped
<1>2. /\ h[e].next # e /\ h[e].next \in DOMAIN h \cup {NULL}
      /\ \A d \in DOMAIN h : h[d].next # NULL =>
           IndexFor(len, h[h[d].next].key) = IndexFor(len, h[d].key)
      /\ \A i \in DOMAIN t : t[i] # NULL => IndexFor(len, h[t[i]].key) = i
  <2>0. PICK top \in Nat : \E rank \in [DOMAIN h -> 0 .. top] : Falls(h, rank)
    BY DEF Linked, Acyclic
  <2>1. PICK rank \in [DOMAIN h -> 0 .. top] : Falls(h, rank)
    BY <2>0
  <2>2. h[e].next # e
    BY <1>1, <2>1 DEF Falls
  <2>3. QED
    BY <2>2 DEF Linked, CellsTyped, InPlace
<1>3. /\ R \subseteq DOMAIN h /\ t[it.index] \notin R /\ it.entry \notin R
      /\ \A d \in DOMAIN h : /\ IndexFor(len, h[d].key) > it.index => d \in R
                             /\ IndexFor(len, h[d].key) < it.index => d \notin R
      /\ \A d \in DOMAIN h : IndexFor(len, h[d].key) = it.index /\ h[d].next # NULL =>
           (h[d].next \in R <=> d \in R \/ d = it.entry)
  BY DEF ToCome
<1>4. t2[it.index] \notin R \ {e}
  <2>1. CASE t[it.index] = e
    <3>1. IndexFor(len, h[e].key) = it.index
      BY <1>1, <1>2, <2>1
    <3>2. h[e].next # NULL => h[e].next \notin R
      BY <1>3, <2>1, <3>1
    <3>3. QED
      BY <1>1, <1>3, <2>1, <3>2
  <2>2. CASE t[it.index] # e
    BY <1>1, <1>3, <2>2
  <2>3. QED
    BY <2>1, <2>2
<1>5. ASSUME NEW d \in DOMAIN h2, IndexFor(len, h2[d].key) = it.index, h2[d].next # NULL
      PROVE  h2[d].next \in R \ {e} <=> d \in R \ {e} \/ d = it.entry
  <2>1. d \in DOMAIN h /\ d # e /\ IndexFor(len, h[d].key) = it.index
    BY <1>1, <1>5
  <2>2. CASE h[d].next = e
    <3>1. h2[d].next = h[e].next /\ IndexFor(len, h[e].key) = it.index
      BY <1>1, <1>2, <2>1, <2>2
    <3>2. h[e].next \in R <=> e \in R
      BY <1>3, <1>5, <3>1
    <3>3. e \in R <=> d \in R \/ d = it.entry
      BY <1>1, <1>3, <2>1, <2>2
    <3>4. QED
      BY <1>2, <2>1, <3>1, <3>2, <3>3
  <2>3. CASE h[d].next # e
    BY <1>1, <1>3, <1>5, <2>1, <2>3
  <2>4. QED
    BY <2>2, <2>3
<1>6. QED
  BY <1>1, <1>3, <1>4, <1>5 DEF ToCome

\* The same links: what is to come is the same.
LEMMA SameToCome ==
  ASSUME NEW t, NEW h, NEW len, NEW h2, NEW it, NEW R, DOMAIN h2 = DOMAIN h,
         \A d \in DOMAIN h : h2[d].key = h[d].key /\ h2[d].next = h[d].next,
         ToCome(t, h, len, it, R)
  PROVE  ToCome(t, h2, len, it, R)
BY DEF ToCome

\* On to the next entry of the chain, which is one of those to come.
LEMMA NextToCome ==
  ASSUME NEW t, NEW h, NEW len, NEW it, NEW to, NEW R, it.index \in DOMAIN t,
         it.entry \in DOMAIN h, IndexFor(len, h[it.entry].key) = it.index,
         h[it.entry].next # NULL, to.entry = h[it.entry].next, to.index = it.index,
         Linked(t, h, len), ToCome(t, h, len, it, R)
  PROVE  to.entry \in R /\ ToCome(t, h, len, to, R \ {to.entry})
<1> DEFINE x == to.entry
<1>1. /\ x \in DOMAIN h /\ IndexFor(len, h[x].key) = it.index
      /\ \A d \in DOMAIN h : h[d].next = x => d = it.entry
      /\ len \in Nat /\ it.index \in Nat
  BY CellsAssumption DEF Linked, CellsTyped, InPlace, PointedOnce
<1>2. /\ R \subseteq DOMAIN h /\ t[it.index] \notin R /\ it.entry \notin R
      /\ \A d \in DOMAIN h : /\ IndexFor(len, h[d].key) > it.index => d \in R
                             /\ IndexFor(len, h[d].key) < it.index => d \notin R
      /\ \A d \in DOMAIN h : IndexFor(len, h[d].key) = it.index /\ h[d].next # NULL =>
           (h[d].next \in R <=> d \in R \/ d = it.entry)
  BY DEF ToCome
<1>3. x \in R
  BY <1>2
<1>4. \A d \in DOMAIN h : IndexFor(len, h[d].key) > it.index => d \in R \ {x}
  BY <1>1, <1>2
<1>5. ASSUME NEW d \in DOMAIN h, IndexFor(len, h[d].key) = it.index, h[d].next # NULL
      PROVE  h[d].next \in R \ {x} <=> d \in R \ {x} \/ d = x
  BY <1>1, <1>2, <1>3, <1>5
<1>6. QED
  BY <1>2, <1>3, <1>4, <1>5 DEF ToCome

\* On to the first chain from a number on that is not empty; the chains between are.
LEMMA HeadToCome ==
  ASSUME NEW t, NEW h, NEW len, NEW from \in Nat, NEW to, Linked(t, h, len),
         to.index \in DOMAIN t, to.index >= from, t[to.index] # NULL, to.entry = t[to.index],
         \A i \in DOMAIN t : i >= from /\ t[i] # NULL => to.index <= i
  PROVE  LET R == {d \in DOMAIN h : IndexFor(len, h[d].key) >= from}
         IN  to.entry \in R /\ ToCome(t, h, len, to, R \ {to.entry})
<1> DEFINE x == to.entry
           j == to.index
           R == {d \in DOMAIN h : IndexFor(len, h[d].key) >= from}
<1>1. /\ x \in DOMAIN h /\ IndexFor(len, h[x].key) = j /\ x = t[j]
      /\ len \in Nat /\ DOMAIN t = 0 .. len - 1 /\ j \in Nat
      /\ \A d \in DOMAIN h : h[d].next # x
      /\ \A d \in DOMAIN h : h[d].next # NULL => h[d].next \in DOMAIN h
      /\ \A d \in DOMAIN h : h[d].next # NULL =>
           IndexFor(len, h[h[d].next].key) = IndexFor(len, h[d].key)
  BY DEF Linked, CellsTyped, InPlace, PointedOnce
<1>2. \A d \in DOMAIN h : /\ IndexFor(len, h[d].key) \in DOMAIN t
                          /\ t[IndexFor(len, h[d].key)] # NULL
                          /\ IndexFor(len, h[d].key) \in Nat
  BY <1>1, HomeLaws
<1> HIDE DEF x, j
<1>3. x \in R
  BY <1>1 DEF x, j
<1>4. ASSUME NEW d \in DOMAIN h
      PROVE  /\ IndexFor(len, h[d].key) > j => d \in R \ {x}
             /\ IndexFor(len, h[d].key) < j => d \notin R \ {x}
  BY <1>1, <1>2 DEF j
<1>5. ASSUME NEW d \in DOMAIN h, IndexFor(len, h[d].key) = j, h[d].next # NULL
      PROVE  h[d].next \in R \ {x} <=> d \in R \ {x} \/ d = x
  BY <1>1, <1>2, <1>5 DEF j
<1>6. x \notin R \ {x} /\ t[j] \notin R \ {x} /\ R \ {x} \subseteq DOMAIN h
  BY <1>1
<1>7. QED
  BY <1>3, <1>4, <1>5, <1>6 DEF ToCome, x, j

\* At the end of a chain the later ones are to come.
LEMMA LastToCome ==
  ASSUME NEW t, NEW h, NEW len, NEW it, NEW R, Linked(t, h, len), it.index \in DOMAIN t,
         it.entry \in DOMAIN h, h[it.entry].next = NULL, ToCome(t, h, len, it, R)
  PROVE  R = {d \in DOMAIN h : IndexFor(len, h[d].key) >= it.index + 1}
<1> DEFINE Q == {d \in DOMAIN h : IndexFor(len, h[d].key) >= it.index + 1}
<1>1. /\ len \in Nat /\ DOMAIN t = 0 .. len - 1 /\ it.index \in Nat
      /\ \A i \in DOMAIN t : t[i] # NULL => IndexFor(len, h[t[i]].key) = i
      /\ \A d \in DOMAIN h : h[d].next # NULL =>
           IndexFor(len, h[h[d].next].key) = IndexFor(len, h[d].key)
      /\ NULL \notin DOMAIN h
  BY CellsAssumption DEF Linked, CellsTyped, InPlace
<1>2. \A d \in DOMAIN h : IndexFor(len, h[d].key) \in Nat
  BY <1>1, HomeLaws
<1>3. it.entry \notin Q
  BY <1>1, <1>2 DEF ToCome
<1>4. ToCome(t, h, len, it, Q)
  BY <1>1, <1>2, <1>3 DEF ToCome
<1> HIDE DEF Q
<1>5. R = Q
  BY <1>4, ToComeUnique
<1>6. QED
  BY <1>5 DEF Q

=============================================================================
