-------------------------- MODULE PetHashtableProofs --------------------------
(***************************************************************************)
(* Why pet_hashtable.c never tears a chain and its iterator always knows    *)
(* its place: what one call makes of the links of PetHashtableLinks.        *)
(***************************************************************************)
EXTENDS PetHashtableLinks

-----------------------------------------------------------------------------
(***************************************************************************)
(* The iterator.                                                            *)
(***************************************************************************)

\* The iterator stands nowhere, without a parent, or at an entry it can unlink.
IterAt(t, h, len, it) ==
  /\ it \in [entry : DOMAIN h \cup {NULL}, parent : DOMAIN h \cup {NULL}, index : Int]
  /\ IF it.entry = NULL THEN it.parent = NULL ELSE At(t, h, len, it.parent, it.index, it.entry)

\* A chain holds the entry behind its predecessor.
LEMMA PlaceOf ==
  ASSUME Linked(table, heap, TableLength), NEW parent, NEW j, NEW e, Located(parent, j, e)
  PROVE  \E n \in 1 .. Len(Chain(j)) : Chain(j)[n] = e /\ Before(Chain(j), n) = parent
<1> DEFINE c == Chain(j)
<1>1. e \in DOMAIN heap /\ j \in DOMAIN table /\ Home(e) = j
  BY DEF Located, At, Home
<1>2. /\ c \in Seq(DOMAIN heap) /\ Len(c) \in Nat /\ Straight(c)
      /\ Len(c) > 0 => c[1] = table[j]
      /\ \A m, n \in 1 .. Len(c) : c[m] = c[n] => m = n
  BY <1>1, ChainLaws, LenProperties
<1>3. \A d \in DOMAIN heap : Home(d) = j => \E n \in 1 .. Len(c) : c[n] = d
  BY ChainLaws
<1> HIDE DEF c
<1>4. PICK n \in 1 .. Len(c) : c[n] = e
  BY <1>1, <1>3
<1>5. CASE parent = NULL
  <2>1. 1 \in 1 .. Len(c) /\ c[1] = e
    BY <1>2, <1>4, <1>5 DEF Located, At
  <2>2. QED
    BY <1>5, <2>1 DEF Before, c
<1>6. CASE parent # NULL
  <2>1. parent \in DOMAIN heap /\ heap[parent].next = e /\ e # NULL
    BY <1>6, CellsAssumption DEF Located, At, Linked, CellsTyped
  <2>2. Home(parent) = j
    BY <1>1, <2>1 DEF Linked, InPlace, Home
  <2>3. PICK m \in 1 .. Len(c) : c[m] = parent
    BY <1>3, <2>1, <2>2
  <2>4. m < Len(c) /\ c[m + 1] = e
    BY <1>2, <2>1, <2>3 DEF Straight
  <2>5. m + 1 \in 1 .. Len(c) /\ m + 1 # 1 /\ (m + 1) - 1 = m
    BY <1>2, <2>4
  <2>6. Before(c, m + 1) = parent
    BY <2>3, <2>5 DEF Before
  <2>7. QED
    BY <2>4, <2>5, <2>6 DEF c
<1>7. QED
  BY <1>5, <1>6

\* Unlinking another entry than the iterator's own and its parent leaves it where it is.
LEMMA SkippingKeepsIter ==
  ASSUME NEW t, NEW h, NEW len, NEW t2, NEW h2, NEW e \in DOMAIN h, NEW it,
         Linked(t, h, len), Skips(t, h, t2, h2, e), IterAt(t, h, len, it),
         it.entry # NULL => e \notin {it.entry, it.parent}
  PROVE  IterAt(t2, h2, len, it)
<1>1. /\ DOMAIN h2 = DOMAIN h \ {e} /\ DOMAIN t2 = DOMAIN t /\ NULL \notin DOMAIN h
      /\ \A d \in DOMAIN h : h[d] \in [key : Keys, value : Values, next : DOMAIN h \cup {NULL}]
      /\ it \in [entry : DOMAIN h \cup {NULL}, parent : DOMAIN h \cup {NULL}, index : Int]
  BY CellsAssumption DEF Skips, Linked, CellsTyped, IterAt
<1>2. /\ \A d \in DOMAIN h2 : /\ h2[d].key = h[d].key
                              /\ h[d].next # e => h2[d].next = h[d].next
      /\ \A i \in DOMAIN t : t[i] # e => t2[i] = t[i]
  BY <1>1 DEF Skips
<1>3. CASE it.entry = NULL
  BY <1>1, <1>3 DEF IterAt
<1>4. CASE it.entry # NULL
  <2>1. /\ At(t, h, len, it.parent, it.index, it.entry) /\ it.entry # e /\ it.parent # e
    BY <1>4 DEF IterAt
  <2>2. At(t2, h2, len, it.parent, it.index, it.entry)
    BY <1>1, <1>2, <2>1 DEF At
  <2>3. it \in [entry : DOMAIN h2 \cup {NULL}, parent : DOMAIN h2 \cup {NULL}, index : Int]
    BY <1>1, <2>1
  <2>4. QED
    BY <1>4, <2>2, <2>3 DEF IterAt
<1>5. QED
  BY <1>3, <1>4

\* A new head does so unless it comes between the table and the iterator's entry.
LEMMA PushingKeepsIter ==
  ASSUME NEW t, NEW h, NEW len, NEW t2, NEW h2, NEW k, NEW v, NEW e, e \notin DOMAIN h, NEW it,
         Linked(t, h, len), Pushes(t, h, len, t2, h2, e, k, v), IterAt(t, h, len, it),
         ~(it.entry # NULL /\ it.parent = NULL /\ it.index = IndexFor(len, k))
  PROVE  IterAt(t2, h2, len, it)
<1> DEFINE j == IndexFor(len, k)
<1>1. /\ DOMAIN h2 = DOMAIN h \cup {e} /\ DOMAIN t2 = DOMAIN t /\ NULL \notin DOMAIN h
      /\ \A d \in DOMAIN h : h2[d] = h[d]
      /\ \A i \in DOMAIN t : i # j => t2[i] = t[i]
      /\ it \in [entry : DOMAIN h \cup {NULL}, parent : DOMAIN h \cup {NULL}, index : Int]
  BY CellsAssumption DEF Pushes, Linked, CellsTyped, IterAt
<1> HIDE DEF j
<1>2. it \in [entry : DOMAIN h2 \cup {NULL}, parent : DOMAIN h2 \cup {NULL}, index : Int]
  BY <1>1
<1>3. CASE it.entry = NULL
  BY <1>2, <1>3 DEF IterAt
<1>4. CASE it.entry # NULL
  <2>1. At(t, h, len, it.parent, it.index, it.entry) /\ (it.parent = NULL => it.index # j)
    BY <1>4 DEF IterAt, j
  <2>2. At(t2, h2, len, it.parent, it.index, it.entry)
    BY <1>1, <2>1 DEF At
  <2>3. QED
    BY <1>2, <1>4, <2>2 DEF IterAt
<1>5. QED
  BY <1>3, <1>4

LEMMA ValuesKeepIter ==
  ASSUME NEW t, NEW h, NEW len, NEW h2, NEW it, IterAt(t, h, len, it),
         DOMAIN h2 = DOMAIN h,
         \A d \in DOMAIN h : h2[d].key = h[d].key /\ h2[d].next = h[d].next
  PROVE  IterAt(t, h2, len, it)
BY DEF IterAt, At

\* Advancing leads from an entry that can be unlinked to another one, or to the end.
LEMMA AdvancingKeepsIter ==
  ASSUME Linked(table, heap, TableLength), IterAt(table, heap, TableLength, iter)
  PROVE  IterAt(table, heap, TableLength, Next_entry(iter, table))
<1> DEFINE it    == Next_entry(iter, table)
           from  == IF iter.entry = NULL THEN 0 ELSE iter.index + 1
           heads == {j \in DOMAIN table : j >= from /\ table[j] # NULL}
<1>1. /\ TableLength \in Nat /\ DOMAIN table = 0 .. TableLength - 1 /\ NULL \notin DOMAIN heap
      /\ \A d \in DOMAIN heap : heap[d].next \in DOMAIN heap \cup {NULL}
      /\ \A j \in DOMAIN table : table[j] \in DOMAIN heap \cup {NULL}
      /\ \A j \in DOMAIN table : table[j] # NULL => IndexFor(TableLength, heap[table[j]].key) = j
      /\ \A d \in DOMAIN heap : heap[d].next # NULL =>
           IndexFor(TableLength, heap[heap[d].next].key) = IndexFor(TableLength, heap[d].key)
      /\ iter \in [entry : DOMAIN heap \cup {NULL}, parent : DOMAIN heap \cup {NULL}, index : Int]
      /\ iter.entry = NULL => iter.parent = NULL
      /\ iter.entry # NULL => At(table, heap, TableLength, iter.parent, iter.index, iter.entry)
  BY CellsAssumption DEF Linked, CellsTyped, InPlace, IterAt
<1>2. CASE iter.entry # NULL /\ heap[iter.entry].next # NULL
  <2>1. it = [iter EXCEPT !.parent = iter.entry, !.entry = heap[iter.entry].next]
    BY <1>2 DEF Next_entry
  <2>2. /\ it.parent = iter.entry /\ it.entry = heap[iter.entry].next /\ it.index = iter.index
        /\ it \in [entry : DOMAIN heap \cup {NULL}, parent : DOMAIN heap \cup {NULL}, index : Int]
    BY <1>1, <1>2, <2>1
  <2>3. At(table, heap, TableLength, iter.entry, iter.index, heap[iter.entry].next)
    BY <1>1, <1>2 DEF At
  <2> HIDE DEF it
  <2>4. QED
    BY <1>2, <2>2, <2>3 DEF IterAt, it
<1>3. CASE (iter.entry = NULL \/ heap[iter.entry].next = NULL) /\ heads # {}
  <2>1. heads \in SUBSET Nat
    BY <1>1
  <2>2. it = [entry |-> table[Min(heads)], index |-> Min(heads),
              parent |-> IF iter.entry = NULL THEN iter.parent ELSE NULL]
    BY <1>3 DEF Next_entry
  <2> HIDE DEF heads, it
  <2>3. Min(heads) \in heads
    BY <1>3, <2>1, MinOf
  <2> DEFINE j == Min(heads)
  <2>4. j \in DOMAIN table /\ table[j] # NULL /\ table[j] \in DOMAIN heap
    BY <1>1, <2>3 DEF heads
  <2>5. At(table, heap, TableLength, NULL, j, table[j])
    BY <1>1, <2>4 DEF At
  <2>6. it.parent = NULL /\ it.index = j /\ it.entry = table[j] /\ j \in Int
        /\ it = [entry |-> table[j], index |-> j, parent |-> NULL]
    BY <1>1, <2>2, <2>4
  <2>7. it \in [entry : DOMAIN heap \cup {NULL}, parent : DOMAIN heap \cup {NULL}, index : Int]
    BY <2>4, <2>6
  <2>8. QED
    BY <2>4, <2>5, <2>6, <2>7 DEF IterAt, it
<1>4. CASE iter.entry = NULL /\ heads = {}
  BY <1>4 DEF Next_entry
<1>5. CASE iter.entry # NULL /\ heap[iter.entry].next = NULL /\ heads = {}
  <2>1. it = [entry |-> NULL, parent |-> NULL, index |-> TableLength]
    BY <1>5 DEF Next_entry
  <2>2. QED
    BY <1>1, <2>1 DEF IterAt
<1>6. QED
  BY <1>2, <1>3, <1>4, <1>5

\* Removing the iterator's entry leaves it at the next one, with the removed one's parent
\* where it stays in its chain.
LEMMA RemovingKeepsIter ==
  ASSUME Linked(table, heap, TableLength), IterAt(table, heap, TableLength, iter),
         IterRemove
  PROVE  /\ Located(iter.parent, iter.index, iter.entry)
         /\ Skips(table, heap, table', heap', iter.entry)
         /\ IterAt(table', heap', TableLength, iter')
<1> DEFINE e     == iter.entry
           next  == Next_entry(iter, table')
           from  == iter.index + 1
           heads == {j \in DOMAIN table' : j >= from /\ table'[j] # NULL}
<1>1. /\ e # NULL /\ Unlink(iter.parent, iter.index, e)
      /\ iter' = [next EXCEPT !.parent = IF @ = e THEN iter.parent ELSE @]
  BY DEF IterRemove
<1>2. /\ Located(iter.parent, iter.index, e) /\ At(table, heap, TableLength, iter.parent, iter.index, e)
      /\ iter \in [entry : DOMAIN heap \cup {NULL}, parent : DOMAIN heap \cup {NULL}, index : Int]
      /\ e \in DOMAIN heap /\ iter.index \in DOMAIN table
  BY <1>1 DEF IterAt, Located, At
<1>3. Skips(table, heap, table', heap', e)
  BY <1>1, <1>2, UnlinkSkips
<1>4. Linked(table', heap', TableLength)
  BY <1>2, <1>3, SkippingKeepsLinks
<1>5. /\ TableLength \in Nat /\ DOMAIN table = 0 .. TableLength - 1 /\ DOMAIN table' = DOMAIN table
      /\ NULL \notin DOMAIN heap /\ DOMAIN heap' = DOMAIN heap \ {e}
      /\ \A j \in DOMAIN table' : table'[j] \in DOMAIN heap' \cup {NULL}
      /\ \A j \in DOMAIN table' : table'[j] # NULL => IndexFor(TableLength, heap'[table'[j]].key) = j
      /\ \A d \in DOMAIN heap' : heap'[d].key = heap[d].key
  <2>1. \A d \in DOMAIN heap :
          heap[d] \in [key : Keys, value : Values, next : DOMAIN heap \cup {NULL}]
    BY DEF Linked, CellsTyped
  <2>2. DOMAIN table' = DOMAIN table /\ DOMAIN heap' = DOMAIN heap \ {e}
    BY <1>3 DEF Skips
  <2>3. \A d \in DOMAIN heap' : heap'[d].key = heap[d].key
    BY <1>3, <2>1, <2>2 DEF Skips
  <2>4. TableLength \in Nat /\ DOMAIN table = 0 .. TableLength - 1 /\ NULL \notin DOMAIN heap
    BY CellsAssumption DEF Linked, CellsTyped
  <2>5. /\ \A j \in DOMAIN table' : table'[j] \in DOMAIN heap' \cup {NULL}
        /\ \A j \in DOMAIN table' : table'[j] # NULL => IndexFor(TableLength, heap'[table'[j]].key) = j
    BY <1>4 DEF Linked, CellsTyped, InPlace
  <2>6. QED
    BY <2>2, <2>3, <2>4, <2>5
<1> HIDE DEF e
<1>6. CASE heap[e].next # NULL
  <2> DEFINE x == heap[e].next
  <2>1. next = [iter EXCEPT !.parent = e, !.entry = x]
    BY <1>1, <1>6 DEF Next_entry, e
  <2>2. /\ iter'.entry = x /\ iter'.parent = iter.parent /\ iter'.index = iter.index
        /\ iter' = [entry |-> x, parent |-> iter.parent, index |-> iter.index]
    BY <1>1, <1>2, <2>1
  <2>3. /\ x \in DOMAIN heap /\ x # e
        /\ IndexFor(TableLength, heap[x].key) = IndexFor(TableLength, heap[e].key)
    <3>1. heap[e].next \in DOMAIN heap \cup {NULL}
      BY <1>2 DEF Linked, CellsTyped
    <3>2. x # e
      <4>0. PICK top \in Nat : \E rank \in [DOMAIN heap -> 0 .. top] : Falls(heap, rank)
        BY DEF Linked, Acyclic
      <4>1. PICK rank \in [DOMAIN heap -> 0 .. top] : Falls(heap, rank)
        BY <4>0
      <4>2. QED
        BY <1>2, <1>6, <4>1 DEF Falls
    <3>3. QED
      BY <1>2, <1>6, <3>1, <3>2 DEF Linked, InPlace
  <2>4. /\ IndexFor(TableLength, heap[e].key) = iter.index
        /\ iter.parent = NULL => table[iter.index] = e
        /\ iter.parent # NULL => iter.parent \in DOMAIN heap /\ heap[iter.parent].next = e
    BY <1>2 DEF At
  <2>5. CASE iter.parent = NULL
    <3>1. table'[iter.index] = x
      BY <1>2, <1>3, <2>4, <2>5 DEF Skips
    <3>2. At(table', heap', TableLength, NULL, iter.index, x)
      BY <1>2, <1>5, <2>3, <2>4, <3>1 DEF At
    <3>3. iter' \in [entry : DOMAIN heap' \cup {NULL}, parent : DOMAIN heap' \cup {NULL}, index : Int]
      BY <1>2, <1>5, <2>2, <2>3, <2>5
    <3>4. QED
      BY <1>2, <1>3, <1>5, <2>2, <2>3, <2>5, <3>2, <3>3 DEF IterAt, e
  <2>6. CASE iter.parent # NULL
    <3>1. iter.parent # e
      <4>0. PICK top \in Nat : \E rank \in [DOMAIN heap -> 0 .. top] : Falls(heap, rank)
        BY DEF Linked, Acyclic
      <4>1. PICK rank \in [DOMAIN heap -> 0 .. top] : Falls(heap, rank)
        BY <4>0
      <4>2. QED
        BY <1>2, <1>5, <2>4, <2>6, <4>1 DEF Falls
    <3>2. heap'[iter.parent].next = x /\ iter.parent \in DOMAIN heap'
      <4>1. /\ iter.parent \in DOMAIN heap'
            /\ heap[iter.parent] \in [key : Keys, value : Values, next : DOMAIN heap \cup {NULL}]
        BY <1>5, <2>4, <2>6, <3>1 DEF Linked, CellsTyped
      <4>2. heap'[iter.parent] = [heap[iter.parent] EXCEPT !.next =
                                    IF heap[iter.parent].next = e THEN x ELSE heap[iter.parent].next]
        BY <1>3, <4>1 DEF Skips
      <4>3. QED
        BY <2>4, <2>6, <4>1, <4>2
    <3>3. At(table', heap', TableLength, iter.parent, iter.index, x)
      BY <1>2, <1>5, <2>3, <2>4, <2>6, <3>2 DEF At
    <3>4. iter' \in [entry : DOMAIN heap' \cup {NULL}, parent : DOMAIN heap' \cup {NULL}, index : Int]
      BY <1>2, <1>5, <2>2, <2>3, <3>2
    <3>5. QED
      BY <1>2, <1>3, <1>5, <2>2, <2>3, <3>3, <3>4 DEF IterAt, e
  <2>7. QED
    BY <2>5, <2>6
<1>7. CASE heap[e].next = NULL /\ heads # {}
  <2>1. heads \in SUBSET Nat
    BY <1>5
  <2>2. next = [entry |-> table'[Min(heads)], index |-> Min(heads), parent |-> NULL]
    BY <1>1, <1>7 DEF Next_entry, e
  <2> HIDE DEF heads, next
  <2>3. Min(heads) \in heads
    BY <1>7, <2>1, MinOf
  <2> DEFINE j == Min(heads)
  <2>4. j \in DOMAIN table' /\ table'[j] # NULL /\ table'[j] \in DOMAIN heap'
    BY <1>5, <2>3 DEF heads
  <2>5. At(table', heap', TableLength, NULL, j, table'[j])
    BY <1>5, <2>4 DEF At
  <2>6. iter' = [entry |-> table'[j], index |-> j, parent |-> NULL] /\ j \in Int
    BY <1>1, <1>2, <1>5, <2>2, <2>4
  <2>7. iter' \in [entry : DOMAIN heap' \cup {NULL}, parent : DOMAIN heap' \cup {NULL}, index : Int]
    BY <2>4, <2>6
  <2>8. QED
    BY <1>2, <1>3, <2>4, <2>5, <2>6, <2>7 DEF IterAt, e
<1>8. CASE heap[e].next = NULL /\ heads = {}
  <2>1. next = [entry |-> NULL, parent |-> NULL, index |-> TableLength]
    BY <1>1, <1>8 DEF Next_entry, e
  <2>2. QED
    BY <1>1, <1>2, <1>3, <1>5, <2>1 DEF IterAt, e
<1>9. QED
  BY <1>6, <1>7, <1>8

-----------------------------------------------------------------------------
(***************************************************************************)
(* The inductive invariant.                                                 *)
(***************************************************************************)
HtInv ==
  /\ state \in {"none", "open", "undefined"}
  /\ prime_index \in 1 .. Len(Primes)
  /\ DOMAIN table = 0 .. (IF state = "none" THEN 0 ELSE Primes[prime_index]) - 1
  /\ Linked(table, heap, TableLength)
  /\ entry_count = Cardinality(DOMAIN heap)
  /\ IterAt(table, heap, TableLength, iter)
  /\ state = "none" => DOMAIN heap = {} /\ iter = NoIter

\* A table of p chains has p of them.
LEMMA LengthOf ==
  ASSUME NEW t, NEW p \in Nat, DOMAIN t = 0 .. p - 1
  PROVE  Cardinality(DOMAIN t) = p
<1>1. Cardinality(0 .. p - 1) = IF 0 > p - 1 THEN 0 ELSE (p - 1) - 0 + 1
  BY FS_Interval
<1>2. QED
  BY <1>1

LEMMA PrimesArePositive ==
  /\ Len(Primes) \in Nat /\ \A p \in 1 .. Len(Primes) : Primes[p] \in Nat \ {0}
BY TablesAssumption, LenProperties

\* While the table exists it has as many chains as its prime says.
LEMMA OpenLength ==
  ASSUME HtInv, state # "none"
  PROVE  /\ TableLength = Primes[prime_index] /\ TableLength \in Nat \ {0}
         /\ DOMAIN table = 0 .. TableLength - 1
<1>1. Primes[prime_index] \in Nat \ {0}
  BY PrimesArePositive DEF HtInv
<1>2. DOMAIN table = 0 .. Primes[prime_index] - 1
  BY DEF HtInv
<1>3. TableLength = Primes[prime_index]
  BY <1>1, <1>2, LengthOf DEF TableLength
<1>4. QED
  BY <1>1, <1>2, <1>3

\* A step that leaves an open table open, linked and counted keeps the invariant.
LEMMA StaysOpen ==
  ASSUME NEW len, state' \in {"open", "undefined"}, prime_index' \in 1 .. Len(Primes),
         len = Primes[prime_index'], DOMAIN table' = 0 .. len - 1,
         Linked(table', heap', len), entry_count' = Cardinality(DOMAIN heap'),
         IterAt(table', heap', len, iter')
  PROVE  HtInv'
<1>1. len \in Nat \ {0}
  BY PrimesArePositive
<1>2. TableLength' = len
  BY <1>1, LengthOf DEF TableLength
<1>3. state' # "none"
  OBVIOUS
<1>4. QED
  BY <1>2, <1>3 DEF HtInv

LEMMA HtInitInv == HtInit => HtInv
<1> SUFFICES ASSUME HtInit PROVE HtInv
  OBVIOUS
<1>1. /\ state = "none" /\ prime_index \in 1 .. Len(Primes)
      /\ DOMAIN table = {} /\ DOMAIN heap = {} /\ entry_count = 0 /\ iter = NoIter
  BY TablesAssumption DEF HtInit, NoTable
<1>2. DOMAIN table = 0 .. 0 - 1
  BY <1>1
<1>3. TableLength = 0 /\ Cardinality(DOMAIN heap) = 0 /\ IsFiniteSet(DOMAIN heap)
  BY <1>1, FS_EmptySet DEF TableLength
<1>4. Acyclic(heap)
  <2>1. [e \in {} |-> 0] \in [DOMAIN heap -> 0 .. 0] /\ Falls(heap, [e \in {} |-> 0]) /\ 0 \in Nat
    BY <1>1 DEF Falls
  <2>2. QED
    BY <2>1 DEF Acyclic
<1>5. Linked(table, heap, TableLength)
  BY <1>1, <1>2, <1>3, <1>4 DEF Linked, CellsTyped, InPlace, PointedOnce
<1>6. IterAt(table, heap, TableLength, iter)
  BY <1>1 DEF IterAt, NoIter
<1>7. QED
  BY <1>1, <1>2, <1>3, <1>5, <1>6 DEF HtInv

\* A new table, of a prime that exists.
LEMMA CreateStep ==
  ASSUME HtInv, NEW min_size \in MinSizes, Create(min_size)
  PROVE  HtInv'
<1>1. /\ state = "none" /\ DOMAIN heap = {} /\ iter = NoIter
      /\ heap' = heap /\ entry_count' = entry_count /\ iter' = iter
  BY DEF HtInv, Create
<1>2. CASE state' = "open"
  <2> DEFINE Fit == {p \in 1 .. Len(Primes) : Primes[p] > min_size}
  <2>1. Fit \in SUBSET Nat /\ Fit # {}
    <3>1. Len(Primes) \in 1 .. Len(Primes) /\ Primes[Len(Primes)] > min_size
      BY TablesAssumption, PrimesArePositive
    <3>2. QED
      BY <3>1
  <2>2. prime_index' = Min(Fit) /\ table' = EmptyTable(prime_index')
    BY <1>1, <1>2 DEF Create
  <2> HIDE DEF Fit
  <2>3. prime_index' \in Fit
    BY <2>1, <2>2, MinOf
  <2> DEFINE len == Primes[prime_index']
  <2>4. prime_index' \in 1 .. Len(Primes) /\ len \in Nat \ {0}
    BY <2>3, PrimesArePositive DEF Fit
  <2>5. /\ DOMAIN table' = 0 .. len - 1 /\ \A j \in DOMAIN table' : table'[j] = NULL
    BY <2>2 DEF EmptyTable
  <2> HIDE DEF len
  <2>6. IsFiniteSet(DOMAIN heap) /\ Acyclic(heap)
    BY DEF HtInv, Linked, CellsTyped
  <2>7. Linked(table', heap', len)
    BY <1>1, <2>4, <2>5, <2>6 DEF Linked, CellsTyped, InPlace, PointedOnce
  <2>8. IterAt(table', heap', len, iter')
    BY <1>1 DEF IterAt, NoIter
  <2>9. entry_count' = Cardinality(DOMAIN heap')
    BY <1>1 DEF HtInv
  <2>10. QED
    BY <1>2, <2>4, <2>5, <2>7, <2>8, <2>9, StaysOpen DEF len
<1>3. CASE UNCHANGED <<state, prime_index, table>>
  BY <1>1, <1>3 DEF HtInv, TableLength
<1>4. QED
  BY <1>2, <1>3 DEF Create

LEMMA FreeStep ==
  ASSUME HtInv, Free
  PROVE  HtInv'
<1>1. /\ state' = "none" /\ prime_index' \in 1 .. Len(Primes)
      /\ DOMAIN table' = {} /\ DOMAIN heap' = {} /\ entry_count' = 0 /\ iter' = NoIter
  BY TablesAssumption DEF Free, NoTable
<1>2. DOMAIN table' = 0 .. 0 - 1
  BY <1>1
<1>3. TableLength' = 0 /\ Cardinality(DOMAIN heap') = 0 /\ IsFiniteSet(DOMAIN heap')
  BY <1>1, FS_EmptySet DEF TableLength
<1>4. Acyclic(heap')
  <2>1. [e \in {} |-> 0] \in [DOMAIN heap' -> 0 .. 0] /\ Falls(heap', [e \in {} |-> 0]) /\ 0 \in Nat
    BY <1>1 DEF Falls
  <2>2. QED
    BY <2>1 DEF Acyclic
<1>5. Linked(table', heap', TableLength')
  BY <1>1, <1>2, <1>3, <1>4 DEF Linked, CellsTyped, InPlace, PointedOnce
<1>6. IterAt(table', heap', TableLength', iter')
  BY <1>1 DEF IterAt, NoIter
<1>7. QED
  BY <1>1, <1>2, <1>3, <1>5, <1>6 DEF HtInv

\* One entry more.
LEMMA LinkStep ==
  ASSUME NEW t, NEW h, NEW k \in Keys, NEW v \in Given, NEW len \in Nat \ {0},
         DOMAIN t = 0 .. len - 1, Linked(t, h, len), entry_count = Cardinality(DOMAIN h),
         Link(t, h, k, v)
  PROVE  /\ DOMAIN table' = DOMAIN t /\ Linked(table', heap', len)
         /\ entry_count' = Cardinality(DOMAIN heap')
         /\ \/ result'.ret = 0 /\ \E e \in Cells \ DOMAIN h : Pushes(t, h, len, table', heap', e, k, v)
            \/ table' = t /\ heap' = h
<1>1. Cardinality(DOMAIN t) = len
  BY LengthOf
<1>2. ASSUME NEW e \in Cells \ DOMAIN h,
             table' = [t EXCEPT ![IndexFor(Cardinality(DOMAIN t), k)] = e],
             heap' = [d \in DOMAIN h \cup {e} |->
                        IF d = e THEN [key |-> k, value |-> v,
                                       next |-> t[IndexFor(Cardinality(DOMAIN t), k)]]
                        ELSE h[d]],
             entry_count' = entry_count + 1
      PROVE  /\ Pushes(t, h, len, table', heap', e, k, v) /\ DOMAIN table' = DOMAIN t
             /\ Linked(table', heap', len) /\ entry_count' = Cardinality(DOMAIN heap')
  <2>1. Pushes(t, h, len, table', heap', e, k, v)
    BY <1>1, <1>2 DEF Pushes
  <2>2. v \in Values /\ len > 0
    BY ValuesAssumption DEF Values
  <2>3. Linked(table', heap', len)
    BY <2>1, <2>2, PushingKeepsLinks
  <2>4. DOMAIN table' = DOMAIN t /\ DOMAIN heap' = DOMAIN h \cup {e}
    BY <2>1 DEF Pushes
  <2>5. IsFiniteSet(DOMAIN h)
    BY DEF Linked, CellsTyped
  <2>6. Cardinality(DOMAIN heap') = Cardinality(DOMAIN h) + 1
    BY <2>4, <2>5, FS_AddElement
  <2>7. QED
    BY <1>2, <2>1, <2>3, <2>4, <2>6
<1>3. CASE table' = t /\ heap' = h /\ UNCHANGED entry_count
  BY <1>3
<1>4. CASE \E e \in Cells \ DOMAIN h :
             LET j == IndexFor(Cardinality(DOMAIN t), k)
             IN  /\ table' = [t EXCEPT ![j] = e]
                 /\ heap' = [d \in DOMAIN h \cup {e} |->
                               IF d = e THEN [key |-> k, value |-> v, next |-> t[j]] ELSE h[d]]
                 /\ entry_count' = entry_count + 1
                 /\ Return(<<"insert", k>>, 0)
  <2>1. result'.ret = 0
    BY <1>4 DEF Return, Outcome
  <2>2. QED
    BY <1>2, <1>4, <2>1
<1>5. QED
  BY <1>3, <1>4 DEF Link

LEMMA LapsedAnywhere ==
  ASSUME NEW t, NEW h, NEW len
  PROVE  IterAt(t, h, len, Lapsed) /\ IterAt(t, h, len, NoIter)
BY DEF IterAt, Lapsed, NoIter

\* An insertion, with growth or without.
LEMMA InsertStep ==
  ASSUME HtInv, NEW k \in Keys, NEW v \in Given, Insert(k, v)
  PROVE  HtInv'
<1>1. /\ state = "open" /\ state' = "open"
      /\ Linked(table, heap, TableLength) /\ entry_count = Cardinality(DOMAIN heap)
      /\ IterAt(table, heap, TableLength, iter) /\ prime_index \in 1 .. Len(Primes)
  BY DEF HtInv, Insert
<1>2. /\ TableLength = Primes[prime_index] /\ TableLength \in Nat \ {0}
      /\ DOMAIN table = 0 .. TableLength - 1
  BY <1>1, OpenLength
<1>3. iter' = IF SpoiltByInsert(k) THEN Lapsed ELSE iter
  BY DEF Insert
<1>4. CASE prime_index' = prime_index /\ Link(table, heap, k, v)
  <2>1. /\ DOMAIN table' = DOMAIN table /\ Linked(table', heap', TableLength)
        /\ entry_count' = Cardinality(DOMAIN heap')
        /\ \/ result'.ret = 0 /\ \E e \in Cells \ DOMAIN heap :
                                   Pushes(table, heap, TableLength, table', heap', e, k, v)
           \/ table' = table /\ heap' = heap
    BY <1>1, <1>2, <1>4, LinkStep
  <2>2. IterAt(table', heap', TableLength, iter')
    <3>1. CASE SpoiltByInsert(k)
      BY <1>3, <3>1, LapsedAnywhere
    <3>2. CASE ~SpoiltByInsert(k) /\ table' = table /\ heap' = heap
      BY <1>1, <1>3, <3>2
    <3>3. ASSUME ~SpoiltByInsert(k), result'.ret = 0, NEW e \in Cells \ DOMAIN heap,
                 Pushes(table, heap, TableLength, table', heap', e, k, v)
          PROVE  IterAt(table', heap', TableLength, iter')
      <4>1. ~(iter.entry # NULL /\ iter.parent = NULL /\ iter.index = IndexFor(TableLength, k))
        BY <3>3 DEF SpoiltByInsert
      <4>2. QED
        BY <1>1, <1>3, <3>3, <4>1, PushingKeepsIter
    <3>4. QED
      BY <2>1, <3>1, <3>2, <3>3
  <2>3. QED
    BY <1>1, <1>2, <1>4, <2>1, <2>2, StaysOpen
<1>5. CASE /\ MustGrow /\ CanGrow /\ prime_index' = prime_index + 1
           /\ Link(Rehash(Primes[prime_index + 1]).table, Rehash(Primes[prime_index + 1]).heap, k, v)
  <2> DEFINE len == Primes[prime_index + 1]
             R   == Rehash(len)
  <2>1. prime_index' \in 1 .. Len(Primes) /\ len \in Nat \ {0} /\ len = Primes[prime_index']
    BY <1>1, <1>5, PrimesArePositive DEF CanGrow
  <2>2. Link(R.table, R.heap, k, v)
    BY <1>5
  <2> HIDE DEF len
  <2>3. Linked(R.table, R.heap, len) /\ DOMAIN R.heap = DOMAIN heap
    BY <1>1, <2>1, RehashKeepsLinks
  <2> HIDE DEF R
  <2>4. DOMAIN R.table = 0 .. len - 1
    BY <2>3 DEF Linked
  <2>5. /\ DOMAIN table' = DOMAIN R.table /\ Linked(table', heap', len)
        /\ entry_count' = Cardinality(DOMAIN heap')
    BY <1>1, <2>1, <2>2, <2>3, <2>4, LinkStep
  <2>6. IterAt(table', heap', len, iter')
    <3>1. CASE iter.entry # NULL
      <4>1. prime_index' # prime_index
        BY <1>1, <1>5
      <4>2. SpoiltByInsert(k)
        BY <3>1, <4>1 DEF SpoiltByInsert
      <4>3. QED
        BY <1>3, <4>2, LapsedAnywhere
    <3>2. CASE iter.entry = NULL
      <4>1. iter' = iter
        BY <1>3, <3>2 DEF SpoiltByInsert
      <4>2. IterAt(table', heap', len, iter)
        BY <1>1, <3>2 DEF IterAt
      <4>3. QED
        BY <4>1, <4>2
    <3>3. QED
      BY <3>1, <3>2
  <2>7. QED
    BY <1>1, <2>1, <2>4, <2>5, <2>6, StaysOpen
<1>6. QED
  BY <1>4, <1>5 DEF Insert

\* A new value, which leaves every link alone.
LEMMA SetValueStep ==
  ASSUME HtInv, state = "open", NEW k \in Keys, NEW v \in Values, Found(k), SetValue(k, v),
         UNCHANGED <<state, table, prime_index, entry_count, iter>>
  PROVE  HtInv'
<1>1. /\ Linked(table, heap, TableLength) /\ entry_count = Cardinality(DOMAIN heap)
      /\ IterAt(table, heap, TableLength, iter) /\ prime_index \in 1 .. Len(Primes)
      /\ TableLength = Primes[prime_index] /\ TableLength \in Nat \ {0}
      /\ DOMAIN table = 0 .. TableLength - 1
  BY OpenLength DEF HtInv
<1>2. Match(k) \in DOMAIN heap
  BY <1>1, Lookup
<1>3. heap' = [heap EXCEPT ![Match(k)].value = v]
  BY DEF SetValue
<1>4. Linked(table, heap', TableLength)
  <2>1. Revalues(heap, heap', Match(k), v)
    BY <1>3, Zenon DEF Revalues
  <2>2. QED
    BY <1>1, <1>2, <2>1, ValuesKeepLinks
<1>5. /\ DOMAIN heap' = DOMAIN heap
      /\ \A d \in DOMAIN heap : heap'[d].key = heap[d].key /\ heap'[d].next = heap[d].next
  <2>1. \A d \in DOMAIN heap :
          heap[d] \in [key : Keys, value : Values, next : DOMAIN heap \cup {NULL}]
    BY <1>1 DEF Linked, CellsTyped
  <2>2. QED
    BY <1>2, <1>3, <2>1
<1>6. IterAt(table, heap', TableLength, iter)
  BY <1>1, <1>5, ValuesKeepIter
<1>7. QED
  BY <1>1, <1>4, <1>5, <1>6, StaysOpen

\* Calls that change neither the table nor the iterator.
LEMMA QuietStep ==
  ASSUME HtInv, UNCHANGED <<tableVars, iter>>
  PROVE  HtInv'
BY DEF HtInv, tableVars, TableLength

LEMMA ChangeStep ==
  ASSUME HtInv, NEW k \in Keys, NEW v \in Given, Change(k, v)
  PROVE  HtInv'
<1>1. v \in Values
  BY ValuesAssumption DEF Values
<1>2. CASE Found(k) /\ SetValue(k, v)
  BY <1>1, <1>2, SetValueStep DEF Change
<1>3. CASE UNCHANGED heap
  BY <1>3, QuietStep DEF Change, tableVars
<1>4. QED
  BY <1>2, <1>3 DEF Change

LEMMA AddStep ==
  ASSUME HtInv, NEW k \in Keys, NEW v \in Given, Inc(k, v) \/ Dec(k, v)
  PROVE  HtInv'
<1>1. v \in Int /\ Modulus \in Nat \ {0}
  BY ValuesAssumption
<1>2. ASSUME Found(k), state = "open" PROVE heap[Match(k)].value \in Int
  <2>1. Linked(table, heap, TableLength) /\ TableLength > 0
    BY <1>2, OpenLength DEF HtInv
  <2>2. Match(k) \in DOMAIN heap
    BY <1>2, <2>1, Lookup
  <2>3. heap[Match(k)] \in [key : Keys, value : Values, next : DOMAIN heap \cup {NULL}]
    BY <2>1, <2>2 DEF Linked, CellsTyped
  <2>4. QED
    BY <1>1, <2>3 DEF Values
<1>3. CASE Found(k) /\ SetValue(k, (heap[Match(k)].value + v) % Modulus) /\ Inc(k, v)
  <2>1. (heap[Match(k)].value + v) % Modulus \in Values
    BY <1>1, <1>2, <1>3 DEF Values, Inc
  <2>2. QED
    BY <1>3, <2>1, SetValueStep DEF Inc
<1>4. CASE Found(k) /\ SetValue(k, (heap[Match(k)].value - v) % Modulus) /\ Dec(k, v)
  <2>1. (heap[Match(k)].value - v) % Modulus \in Values
    BY <1>1, <1>2, <1>4 DEF Values, Dec
  <2>2. QED
    BY <1>4, <2>1, SetValueStep DEF Dec
<1>5. CASE UNCHANGED heap
  BY <1>5, QuietStep DEF Inc, Dec, tableVars
<1>6. QED
  BY <1>3, <1>4, <1>5 DEF Inc, Dec

\* One entry less, wherever the iterator is.
LEMMA RemovedStep ==
  ASSUME HtInv, state = "open", NEW e \in DOMAIN heap, Skips(table, heap, table', heap', e),
         UNCHANGED <<state, prime_index>>, entry_count' = entry_count - 1,
         IterAt(table', heap', TableLength, iter')
  PROVE  HtInv'
<1>1. /\ Linked(table, heap, TableLength) /\ entry_count = Cardinality(DOMAIN heap)
      /\ prime_index \in 1 .. Len(Primes)
      /\ TableLength = Primes[prime_index] /\ TableLength \in Nat \ {0}
      /\ DOMAIN table = 0 .. TableLength - 1
  BY OpenLength DEF HtInv
<1>2. Linked(table', heap', TableLength)
  BY <1>1, SkippingKeepsLinks
<1>3. DOMAIN table' = DOMAIN table /\ DOMAIN heap' = DOMAIN heap \ {e}
  BY DEF Skips
<1>4. IsFiniteSet(DOMAIN heap)
  BY <1>1 DEF Linked, CellsTyped
<1>5. Cardinality(DOMAIN heap') = Cardinality(DOMAIN heap) - 1
  BY <1>3, <1>4, FS_RemoveElement
<1>6. QED
  BY <1>1, <1>2, <1>3, <1>5, StaysOpen

LEMMA CondRemoveStep ==
  ASSUME HtInv, NEW k \in Keys, NEW accepted \in Conditions, CondRemove(k, accepted)
  PROVE  HtInv'
<1>1. /\ state = "open" /\ Linked(table, heap, TableLength)
      /\ IterAt(table, heap, TableLength, iter) /\ TableLength > 0
  BY OpenLength DEF HtInv, CondRemove
<1>2. CASE /\ Found(k) /\ heap[Match(k)].value \in accepted
           /\ Unlink(Before(Bucket(k), Place(k)), IndexFor(TableLength, k), Match(k))
           /\ entry_count' = entry_count - 1
           /\ iter' = IF SpoiltByRemoval(Match(k)) THEN Lapsed ELSE iter
  <2> DEFINE e == Match(k)
  <2>1. e \in DOMAIN heap /\ Located(Before(Bucket(k), Place(k)), IndexFor(TableLength, k), e)
    BY <1>1, <1>2, Lookup
  <2>2. Skips(table, heap, table', heap', e)
    BY <1>1, <1>2, <2>1, UnlinkSkips
  <2> HIDE DEF e
  <2>3. IterAt(table', heap', TableLength, iter')
    <3>1. CASE SpoiltByRemoval(e)
      <4>1. iter' = Lapsed
        BY <1>2, <3>1 DEF e
      <4>2. QED
        BY <4>1, LapsedAnywhere
    <3>2. CASE ~SpoiltByRemoval(e)
      <4>1. iter' = iter
        BY <1>2, <3>2 DEF e
      <4>2. iter.entry # NULL => e \notin {iter.entry, iter.parent}
        BY <3>2 DEF SpoiltByRemoval
      <4>3. IterAt(table', heap', TableLength, iter)
        BY <1>1, <2>1, <2>2, <4>2, SkippingKeepsIter
      <4>4. QED
        BY <4>1, <4>3
    <3>3. QED
      BY <3>1, <3>2
  <2>4. QED
    BY <1>1, <1>2, <2>1, <2>2, <2>3, RemovedStep DEF CondRemove
<1>3. CASE UNCHANGED <<table, heap, entry_count, iter>>
  BY <1>3, QuietStep DEF CondRemove, tableVars
<1>4. QED
  BY <1>2, <1>3 DEF CondRemove

LEMMA IterRemoveStep ==
  ASSUME HtInv, IterRemove
  PROVE  HtInv'
<1>1. /\ state = "open" /\ Linked(table, heap, TableLength)
      /\ IterAt(table, heap, TableLength, iter)
  BY DEF HtInv, IterRemove
<1>2. /\ Located(iter.parent, iter.index, iter.entry)
      /\ Skips(table, heap, table', heap', iter.entry)
      /\ IterAt(table', heap', TableLength, iter')
  BY <1>1, RemovingKeepsIter
<1>3. iter.entry \in DOMAIN heap
  BY <1>2 DEF Located, At
<1>4. QED
  BY <1>1, <1>2, <1>3, RemovedStep DEF IterRemove

\* Calls that only move the iterator.
LEMMA MovedStep ==
  ASSUME HtInv, state = "open", UNCHANGED tableVars, IterAt(table, heap, TableLength, iter')
  PROVE  HtInv'
BY DEF HtInv, tableVars, TableLength

LEMMA CreateIterStep ==
  ASSUME HtInv, CreateIter
  PROVE  HtInv'
<1>1. CASE iter' = [NoIter EXCEPT !.index = TableLength]
  <2>1. TableLength \in Nat
    BY DEF HtInv, Linked
  <2>2. IterAt(table, heap, TableLength, iter')
    BY <1>1, <2>1 DEF IterAt, NoIter
  <2>3. QED
    BY <2>2, MovedStep DEF CreateIter
<1>2. CASE UNCHANGED iter
  BY <1>2, QuietStep DEF CreateIter
<1>3. QED
  BY <1>1, <1>2 DEF CreateIter

LEMMA AdvanceStep ==
  ASSUME HtInv, Advance
  PROVE  HtInv'
<1>1. IterAt(table, heap, TableLength, Next_entry(iter, table))
  BY AdvancingKeepsIter DEF HtInv
<1>2. QED
  BY <1>1, MovedStep DEF Advance

LEMMA IterSearchStep ==
  ASSUME HtInv, NEW k \in Keys, IterSearch(k)
  PROVE  HtInv'
<1>1. /\ state = "open" /\ Linked(table, heap, TableLength) /\ TableLength > 0
      /\ TableLength \in Nat /\ DOMAIN table = 0 .. TableLength - 1
  BY OpenLength DEF HtInv, IterSearch
<1> DEFINE e == Match(k)
           j == IndexFor(TableLength, k)
           parent == Before(Bucket(k), Place(k))
<1>2. CASE Found(k) /\ iter' = [entry |-> e, index |-> j, parent |-> parent]
  <2>1. e \in DOMAIN heap /\ j \in DOMAIN table /\ Located(parent, j, e)
    BY <1>1, <1>2, Lookup
  <2> HIDE DEF e, j, parent
  <2>2. parent \in DOMAIN heap \cup {NULL} /\ e # NULL /\ j \in Int
    BY <1>1, <2>1, CellsAssumption DEF Located, At, Linked, CellsTyped
  <2>3. IterAt(table, heap, TableLength, iter')
    BY <1>2, <2>1, <2>2 DEF IterAt, Located
  <2>4. QED
    BY <1>1, <2>3, MovedStep DEF IterSearch
<1>3. CASE UNCHANGED iter
  BY <1>3, QuietStep DEF IterSearch
<1>4. QED
  BY <1>2, <1>3 DEF IterSearch

LEMMA FreeIterStep ==
  ASSUME HtInv, FreeIter
  PROVE  HtInv'
BY LapsedAnywhere, MovedStep DEF FreeIter

\* Growth that realloc() answers: the table as it was, and nothing more to claim.
LEMMA GrowByReallocStep ==
  ASSUME HtInv, GrowByRealloc
  PROVE  HtInv'
BY DEF HtInv, GrowByRealloc, TableLength

LEMMA HtNextInv == HtInv /\ [HtNext]_htVars => HtInv'
<1> SUFFICES ASSUME HtInv, [HtNext]_htVars PROVE HtInv'
  OBVIOUS
<1>1. CASE \E min_size \in MinSizes : Create(min_size)
  BY <1>1, CreateStep
<1>2. CASE Free
  BY <1>2, FreeStep
<1>3. CASE GrowByRealloc
  BY <1>3, GrowByReallocStep
<1>4. CASE CreateIter
  BY <1>4, CreateIterStep
<1>5. CASE FreeIter
  BY <1>5, FreeIterStep
<1>6. CASE Advance
  BY <1>6, AdvanceStep
<1>7. CASE Count \/ GetKey \/ GetValue
  BY <1>7, QuietStep DEF Count, GetKey, GetValue
<1>8. CASE IterRemove
  BY <1>8, IterRemoveStep
<1>9. ASSUME NEW k \in Keys, NEW v \in Given, Insert(k, v) \/ Change(k, v) \/ Inc(k, v) \/ Dec(k, v)
      PROVE  HtInv'
  BY <1>9, InsertStep, ChangeStep, AddStep
<1>10. ASSUME NEW k \in Keys, NEW accepted \in Conditions, CondRemove(k, accepted) PROVE HtInv'
  BY <1>10, CondRemoveStep
<1>11. ASSUME NEW k \in Keys, Search(k) PROVE HtInv'
  BY <1>11, QuietStep DEF Search
<1>12. ASSUME NEW k \in Keys, IterSearch(k) PROVE HtInv'
  BY <1>12, IterSearchStep
<1>13. CASE UNCHANGED htVars
  BY <1>13, QuietStep DEF htVars
<1>14. QED
  BY <1>1, <1>2, <1>3, <1>4, <1>5, <1>6, <1>7, <1>8, <1>9, <1>10, <1>11, <1>12, <1>13 DEF HtNext

\* The invariant holds for every hash function, every run of primes and load factors and
\* every number of entries.
THEOREM HtInvariant == HtSpec => []HtInv
<1>1. HtInit => HtInv
  BY HtInitInv
<1>2. HtInv /\ [HtNext]_htVars => HtInv'
  BY HtNextInv
<1>3. QED
  BY <1>1, <1>2, PTL DEF HtSpec

\* Pointers are NULL or lead to allocated entries: no call reads freed memory.
THEOREM HtTypeCorrect == HtSpec => []HtTypeOK
<1>1. HtInv => HtTypeOK
  <2> SUFFICES ASSUME HtInv PROVE HtTypeOK
    OBVIOUS
  <2>1. entry_count \in Nat
    BY FS_CardinalityType DEF HtInv, Linked, CellsTyped
  <2>2. iter.entry \in DOMAIN heap \cup {NULL} /\ iter.parent \in DOMAIN heap \cup {NULL}
    BY DEF HtInv, IterAt
  <2>3. state = "open" => DOMAIN table = 0 .. Primes[prime_index] - 1
    BY DEF HtInv
  <2>4. QED
    BY <2>1, <2>2, <2>3 DEF HtTypeOK, HtInv, Linked, CellsTyped
<1>2. QED
  BY <1>1, HtInvariant, PTL

\* However often the table grows and whatever is inserted, removed and not found, walking its
\* chains meets every entry once, where its key belongs, and entry_count counts them
\* (pet_hashtable.c:245-261, 336-337, 473, 661-665).
THEOREM EntriesLinkedOnce == HtSpec => []EveryEntryLinkedOnce
<1>1. HtInv => EveryEntryLinkedOnce
  <2> SUFFICES ASSUME HtInv PROVE EveryEntryLinkedOnce
    OBVIOUS
  <2>1. Linked(table, heap, TableLength) /\ entry_count = Cardinality(DOMAIN heap)
    BY DEF HtInv
  <2>2. Len(Order) = Cardinality(DOMAIN heap) /\ ToSet(Order) = DOMAIN heap
    BY <2>1, OrderCounts
  <2>3. ASSUME NEW j \in DOMAIN table, NEW e \in ToSet(Chain(j))
        PROVE  IndexFor(TableLength, heap[e].key) = j
    <3>1. Chain(j) \in Seq(DOMAIN heap) /\ \A n \in 1 .. Len(Chain(j)) : Home(Chain(j)[n]) = j
      BY <2>1, ChainLaws
    <3>2. DOMAIN Chain(j) = 1 .. Len(Chain(j))
      BY <3>1, LenProperties
    <3>3. QED
      BY <3>1, <3>2 DEF ToSet, Home
  <2>4. QED
    BY <2>1, <2>2, <2>3 DEF EveryEntryLinkedOnce
<1>2. QED
  BY <1>1, HtInvariant, PTL

\* The iterator's chain holds its entry right behind its parent, at every moment and after any
\* calls around it, so that removing the entry unlinks it and nothing else
\* (pet_hashtable.c:603-643, 661-665, 676-681, 710-712).
THEOREM IteratorPlaceKnown == HtSpec => []IteratorKnowsItsPlace
<1>1. HtInv => IteratorKnowsItsPlace
  <2> SUFFICES ASSUME HtInv PROVE IteratorKnowsItsPlace
    OBVIOUS
  <2>1. Linked(table, heap, TableLength) /\ IterAt(table, heap, TableLength, iter)
    BY DEF HtInv
  <2>2. CASE iter.entry = NULL
    BY <2>1, <2>2 DEF IterAt, IteratorKnowsItsPlace
  <2>3. CASE iter.entry # NULL
    <3>1. Located(iter.parent, iter.index, iter.entry) /\ iter.index \in DOMAIN table
      BY <2>1, <2>3 DEF IterAt, Located, At
    <3>2. \E n \in 1 .. Len(Chain(iter.index)) :
            Chain(iter.index)[n] = iter.entry /\ Before(Chain(iter.index), n) = iter.parent
      BY <2>1, <3>1, PlaceOf
    <3>3. QED
      BY <2>3, <3>1, <3>2 DEF IteratorKnowsItsPlace
  <2>4. QED
    BY <2>2, <2>3
<1>2. QED
  BY <1>1, HtInvariant, PTL

-----------------------------------------------------------------------------
(***************************************************************************)
(* The promises of pet_hashtable.h: what each call is of the collection of  *)
(* Multimap, of which a state of the table shows the pairs, the iterator's  *)
(* entry and the entries it has still to visit.                             *)
(***************************************************************************)
PairsIn(h) == [e \in DOMAIN h |-> [key |-> h[e].key, value |-> h[e].value]]

Shows(t, h, len, it, P, R) ==
  /\ P = PairsIn(h) /\ NULL \notin DOMAIN h /\ Linked(t, h, len)
  /\ IF it.entry = NULL THEN R = {}
     ELSE /\ it.entry \in DOMAIN h /\ it.index \in DOMAIN t
          /\ IndexFor(len, h[it.entry].key) = it.index
          /\ ToCome(t, h, len, it, R)

MapShown == Shows(table, heap, TableLength, iter, Contents, Remaining) /\ Reachable = DOMAIN heap

LEMMA MapView == HtInv => MapShown
<1> SUFFICES ASSUME HtInv PROVE MapShown
  OBVIOUS
<1>1. Linked(table, heap, TableLength) /\ IterAt(table, heap, TableLength, iter)
  BY DEF HtInv
<1>2. Reachable = DOMAIN heap
  BY <1>1, OrderCounts DEF Reachable
<1>3. Contents = PairsIn(heap)
  BY <1>2 DEF Contents, PairsIn
<1>4. iter.entry # NULL => Located(iter.parent, iter.index, iter.entry)
  BY <1>1 DEF IterAt, Located
<1>5. iter.entry # NULL => /\ iter.entry \in DOMAIN heap /\ iter.index \in DOMAIN table
                           /\ IndexFor(TableLength, heap[iter.entry].key) = iter.index
  BY <1>4 DEF Located, At
<1>6. NULL \notin DOMAIN heap
  BY <1>1, CellsAssumption DEF Linked, CellsTyped
<1>7. iter.entry # NULL => ToCome(table, heap, TableLength, iter, Remaining)
  BY <1>1, <1>4, RemainingLaws
<1>8. iter.entry = NULL => Remaining = {}
  BY DEF Remaining
<1>9. QED
  BY <1>1, <1>2, <1>3, <1>5, <1>6, <1>7, <1>8 DEF MapShown, Shows

LEMMA MapViewNext == HtInv' => MapShown'
BY MapView, PTL

\* What a state shows depends on its links and on where the iterator stands.
LEMMA ShowsOnce ==
  ASSUME NEW t, NEW h, NEW len, NEW it, NEW P, NEW R, NEW Q, Shows(t, h, len, it, P, R),
         it.entry # NULL => ToCome(t, h, len, it, Q), it.entry = NULL => Q = {}
  PROVE  R = Q
<1>1. CASE it.entry = NULL
  BY <1>1 DEF Shows
<1>2. CASE it.entry # NULL
  <2>1. Linked(t, h, len) /\ it.index \in DOMAIN t /\ ToCome(t, h, len, it, R)
    BY <1>2 DEF Shows
  <2>2. QED
    BY <1>2, <2>1, ToComeUnique
<1>3. QED
  BY <1>1, <1>2

\* The set of entries still to visit is known from one with its property.
LEMMA RemainingIs ==
  ASSUME HtInv', NEW R, iter'.entry # NULL => ToCome(table', heap', TableLength', iter', R),
         iter'.entry = NULL => R = {}
  PROVE  Remaining' = R
<1>1. Shows(table', heap', TableLength', iter', Contents', Remaining')
  BY MapViewNext DEF MapShown
<1>2. QED
  BY <1>1, ShowsOnce

\* What the calls on the collection speak of.
LEMMA MapNames ==
  ASSUME HtInv
  PROVE  /\ Pairs!Names = DOMAIN heap /\ Contents = PairsIn(heap)
         /\ \A e \in DOMAIN heap : Contents[e].key = heap[e].key /\ Contents[e].value = heap[e].value
         /\ \A k : Pairs!Matches(k) = {e \in DOMAIN heap : heap[e].key = k}
         /\ Remaining \subseteq DOMAIN heap /\ iter.entry \notin Remaining
         /\ iter.entry = NULL => Remaining = {}
<1>1. Shows(table, heap, TableLength, iter, Contents, Remaining)
  BY MapView DEF MapShown
<1>2. /\ Contents = PairsIn(heap) /\ Remaining \subseteq DOMAIN heap
      /\ iter.entry \notin Remaining /\ (iter.entry = NULL => Remaining = {})
  BY <1>1 DEF Shows, ToCome
<1>3. DOMAIN Contents = DOMAIN heap
  BY <1>2 DEF PairsIn
<1>4. \A e \in DOMAIN heap : Contents[e].key = heap[e].key /\ Contents[e].value = heap[e].value
  BY <1>2 DEF PairsIn
<1>5. Pairs!Names = DOMAIN heap
  BY <1>3 DEF Pairs!Names
<1>6. \A k : Pairs!Matches(k) = {e \in DOMAIN heap : heap[e].key = k}
  BY <1>4, <1>5 DEF Pairs!Matches
<1>7. QED
  BY <1>2, <1>4, <1>5, <1>6

LEMMA ContentsNext ==
  ASSUME HtInv'
  PROVE  /\ Contents' = PairsIn(heap') /\ (iter'.entry = NULL => Remaining' = {})
         /\ Remaining' \subseteq DOMAIN heap' /\ iter'.entry \notin Remaining'
<1>1. Shows(table', heap', TableLength', iter', Contents', Remaining')
  BY MapViewNext DEF MapShown
<1>2. QED
  BY <1>1 DEF Shows, ToCome

\* Calls that leave the links and the iterator alone.
LEMMA SameMap ==
  ASSUME HtInv, HtInv', UNCHANGED <<table, heap, iter>>
  PROVE  UNCHANGED <<Contents, iter.entry, Remaining>>
<1>1. Contents' = Contents
  BY MapNames, ContentsNext
<1>2. Shows(table, heap, TableLength, iter, Contents, Remaining)
  BY MapView DEF MapShown
<1>3. TableLength' = TableLength
  BY DEF TableLength
<1>4. Remaining' = Remaining
  BY <1>2, <1>3, RemainingIs DEF Shows
<1>5. QED
  BY <1>1, <1>4

LEMMA MapInitial == HtInit => Pairs!MapInit
<1> SUFFICES ASSUME HtInit PROVE Pairs!MapInit
  OBVIOUS
<1>1. HtInv
  BY HtInitInv
<1>2. Contents = PairsIn(heap) /\ DOMAIN heap = {} /\ iter.entry = NULL /\ Remaining = {}
  BY <1>1, MapNames DEF HtInit, NoIter
<1>3. Contents = [e \in {} |-> 0]
  BY <1>2 DEF PairsIn
<1>4. QED
  BY <1>2, <1>3 DEF HtInit, Pairs!MapInit

LEMMA CreateMaps ==
  ASSUME HtInv, HtInv', NEW min_size \in MinSizes, Create(min_size)
  PROVE  Pairs!Create(min_size)
<1>1. /\ state = "none" /\ iter' = iter /\ heap' = heap
      /\ \E ret \in {0, 1} : Return(<<"create", min_size>>, ret) /\ (state' # "none" <=> ret = 1)
  BY DEF Create
<1>2. result'.ret = 1 <=> state' # "none"
  BY <1>1 DEF Return, Outcome
<1>3. iter.entry = NULL
  BY <1>1 DEF HtInv, NoIter
<1>4. Contents' = Contents /\ Remaining' = Remaining
  BY <1>1, <1>3, MapNames, ContentsNext
<1>5. \E ret \in {0, 1} : Pairs!Return(<<"create", min_size>>, ret)
  BY <1>1 DEF Return, Outcome, Pairs!Return, Pairs!Outcome
<1>6. QED
  BY <1>1, <1>2, <1>4, <1>5 DEF Pairs!Create

LEMMA FreeMaps ==
  ASSUME HtInv, HtInv', Free
  PROVE  Pairs!Free
<1>1. /\ state = "open" /\ state' = "none" /\ iter' = iter /\ heap' = [e \in {} |-> 0]
      /\ iter.entry = NULL /\ Outcome(<<"free">>, 0, ToSet(Order), ToSet(Order))
  BY DEF Free, NoIter
<1>2. ToSet(Order) = Pairs!Names
  BY MapView, MapNames DEF MapShown, Reachable
<1>3. Contents' = [e \in {} |-> 0]
  BY <1>1, ContentsNext DEF PairsIn
<1>4. Remaining' = Remaining
  BY <1>1, MapNames, ContentsNext
<1>5. Pairs!Outcome(<<"free">>, 0, Pairs!Names, Pairs!Names)
  BY <1>1, <1>2 DEF Outcome, Pairs!Outcome
<1>6. QED
  BY <1>1, <1>3, <1>4, <1>5 DEF Pairs!Free

\* The calls that only look, and the growth that realloc() answers.
LEMMA LookMaps ==
  ASSUME HtInv, HtInv'
  PROVE  /\ Count => Pairs!Count
         /\ GetKey => Pairs!GetKey
         /\ GetValue => Pairs!GetValue
         /\ GrowByRealloc => UNCHANGED Pairs!mapVars
         /\ UNCHANGED htVars => UNCHANGED Pairs!mapVars
<1>1. Count \/ GetKey \/ GetValue \/ GrowByRealloc \/ UNCHANGED htVars =>
        UNCHANGED <<Contents, iter.entry, Remaining>>
  BY SameMap DEF Count, GetKey, GetValue, GrowByRealloc, htVars, tableVars
<1>2. Pairs!Names = DOMAIN heap /\ entry_count = Cardinality(DOMAIN heap)
  BY MapNames DEF HtInv
<1>3. ASSUME Count PROVE Pairs!Count
  <2>1. state = "open" /\ state' = state /\ UNCHANGED <<Contents, iter.entry, Remaining>>
    BY <1>1, <1>3 DEF Count, tableVars
  <2>2. Return(<<"count">>, Cardinality(Pairs!Names))
    BY <1>2, <1>3 DEF Count
  <2>3. Pairs!Cardinality(Pairs!Names) = Cardinality(Pairs!Names)
    BY DEF Cardinality, Pairs!Cardinality
  <2>4. QED
    BY <2>1, <2>2, <2>3 DEF Return, Outcome, Pairs!Count, Pairs!Return, Pairs!Outcome
<1>4. iter.entry # NULL => /\ Contents[iter.entry].key = heap[iter.entry].key
                           /\ Contents[iter.entry].value = heap[iter.entry].value
  <2>1. iter.entry # NULL => iter.entry \in DOMAIN heap
    BY MapView DEF MapShown, Shows
  <2>2. QED
    BY <2>1, MapNames
<1>5. GetKey => Pairs!GetKey
  BY <1>1, <1>4 DEF GetKey, tableVars, Return, Outcome, Pairs!GetKey, Pairs!Return, Pairs!Outcome
<1>6. GetValue => Pairs!GetValue
  BY <1>1, <1>4
     DEF GetValue, tableVars, Return, Outcome, Pairs!GetValue, Pairs!Return, Pairs!Outcome
<1>7. GrowByRealloc => UNCHANGED Pairs!mapVars
  BY <1>1 DEF GrowByRealloc, Pairs!mapVars
<1>8. UNCHANGED htVars => UNCHANGED Pairs!mapVars
  BY <1>1 DEF htVars, tableVars, Pairs!mapVars
<1>9. QED
  BY <1>3, <1>5, <1>6, <1>7, <1>8

LEMMA SearchMaps ==
  ASSUME HtInv, HtInv', NEW k \in Keys, Search(k)
  PROVE  Pairs!Search(k)
<1>1. state = "open" /\ UNCHANGED <<tableVars, iter>>
  BY DEF Search
<1>2. UNCHANGED <<Contents, iter.entry, Remaining>>
  BY <1>1, SameMap DEF tableVars
<1>3. Linked(table, heap, TableLength) /\ TableLength > 0
  BY <1>1, OpenLength DEF HtInv
<1>4. CASE Found(k)
  <2>1. Match(k) \in Pairs!Matches(k) /\ Contents[Match(k)].value = heap[Match(k)].value
    BY <1>3, <1>4, Lookup, MapNames
  <2>2. Pairs!Return(<<"search", k>>, Contents[Match(k)].value)
    BY <1>4, <2>1 DEF Search, Return, Outcome, Pairs!Return, Pairs!Outcome
  <2>3. QED
    BY <1>1, <1>2, <2>1, <2>2 DEF tableVars, Pairs!Search
<1>5. CASE ~Found(k)
  <2>1. Pairs!Matches(k) = {}
    BY <1>3, <1>5, Lookup, MapNames
  <2>2. Pairs!Return(<<"search", k>>, 0)
    BY <1>5 DEF Search, Return, Outcome, Pairs!Return, Pairs!Outcome
  <2>3. QED
    BY <1>1, <1>2, <2>1, <2>2 DEF tableVars, Pairs!Search
<1>6. QED
  BY <1>4, <1>5

\* A new value of the entry that a search finds.
LEMMA SetValueMaps ==
  ASSUME HtInv, HtInv', state = "open", NEW k \in Keys, NEW v, Found(k), SetValue(k, v),
         UNCHANGED <<state, table, iter>>
  PROVE  /\ Match(k) \in Pairs!Matches(k) /\ Contents[Match(k)].value = heap[Match(k)].value
         /\ Contents' = Pairs!Holding(Match(k), k, v)
         /\ UNCHANGED <<iter.entry, Remaining>>
<1> DEFINE e == Match(k)
<1>1. /\ Linked(table, heap, TableLength) /\ TableLength > 0 /\ TableLength' = TableLength
      /\ \A d \in DOMAIN heap :
           heap[d] \in [key : Keys, value : Values, next : DOMAIN heap \cup {NULL}]
  BY OpenLength DEF HtInv, TableLength, Linked, CellsTyped
<1>2. e \in DOMAIN heap /\ heap[e].key = k
  BY <1>1, Lookup
<1>3. heap' = [heap EXCEPT ![e].value = v]
  BY DEF SetValue
<1>4. e \in Pairs!Matches(k) /\ Contents[e].value = heap[e].value
  BY <1>2, MapNames
<1> HIDE DEF e
<1>5. /\ DOMAIN heap' = DOMAIN heap
      /\ \A d \in DOMAIN heap : /\ heap'[d].key = heap[d].key /\ heap'[d].next = heap[d].next
                                /\ heap'[d].value = IF d = e THEN v ELSE heap[d].value
  BY <1>1, <1>2, <1>3
<1>6. Contents' = Pairs!Holding(e, k, v)
  <2>1. /\ Contents' = PairsIn(heap') /\ Pairs!Names = DOMAIN heap
        /\ Contents = PairsIn(heap)
    BY MapNames, ContentsNext
  <2>2. Pairs!Holding(e, k, v) =
          [d \in DOMAIN heap |-> IF d = e THEN [key |-> k, value |-> v] ELSE Contents[d]]
    <3>1. DOMAIN heap \cup {e} = DOMAIN heap
      BY <1>2
    <3>2. QED
      BY <2>1, <3>1 DEF Pairs!Holding
  <2>3. \A d \in DOMAIN heap : PairsIn(heap')[d] =
          IF d = e THEN [key |-> k, value |-> v] ELSE Contents[d]
    BY <1>2, <1>5, <2>1 DEF PairsIn
  <2>4. PairsIn(heap') = [d \in DOMAIN heap |-> PairsIn(heap')[d]]
    BY <1>5 DEF PairsIn
  <2>5. QED
    BY <2>1, <2>2, <2>3, <2>4
<1>7. Remaining' = Remaining
  <2>1. Shows(table, heap, TableLength, iter, Contents, Remaining)
    BY MapView DEF MapShown
  <2>2. iter.entry = NULL => Remaining = {}
    BY <2>1 DEF Shows
  <2>3. iter.entry # NULL => ToCome(table, heap', TableLength, iter, Remaining)
    BY <1>5, <2>1, SameToCome DEF Shows
  <2>4. QED
    BY <1>1, <2>2, <2>3, RemainingIs
<1>8. QED
  BY <1>4, <1>6, <1>7 DEF e

\* A key that is not found is the key of no pair.
LEMMA NotFoundMaps ==
  ASSUME HtInv, state = "open", NEW k \in Keys, ~Found(k)
  PROVE  Pairs!Matches(k) = {}
<1>1. Linked(table, heap, TableLength) /\ TableLength > 0
  BY OpenLength DEF HtInv
<1>2. QED
  BY <1>1, Lookup, MapNames

LEMMA ChangeMaps ==
  ASSUME HtInv, HtInv', NEW k \in Keys, NEW v \in Given, Change(k, v)
  PROVE  Pairs!Change(k, v)
<1>1. state = "open" /\ UNCHANGED <<state, table, iter>>
  BY DEF Change
<1>2. CASE Found(k) /\ SetValue(k, v) /\ Outcome(<<"change", k>>, 0, {}, {Match(k)})
  <2>1. /\ Match(k) \in Pairs!Matches(k) /\ Contents' = Pairs!Holding(Match(k), k, v)
        /\ UNCHANGED <<iter.entry, Remaining>>
    BY <1>1, <1>2, SetValueMaps
  <2>2. Pairs!Outcome(<<"change", k>>, 0, {}, {Match(k)})
    BY <1>2 DEF Outcome, Pairs!Outcome
  <2>3. QED
    BY <1>1, <2>1, <2>2 DEF Pairs!Change
<1>3. CASE ~Found(k) /\ UNCHANGED heap /\ Return(<<"change", k>>, -1)
  <2>1. UNCHANGED <<Contents, iter.entry, Remaining>> /\ Pairs!Matches(k) = {}
    BY <1>1, <1>3, SameMap, NotFoundMaps
  <2>2. Pairs!Return(<<"change", k>>, -1)
    BY <1>3 DEF Return, Outcome, Pairs!Return, Pairs!Outcome
  <2>3. QED
    BY <1>1, <2>1, <2>2 DEF Pairs!Change
<1>4. QED
  BY <1>2, <1>3 DEF Change

LEMMA IncMaps ==
  ASSUME HtInv, HtInv', NEW k \in Keys, NEW v \in Given, Inc(k, v)
  PROVE  Pairs!Inc(k, v)
<1>1. state = "open" /\ UNCHANGED <<state, table, iter>>
  BY DEF Inc
<1>2. CASE /\ Found(k) /\ SetValue(k, (heap[Match(k)].value + v) % Modulus)
           /\ Return(<<"inc", k>>, 0)
  <2>1. /\ Match(k) \in Pairs!Matches(k) /\ UNCHANGED <<iter.entry, Remaining>>
        /\ Contents' = Pairs!Holding(Match(k), k, (Contents[Match(k)].value + v) % Modulus)
    BY <1>1, <1>2, SetValueMaps
  <2>2. Pairs!Return(<<"inc", k>>, 0)
    BY <1>2 DEF Return, Outcome, Pairs!Return, Pairs!Outcome
  <2>3. QED
    BY <1>1, <2>1, <2>2 DEF Pairs!Inc, Pairs!Add
<1>3. CASE ~Found(k) /\ UNCHANGED heap /\ Return(<<"inc", k>>, -1)
  <2>1. UNCHANGED <<Contents, iter.entry, Remaining>> /\ Pairs!Matches(k) = {}
    BY <1>1, <1>3, SameMap, NotFoundMaps
  <2>2. Pairs!Return(<<"inc", k>>, -1)
    BY <1>3 DEF Return, Outcome, Pairs!Return, Pairs!Outcome
  <2>3. QED
    BY <1>1, <2>1, <2>2 DEF Pairs!Inc, Pairs!Add
<1>4. QED
  BY <1>2, <1>3 DEF Inc

LEMMA DecMaps ==
  ASSUME HtInv, HtInv', NEW k \in Keys, NEW v \in Given, Dec(k, v)
  PROVE  Pairs!Dec(k, v)
<1>1. state = "open" /\ UNCHANGED <<state, table, iter>>
  BY DEF Dec
<1>2. CASE /\ Found(k) /\ SetValue(k, (heap[Match(k)].value - v) % Modulus)
           /\ Return(<<"dec", k>>, 0)
  <2>1. /\ Match(k) \in Pairs!Matches(k) /\ UNCHANGED <<iter.entry, Remaining>>
        /\ Contents' = Pairs!Holding(Match(k), k, (Contents[Match(k)].value - v) % Modulus)
    BY <1>1, <1>2, SetValueMaps
  <2>2. Contents[Match(k)].value - v = Contents[Match(k)].value + (-v)
    <3>1. Match(k) \in DOMAIN heap /\ Contents[Match(k)].value = heap[Match(k)].value
      BY <2>1, MapNames
    <3>2. heap[Match(k)] \in [key : Keys, value : Values, next : DOMAIN heap \cup {NULL}]
      BY <3>1 DEF HtInv, Linked, CellsTyped
    <3>3. v \in Int /\ Contents[Match(k)].value \in Int
      BY <3>1, <3>2, ValuesAssumption DEF Values
    <3>4. QED
      BY <3>3
  <2>3. Pairs!Return(<<"dec", k>>, 0)
    BY <1>2 DEF Return, Outcome, Pairs!Return, Pairs!Outcome
  <2>4. QED
    BY <1>1, <2>1, <2>2, <2>3 DEF Pairs!Dec, Pairs!Add
<1>3. CASE ~Found(k) /\ UNCHANGED heap /\ Return(<<"dec", k>>, -1)
  <2>1. UNCHANGED <<Contents, iter.entry, Remaining>> /\ Pairs!Matches(k) = {}
    BY <1>1, <1>3, SameMap, NotFoundMaps
  <2>2. Pairs!Return(<<"dec", k>>, -1)
    BY <1>3 DEF Return, Outcome, Pairs!Return, Pairs!Outcome
  <2>3. QED
    BY <1>1, <2>1, <2>2 DEF Pairs!Dec, Pairs!Add
<1>4. QED
  BY <1>2, <1>3 DEF Dec

\* A pair that leaves the collection.
LEMMA SkippingMaps ==
  ASSUME HtInv, HtInv', NEW e \in DOMAIN heap, Skips(table, heap, table', heap', e)
  PROVE  Contents' = Pairs!Without(e)
<1>1. /\ \A d \in DOMAIN heap :
           heap[d] \in [key : Keys, value : Values, next : DOMAIN heap \cup {NULL}]
  BY DEF HtInv, Linked, CellsTyped
<1>2. /\ DOMAIN heap' = DOMAIN heap \ {e}
      /\ \A d \in DOMAIN heap' : heap'[d].key = heap[d].key /\ heap'[d].value = heap[d].value
  BY <1>1 DEF Skips
<1>3. Contents' = PairsIn(heap') /\ Pairs!Names = DOMAIN heap /\ Contents = PairsIn(heap)
  BY MapNames, ContentsNext
<1>4. \A d \in DOMAIN heap' : PairsIn(heap')[d] = Contents[d]
  BY <1>2, <1>3 DEF PairsIn
<1>5. PairsIn(heap') = [d \in DOMAIN heap \ {e} |-> PairsIn(heap')[d]]
  BY <1>2 DEF PairsIn
<1>6. QED
  BY <1>2, <1>3, <1>4, <1>5 DEF Pairs!Without

LEMMA CondRemoveMaps ==
  ASSUME HtInv, HtInv', NEW k \in Keys, NEW accepted \in Conditions, CondRemove(k, accepted)
  PROVE  Pairs!CondRemove(k, accepted)
<1>1. /\ state = "open" /\ state' = state /\ Linked(table, heap, TableLength) /\ TableLength > 0
  BY OpenLength DEF HtInv, CondRemove
<1>2. CASE /\ Found(k) /\ heap[Match(k)].value \in accepted
           /\ Unlink(Before(Bucket(k), Place(k)), IndexFor(TableLength, k), Match(k))
           /\ iter' = IF SpoiltByRemoval(Match(k)) THEN Lapsed ELSE iter
           /\ Outcome(<<"remove", k, accepted>>, heap[Match(k)].value, {Match(k)}, {})
  <2> DEFINE e == Match(k)
  <2>1. /\ e \in DOMAIN heap /\ heap[e].key = k
        /\ Located(Before(Bucket(k), Place(k)), IndexFor(TableLength, k), e)
    BY <1>1, <1>2, Lookup
  <2>2. Skips(table, heap, table', heap', e)
    BY <1>1, <1>2, <2>1, UnlinkSkips
  <2>3. /\ heap[e].value \in accepted
        /\ iter' = IF SpoiltByRemoval(e) THEN Lapsed ELSE iter
        /\ Outcome(<<"remove", k, accepted>>, heap[e].value, {e}, {})
    BY <1>2
  <2> HIDE DEF e
  <2>4. Contents' = Pairs!Without(e) /\ e \in Pairs!Matches(k) /\ Contents[e].value = heap[e].value
    BY <2>1, <2>2, SkippingMaps, MapNames
  <2>5. Pairs!Outcome(<<"remove", k, accepted>>, Contents[e].value, {e}, {})
    BY <2>3, <2>4 DEF Outcome, Pairs!Outcome
  <2>6. \/ iter.entry # e /\ iter'.entry = iter.entry /\ Remaining' = Remaining \ {e}
        \/ Pairs!Lapse
    <3>1. CASE SpoiltByRemoval(e)
      <4>1. iter'.entry = NULL
        BY <2>3, <3>1 DEF Lapsed
      <4>2. QED
        BY <4>1, ContentsNext DEF Pairs!Lapse
    <3>2. CASE ~SpoiltByRemoval(e)
      <4>1. iter' = iter /\ iter.entry # e
        <5>1. iter' = iter /\ (iter.entry # NULL => iter.entry # e)
          BY <2>3, <3>2 DEF SpoiltByRemoval
        <5>2. NULL \notin DOMAIN heap
          BY MapView DEF MapShown, Shows
        <5>3. QED
          BY <2>1, <5>1, <5>2
      <4>2. Shows(table, heap, TableLength, iter, Contents, Remaining)
        BY MapView DEF MapShown
      <4>3. TableLength' = TableLength
        BY <2>2 DEF Skips, TableLength
      <4>4. iter.entry # NULL => ToCome(table', heap', TableLength, iter, Remaining \ {e})
        BY <1>1, <2>1, <2>2, <4>1, <4>2, SkipToCome DEF Shows
      <4>5. iter.entry = NULL => Remaining \ {e} = {}
        BY <4>2 DEF Shows
      <4>6. Remaining' = Remaining \ {e}
        BY <4>1, <4>3, <4>4, <4>5, RemainingIs
      <4>7. QED
        BY <4>1, <4>6
    <3>3. QED
      BY <3>1, <3>2
  <2>7. QED
    BY <1>1, <2>3, <2>4, <2>5, <2>6 DEF Pairs!CondRemove
<1>3. CASE /\ Found(k) => heap[Match(k)].value \notin accepted
           /\ Return(<<"remove", k, accepted>>, 0)
           /\ UNCHANGED <<table, heap, entry_count, iter>>
  <2>1. UNCHANGED <<Contents, iter.entry, Remaining>>
    BY <1>3, SameMap
  <2>2. Pairs!Matches(k) = {} \/ \E e \in Pairs!Matches(k) : Contents[e].value \notin accepted
    <3>1. CASE Found(k)
      <4>1. Match(k) \in Pairs!Matches(k) /\ Contents[Match(k)].value = heap[Match(k)].value
        BY <1>1, <3>1, Lookup, MapNames
      <4>2. QED
        BY <1>3, <3>1, <4>1
    <3>2. CASE ~Found(k)
      BY <1>1, <3>2, NotFoundMaps
    <3>3. QED
      BY <3>1, <3>2
  <2>3. Pairs!Return(<<"remove", k, accepted>>, 0)
    BY <1>3 DEF Return, Outcome, Pairs!Return, Pairs!Outcome
  <2>4. QED
    BY <1>1, <2>1, <2>2, <2>3 DEF Pairs!CondRemove
<1>4. QED
  BY <1>2, <1>3 DEF CondRemove

LEMMA CreateIterMaps ==
  ASSUME HtInv, HtInv', CreateIter
  PROVE  Pairs!CreateIter
<1>1. /\ state = "open" /\ state' = state /\ heap' = heap
      /\ iter.entry = NULL /\ iter'.entry = NULL
      /\ \E ret \in {0, 1} : Return(<<"create_iter">>, ret)
  BY DEF CreateIter, NoIter, tableVars
<1>2. Contents' = Contents /\ Remaining' = Remaining
  BY <1>1, MapNames, ContentsNext
<1>3. \E ret \in {0, 1} : Pairs!Return(<<"create_iter">>, ret)
  BY <1>1 DEF Return, Outcome, Pairs!Return, Pairs!Outcome
<1>4. QED
  BY <1>1, <1>2, <1>3 DEF Pairs!CreateIter

LEMMA FreeIterMaps ==
  ASSUME HtInv, HtInv', FreeIter
  PROVE  Pairs!FreeIter
<1>1. /\ state = "open" /\ state' = state /\ heap' = heap /\ iter'.entry = NULL
      /\ Return(<<"free_iter">>, 0)
  BY DEF FreeIter, NoIter, tableVars
<1>2. Contents' = Contents /\ Remaining' = {}
  BY <1>1, MapNames, ContentsNext
<1>3. QED
  BY <1>1, <1>2 DEF Return, Outcome, Pairs!Return, Pairs!Outcome, Pairs!FreeIter

\* Past the end of a chain, or from the start: on to the head of the next chain that has one.
LEMMA ScanToCome ==
  ASSUME NEW t, NEW h, NEW len, NEW from \in Nat, Linked(t, h, len), NEW to,
         LET heads == {j \in DOMAIN t : j >= from /\ t[j] # NULL}
         IN  IF heads = {} THEN to.entry = NULL
             ELSE to.entry = t[Min(heads)] /\ to.index = Min(heads)
  PROVE  LET R == {d \in DOMAIN h : IndexFor(len, h[d].key) >= from}
         IN  IF R = {} THEN to.entry = NULL
             ELSE to.entry \in R /\ to.entry # NULL /\ ToCome(t, h, len, to, R \ {to.entry})
<1> DEFINE heads == {j \in DOMAIN t : j >= from /\ t[j] # NULL}
           R     == {d \in DOMAIN h : IndexFor(len, h[d].key) >= from}
<1>1. /\ len \in Nat /\ DOMAIN t = 0 .. len - 1 /\ NULL \notin DOMAIN h
      /\ \A j \in DOMAIN t : t[j] # NULL => t[j] \in DOMAIN h /\ IndexFor(len, h[t[j]].key) = j
  BY CellsAssumption DEF Linked, CellsTyped, InPlace
<1>2. CASE heads = {}
  <2>1. to.entry = NULL
    BY <1>2
  <2>2. ASSUME NEW d \in R PROVE FALSE
    <3>1. IndexFor(len, h[d].key) \in heads
      BY HomeLaws
    <3>2. QED
      BY <1>2, <3>1
  <2> HIDE DEF R
  <2>3. R = {}
    BY <2>2
  <2>4. QED
    BY <2>1, <2>3 DEF R
<1>3. CASE heads # {}
  <2>1. to.entry = t[Min(heads)] /\ to.index = Min(heads)
    BY <1>3
  <2>2. heads \in SUBSET Nat
    BY <1>1
  <2> HIDE DEF heads
  <2>3. Min(heads) \in heads /\ \A i \in heads : Min(heads) <= i
    BY <1>3, <2>2, MinOf
  <2>4. /\ to.index \in DOMAIN t /\ to.index >= from /\ t[to.index] # NULL
        /\ to.entry = t[to.index] /\ \A i \in DOMAIN t : i >= from /\ t[i] # NULL => to.index <= i
    BY <2>1, <2>3 DEF heads
  <2>5. to.entry \in R /\ ToCome(t, h, len, to, R \ {to.entry})
    BY <2>4, HeadToCome
  <2>6. to.entry # NULL /\ R # {}
    BY <2>4, <2>5
  <2> HIDE DEF R
  <2>7. QED
    BY <2>5, <2>6 DEF R
<1>4. QED
  BY <1>2, <1>3

\* Where the iterator goes next, in the chain or behind it.
LEMMA NextEntryLaws ==
  ASSUME NEW it, NEW t, NULL \notin DOMAIN heap,
         it.entry # NULL => it.entry \in DOMAIN heap
  PROVE  LET to    == Next_entry(it, t)
             from  == IF it.entry = NULL THEN 0 ELSE it.index + 1
             heads == {j \in DOMAIN t : j >= from /\ t[j] # NULL}
         IN  /\ it.entry # NULL /\ heap[it.entry].next # NULL =>
                  to = [it EXCEPT !.parent = it.entry, !.entry = heap[it.entry].next]
             /\ it.entry = NULL \/ heap[it.entry].next = NULL =>
                  IF heads = {} THEN to.entry = NULL
                  ELSE to.entry = t[Min(heads)] /\ to.index = Min(heads)
<1> DEFINE to    == Next_entry(it, t)
           from  == IF it.entry = NULL THEN 0 ELSE it.index + 1
           heads == {j \in DOMAIN t : j >= from /\ t[j] # NULL}
<1>1. it.entry # NULL /\ heap[it.entry].next # NULL =>
        to = [it EXCEPT !.parent = it.entry, !.entry = heap[it.entry].next]
  BY DEF Next_entry
<1>2. (it.entry = NULL \/ heap[it.entry].next = NULL) /\ heads # {} =>
        to = [entry |-> t[Min(heads)], index |-> Min(heads),
              parent |-> IF it.entry = NULL THEN it.parent ELSE NULL]
  BY DEF Next_entry
<1>3. it.entry = NULL /\ heads = {} => to = it
  BY DEF Next_entry
<1>4. it.entry # NULL /\ heap[it.entry].next = NULL /\ heads = {} =>
        to = [entry |-> NULL, parent |-> NULL, index |-> TableLength]
  BY DEF Next_entry
<1> HIDE DEF to, heads
<1>5. it.entry = NULL \/ heap[it.entry].next = NULL =>
        IF heads = {} THEN to.entry = NULL
        ELSE to.entry = t[Min(heads)] /\ to.index = Min(heads)
  BY <1>2, <1>3, <1>4
<1>6. QED
  BY <1>1, <1>5 DEF to, heads, from

LEMMA AdvanceMaps ==
  ASSUME HtInv, HtInv', Advance
  PROVE  Pairs!Advance
<1> DEFINE to   == Next_entry(iter, table)
           rest == IF iter.entry = NULL THEN DOMAIN heap ELSE Remaining
<1>1. /\ state' = state /\ heap' = heap /\ table' = table /\ TableLength' = TableLength
      /\ iter' = to /\ Return(<<"advance">>, IF iter'.entry # NULL THEN 1 ELSE 0)
  BY DEF Advance, tableVars, TableLength
<1>2. /\ Linked(table, heap, TableLength) /\ NULL \notin DOMAIN heap
      /\ iter.entry # NULL =>
           /\ iter.entry \in DOMAIN heap /\ iter.index \in DOMAIN table
           /\ IndexFor(TableLength, heap[iter.entry].key) = iter.index
           /\ ToCome(table, heap, TableLength, iter, Remaining)
      /\ iter \in [entry : DOMAIN heap \cup {NULL}, parent : DOMAIN heap \cup {NULL}, index : Int]
      /\ TableLength \in Nat /\ DOMAIN table = 0 .. TableLength - 1
  BY MapView DEF MapShown, Shows, HtInv, IterAt, Linked
<1>3. Contents' = Contents /\ Pairs!Names = DOMAIN heap
  BY <1>1, MapNames, ContentsNext
<1>4. IF rest = {} THEN to.entry = NULL
      ELSE /\ to.entry \in rest /\ to.entry # NULL
           /\ ToCome(table, heap, TableLength, to, rest \ {to.entry})
  <2>1. CASE iter.entry # NULL /\ heap[iter.entry].next # NULL
    <3>1. to = [iter EXCEPT !.parent = iter.entry, !.entry = heap[iter.entry].next]
      BY <1>2, <2>1, NextEntryLaws
    <3>2. to.entry = heap[iter.entry].next /\ to.index = iter.index /\ to.entry # NULL
      BY <1>2, <2>1, <3>1
    <3> HIDE DEF to
    <3>3. to.entry \in Remaining /\ ToCome(table, heap, TableLength, to, Remaining \ {to.entry})
      BY <1>2, <2>1, <3>2, NextToCome
    <3>4. QED
      BY <2>1, <3>2, <3>3
  <2>2. CASE iter.entry = NULL \/ heap[iter.entry].next = NULL
    <3> DEFINE from == IF iter.entry = NULL THEN 0 ELSE iter.index + 1
               R    == {d \in DOMAIN heap : IndexFor(TableLength, heap[d].key) >= from}
    <3>1. from \in Nat
      BY <1>2
    <3>2. LET heads == {j \in DOMAIN table : j >= from /\ table[j] # NULL}
          IN  IF heads = {} THEN to.entry = NULL
              ELSE to.entry = table[Min(heads)] /\ to.index = Min(heads)
      BY <1>2, <2>2, NextEntryLaws
    <3> HIDE DEF to, from
    <3>3. IF R = {} THEN to.entry = NULL
          ELSE /\ to.entry \in R /\ to.entry # NULL
               /\ ToCome(table, heap, TableLength, to, R \ {to.entry})
      BY <1>2, <3>1, <3>2, ScanToCome
    <3>4. rest = R
      <4>1. CASE iter.entry = NULL
        <5>1. \A d \in DOMAIN heap : IndexFor(TableLength, heap[d].key) >= 0
          BY <1>2, HomeLaws
        <5>2. QED
          BY <4>1, <5>1 DEF from
      <4>2. CASE iter.entry # NULL
        BY <1>2, <2>2, <4>2, LastToCome DEF from
      <4>3. QED
        BY <4>1, <4>2
    <3> HIDE DEF R, rest
    <3>5. QED
      BY <3>3, <3>4
  <2>3. QED
    BY <2>1, <2>2
<1>5. Pairs!MoveOn(<<"advance">>, rest, {})
  <2>1. CASE rest = {}
    <3>1. iter'.entry = NULL
      BY <1>1, <1>4, <2>1
    <3>2. Remaining' = {} /\ Pairs!Outcome(<<"advance">>, 0, {}, {})
      BY <1>1, <3>1, ContentsNext DEF Return, Outcome, Pairs!Outcome
    <3> HIDE DEF rest
    <3>3. QED
      BY <2>1, <3>1, <3>2 DEF Pairs!MoveOn
  <2>2. CASE rest # {}
    <3>1. /\ iter'.entry \in rest /\ iter'.entry # NULL
          /\ ToCome(table, heap, TableLength, iter', rest \ {iter'.entry})
      BY <1>1, <1>4, <2>2
    <3> HIDE DEF rest
    <3>2. Remaining' = rest \ {iter'.entry}
      BY <1>1, <3>1, RemainingIs
    <3>3. Pairs!Outcome(<<"advance">>, 1, {}, {})
      BY <1>1, <3>1 DEF Return, Outcome, Pairs!Outcome
    <3>4. QED
      BY <3>1, <3>2, <3>3 DEF Pairs!MoveOn
  <2>3. QED
    BY <2>1, <2>2
<1>6. QED
  BY <1>1, <1>3, <1>5 DEF Pairs!Advance

LEMMA IterSearchMaps ==
  ASSUME HtInv, HtInv', NEW k \in Keys, IterSearch(k)
  PROVE  Pairs!IterSearch(k)
<1>1. /\ state = "open" /\ state' = state /\ heap' = heap /\ table' = table
      /\ Linked(table, heap, TableLength) /\ TableLength > 0
  BY OpenLength DEF HtInv, IterSearch, tableVars
<1>2. Contents' = Contents /\ Pairs!Names = DOMAIN heap
  BY <1>1, MapNames, ContentsNext
<1>3. CASE /\ Found(k) /\ iter'.entry = Match(k) /\ Return(<<"iter_search", k>>, 1)
  <2>1. Match(k) \in Pairs!Matches(k)
    BY <1>1, <1>3, Lookup, MapNames
  <2>2. Remaining' \in SUBSET (Pairs!Names \ {Match(k)})
    BY <1>1, <1>2, <1>3, ContentsNext
  <2>3. Pairs!Return(<<"iter_search", k>>, 1)
    BY <1>3 DEF Return, Outcome, Pairs!Return, Pairs!Outcome
  <2>4. QED
    BY <1>1, <1>2, <1>3, <2>1, <2>2, <2>3 DEF Pairs!IterSearch
<1>4. CASE ~Found(k) /\ UNCHANGED iter /\ Return(<<"iter_search", k>>, 0)
  <2>1. UNCHANGED <<Contents, iter.entry, Remaining>> /\ Pairs!Matches(k) = {}
    BY <1>1, <1>4, SameMap, NotFoundMaps
  <2>2. Pairs!Return(<<"iter_search", k>>, 0)
    BY <1>4 DEF Return, Outcome, Pairs!Return, Pairs!Outcome
  <2>3. QED
    BY <1>1, <2>1, <2>2 DEF Pairs!IterSearch
<1>5. QED
  BY <1>3, <1>4 DEF IterSearch

LEMMA IterRemoveMaps ==
  ASSUME HtInv, HtInv', IterRemove
  PROVE  Pairs!IterRemove
<1> DEFINE e    == iter.entry
           to   == Next_entry(iter, table')
           R    == Remaining
<1>1. /\ state' = state /\ e # NULL /\ iter'.entry = to.entry /\ iter'.index = to.index
      /\ Outcome(<<"iter_remove">>, IF to.entry # NULL THEN 1 ELSE 0, {e}, {})
  BY DEF IterRemove
<1>2. /\ Linked(table, heap, TableLength) /\ NULL \notin DOMAIN heap
      /\ e \in DOMAIN heap /\ iter.index \in DOMAIN table
      /\ IndexFor(TableLength, heap[e].key) = iter.index
      /\ ToCome(table, heap, TableLength, iter, R)
      /\ iter \in [entry : DOMAIN heap \cup {NULL}, parent : DOMAIN heap \cup {NULL}, index : Int]
      /\ TableLength \in Nat /\ DOMAIN table = 0 .. TableLength - 1
      /\ \A d \in DOMAIN heap :
           heap[d] \in [key : Keys, value : Values, next : DOMAIN heap \cup {NULL}]
  BY <1>1, MapView DEF MapShown, Shows, HtInv, IterAt, Linked, CellsTyped
<1>3. Skips(table, heap, table', heap', e)
  BY RemovingKeepsIter DEF HtInv
<1>4. Linked(table', heap', TableLength) /\ TableLength' = TableLength
  BY <1>2, <1>3, SkippingKeepsLinks DEF Skips, TableLength
<1>5. Contents' = Pairs!Without(e)
  BY <1>2, <1>3, SkippingMaps
<1>6. R \subseteq DOMAIN heap /\ e \notin R
  BY <1>2 DEF ToCome
<1> HIDE DEF R
<1>7. IF R = {} THEN to.entry = NULL
      ELSE /\ to.entry \in R /\ to.entry # NULL
           /\ ToCome(table', heap', TableLength, to, R \ {to.entry})
  <2>1. CASE heap[e].next # NULL
    <3>1. to = [iter EXCEPT !.parent = e, !.entry = heap[e].next]
      BY <1>1, <1>2, <2>1, NextEntryLaws
    <3>2. to.entry = heap[e].next /\ to.index = iter.index
      BY <1>2, <3>1
    <3> HIDE DEF to
    <3>3. to.entry \in R /\ ToCome(table, heap, TableLength, to, R \ {to.entry})
      BY <1>2, <2>1, <3>2, NextToCome
    <3>4. to.entry # e
      BY <1>6, <3>3
    <3>5. ToCome(table', heap', TableLength, to, (R \ {to.entry}) \ {e})
      BY <1>2, <1>3, <3>2, <3>3, <3>4, SkipToCome
    <3>6. (R \ {to.entry}) \ {e} = R \ {to.entry}
      BY <1>6
    <3>7. QED
      BY <2>1, <3>2, <3>3, <3>5, <3>6
  <2>2. CASE heap[e].next = NULL
    <3> DEFINE from == IF iter.entry = NULL THEN 0 ELSE iter.index + 1
               Q    == {d \in DOMAIN heap' : IndexFor(TableLength, heap'[d].key) >= from}
    <3>0. from = iter.index + 1
      BY <1>1
    <3>1. from \in Nat
      BY <1>2, <3>0
    <3>2. LET heads == {j \in DOMAIN table' : j >= from /\ table'[j] # NULL}
          IN  IF heads = {} THEN to.entry = NULL
              ELSE to.entry = table'[Min(heads)] /\ to.index = Min(heads)
      <4>1. NULL \notin DOMAIN heap /\ (iter.entry # NULL => iter.entry \in DOMAIN heap)
        BY <1>2
      <4>2. iter.entry = NULL \/ heap[iter.entry].next = NULL
        BY <2>2
      <4>3. QED
        BY <4>1, <4>2, NextEntryLaws
    <3> HIDE DEF to, from
    <3>3. IF Q = {} THEN to.entry = NULL
          ELSE /\ to.entry \in Q /\ to.entry # NULL
               /\ ToCome(table', heap', TableLength, to, Q \ {to.entry})
      BY <1>4, <3>1, <3>2, ScanToCome
    <3>4. R = {d \in DOMAIN heap : IndexFor(TableLength, heap[d].key) >= from}
      BY <1>2, <2>2, <3>0, LastToCome
    <3>5. /\ DOMAIN heap' = DOMAIN heap \ {e}
          /\ \A d \in DOMAIN heap' : heap'[d].key = heap[d].key
      BY <1>2, <1>3 DEF Skips
    <3>6. R = Q
      BY <1>6, <3>4, <3>5
    <3> HIDE DEF Q
    <3>7. QED
      BY <3>3, <3>6
  <2>3. QED
    BY <2>1, <2>2
<1> HIDE DEF to
<1>8. Pairs!MoveOn(<<"iter_remove">>, R, {e})
  <2>1. CASE R = {}
    <3>1. iter'.entry = NULL
      BY <1>1, <1>7, <2>1
    <3>2. Remaining' = {} /\ Pairs!Outcome(<<"iter_remove">>, 0, {e}, {})
      BY <1>1, <3>1, ContentsNext DEF Outcome, Pairs!Outcome
    <3>3. QED
      BY <2>1, <3>1, <3>2 DEF Pairs!MoveOn
  <2>2. CASE R # {}
    <3>1. iter'.entry \in R /\ iter'.entry # NULL
      BY <1>1, <1>7, <2>2
    <3>2. ToCome(table', heap', TableLength, iter', R \ {iter'.entry})
      BY <1>1, <1>7, <2>2 DEF ToCome
    <3>3. Remaining' = R \ {iter'.entry}
      BY <1>4, <3>1, <3>2, RemainingIs
    <3>4. Pairs!Outcome(<<"iter_remove">>, 1, {e}, {})
      BY <1>1, <3>1 DEF Outcome, Pairs!Outcome
    <3>5. QED
      BY <3>1, <3>3, <3>4 DEF Pairs!MoveOn
  <2>3. QED
    BY <2>1, <2>2
<1>9. QED
  BY <1>1, <1>5, <1>8 DEF Pairs!IterRemove, R

\* What linking a new entry into a table t with heap h makes of the pairs in it.
LEMMA LinkMaps ==
  ASSUME HtInv, HtInv', NEW t, NEW h, NEW k \in Keys, NEW v, NEW len \in Nat,
         DOMAIN t = 0 .. len - 1, DOMAIN h = DOMAIN heap, PairsIn(h) = PairsIn(heap),
         Link(t, h, k, v)
  PROVE  \/ /\ Pairs!Return(<<"insert", k>>, 0) /\ result'.ret = 0
            /\ \E e \in Cells \ Pairs!Names : /\ Pushes(t, h, len, table', heap', e, k, v)
                                              /\ Contents' = Pairs!Holding(e, k, v)
         \/ /\ Pairs!Return(<<"insert", k>>, -1) /\ result'.ret = -1
            /\ table' = t /\ heap' = h /\ Contents' = Contents
<1>1. Cardinality(DOMAIN t) = len
  BY LengthOf
<1>2. Contents' = PairsIn(heap') /\ Contents = PairsIn(heap) /\ Pairs!Names = DOMAIN heap
  BY MapNames, ContentsNext
<1>3. ASSUME NEW e \in Cells \ DOMAIN h, Return(<<"insert", k>>, 0),
             table' = [t EXCEPT ![IndexFor(Cardinality(DOMAIN t), k)] = e],
             heap' = [d \in DOMAIN h \cup {e} |->
                        IF d = e THEN [key |-> k, value |-> v,
                                       next |-> t[IndexFor(Cardinality(DOMAIN t), k)]]
                        ELSE h[d]]
      PROVE  /\ Pairs!Return(<<"insert", k>>, 0) /\ result'.ret = 0
             /\ Pushes(t, h, len, table', heap', e, k, v)
             /\ Contents' = Pairs!Holding(e, k, v)
  <2>1. Pushes(t, h, len, table', heap', e, k, v)
    BY <1>1, <1>3 DEF Pushes
  <2>2. Pairs!Return(<<"insert", k>>, 0) /\ result'.ret = 0
    BY <1>3 DEF Return, Outcome, Pairs!Return, Pairs!Outcome
  <2>3. /\ DOMAIN heap' = DOMAIN heap \cup {e}
        /\ heap'[e].key = k /\ heap'[e].value = v
        /\ \A d \in DOMAIN heap : d # e /\ heap'[d] = h[d]
    BY <1>3
  <2>4. \A d \in DOMAIN heap : PairsIn(heap')[d] = Contents[d]
    <3>1. \A d \in DOMAIN heap : PairsIn(heap')[d] = PairsIn(h)[d]
      BY <2>3 DEF PairsIn
    <3>2. QED
      BY <1>2, <3>1
  <2>5. PairsIn(heap')[e] = [key |-> k, value |-> v]
    BY <2>3 DEF PairsIn
  <2>6. PairsIn(heap') = [d \in DOMAIN heap \cup {e} |-> PairsIn(heap')[d]]
    BY <2>3 DEF PairsIn
  <2>7. Contents' = Pairs!Holding(e, k, v)
    BY <1>2, <2>3, <2>4, <2>5, <2>6 DEF Pairs!Holding
  <2>8. QED
    BY <2>1, <2>2, <2>7
<1>4. CASE table' = t /\ heap' = h /\ Return(<<"insert", k>>, -1)
  BY <1>2, <1>4 DEF Return, Outcome, Pairs!Return, Pairs!Outcome
<1>5. CASE \E e \in Cells \ DOMAIN h :
             LET j == IndexFor(Cardinality(DOMAIN t), k)
             IN  /\ table' = [t EXCEPT ![j] = e]
                 /\ heap' = [d \in DOMAIN h \cup {e} |->
                               IF d = e THEN [key |-> k, value |-> v, next |-> t[j]] ELSE h[d]]
                 /\ entry_count' = entry_count + 1
                 /\ Return(<<"insert", k>>, 0)
  BY <1>2, <1>3, <1>5
<1>6. QED
  BY <1>4, <1>5 DEF Link

LEMMA InsertMaps ==
  ASSUME HtInv, HtInv', NEW k \in Keys, NEW v \in Given, Insert(k, v)
  PROVE  Pairs!Insert(k, v)
<1>1. /\ state = "open" /\ state' = state
      /\ iter' = IF SpoiltByInsert(k) THEN Lapsed ELSE iter
      /\ prime_index \in 1 .. Len(Primes)
      /\ TableLength \in Nat \ {0} /\ DOMAIN table = 0 .. TableLength - 1
  BY OpenLength DEF Insert, HtInv
<1>2. Shows(table, heap, TableLength, iter, Contents, Remaining)
  BY MapView DEF MapShown
<1>3. SpoiltByInsert(k) => Pairs!Lapse
  <2>1. SpoiltByInsert(k) => iter'.entry = NULL
    BY <1>1 DEF Lapsed
  <2>2. QED
    BY <2>1, ContentsNext DEF Pairs!Lapse
<1>4. ~SpoiltByInsert(k) /\ iter.entry = NULL => UNCHANGED <<iter.entry, Remaining>>
  BY <1>1, MapNames, ContentsNext
<1>5. CASE prime_index' = prime_index /\ Link(table, heap, k, v)
  <2>1. \/ /\ Pairs!Return(<<"insert", k>>, 0) /\ result'.ret = 0
           /\ \E e \in Cells \ Pairs!Names : /\ Pushes(table, heap, TableLength, table', heap', e, k, v)
                                             /\ Contents' = Pairs!Holding(e, k, v)
        \/ /\ Pairs!Return(<<"insert", k>>, -1) /\ result'.ret = -1
           /\ table' = table /\ heap' = heap /\ Contents' = Contents
    BY <1>1, <1>5, LinkMaps
  <2>2. ASSUME Pairs!Return(<<"insert", k>>, 0), NEW e \in Cells \ Pairs!Names,
               Pushes(table, heap, TableLength, table', heap', e, k, v),
               Contents' = Pairs!Holding(e, k, v)
        PROVE  Pairs!Insert(k, v)
    <3>1. \/ UNCHANGED <<iter.entry, Remaining>>
          \/ /\ iter.entry # NULL /\ iter'.entry = iter.entry
             /\ Remaining' = Remaining \cup {e}
          \/ Pairs!Lapse
      <4>1. CASE ~SpoiltByInsert(k) /\ iter.entry # NULL
        <5> DEFINE Q == IF IndexFor(TableLength, k) > iter.index THEN Remaining \cup {e}
                        ELSE Remaining
        <5>1. e \notin DOMAIN heap /\ e # NULL
          BY <2>2, MapNames, CellsAssumption
        <5>2. ToCome(table', heap', TableLength, iter, Q)
          BY <1>1, <1>2, <2>2, <4>1, <5>1, PushToCome DEF Shows
        <5>3. iter' = iter /\ TableLength' = TableLength
          BY <1>1, <2>2, <4>1 DEF Pushes, TableLength
        <5> HIDE DEF Q
        <5>4. Remaining' = Q
          BY <4>1, <5>2, <5>3, RemainingIs
        <5>5. QED
          BY <4>1, <5>3, <5>4 DEF Q
      <4>2. QED
        BY <1>3, <1>4, <4>1
    <3>2. QED
      BY <1>1, <2>2, <3>1 DEF Pairs!Insert
  <2>3. CASE /\ Pairs!Return(<<"insert", k>>, -1) /\ result'.ret = -1
             /\ table' = table /\ heap' = heap /\ Contents' = Contents
    <3>1. iter' = iter
      BY <1>1, <1>5, <2>3 DEF SpoiltByInsert
    <3>2. UNCHANGED <<Contents, iter.entry, Remaining>>
      BY <2>3, <3>1, SameMap
    <3>3. QED
      BY <1>1, <2>3, <3>2 DEF Pairs!Insert
  <2>4. QED
    BY <2>1, <2>2, <2>3
<1>6. CASE /\ CanGrow /\ prime_index' = prime_index + 1
           /\ Link(Rehash(Primes[prime_index + 1]).table, Rehash(Primes[prime_index + 1]).heap, k, v)
  <2> DEFINE len == Primes[prime_index + 1]
             G   == Rehash(len)
  <2>1. len \in Nat \ {0}
    BY <1>1, <1>6, PrimesArePositive DEF CanGrow
  <2>2. Link(G.table, G.heap, k, v)
    BY <1>6
  <2> HIDE DEF len
  <2>3. /\ Linked(G.table, G.heap, len) /\ DOMAIN G.heap = DOMAIN heap
        /\ \A e \in DOMAIN heap : G.heap[e].key = heap[e].key /\ G.heap[e].value = heap[e].value
    BY <1>2, <2>1, RehashKeepsLinks DEF Shows
  <2> HIDE DEF G
  <2>4. PairsIn(G.heap) = PairsIn(heap) /\ DOMAIN G.table = 0 .. len - 1
    BY <2>3 DEF PairsIn, Linked
  <2>5. \/ /\ Pairs!Return(<<"insert", k>>, 0)
           /\ \E e \in Cells \ Pairs!Names : Contents' = Pairs!Holding(e, k, v)
        \/ Pairs!Return(<<"insert", k>>, -1) /\ Contents' = Contents
    BY <2>1, <2>2, <2>3, <2>4, LinkMaps
  <2>6. UNCHANGED <<iter.entry, Remaining>> \/ Pairs!Lapse
    <3>1. iter.entry # NULL => SpoiltByInsert(k)
      BY <1>1, <1>6 DEF SpoiltByInsert
    <3>2. QED
      BY <1>3, <1>4, <3>1
  <2>7. QED
    BY <1>1, <2>5, <2>6 DEF Pairs!Insert
<1>7. QED
  BY <1>5, <1>6 DEF Insert

LEMMA NextMaps == HtInv /\ HtInv' /\ [HtNext]_htVars => [Pairs!MapNext]_(Pairs!mapVars)
<1> SUFFICES ASSUME HtInv, HtInv', [HtNext]_htVars PROVE [Pairs!MapNext]_(Pairs!mapVars)
  OBVIOUS
<1>1. ASSUME NEW min_size \in MinSizes, Create(min_size) PROVE Pairs!MapNext
  BY <1>1, CreateMaps DEF Pairs!MapNext
<1>2. CASE Free
  BY <1>2, FreeMaps DEF Pairs!MapNext
<1>3. CASE Count \/ GetKey \/ GetValue
  BY <1>3, LookMaps DEF Pairs!MapNext
<1>4. CASE GrowByRealloc \/ UNCHANGED htVars
  BY <1>4, LookMaps
<1>5. CASE CreateIter
  BY <1>5, CreateIterMaps DEF Pairs!MapNext
<1>6. CASE FreeIter
  BY <1>6, FreeIterMaps DEF Pairs!MapNext
<1>7. CASE Advance
  BY <1>7, AdvanceMaps DEF Pairs!MapNext
<1>8. CASE IterRemove
  BY <1>8, IterRemoveMaps DEF Pairs!MapNext
<1>9. ASSUME NEW k \in Keys, NEW v \in Given, Insert(k, v) PROVE Pairs!MapNext
  BY <1>9, InsertMaps DEF Pairs!MapNext
<1>10. ASSUME NEW k \in Keys, NEW v \in Given, Change(k, v) \/ Inc(k, v) \/ Dec(k, v)
       PROVE  Pairs!MapNext
  BY <1>10, ChangeMaps, IncMaps, DecMaps DEF Pairs!MapNext
<1>11. ASSUME NEW k \in Keys, NEW accepted \in Conditions, CondRemove(k, accepted)
       PROVE  Pairs!MapNext
  BY <1>11, CondRemoveMaps DEF Pairs!MapNext
<1>12. ASSUME NEW k \in Keys, Search(k) \/ IterSearch(k) PROVE Pairs!MapNext
  BY <1>12, SearchMaps, IterSearchMaps DEF Pairs!MapNext
<1>13. QED
  BY <1>1, <1>2, <1>3, <1>4, <1>5, <1>6, <1>7, <1>8, <1>9, <1>10, <1>11, <1>12 DEF HtNext

\* Whatever the callers do, every call returns, changes and frees what the collection of pairs
\* in pet_hashtable.h allows, growth included, and an iterator visits every entry once, also
\* while it removes and while others are inserted and removed around it.
THEOREM ImplementsCollection == HtSpec => ImplementsMultimap
<1>1. HtInit => Pairs!MapInit
  BY MapInitial
<1>2. HtInv /\ HtInv' /\ [HtNext]_htVars => [Pairs!MapNext]_(Pairs!mapVars)
  BY NextMaps
<1>3. QED
  BY <1>1, <1>2, HtInvariant, PTL DEF HtSpec, ImplementsMultimap, Pairs!MapSpec

=============================================================================
