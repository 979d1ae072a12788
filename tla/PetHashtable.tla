----------------------------- MODULE PetHashtable -----------------------------
(***************************************************************************)
(* pet_hashtable.c: chained buckets, a table that grows, one iterator.  The *)
(* library runs in its caller's thread, so a call is one step.  Entries are *)
(* cells of a heap linked by next pointers, and every operation reads and   *)
(* writes those pointers as the code does.                                  *)
(*                                                                          *)
(* Calls are made as the header allows, with one rule it leaves unsaid.     *)
(* Insertions and removals by key may come while an iterator stands at an   *)
(* entry, but some of them leave it with a parent or an index of the past:  *)
(* such an iterator has lapsed, and is only freed or moved by iter_search().*)
(***************************************************************************)
EXTENDS Integers, FiniteSets, FiniteSetsExt, Sequences, SequencesExt

CONSTANTS
  Keys,         \* keys; eq_fn is equality
  Hash,         \* do_hash() of each key
  Modulus,      \* values are 0 .. Modulus-1; 0 is NULL
  Cells,        \* the addresses calloc() has for entries
  NULL,
  Primes,       \* primes[], from 1
  LoadFactors,  \* load_factors[], from 1
  Given,        \* the values callers pass in
  MinSizes,     \* the min_sizes callers ask for
  Conditions    \* for each cond_func, the values it is true of; remove() takes all

ASSUME KeysAssumption  == Keys \subseteq Int /\ Hash \in [Keys -> Nat]
ASSUME ValuesAssumption ==
  /\ Modulus \in Nat \ {0}
  /\ Given \subseteq 0 .. Modulus - 1
  /\ Conditions \subseteq SUBSET (0 .. Modulus - 1)
ASSUME CellsAssumption == NULL \notin Cells
ASSUME TablesAssumption ==
  /\ Primes \in Seq(Nat \ {0}) /\ LoadFactors \in Seq(Nat)
  /\ Len(Primes) = Len(LoadFactors) /\ Len(Primes) > 0
  /\ \A p \in 2 .. Len(Primes) : Primes[p - 1] < Primes[p]
  /\ \A min_size \in MinSizes : min_size \in Nat /\ min_size < Primes[Len(Primes)]

VARIABLES
  state,        \* "none", "open", or "undefined" once the code did what C leaves undefined
  table,        \* the head of each chain, from 0
  heap,         \* the entries: key, value and next
  prime_index,
  entry_count,
  iter,         \* entry, parent and index of the iterator, or NoIter
  result        \* what the last call returned, and whose key and value it freed

tableVars == <<state, table, heap, prime_index, entry_count>>
htVars    == <<tableVars, iter, result>>

Values  == 0 .. Modulus - 1
NoIter  == [entry |-> NULL, parent |-> NULL, index |-> -1]
Lapsed  == [entry |-> NULL, parent |-> NULL, index |-> -2]
NoTable == [j \in {} |-> NULL]
EmptyTable(p) == [j \in 0 .. Primes[p] - 1 |-> NULL]

TableLength == Cardinality(DOMAIN table)
Load_limit  == LoadFactors[prime_index]
IndexFor(len, k) == Hash[k] % len

Outcome(call, ret, freedKeys, freedValues) ==
  result' = [call |-> call, ret |-> ret, freedKeys |-> freedKeys, freedValues |-> freedValues]
Return(call, ret) == Outcome(call, ret, {}, {})

HtInit ==
  /\ state = "none"
  /\ table = NoTable
  /\ heap = [e \in {} |-> 0]
  /\ prime_index = 1
  /\ entry_count = 0
  /\ iter = NoIter
  /\ result = [call |-> <<"none">>, ret |-> 0, freedKeys |-> {}, freedValues |-> {}]

-----------------------------------------------------------------------------
(***************************************************************************)
(* Walking the links.                                                       *)
(***************************************************************************)

\* The entries met from e on.
ChainFrom(e) ==
  LET walk[d \in DOMAIN heap \cup {NULL}] ==
        IF d = NULL THEN <<>> ELSE <<d>> \o walk[heap[d].next]
  IN  walk[e]

Chain(j) == ChainFrom(table[j])

\* All entries, in the order in which expansion, destruction and iteration meet them.
Order == FlattenSeq([j \in 1 .. TableLength |-> Chain(j - 1)])

\* The first entry of k's chain that holds k, if there is one.
Bucket(k) == Chain(IndexFor(TableLength, k))
Hits(k)   == {n \in 1 .. Len(Bucket(k)) : heap[Bucket(k)[n]].key = k}
Found(k)  == Hits(k) # {}
Place(k)  == Min(Hits(k))
Match(k)  == Bucket(k)[Place(k)]

\* The entry before place n of a chain, NULL before the head.
Before(chain, n) == IF n = 1 THEN NULL ELSE chain[n - 1]

\* The pointer to e, in the head of chain j or in parent, is made to skip e.
Unlink(parent, j, e) ==
  IF parent = NULL
    THEN /\ table' = [table EXCEPT ![j] = heap[e].next]
         /\ heap' = [d \in DOMAIN heap \ {e} |-> heap[d]]
    ELSE /\ heap' = [d \in DOMAIN heap \ {e} |->
                       IF d = parent THEN [heap[d] EXCEPT !.next = heap[e].next] ELSE heap[d]]
         /\ UNCHANGED table

-----------------------------------------------------------------------------
(***************************************************************************)
(* The table.                                                               *)
(***************************************************************************)

\* The first prime above min_size; none of it when memory runs out.
Create(min_size) ==
  /\ state = "none"
  /\ \/ /\ state' = "open"
        /\ prime_index' = Min({p \in 1 .. Len(Primes) : Primes[p] > min_size})
        /\ table' = EmptyTable(prime_index')
        /\ Return(<<"create", min_size>>, 1)
     \/ /\ Return(<<"create", min_size>>, 0)
        /\ UNCHANGED <<state, prime_index, table>>
  /\ UNCHANGED <<heap, entry_count, iter>>

Free ==
  /\ state = "open" /\ iter = NoIter
  /\ state' = "none"
  /\ table' = NoTable
  /\ heap' = [e \in {} |-> 0]
  /\ prime_index' = 1
  /\ entry_count' = 0
  /\ Outcome(<<"free">>, 0, ToSet(Order), ToSet(Order))
  /\ UNCHANGED iter

\* Each entry is pushed in front of its new chain, which reverses their order.
Rehash(len) ==
  LET met    == Order
      Of(n)  == IndexFor(len, heap[met[n]].key)
      Newest(j, upto) ==
        LET same == {n \in 1 .. upto : Of(n) = j}
        IN  IF same = {} THEN NULL ELSE met[Max(same)]
      Rank(e) == CHOOSE n \in 1 .. Len(met) : met[n] = e
  IN  [table |-> [j \in 0 .. len - 1 |-> Newest(j, Len(met))],
       heap  |-> [e \in DOMAIN heap |->
                    [heap[e] EXCEPT !.next = Newest(Of(Rank(e)), Rank(e) - 1)]]]

\* Faulty variant: the count is not taken back when calloc() fails.
Link_CountStays(t, h, k, v) ==
  /\ entry_count' = entry_count + 1
  /\ \/ \E e \in Cells \ DOMAIN h :
          LET j == IndexFor(Cardinality(DOMAIN t), k)
          IN  /\ table' = [t EXCEPT ![j] = e]
              /\ heap' = [d \in DOMAIN h \cup {e} |->
                            IF d = e THEN [key |-> k, value |-> v, next |-> t[j]] ELSE h[d]]
              /\ Return(<<"insert", k>>, 0)
     \/ table' = t /\ heap' = h /\ Return(<<"insert", k>>, -1)

\* The new entry becomes the head of its chain in t; without memory for it the
\* growth stays and the count is taken back.
Link(t, h, k, v) ==
  \/ \E e \in Cells \ DOMAIN h :
       LET j == IndexFor(Cardinality(DOMAIN t), k)
       IN  /\ table' = [t EXCEPT ![j] = e]
           /\ heap' = [d \in DOMAIN h \cup {e} |->
                         IF d = e THEN [key |-> k, value |-> v, next |-> t[j]] ELSE h[d]]
           /\ entry_count' = entry_count + 1
           /\ Return(<<"insert", k>>, 0)
  \/ /\ table' = t /\ heap' = h
     /\ Return(<<"insert", k>>, -1)
     /\ UNCHANGED entry_count

MustGrow == entry_count + 1 > Load_limit
CanGrow  == prime_index < Len(Primes)

\* Growth moves every entry to another chain, and a new head of its chain comes
\* between the iterator and the table's pointer to it.
SpoiltByInsert(k) ==
  /\ iter.entry # NULL
  /\ \/ prime_index' # prime_index
     \/ result'.ret = 0 /\ iter.parent = NULL /\ iter.index = IndexFor(TableLength, k)

\* The table grows first when it is due; that it may fail is ignored.
Insert(k, v) ==
  /\ state = "open"
  /\ \/ /\ MustGrow /\ CanGrow
        /\ prime_index' = prime_index + 1
        /\ LET grown == Rehash(Primes[prime_index + 1]) IN Link(grown.table, grown.heap, k, v)
     \/ UNCHANGED prime_index /\ Link(table, heap, k, v)
  /\ iter' = IF SpoiltByInsert(k) THEN Lapsed ELSE iter
  /\ UNCHANGED state

\* calloc() fails and realloc() succeeds: memset() is handed the address that the
\* uninitialised slot behind the old table happens to hold.  No step follows, and
\* nothing is claimed of what would.
GrowByRealloc ==
  /\ state = "open"
  /\ MustGrow /\ CanGrow
  /\ state' = "undefined"
  /\ UNCHANGED <<table, heap, prime_index, entry_count, iter, result>>

\* The value of k's entry becomes v.
SetValue(k, v) == heap' = [heap EXCEPT ![Match(k)].value = v]

Change(k, v) ==
  /\ state = "open"
  /\ \/ Found(k) /\ SetValue(k, v) /\ Outcome(<<"change", k>>, 0, {}, {Match(k)})
     \/ ~Found(k) /\ UNCHANGED heap /\ Return(<<"change", k>>, -1)
  /\ UNCHANGED <<state, table, prime_index, entry_count, iter>>

Inc(k, v) ==
  /\ state = "open"
  /\ \/ /\ Found(k) /\ SetValue(k, (heap[Match(k)].value + v) % Modulus)
        /\ Return(<<"inc", k>>, 0)
     \/ ~Found(k) /\ UNCHANGED heap /\ Return(<<"inc", k>>, -1)
  /\ UNCHANGED <<state, table, prime_index, entry_count, iter>>

Dec(k, v) ==
  /\ state = "open"
  /\ \/ /\ Found(k) /\ SetValue(k, (heap[Match(k)].value - v) % Modulus)
        /\ Return(<<"dec", k>>, 0)
     \/ ~Found(k) /\ UNCHANGED heap /\ Return(<<"dec", k>>, -1)
  /\ UNCHANGED <<state, table, prime_index, entry_count, iter>>

Search(k) ==
  /\ state = "open"
  /\ Return(<<"search", k>>, IF Found(k) THEN heap[Match(k)].value ELSE 0)
  /\ UNCHANGED <<tableVars, iter>>

Count ==
  /\ state = "open"
  /\ Return(<<"count">>, entry_count)
  /\ UNCHANGED <<tableVars, iter>>

\* The iterator's own entry is freed, or the one it would unlink it from.
SpoiltByRemoval(e) == iter.entry # NULL /\ e \in {iter.entry, iter.parent}

\* Faulty variant: the value is freed too, as hashtable_example.c:92-95 takes it.
CondRemove_FreesValue(k, accepted) ==
  /\ state = "open"
  /\ \/ /\ Found(k) /\ heap[Match(k)].value \in accepted
        /\ Unlink(Before(Bucket(k), Place(k)), IndexFor(TableLength, k), Match(k))
        /\ entry_count' = entry_count - 1
        /\ iter' = IF SpoiltByRemoval(Match(k)) THEN Lapsed ELSE iter
        /\ Outcome(<<"remove", k, accepted>>, heap[Match(k)].value, {Match(k)}, {Match(k)})
     \/ /\ Found(k) => heap[Match(k)].value \notin accepted
        /\ Return(<<"remove", k, accepted>>, 0)
        /\ UNCHANGED <<table, heap, entry_count, iter>>
  /\ UNCHANGED <<state, prime_index>>

\* The first entry of k, if its value is accepted, leaves the table with its key;
\* the value goes back to the caller.  remove() accepts every value.
CondRemove(k, accepted) ==
  /\ state = "open"
  /\ \/ /\ Found(k) /\ heap[Match(k)].value \in accepted
        /\ Unlink(Before(Bucket(k), Place(k)), IndexFor(TableLength, k), Match(k))
        /\ entry_count' = entry_count - 1
        /\ iter' = IF SpoiltByRemoval(Match(k)) THEN Lapsed ELSE iter
        /\ Outcome(<<"remove", k, accepted>>, heap[Match(k)].value, {Match(k)}, {})
     \/ /\ Found(k) => heap[Match(k)].value \notin accepted
        /\ Return(<<"remove", k, accepted>>, 0)
        /\ UNCHANGED <<table, heap, entry_count, iter>>
  /\ UNCHANGED <<state, prime_index>>

-----------------------------------------------------------------------------
(***************************************************************************)
(* The iterator.                                                            *)
(***************************************************************************)

CreateIter ==
  /\ state = "open" /\ iter = NoIter
  /\ \/ iter' = [NoIter EXCEPT !.index = TableLength] /\ Return(<<"create_iter">>, 1)
     \/ UNCHANGED iter /\ Return(<<"create_iter">>, 0)
  /\ UNCHANGED tableVars

FreeIter ==
  /\ state = "open" /\ iter # NoIter
  /\ iter' = NoIter
  /\ Return(<<"free_iter">>, 0)
  /\ UNCHANGED tableVars

\* Faulty variant: the parent survives the move to the next chain.
Next_entry_KeepsParent(it, t) ==
  LET from  == IF it.entry = NULL THEN 0 ELSE it.index + 1
      heads == {j \in DOMAIN t : j >= from /\ t[j] # NULL}
  IN  CASE it.entry # NULL /\ heap[it.entry].next # NULL ->
             [it EXCEPT !.parent = it.entry, !.entry = heap[it.entry].next]
        [] (it.entry = NULL \/ heap[it.entry].next = NULL) /\ heads # {} ->
             [entry  |-> t[Min(heads)], index |-> Min(heads), parent |-> it.parent]
        [] it.entry = NULL /\ heads = {} -> it
        [] OTHER -> [entry |-> NULL, parent |-> NULL, index |-> TableLength]

\* From it to the next entry of the table t, whose links are in heap.
Next_entry(it, t) ==
  LET from  == IF it.entry = NULL THEN 0 ELSE it.index + 1
      heads == {j \in DOMAIN t : j >= from /\ t[j] # NULL}
  IN  CASE it.entry # NULL /\ heap[it.entry].next # NULL ->
             [it EXCEPT !.parent = it.entry, !.entry = heap[it.entry].next]
        [] (it.entry = NULL \/ heap[it.entry].next = NULL) /\ heads # {} ->
             [entry  |-> t[Min(heads)], index |-> Min(heads),
              parent |-> IF it.entry = NULL THEN it.parent ELSE NULL]
        [] it.entry = NULL /\ heads = {} -> it
        [] OTHER -> [entry |-> NULL, parent |-> NULL, index |-> TableLength]

Advance ==
  /\ state = "open" /\ iter \notin {NoIter, Lapsed}
  /\ iter' = Next_entry(iter, table)
  /\ Return(<<"advance">>, IF iter'.entry # NULL THEN 1 ELSE 0)
  /\ UNCHANGED tableVars

GetKey ==
  /\ state = "open" /\ iter.entry # NULL
  /\ Return(<<"get_key">>, heap[iter.entry].key)
  /\ UNCHANGED <<tableVars, iter>>

GetValue ==
  /\ state = "open" /\ iter.entry # NULL
  /\ Return(<<"get_value">>, heap[iter.entry].value)
  /\ UNCHANGED <<tableVars, iter>>

\* Faulty variant: the iterator keeps the removed entry as its parent.
IterRemove_KeepsParent ==
  /\ state = "open" /\ iter.entry # NULL
  /\ Unlink(iter.parent, iter.index, iter.entry)
  /\ entry_count' = entry_count - 1
  /\ LET next == Next_entry(iter, table')
     IN  /\ iter' = next
         /\ Outcome(<<"iter_remove">>, IF next.entry # NULL THEN 1 ELSE 0, {iter.entry}, {})
  /\ UNCHANGED <<state, prime_index>>

\* The entry is unlinked, the iterator advances from it, and where it would keep
\* the removed entry as its parent it keeps that one's parent.
IterRemove ==
  /\ state = "open" /\ iter.entry # NULL
  /\ Unlink(iter.parent, iter.index, iter.entry)
  /\ entry_count' = entry_count - 1
  /\ LET next == Next_entry(iter, table')
     IN  /\ iter' = [next EXCEPT !.parent = IF @ = iter.entry THEN iter.parent ELSE @]
         /\ Outcome(<<"iter_remove">>, IF next.entry # NULL THEN 1 ELSE 0, {iter.entry}, {})
  /\ UNCHANGED <<state, prime_index>>

IterSearch(k) ==
  /\ state = "open" /\ iter # NoIter
  /\ \/ /\ Found(k)
        /\ iter' = [entry  |-> Match(k), index |-> IndexFor(TableLength, k),
                    parent |-> Before(Bucket(k), Place(k))]
        /\ Return(<<"iter_search", k>>, 1)
     \/ ~Found(k) /\ UNCHANGED iter /\ Return(<<"iter_search", k>>, 0)
  /\ UNCHANGED tableVars

HtNext ==
  \/ \E min_size \in MinSizes : Create(min_size)
  \/ Free \/ Count \/ GrowByRealloc
  \/ CreateIter \/ FreeIter \/ Advance \/ GetKey \/ GetValue \/ IterRemove
  \/ \E k \in Keys :
       \/ \E v \in Given : Insert(k, v) \/ Change(k, v) \/ Inc(k, v) \/ Dec(k, v)
       \/ \E accepted \in Conditions : CondRemove(k, accepted)
       \/ Search(k) \/ IterSearch(k)

HtSpec == HtInit /\ [][HtNext]_htVars

-----------------------------------------------------------------------------

(***************************************************************************)
(* Type invariant: pointers are NULL or point to allocated entries.         *)
(***************************************************************************)
HtTypeOK ==
  LET Pointers == DOMAIN heap \cup {NULL}
  IN  /\ state \in {"none", "open", "undefined"}
      /\ prime_index \in 1 .. Len(Primes)
      /\ state = "open" => DOMAIN table = 0 .. Primes[prime_index] - 1
      /\ \A j \in DOMAIN table : table[j] \in Pointers
      /\ DOMAIN heap \subseteq Cells
      /\ \A e \in DOMAIN heap : heap[e] \in [key : Keys, value : Values, next : Pointers]
      /\ entry_count \in Nat
      /\ iter.entry \in Pointers /\ iter.parent \in Pointers

\* No sequence of calls loses an entry, links one twice or leaves one in a chain
\* where it will not be looked for, through any number of expansions, failed
\* allocations and removals (pet_hashtable.c:245-261, 336-337, 473, 661-665); and
\* entry_count, which decides about expansion, counts them (315, 326, 474, 669).
EveryEntryLinkedOnce ==
  /\ Len(Order) = Cardinality(DOMAIN heap) /\ ToSet(Order) = DOMAIN heap
  /\ \A j \in DOMAIN table : \A e \in ToSet(Chain(j)) :
       IndexFor(TableLength, heap[e].key) = j
  /\ entry_count = Cardinality(DOMAIN heap)

\* An iterator that stands at an entry knows the chain and the predecessor through
\* which removing that entry unlinks it and nothing else, however it came there and
\* whatever was inserted and removed around it since, the calls that end it apart; one
\* that stands nowhere keeps no stale parent for its next walk
\* (pet_hashtable.c:603-643, 661-665, 676-681, 710-712).
IteratorKnowsItsPlace ==
  IF iter.entry = NULL THEN iter.parent = NULL
  ELSE /\ iter.index \in DOMAIN table
       /\ \E n \in 1 .. Len(Chain(iter.index)) :
            /\ Chain(iter.index)[n] = iter.entry
            /\ Before(Chain(iter.index), n) = iter.parent

\* Running out of memory while the table grows is survived: realloc() is the way
\* out when calloc() fails (pet_hashtable.c:263, 316-319).
OutOfMemoryIsSurvived == state # "undefined"

(***************************************************************************)
(* The library implements the collection of pairs its header describes: the *)
(* pairs are the entries that can be reached from the table, and the        *)
(* iterator has still to visit the rest of its chain and the later chains.  *)
(***************************************************************************)
Reachable == ToSet(Order)
Remaining ==
  IF iter.entry = NULL THEN {}
  ELSE ToSet(ChainFrom(heap[iter.entry].next))
       \cup UNION {ToSet(Chain(j)) : j \in {j \in DOMAIN table : j > iter.index}}
Contents == [e \in Reachable |-> [key |-> heap[e].key, value |-> heap[e].value]]

Pairs == INSTANCE Multimap WITH
  open    <- state # "none",
  pairs   <- Contents,
  cursor  <- iter.entry,
  todo    <- Remaining,
  Entries <- Cells,
  Nobody  <- NULL

\* Every call returns, changes and frees what the abstract collection allows, and
\* an iterator visits every entry once, also while it removes (pet_hashtable.h).
ImplementsMultimap == Pairs!MapSpec

=============================================================================
