------------------------------- MODULE Multimap -------------------------------
(***************************************************************************)
(* What pet_hashtable.h promises to a caller: a finite collection of pairs  *)
(* (key, value) and at most one iterator over it.  Where entries lie, how   *)
(* the table grows and in which order it is walked are left open; so is     *)
(* which of the pairs with equal keys a call finds (pet_hashtable.h:94-98). *)
(*                                                                          *)
(* Every call leaves in result its name and arguments, what it returned and *)
(* the entries whose key and whose value it freed.                          *)
(***************************************************************************)
EXTENDS Integers, FiniteSets

CONSTANTS
  Keys,     \* keys; a set of integers, so that a call may return one
  Modulus,  \* values are uintptr_t: 0 .. Modulus-1, 0 being NULL
  Given,    \* the values callers pass in
  MinSizes, \* the sizes callers ask for
  Conditions,  \* for each cond_func, the values it is true of; remove() takes all
  Entries,  \* names for pairs in the collection
  Nobody    \* the name of no pair

Values == 0 .. Modulus - 1

VARIABLES
  open,    \* the collection exists
  pairs,   \* the pairs in it, by name
  cursor,  \* the pair the iterator stands at, or Nobody
  todo,    \* the pairs it has still to visit
  result   \* the outcome of the last call

mapVars == <<open, pairs, cursor, todo, result>>

Names      == DOMAIN pairs
Matches(k) == {e \in Names : pairs[e].key = k}
Without(e) == [d \in Names \ {e} |-> pairs[d]]
Holding(e, k, v) ==
  [d \in Names \cup {e} |-> IF d = e THEN [key |-> k, value |-> v] ELSE pairs[d]]

Outcome(call, ret, freedKeys, freedValues) ==
  result' = [call |-> call, ret |-> ret, freedKeys |-> freedKeys, freedValues |-> freedValues]
Return(call, ret) == Outcome(call, ret, {}, {})

MapInit ==
  /\ open = FALSE
  /\ pairs = [e \in {} |-> 0]
  /\ cursor = Nobody
  /\ todo = {}
  /\ result = [call |-> <<"none">>, ret |-> 0, freedKeys |-> {}, freedValues |-> {}]

Create(min_size) ==
  /\ \E ret \in {0, 1} : Return(<<"create", min_size>>, ret)
  /\ ~open
  /\ open' = (result'.ret = 1)
  /\ UNCHANGED <<pairs, cursor, todo>>

\* Everything goes: each key and each value is freed.
Free ==
  /\ Outcome(<<"free">>, 0, Names, Names)
  /\ open
  /\ open' = FALSE
  /\ pairs' = [e \in {} |-> 0]
  /\ UNCHANGED <<cursor, todo>>

\* The end of the iteration: the iterator may only be freed or moved by iter_search().
Lapse == cursor' = Nobody /\ todo' = {}

\* One more pair, which the iterator may or may not still come to, or out of memory
\* and none.  Growth, which may come with either, ends the iteration.
Insert(k, v) ==
  /\ open
  /\ \/ /\ Return(<<"insert", k>>, 0)
        /\ \E e \in Entries \ Names :
             /\ pairs' = Holding(e, k, v)
             /\ \/ UNCHANGED <<cursor, todo>>
                \/ cursor # Nobody /\ UNCHANGED cursor /\ todo' = todo \cup {e}
                \/ Lapse
     \/ Return(<<"insert", k>>, -1) /\ UNCHANGED pairs /\ (UNCHANGED <<cursor, todo>> \/ Lapse)
  /\ UNCHANGED open

\* The value of one pair is freed and replaced.
Change(k, v) ==
  /\ open
  /\ \/ \E e \in Matches(k) :
          Outcome(<<"change", k>>, 0, {}, {e}) /\ pairs' = Holding(e, k, v)
     \/ Return(<<"change", k>>, -1) /\ Matches(k) = {} /\ UNCHANGED pairs
  /\ UNCHANGED <<open, cursor, todo>>

\* The value of one pair grows by v, or falls.
Add(call, k, v) ==
  /\ open
  /\ \/ /\ Return(call, 0)
        /\ \E e \in Matches(k) : pairs' = Holding(e, k, (pairs[e].value + v) % Modulus)
     \/ Return(call, -1) /\ Matches(k) = {} /\ UNCHANGED pairs
  /\ UNCHANGED <<open, cursor, todo>>
Inc(k, v) == Add(<<"inc", k>>, k, v)
Dec(k, v) == Add(<<"dec", k>>, k, -v)

Search(k) ==
  /\ open
  /\ \/ \E e \in Matches(k) : Return(<<"search", k>>, pairs[e].value)
     \/ Return(<<"search", k>>, 0) /\ Matches(k) = {}
  /\ UNCHANGED <<open, pairs, cursor, todo>>

Count ==
  /\ Return(<<"count">>, Cardinality(Names))
  /\ open
  /\ UNCHANGED <<open, pairs, cursor, todo>>

\* One pair with an accepted value goes; its key is freed, and its value returned
\* and not freed.
CondRemove(k, accepted) ==
  /\ open
  /\ \/ \E e \in Matches(k) :
          /\ pairs[e].value \in accepted
          /\ Outcome(<<"remove", k, accepted>>, pairs[e].value, {e}, {})
          /\ pairs' = Without(e)
          /\ \/ cursor # e /\ UNCHANGED cursor /\ todo' = todo \ {e}
             \/ Lapse
     \/ /\ Return(<<"remove", k, accepted>>, 0)
        /\ Matches(k) = {} \/ \E e \in Matches(k) : pairs[e].value \notin accepted
        /\ UNCHANGED <<pairs, cursor, todo>>
  /\ UNCHANGED open

-----------------------------------------------------------------------------
(***************************************************************************)
(* The iterator visits every pair once.                                     *)
(***************************************************************************)

CreateIter ==
  /\ \E ret \in {0, 1} : Return(<<"create_iter">>, ret)
  /\ open
  /\ UNCHANGED <<open, pairs, cursor, todo>>

FreeIter ==
  /\ Return(<<"free_iter">>, 0)
  /\ cursor' = Nobody
  /\ todo' = {}
  /\ UNCHANGED <<open, pairs>>

\* To one of the pairs in rest, or past the end of them.
MoveOn(call, rest, freedKeys) ==
  \/ /\ Outcome(call, 1, freedKeys, {})
     /\ \E e \in rest : cursor' = e /\ todo' = rest \ {e}
  \/ /\ Outcome(call, 0, freedKeys, {})
     /\ rest = {} /\ cursor' = Nobody /\ todo' = {}

Advance ==
  /\ MoveOn(<<"advance">>, IF cursor = Nobody THEN Names ELSE todo, {})
  /\ UNCHANGED <<open, pairs>>

GetKey ==
  /\ cursor # Nobody
  /\ Return(<<"get_key">>, pairs[cursor].key)
  /\ UNCHANGED <<open, pairs, cursor, todo>>

GetValue ==
  /\ cursor # Nobody
  /\ Return(<<"get_value">>, pairs[cursor].value)
  /\ UNCHANGED <<open, pairs, cursor, todo>>

\* The pair under the iterator, and only that one, goes; its value is not freed.
IterRemove ==
  /\ cursor # Nobody
  /\ MoveOn(<<"iter_remove">>, todo, {cursor})
  /\ pairs' = Without(cursor)
  /\ UNCHANGED open

\* The iterator jumps to a pair; which others are still to come is left open.
IterSearch(k) ==
  /\ open
  /\ \/ /\ Return(<<"iter_search", k>>, 1)
        /\ \E e \in Matches(k) : cursor' = e /\ todo' \in SUBSET (Names \ {e})
     \/ Return(<<"iter_search", k>>, 0) /\ Matches(k) = {} /\ UNCHANGED <<cursor, todo>>
  /\ UNCHANGED <<open, pairs>>

MapNext ==
  \/ \E min_size \in MinSizes : Create(min_size)
  \/ Free \/ Count
  \/ CreateIter \/ FreeIter \/ Advance \/ GetKey \/ GetValue \/ IterRemove
  \/ \E k \in Keys :
       \/ \E v \in Given : Insert(k, v) \/ Change(k, v) \/ Inc(k, v) \/ Dec(k, v)
       \/ \E accepted \in Conditions : CondRemove(k, accepted)
       \/ Search(k) \/ IterSearch(k)

MapSpec == MapInit /\ [][MapNext]_mapVars

=============================================================================
