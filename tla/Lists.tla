--------------------------------- MODULE Lists ---------------------------------
(***************************************************************************)
(* What pet_list.h promises: some lists, each a sequence of entries, calls   *)
(* that put, remove, move and join, and one loop at a time.  How entries are *)
(* linked is left open; so is whether a loop still meets an entry that its   *)
(* body puts into the list or moves.                                         *)
(***************************************************************************)
EXTENDS Integers, Sequences

CONSTANTS
  Heads,    \* the names of the lists
  Entries,
  NoList,   \* the value of a list whose head list_splice() left behind
  Nobody    \* no entry

VARIABLES
  lists,    \* the entries of each list, in order
  cursor,   \* the entry whose turn it is in the loop, or Nobody
  todo,     \* the entries the loop has still to visit, in its order
  call      \* the last call

listsVars == <<lists, cursor, todo, call>>

Elements(s)   == {s[i] : i \in 1 .. Len(s)}
Live          == {h \in Heads : lists[h] # NoList}
In(h)         == Elements(lists[h])
Free          == {e \in Entries : \A h \in Live : e \notin In(h)}
Without(s, E) == SelectSeq(s, LAMBDA x : x \notin E)
Reversed(s)   == [i \in 1 .. Len(s) |-> s[Len(s) + 1 - i]]
From(s, i)    == SubSeq(s, i, Len(s))

\* s with t behind its first i elements.
Spliced(s, i, t) == SubSeq(s, 1, i) \o t \o From(s, i + 1)

\* "Behind at": behind an entry, or at the start of the list at.  "Before at": before
\* an entry, or at the end of the list at.
Home(at)      == IF at \in Heads THEN at ELSE CHOOSE h \in Live : at \in In(h)
Index(s, at)  == CHOOSE i \in 1 .. Len(s) : s[i] = at
Behind(s, at) == IF at \in Heads THEN 0 ELSE Index(s, at)
Before(s, at) == IF at \in Heads THEN Len(s) ELSE Index(s, at) - 1
Places        == Live \cup UNION {In(h) : h \in Live}

\* What a loop has still to visit changes by the entries E only.
Disturb(E) ==
  /\ Without(todo', E) = Without(todo, E)
  /\ cursor = Nobody => todo' = todo
  /\ UNCHANGED cursor

ListsInit ==
  /\ lists = [h \in Heads |-> <<>>]
  /\ cursor = Nobody
  /\ todo = <<>>
  /\ call = <<"none">>

\* A head becomes an empty list; nothing is lost by it.
Reset(h) ==
  /\ call' = <<"init", h>>
  /\ lists[h] \in {<<>>, NoList}
  /\ lists' = [lists EXCEPT ![h] = <<>>]
  /\ UNCHANGED <<cursor, todo>>

InitEntry(e) ==
  /\ call' = <<"init", e>>
  /\ e \in Free
  /\ UNCHANGED <<lists, cursor, todo>>

PutAt(e, at, Place(_, _)) ==
  LET h == Home(at) IN lists' = [lists EXCEPT ![h] = Spliced(@, Place(@, at), <<e>>)]

Put(e, at) ==
  /\ \/ call' = <<"add", e, at>> /\ PutAt(e, at, Behind)
     \/ call' = <<"add_tail", e, at>> /\ PutAt(e, at, Before)
  /\ e \in Free /\ at \in Places
  /\ Disturb({e})

Taken(e) == [h \in Heads |-> IF h \in Live THEN Without(lists[h], {e}) ELSE NoList]

Remove(e) ==
  /\ call' \in {<<"del", e>>, <<"del_init", e>>}
  /\ e \notin Free
  /\ lists' = Taken(e)
  /\ todo' = Without(todo, {e})
  /\ UNCHANGED cursor

\* del_init leaves alone what is in no list.
RemoveNothing(e) ==
  /\ call' = <<"del_init", e>>
  /\ e \in Free
  /\ UNCHANGED <<lists, cursor, todo>>

MoveTo(e, at, Place(_, _)) ==
  LET h == Home(at)
  IN  lists' = [Taken(e) EXCEPT ![h] = Spliced(@, Place(@, at), <<e>>)]

Move(e, at) ==
  /\ \/ call' = <<"move", e, at>> /\ MoveTo(e, at, Behind)
     \/ call' = <<"move_tail", e, at>> /\ MoveTo(e, at, Before)
  /\ e \notin Free /\ at \in Places \ {e}
  /\ Disturb({e})

\* The entries of g go behind at; an empty g is left alone.
Join(g, at) ==
  /\ \/ call' = <<"splice", g, at>>
     \/ call' = <<"splice_init", g, at>>
  /\ g \in Live /\ at \in Places /\ Home(at) # g
  /\ LET h == Home(at)
     IN  lists' = [lists EXCEPT
           ![h] = Spliced(@, Behind(@, at), lists[g]),
           ![g] = IF call'[1] = "splice_init" \/ @ = <<>> THEN <<>> ELSE NoList]
  /\ Disturb(In(g))

Test(h) ==
  /\ call' = <<"empty", h, lists[h] = <<>>>> /\ h \in Live
  /\ UNCHANGED <<lists, cursor, todo>>

First(h) ==
  /\ h \in Live /\ lists[h] # <<>>
  /\ call' = <<"first_entry", h, Head(lists[h])>>
  /\ UNCHANGED <<lists, cursor, todo>>

\* The next entry of s has its turn; a loop that has none left is over.
Visit(s) ==
  IF s = <<>> THEN cursor' = Nobody /\ todo' = <<>>
  ELSE cursor' = Head(s) /\ todo' = Tail(s)

\* A loop visits a list, forwards or backwards, or what is behind or from an entry of it.
Begin(h) ==
  /\ h \in Live /\ cursor = Nobody
  /\ LET l == lists[h]
     IN  \/ call' = <<"for_each", h, "next">> /\ Visit(l)
         \/ call' = <<"for_each", h, "prev">> /\ Visit(Reversed(l))
         \/ \E e \in Elements(l) :
              \/ call' = <<"continue", e>> /\ Visit(From(l, Index(l, e) + 1))
              \/ call' = <<"from", e>> /\ Visit(From(l, Index(l, e)))
  /\ UNCHANGED lists

Iterate ==
  /\ call' = <<"iterate">>
  /\ cursor # Nobody
  /\ Visit(todo)
  /\ UNCHANGED lists

Break ==
  /\ call' = <<"break">>
  /\ cursor # Nobody
  /\ cursor' = Nobody /\ todo' = <<>>
  /\ UNCHANGED lists

ListsNext ==
  \/ \E h \in Heads : Reset(h) \/ Test(h) \/ First(h) \/ Begin(h)
  \/ \E e \in Entries : InitEntry(e) \/ Remove(e) \/ RemoveNothing(e)
  \/ \E at \in Heads \cup Entries :
       \/ \E e \in Entries : Put(e, at) \/ Move(e, at)
       \/ \E g \in Heads : Join(g, at)
  \/ Iterate \/ Break

ListsSpec == ListsInit /\ [][ListsNext]_listsVars

=============================================================================
