-------------------------------- MODULE PetList --------------------------------
(***************************************************************************)
(* struct list_head of pet_list.h: rings of nodes with next and prev.  The  *)
(* functions are operators from links to links, in the order of their       *)
(* assignments, and a call is one step, for it runs in its caller's thread. *)
(*                                                                          *)
(* The caller is the one the header takes for granted: it knows what is in  *)
(* a list, puts nothing into two, and in the body of a loop leaves alone the *)
(* node from which the loop goes on.                                        *)
(***************************************************************************)
EXTENDS ListPoison, Integers, Sequences, FiniteSets

CONSTANTS
  Heads,         \* the nodes that are list heads
  Entries,       \* the nodes inside of entries
  NoRing,        \* the ring of a node in no list
  NoLoop         \* the value of loop outside of loops

Nodes    == Heads \cup Entries
Pointers == Nodes \cup Nowhere

ASSUME NodesAssumption ==
  /\ Heads \cap Entries = {}
  /\ (Nowhere \cup {NoRing}) \cap Nodes = {}
  /\ \A h \in Heads, dir \in {"next", "prev"}, safe \in BOOLEAN :
       NoLoop # [head |-> h, dir |-> dir, safe |-> safe]

VARIABLES
  links,  \* the next and the prev of every node
  ring,   \* what the caller knows: the head of the list that a node is in
  loop,   \* the loop being run: its head, its direction, whether it is a _safe one
  pos,    \* the loop's cursor, which keeps its value afterwards
  n,      \* the node a _safe loop goes on from
  call    \* the last call, and what it returned

loopVars == <<loop, pos, n>>
listVars == <<links, ring, loop, pos, n, call>>

-----------------------------------------------------------------------------
(***************************************************************************)
(* The functions.                                                           *)
(***************************************************************************)

INIT_LIST_HEAD(l, x) == [l EXCEPT !.next[x] = x, !.prev[x] = x]

link_between(l, new, p, q) ==
  [l EXCEPT !.prev[q] = new, !.next[new] = q, !.prev[new] = p, !.next[p] = new]

\* Faulty variant: at the wrong end of the list.
list_add_AtTail(l, new, head) == link_between(l, new, l.prev[head], head)

list_add(l, new, head)      == link_between(l, new, head, l.next[head])
list_add_tail(l, new, head) == link_between(l, new, l.prev[head], head)

\* Faulty variant: only the forward link skips the entry.
unlink_OneWay(l, e) == [l EXCEPT !.next[l.prev[e]] = l.next[e]]

unlink(l, e) == [l EXCEPT !.prev[l.next[e]] = l.prev[e], !.next[l.prev[e]] = l.next[e]]

list_del(l, e) == [unlink(l, e) EXCEPT !.next[e] = LIST_POISON1, !.prev[e] = LIST_POISON2]
list_del_init(l, e)        == INIT_LIST_HEAD(unlink(l, e), e)

list_move(l, e, head)      == list_add(unlink(l, e), e, head)
list_move_tail(l, e, head) == list_add_tail(unlink(l, e), e, head)

list_empty(l, head)         == l.next[head] = head
list_empty_careful(l, head) == l.next[head] = head /\ l.prev[head] = head

\* The ring of list, without list itself, goes in behind head.
splice(l, list, head) ==
  LET first == l.next[list]
      last  == l.prev[list]
      at    == l.next[head]
  IN  [l EXCEPT !.prev[first] = head, !.next[head] = first,
                !.next[last] = at, !.prev[at] = last]
list_splice(l, list, head) == IF list_empty(l, list) THEN l ELSE splice(l, list, head)
list_splice_init(l, list, head) ==
  IF list_empty(l, list) THEN l ELSE INIT_LIST_HEAD(splice(l, list, head), list)

-----------------------------------------------------------------------------
(***************************************************************************)
(* The calls.                                                               *)
(***************************************************************************)

\* Heads by LIST_HEAD(), entries by calloc().
ListInit ==
  /\ links = [next |-> [x \in Nodes |-> IF x \in Heads THEN x ELSE NULL],
              prev |-> [x \in Nodes |-> IF x \in Heads THEN x ELSE NULL]]
  /\ ring = [x \in Nodes |-> IF x \in Heads THEN x ELSE NoRing]
  /\ loop = NoLoop
  /\ pos = NULL
  /\ n = NULL
  /\ call = <<"none">>

\* The node that the loop will go on from: the body must not unlink or move it.
Foothold == IF loop = NoLoop THEN {} ELSE IF loop.safe THEN {n} ELSE {pos}

\* A node in no list, or the head of an empty one.
Reinit(x) ==
  /\ ring[x] = NoRing \/ (ring[x] = x /\ list_empty(links, x))
  /\ links' = INIT_LIST_HEAD(links, x)
  /\ ring' = IF x \in Heads THEN [ring EXCEPT ![x] = x] ELSE ring
  /\ call' = <<"init", x>>
  /\ UNCHANGED loopVars

Link(e, at) ==
  /\ ring[e] = NoRing /\ ring[at] # NoRing
  /\ ring' = [ring EXCEPT ![e] = ring[at]]
  /\ UNCHANGED loopVars
Add(e, at)     == Link(e, at) /\ links' = list_add(links, e, at) /\ call' = <<"add", e, at>>
AddTail(e, at) ==
  Link(e, at) /\ links' = list_add_tail(links, e, at) /\ call' = <<"add_tail", e, at>>

Unlink(e) ==
  /\ ring[e] # NoRing /\ e \notin Foothold
  /\ ring' = [ring EXCEPT ![e] = NoRing]
  /\ UNCHANGED loopVars
Del(e)     == Unlink(e) /\ links' = list_del(links, e) /\ call' = <<"del", e>>
DelInit(e) == Unlink(e) /\ links' = list_del_init(links, e) /\ call' = <<"del_init", e>>

Relink(e, at) ==
  /\ ring[e] # NoRing /\ ring[at] # NoRing /\ e # at /\ e \notin Foothold
  /\ ring' = [ring EXCEPT ![e] = ring[at]]
  /\ UNCHANGED loopVars
Move(e, at)     == Relink(e, at) /\ links' = list_move(links, e, at) /\ call' = <<"move", e, at>>
MoveTail(e, at) ==
  Relink(e, at) /\ links' = list_move_tail(links, e, at) /\ call' = <<"move_tail", e, at>>

\* The head g keeps its links under list_splice(): unless its list was empty it is
\* in no ring then, though it still points into one.
Join(g, at, left) ==
  /\ ring[g] = g /\ ring[at] \notin {NoRing, g}
  /\ loop # NoLoop => loop.head # g
  /\ ring' = [x \in Nodes |-> CASE x = g -> left
                                [] x # g /\ ring[x] = g -> ring[at]
                                [] OTHER -> ring[x]]
  /\ UNCHANGED loopVars
Splice(g, at) ==
  /\ Join(g, at, IF list_empty(links, g) THEN g ELSE NoRing)
  /\ links' = list_splice(links, g, at)
  /\ call' = <<"splice", g, at>>
SpliceInit(g, at) ==
  /\ Join(g, at, g)
  /\ links' = list_splice_init(links, g, at)
  /\ call' = <<"splice_init", g, at>>

Empty(h) ==
  /\ ring[h] = h
  /\ call' \in {<<"empty", h, list_empty(links, h)>>, <<"empty", h, list_empty_careful(links, h)>>}
  /\ UNCHANGED <<links, ring, loopVars>>

FirstEntry(h) ==
  /\ ring[h] = h /\ ~list_empty(links, h)
  /\ call' = <<"first_entry", h, links.next[h]>>
  /\ UNCHANGED <<links, ring, loopVars>>

-----------------------------------------------------------------------------
(***************************************************************************)
(* The loops.  A step goes from one execution of the body to the next, or   *)
(* out of the loop, which ends with the cursor at the head.                  *)
(***************************************************************************)

Turn(lp, p) ==
  /\ pos' = p
  /\ loop' = IF p = lp.head THEN NoLoop ELSE lp
  /\ n' = IF p # lp.head /\ lp.safe THEN links[lp.dir][p] ELSE NULL
  /\ UNCHANGED <<links, ring>>

ForEach(h, dir, safe) ==
  /\ loop = NoLoop /\ ring[h] = h
  /\ Turn([head |-> h, dir |-> dir, safe |-> safe], links[dir][h])
  /\ call' = <<"for_each", h, dir>>

\* The _continue and _from variants start behind or at an entry.
Continue(e, safe) ==
  /\ loop = NoLoop /\ ring[e] # NoRing
  /\ Turn([head |-> ring[e], dir |-> "next", safe |-> safe], links.next[e])
  /\ call' = <<"continue", e>>
From(e, safe) ==
  /\ loop = NoLoop /\ ring[e] # NoRing
  /\ Turn([head |-> ring[e], dir |-> "next", safe |-> safe], e)
  /\ call' = <<"from", e>>

\* Faulty variant: a _safe loop goes on from its cursor like any other.
Iterate_Unsafe ==
  /\ loop # NoLoop
  /\ pos \in Nodes
  /\ Turn(loop, links[loop.dir][pos])
  /\ call' = <<"iterate">>

Iterate ==
  /\ loop # NoLoop
  /\ Turn(loop, IF loop.safe THEN n ELSE links[loop.dir][pos])
  /\ call' = <<"iterate">>

Break ==
  /\ loop # NoLoop
  /\ loop' = NoLoop /\ n' = NULL
  /\ call' = <<"break">>
  /\ UNCHANGED <<links, ring, pos>>

ListNext ==
  \/ \E x \in Nodes : Reinit(x)
  \/ \E e \in Entries, at \in Nodes :
       Add(e, at) \/ AddTail(e, at) \/ Move(e, at) \/ MoveTail(e, at)
  \/ \E e \in Entries : Del(e) \/ DelInit(e)
  \/ \E g \in Heads, at \in Nodes : Splice(g, at) \/ SpliceInit(g, at)
  \/ \E h \in Heads : Empty(h) \/ FirstEntry(h)
  \/ \E safe \in BOOLEAN :
       \/ \E h \in Heads, dir \in {"next", "prev"} : ForEach(h, dir, safe)
       \/ \E e \in Entries : Continue(e, safe) \/ From(e, safe)
  \/ Iterate \/ Break

ListSpec == ListInit /\ [][ListNext]_listVars

-----------------------------------------------------------------------------

(***************************************************************************)
(* Type invariant.                                                          *)
(***************************************************************************)
ListTypeOK ==
  /\ links \in [next : [Nodes -> Pointers], prev : [Nodes -> Pointers]]
  /\ ring \in [Nodes -> Heads \cup {NoRing}]
  /\ loop \in [head : Heads, dir : {"next", "prev"}, safe : BOOLEAN] \cup {NoLoop}
  /\ pos \in Nodes \cup {NULL}
  /\ n \in Nodes \cup {NULL}

\* No sequence of calls tears a ring open: whatever is in a list has two neighbours in
\* the same list that point back at it, and no pointer of a list leads to a node that
\* was deleted or to a head that was left behind (pet_list.h:85-248).
RingsClosed ==
  \A x \in Nodes : ring[x] # NoRing =>
    /\ links.next[x] \in Nodes /\ links.prev[links.next[x]] = x
    /\ links.prev[x] \in Nodes /\ links.next[links.prev[x]] = x
    /\ ring[links.next[x]] = ring[x] /\ ring[links.prev[x]] = ring[x]

\* Whatever the body of a loop does, the loop goes on from a node that is still in its
\* list: a _safe loop also when the body deletes the entry, poisons and frees it
\* (pet_list.h:276-419).
LoopStaysInItsList ==
  loop # NoLoop => pos \in Entries /\ \A x \in Foothold : x \in Nodes /\ ring[x] = loop.head

(***************************************************************************)
(* The rings implement lists: an entry is in its list at the place where    *)
(* the links lead to it, and a loop has still to visit what lies between    *)
(* the node it goes on from and its head.                                   *)
(***************************************************************************)

\* The nodes met from x on in direction dir before h, which is met in time.
Path(x, h, dir) ==
  LET size == Cardinality(Nodes)
      node[i \in 0 .. size] ==
        IF i = 0 THEN x
        ELSE LET y == node[i - 1] IN IF y \in Nodes THEN links[dir][y] ELSE NULL
      ends == {i \in 0 .. size : node[i] = h}
  IN  IF ends = {} THEN <<"lost">>
      ELSE [i \in 1 .. (CHOOSE i \in ends : \A j \in ends : i <= j) |-> node[i - 1]]

Rings == INSTANCE Lists WITH
  lists  <- [h \in Heads |-> IF ring[h] = h THEN Path(links.next[h], h, "next") ELSE NoRing],
  cursor <- IF loop = NoLoop THEN NULL ELSE pos,
  todo   <- IF loop = NoLoop THEN <<>>
            ELSE Path(IF loop.safe THEN n ELSE links[loop.dir][pos], loop.head, loop.dir),
  NoList <- NoRing,
  Nobody <- NULL

\* Every call does to the lists what it says, and a loop visits each entry once and in
\* order, whatever its body deletes, adds, moves or joins (pet_list.h).
RingsImplementLists == Rings!ListsSpec

=============================================================================
