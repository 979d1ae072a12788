----------------------------- MODULE PetListProofs -----------------------------
(***************************************************************************)
(* Rings stay closed and loops stay in them, for any number of heads,       *)
(* entries and calls.                                                       *)
(*                                                                          *)
(* No argument walks along a ring: that the two pointers of every node in a *)
(* list are each other's inverse is a fact about neighbours, and every      *)
(* function changes the neighbours of few nodes.                            *)
(***************************************************************************)
EXTENDS ListExample, PetHlist, SequenceTheorems, TLAPS

Links == [next : [Nodes -> Pointers], prev : [Nodes -> Pointers]]
Bookkeeping == [Nodes -> Heads \cup {NoRing}]

\* RingsClosed, of any links l and any bookkeeping r.
Closed(l, r) ==
  \A x \in Nodes : r[x] # NoRing =>
    /\ l.next[x] \in Nodes /\ l.prev[l.next[x]] = x
    /\ l.prev[x] \in Nodes /\ l.next[l.prev[x]] = x
    /\ r[l.next[x]] = r[x] /\ r[l.prev[x]] = r[x]

(***************************************************************************)
(* A node in no list may point anywhere: no list leads to it.               *)
(***************************************************************************)
LEMMA StrayClosed ==
  ASSUME NEW l \in Links, NEW r \in Bookkeeping, Closed(l, r),
         NEW e \in Nodes, r[e] = NoRing, NEW a \in Pointers, NEW b \in Pointers,
         NEW m, m = [l EXCEPT !.next[e] = a, !.prev[e] = b]
  PROVE  m \in Links /\ Closed(m, r)
<1>1. /\ m \in Links
      /\ \A x \in Nodes : m.next[x] = IF x = e THEN a ELSE l.next[x]
      /\ \A x \in Nodes : m.prev[x] = IF x = e THEN b ELSE l.prev[x]
  BY DEF Links
<1>2. QED
  BY <1>1 DEF Closed

(***************************************************************************)
(* list_add() and list_add_tail() close the ring around a new node.         *)
(***************************************************************************)
LEMMA LinkClosed ==
  ASSUME NEW l \in Links, NEW r \in Bookkeeping, Closed(l, r),
         NEW new \in Nodes, r[new] = NoRing,
         NEW p \in Nodes, r[p] # NoRing, NEW q \in Nodes, q = l.next[p],
         NEW m, m = link_between(l, new, p, q),
         NEW s, s = [r EXCEPT ![new] = r[p]]
  PROVE  m \in Links /\ Closed(m, s)
<1>1. r[q] = r[p] /\ l.prev[q] = p /\ new # q /\ new # p
  BY DEF Closed
<1>2. /\ m \in Links
      /\ \A x \in Nodes : m.next[x] = IF x = p THEN new ELSE IF x = new THEN q ELSE l.next[x]
      /\ \A x \in Nodes : m.prev[x] = IF x = new THEN p ELSE IF x = q THEN new ELSE l.prev[x]
  BY <1>1 DEF link_between, Links, Pointers
<1>3. \A x \in Nodes : s[x] = IF x = new THEN r[p] ELSE r[x]
  BY DEF Bookkeeping
<1>4. QED
  BY <1>1, <1>2, <1>3 DEF Closed

(***************************************************************************)
(* The neighbours of an unlinked node become neighbours of each other.      *)
(***************************************************************************)
LEMMA UnlinkClosed ==
  ASSUME NEW l \in Links, NEW r \in Bookkeeping, Closed(l, r),
         NEW e \in Nodes, r[e] # NoRing,
         NEW m, m = unlink(l, e),
         NEW s, s = [r EXCEPT ![e] = NoRing]
  PROVE  m \in Links /\ Closed(m, s)
<1>1. l.next[e] \in Nodes /\ l.prev[e] \in Nodes
  BY DEF Closed
<1>2. /\ m \in Links
      /\ \A x \in Nodes : m.next[x] = IF x = l.prev[e] THEN l.next[e] ELSE l.next[x]
      /\ \A x \in Nodes : m.prev[x] = IF x = l.next[e] THEN l.prev[e] ELSE l.prev[x]
  BY <1>1 DEF unlink, Links, Pointers
<1>3. \A x \in Nodes : s[x] = IF x = e THEN NoRing ELSE r[x]
  BY DEF Bookkeeping
<1>4. QED
  BY <1>1, <1>2, <1>3 DEF Closed

(***************************************************************************)
(* A node in no list, made to point at itself, is a list of its own.        *)
(***************************************************************************)
LEMMA ResetClosed ==
  ASSUME NEW l \in Links, NEW r \in Bookkeeping, Closed(l, r),
         NEW h \in Nodes, r[h] = NoRing \/ l.next[h] = h,
         NEW m, m = INIT_LIST_HEAD(l, h)
  PROVE  /\ m \in Links
         /\ Closed(m, r)
         /\ \A g \in Heads : Closed(m, [r EXCEPT ![h] = g])
<1>1. /\ m \in Links
      /\ \A x \in Nodes : m.next[x] = IF x = h THEN h ELSE l.next[x]
      /\ \A x \in Nodes : m.prev[x] = IF x = h THEN h ELSE l.prev[x]
  BY DEF INIT_LIST_HEAD, Links, Pointers
<1>2. \A x \in Nodes : r[x] # NoRing /\ x # h => l.next[x] # h /\ l.prev[x] # h
  BY DEF Closed
<1>3. Closed(m, r)
  BY <1>1, <1>2 DEF Closed
<1>4. ASSUME NEW g \in Heads
      PROVE  Closed(m, [r EXCEPT ![h] = g])
  <2>1. \A x \in Nodes : [r EXCEPT ![h] = g][x] = IF x = h THEN g ELSE r[x]
    BY DEF Bookkeeping
  <2>2. QED
    BY <1>1, <1>2, <2>1 DEF Closed
<1>5. QED
  BY <1>1, <1>3, <1>4

(***************************************************************************)
(* list_splice() closes one ring out of two; the head left behind is in     *)
(* none.                                                                    *)
(***************************************************************************)
LEMMA SpliceClosed ==
  ASSUME NEW l \in Links, NEW r \in Bookkeeping, Closed(l, r),
         NEW g \in Nodes, r[g] = g, l.next[g] # g,
         NEW at \in Nodes, r[at] # NoRing, r[at] # g,
         NEW m, m = splice(l, g, at),
         NEW s \in Bookkeeping,
         \A x \in Nodes : s[x] = IF x = g THEN NoRing ELSE IF r[x] = g THEN r[at] ELSE r[x]
  PROVE  m \in Links /\ Closed(m, s)
<1> DEFINE first == l.next[g]
           last  == l.prev[g]
           after == l.next[at]
<1>0. g # NoRing
  BY NodesAssumption
<1>1. /\ first \in Nodes /\ last \in Nodes /\ after \in Nodes
      /\ r[first] = g /\ r[last] = g /\ r[after] = r[at]
      /\ first # g /\ last # g
      /\ l.prev[first] = g /\ l.next[last] = g /\ l.prev[after] = at /\ l.next[at] = after
  BY <1>0 DEF Closed
<1>2. /\ m \in Links
      /\ \A x \in Nodes : m.next[x] = IF x = last THEN after ELSE IF x = at THEN first ELSE l.next[x]
      /\ \A x \in Nodes : m.prev[x] = IF x = after THEN last ELSE IF x = first THEN at ELSE l.prev[x]
  BY <1>1 DEF splice, Links, Pointers
<1> HIDE DEF first, last, after
<1>3. \A x \in Nodes : r[x] # NoRing /\ l.next[x] = g => x = last
  BY <1>0, <1>1 DEF Closed, last
<1>4. \A x \in Nodes : r[x] # NoRing /\ l.prev[x] = g => x = first
  BY <1>0, <1>1 DEF Closed, first
<1>5. ASSUME NEW x \in Nodes, s[x] # NoRing
      PROVE  /\ m.next[x] \in Nodes /\ m.prev[m.next[x]] = x
             /\ m.prev[x] \in Nodes /\ m.next[m.prev[x]] = x
             /\ s[m.next[x]] = s[x] /\ s[m.prev[x]] = s[x]
  <2>1. /\ x # g /\ r[x] # NoRing
        /\ l.next[x] \in Nodes /\ l.prev[l.next[x]] = x /\ r[l.next[x]] = r[x]
        /\ l.prev[x] \in Nodes /\ l.next[l.prev[x]] = x /\ r[l.prev[x]] = r[x]
    <3>1. x # g /\ r[x] # NoRing
      BY <1>0, <1>5
    <3>2. QED
      BY <3>1 DEF Closed
  <2>2. m.next[x] \in Nodes /\ m.prev[m.next[x]] = x /\ s[m.next[x]] = s[x]
    BY <1>0, <1>1, <1>2, <1>3, <2>1
  <2>3. m.prev[x] \in Nodes /\ m.next[m.prev[x]] = x /\ s[m.prev[x]] = s[x]
    BY <1>0, <1>1, <1>2, <1>4, <2>1
  <2>4. QED
    BY <2>2, <2>3
<1>6. QED
  BY <1>2, <1>5 DEF Closed

-----------------------------------------------------------------------------
(***************************************************************************)
(* The inductive invariant: no head is in another head's ring, so the node  *)
(* a loop meets is an entry until it meets its own head.                    *)
(***************************************************************************)
HeadsOwnRings == \A h \in Heads : ring[h] \in {h, NoRing}

ListInv == ListTypeOK /\ RingsClosed /\ HeadsOwnRings /\ LoopStaysInItsList

LEMMA InvParts ==
  ASSUME ListInv
  PROVE  links \in Links /\ ring \in Bookkeeping /\ Closed(links, ring)
  BY DEF ListInv, ListTypeOK, RingsClosed, Links, Bookkeeping, Closed

\* What a call that runs no loop has to show.
LEMMA CallInv ==
  ASSUME ListInv, UNCHANGED loopVars,
         links' \in Links, ring' \in Bookkeeping, Closed(links', ring'),
         \A h \in Heads : ring'[h] \in {h, NoRing},
         loop # NoLoop => \A x \in Foothold : x \in Nodes /\ ring'[x] = loop.head
  PROVE  ListInv'
  BY DEF ListInv, ListTypeOK, RingsClosed, HeadsOwnRings, LoopStaysInItsList, Foothold,
         Links, Bookkeeping, Closed, loopVars

LEMMA ReinitInv ==
  ASSUME ListInv, NEW x \in Nodes, Reinit(x)
  PROVE  ListInv'
<1>1. links' \in Links /\ ring' \in Bookkeeping /\ Closed(links', ring')
  BY InvParts, ResetClosed DEF Reinit, list_empty, Bookkeeping
<1>2. \A y \in Nodes : ring'[y] = ring[y] \/ (y = x /\ x \in Heads /\ ring'[y] = x)
  BY InvParts DEF Reinit, Bookkeeping
<1>3. loop # NoLoop => \A y \in Foothold : y \in Nodes /\ ring'[y] = loop.head
  BY <1>2, InvParts, NodesAssumption
  DEF ListInv, ListTypeOK, LoopStaysInItsList, Foothold, Reinit, Nodes
<1>4. QED
  BY <1>1, <1>2, <1>3, CallInv DEF Reinit, ListInv, HeadsOwnRings, Nodes

LEMMA AddInv ==
  ASSUME ListInv, NEW e \in Entries, NEW at \in Nodes, Add(e, at) \/ AddTail(e, at)
  PROVE  ListInv'
<1> USE InvParts
<1>1. /\ e \in Nodes /\ ring[e] = NoRing /\ ring[at] # NoRing
      /\ ring' = [ring EXCEPT ![e] = ring[at]]
      /\ UNCHANGED loopVars
  BY DEF Add, AddTail, Link, Nodes
<1>2. links' \in Links /\ Closed(links', ring')
  <2>1. CASE Add(e, at)
    <3>1. links' = link_between(links, e, at, links.next[at])
      BY <2>1 DEF Add, list_add
    <3>2. links.next[at] \in Nodes
      BY <1>1 DEF Closed
    <3>3. QED
      BY <1>1, <3>1, <3>2, LinkClosed
  <2>2. CASE AddTail(e, at)
    <3>1. links' = link_between(links, e, links.prev[at], at)
      BY <2>2 DEF AddTail, list_add_tail
    <3>2. /\ links.prev[at] \in Nodes /\ links.next[links.prev[at]] = at
          /\ ring[links.prev[at]] = ring[at]
      BY <1>1 DEF Closed
    <3>3. QED
      BY <1>1, <3>1, <3>2, LinkClosed
  <2>3. QED
    BY <2>1, <2>2
<1>3. ring' \in Bookkeeping /\ \A y \in Nodes : ring'[y] = IF y = e THEN ring[at] ELSE ring[y]
  BY <1>1 DEF Bookkeeping
<1>4. \A h \in Heads : ring'[h] \in {h, NoRing}
  BY <1>3, NodesAssumption DEF ListInv, HeadsOwnRings, Nodes
<1>5. loop # NoLoop => \A y \in Foothold : y \in Nodes /\ ring'[y] = loop.head
  BY <1>1, <1>3, NodesAssumption DEF ListInv, ListTypeOK, LoopStaysInItsList, Foothold, Nodes
<1>6. QED
  BY <1>1, <1>2, <1>3, <1>4, <1>5, CallInv

LEMMA DelInv ==
  ASSUME ListInv, NEW e \in Entries, Del(e) \/ DelInit(e)
  PROVE  ListInv'
<1> USE InvParts
<1>1. /\ e \in Nodes /\ ring[e] # NoRing /\ e \notin Foothold
      /\ ring' = [ring EXCEPT ![e] = NoRing]
      /\ UNCHANGED loopVars
  BY DEF Del, DelInit, Unlink, Nodes
<1>2. ring' \in Bookkeeping /\ \A y \in Nodes : ring'[y] = IF y = e THEN NoRing ELSE ring[y]
  BY <1>1 DEF Bookkeeping
<1>3. unlink(links, e) \in Links /\ Closed(unlink(links, e), ring')
  BY <1>1, UnlinkClosed
<1>4. links' \in Links /\ Closed(links', ring')
  <2>1. CASE Del(e)
    <3>1. links' = [unlink(links, e) EXCEPT !.next[e] = LIST_POISON1, !.prev[e] = LIST_POISON2]
      BY <2>1 DEF Del, list_del
    <3>2. LIST_POISON1 \in Pointers /\ LIST_POISON2 \in Pointers
      BY DEF Pointers, Nowhere
    <3>3. QED
      BY <1>1, <1>2, <1>3, <3>1, <3>2, StrayClosed
  <2>2. CASE DelInit(e)
    BY <1>1, <1>2, <1>3, <2>2, ResetClosed DEF DelInit, list_del_init
  <2>3. QED
    BY <2>1, <2>2
<1>5. \A h \in Heads : ring'[h] \in {h, NoRing}
  BY <1>2 DEF ListInv, HeadsOwnRings, Nodes
<1>6. loop # NoLoop => \A y \in Foothold : y \in Nodes /\ ring'[y] = loop.head
  BY <1>1, <1>2, NodesAssumption DEF ListInv, ListTypeOK, LoopStaysInItsList, Foothold, Nodes
<1>7. QED
  BY <1>1, <1>2, <1>4, <1>5, <1>6, CallInv

(***************************************************************************)
(* list_move() and list_move_tail() take a node out and link it again.      *)
(***************************************************************************)
LEMMA RelinkClosed ==
  ASSUME NEW l \in Links, NEW r \in Bookkeeping, Closed(l, r),
         NEW e \in Nodes, NEW at \in Nodes, e # at, r[e] # NoRing, r[at] # NoRing,
         NEW m, m = unlink(l, e), NEW t, t = [r EXCEPT ![e] = NoRing],
         NEW k, k = list_add(m, e, at) \/ k = list_add_tail(m, e, at),
         NEW s, s = [r EXCEPT ![e] = r[at]]
  PROVE  k \in Links /\ Closed(k, s)
<1>1. m \in Links /\ Closed(m, t)
  BY UnlinkClosed
<1>2. /\ t \in Bookkeeping /\ t[e] = NoRing /\ t[at] # NoRing
      /\ s = [t EXCEPT ![e] = t[at]]
  BY DEF Bookkeeping
<1>3. /\ m.next[at] \in Nodes /\ m.prev[at] \in Nodes
      /\ m.next[m.prev[at]] = at /\ t[m.prev[at]] = t[at]
  BY <1>1, <1>2 DEF Closed
<1>4. CASE k = list_add(m, e, at)
  <2>1. k = link_between(m, e, at, m.next[at])
    BY <1>4 DEF list_add
  <2>2. QED
    BY <1>1, <1>2, <1>3, <2>1, LinkClosed
<1>5. CASE k = list_add_tail(m, e, at)
  <2>1. k = link_between(m, e, m.prev[at], at)
    BY <1>5 DEF list_add_tail
  <2>2. s = [t EXCEPT ![e] = t[m.prev[at]]]
    BY <1>2, <1>3
  <2>3. QED
    BY <1>1, <1>2, <1>3, <2>1, <2>2, LinkClosed
<1>6. QED
  BY <1>4, <1>5

LEMMA MoveInv ==
  ASSUME ListInv, NEW e \in Entries, NEW at \in Nodes, Move(e, at) \/ MoveTail(e, at)
  PROVE  ListInv'
<1> USE InvParts
<1>1. /\ e \in Nodes /\ ring[e] # NoRing /\ ring[at] # NoRing /\ e # at /\ e \notin Foothold
      /\ ring' = [ring EXCEPT ![e] = ring[at]]
      /\ UNCHANGED loopVars
  BY DEF Move, MoveTail, Relink, Nodes
<1>2. \/ links' = list_add(unlink(links, e), e, at)
      \/ links' = list_add_tail(unlink(links, e), e, at)
  BY DEF Move, MoveTail, list_move, list_move_tail
<1>3. links' \in Links /\ Closed(links', ring')
  BY <1>1, <1>2, RelinkClosed
<1>4. ring' \in Bookkeeping /\ \A y \in Nodes : ring'[y] = IF y = e THEN ring[at] ELSE ring[y]
  BY <1>1 DEF Bookkeeping
<1>5. \A h \in Heads : ring'[h] \in {h, NoRing}
  BY <1>4, NodesAssumption DEF ListInv, HeadsOwnRings, Nodes
<1>6. loop # NoLoop => \A y \in Foothold : y \in Nodes /\ ring'[y] = loop.head
  BY <1>1, <1>4, NodesAssumption DEF ListInv, ListTypeOK, LoopStaysInItsList, Foothold, Nodes
<1>7. QED
  BY <1>1, <1>3, <1>4, <1>5, <1>6, CallInv

LEMMA SpliceInv ==
  ASSUME ListInv, NEW g \in Heads, NEW at \in Nodes, Splice(g, at) \/ SpliceInit(g, at)
  PROVE  ListInv'
<1> USE InvParts
<1> DEFINE joined(x) == IF ring[x] = g THEN ring[at] ELSE ring[x]
<1>1. /\ g \in Nodes /\ ring[g] = g /\ ring[at] # NoRing /\ ring[at] # g
      /\ UNCHANGED loopVars
      /\ loop # NoLoop => loop.head # g
  BY DEF Splice, SpliceInit, Join, Nodes
<1>2. PICK left \in {g, NoRing} :
        /\ ring' = [x \in Nodes |-> CASE x = g -> left
                                      [] x # g /\ ring[x] = g -> ring[at]
                                      [] OTHER -> ring[x]]
        /\ Splice(g, at) => left = IF list_empty(links, g) THEN g ELSE NoRing
        /\ SpliceInit(g, at) => left = g
  BY DEF Splice, SpliceInit, Join
<1>3. \A x \in Nodes : ring'[x] = IF x = g THEN left ELSE joined(x)
  BY <1>2
<1>4. ring' \in Bookkeeping
  BY <1>2 DEF Bookkeeping
<1>5. links' \in Links /\ Closed(links', ring')
  <2>1. CASE list_empty(links, g)
    <3>1. links' = links /\ left = g
      BY <1>2, <2>1 DEF Splice, SpliceInit, list_splice, list_splice_init
    <3>2. \A x \in Nodes : ring'[x] = joined(x) \/ (x = g /\ ring'[x] = g)
      BY <1>3, <3>1
    <3>3. g # NoRing /\ links.next[g] = g /\ links.prev[g] = g
      <4>1. g # NoRing
        BY <1>1, NodesAssumption
      <4>2. QED
        BY <1>1, <2>1, <4>1 DEF Closed, list_empty
    <3>4. ASSUME NEW x \in Nodes, ring'[x] # NoRing, x # g
          PROVE  /\ ring[x] # NoRing
                 /\ links.next[x] \in Nodes /\ links.next[x] # g
                 /\ links.prev[x] \in Nodes /\ links.prev[x] # g
      <4>1. ring[x] # NoRing
        BY <3>2, <3>3, <3>4
      <4>2. QED
        BY <3>3, <3>4, <4>1 DEF Closed
    <3>5. Closed(links, ring')
      BY <1>1, <1>3, <3>1, <3>3, <3>4 DEF Closed
    <3>6. QED
      BY <3>1, <3>5
  <2>2. CASE ~list_empty(links, g)
    <3> DEFINE s == [x \in Nodes |-> IF x = g THEN NoRing ELSE joined(x)]
               m == splice(links, g, at)
    <3>1. s \in Bookkeeping /\ ring' = [s EXCEPT ![g] = left]
      BY <1>2, <1>3 DEF Bookkeeping
    <3>2. m \in Links /\ Closed(m, s)
      <4>1. \A x \in Nodes : s[x] = IF x = g THEN NoRing ELSE IF ring[x] = g THEN ring[at] ELSE ring[x]
        OBVIOUS
      <4> HIDE DEF s
      <4>2. links.next[g] # g
        BY <2>2 DEF list_empty
      <4>3. QED
        BY <1>1, <3>1, <4>1, <4>2, SpliceClosed
    <3>3. s[g] = NoRing
      BY <1>1
    <3> HIDE DEF m, s
    <3>4. CASE left = NoRing
      <4>1. Splice(g, at) /\ links' = m
        BY <1>1, <1>2, <2>2, <3>4, NodesAssumption
        DEF Splice, SpliceInit, list_splice, m, Nodes
      <4>2. ring' = s
        BY <3>1, <3>3, <3>4 DEF Bookkeeping
      <4>3. QED
        BY <3>2, <4>1, <4>2
    <3>5. CASE left = g
      <4>1. links' = INIT_LIST_HEAD(m, g)
        BY <1>1, <1>2, <2>2, <3>5, NodesAssumption
        DEF Splice, SpliceInit, list_splice_init, m, Nodes
      <4>2. QED
        BY <1>1, <3>1, <3>2, <3>3, <3>5, <4>1, ResetClosed
    <3>6. QED
      BY <3>4, <3>5
  <2>3. QED
    BY <2>1, <2>2
<1>6. \A h \in Heads : ring'[h] \in {h, NoRing}
  BY <1>1, <1>3, NodesAssumption DEF ListInv, HeadsOwnRings, Nodes
<1>7. loop # NoLoop => \A y \in Foothold : y \in Nodes /\ ring'[y] = loop.head
  BY <1>1, <1>3, NodesAssumption DEF ListInv, ListTypeOK, LoopStaysInItsList, Foothold, Nodes
<1>8. QED
  BY <1>1, <1>4, <1>5, <1>6, <1>7, CallInv

LEMMA QueryInv ==
  ASSUME ListInv, UNCHANGED <<links, ring, loopVars>>
  PROVE  ListInv'
<1>1. /\ UNCHANGED loopVars
      /\ links' = links /\ ring' = ring
  OBVIOUS
<1>2. loop # NoLoop => \A y \in Foothold : y \in Nodes /\ ring'[y] = loop.head
  BY <1>1 DEF ListInv, LoopStaysInItsList
<1>3. QED
  BY <1>1, <1>2, InvParts, CallInv DEF ListInv, HeadsOwnRings

\* A loop goes from a node of its list to a node of its list.
LEMMA TurnInv ==
  ASSUME ListInv,
         NEW lp \in [head : Heads, dir : {"next", "prev"}, safe : BOOLEAN],
         NEW p \in Nodes, ring[p] = lp.head, Turn(lp, p)
  PROVE  ListInv'
<1> USE InvParts
<1>1. lp.head # NoRing /\ (p # lp.head => p \in Entries)
  BY NodesAssumption DEF ListInv, HeadsOwnRings, Nodes
<1>2. \A d \in {"next", "prev"} : links[d][p] \in Nodes /\ ring[links[d][p]] = lp.head
  BY <1>1 DEF Closed
<1>3. links' = links /\ ring' = ring /\ pos' = p
  BY DEF Turn
<1>4. CASE p = lp.head
  BY <1>3, <1>4
  DEF Turn, ListInv, ListTypeOK, RingsClosed, HeadsOwnRings, LoopStaysInItsList
<1>5. CASE p # lp.head
  <2>1. /\ loop' = lp
        /\ n' = IF lp.safe THEN links[lp.dir][p] ELSE NULL
    BY <1>5 DEF Turn
  <2>2. n' \in Nodes \cup {NULL}
    BY <1>2, <2>1
  <2>3. ListTypeOK'
    BY <1>3, <2>1, <2>2 DEF ListInv, ListTypeOK
  <2>4. RingsClosed' /\ HeadsOwnRings'
    BY <1>3 DEF ListInv, RingsClosed, HeadsOwnRings
  <2>5. LoopStaysInItsList'
    BY <1>1, <1>2, <1>3, <1>5, <2>1 DEF LoopStaysInItsList, Foothold
  <2>6. QED
    BY <2>3, <2>4, <2>5 DEF ListInv
<1>6. QED
  BY <1>4, <1>5

LEMMA LoopInv ==
  ASSUME ListInv,
         \/ \E safe \in BOOLEAN :
              \/ \E h \in Heads, dir \in {"next", "prev"} : ForEach(h, dir, safe)
              \/ \E e \in Entries : Continue(e, safe) \/ From(e, safe)
         \/ Iterate
  PROVE  ListInv'
<1> USE InvParts
<1> DEFINE Loop(h, d, s) == [head |-> h, dir |-> d, safe |-> s]
<1>1. ASSUME NEW safe \in BOOLEAN, NEW h \in Heads, NEW dir \in {"next", "prev"},
             ForEach(h, dir, safe)
      PROVE  ListInv'
  <2>1. /\ h \in Nodes /\ ring[h] = h /\ h # NoRing
        /\ Turn(Loop(h, dir, safe), links[dir][h])
    BY <1>1, NodesAssumption DEF ForEach, Nodes
  <2>2. links[dir][h] \in Nodes /\ ring[links[dir][h]] = h
    BY <2>1 DEF Closed
  <2>3. QED
    BY <2>1, <2>2, TurnInv
<1>2. ASSUME NEW safe \in BOOLEAN, NEW e \in Entries, Continue(e, safe) \/ From(e, safe)
      PROVE  ListInv'
  <2>1. e \in Nodes /\ ring[e] # NoRing /\ ring[e] \in Heads
    BY <1>2 DEF Continue, From, Nodes, Bookkeeping
  <2>2. links.next[e] \in Nodes /\ ring[links.next[e]] = ring[e]
    BY <2>1 DEF Closed
  <2>3. PICK p \in {e, links.next[e]} : Turn(Loop(ring[e], "next", safe), p)
    BY <1>2 DEF Continue, From
  <2>4. QED
    BY <2>1, <2>2, <2>3, TurnInv
<1>3. CASE Iterate
  <2>1. /\ loop \in [head : Heads, dir : {"next", "prev"}, safe : BOOLEAN]
        /\ Turn(loop, IF loop.safe THEN n ELSE links[loop.dir][pos])
    BY <1>3 DEF Iterate, ListInv, ListTypeOK
  <2>2. /\ pos \in Nodes /\ loop.head # NoRing
        /\ IF loop.safe THEN n \in Nodes /\ ring[n] = loop.head ELSE ring[pos] = loop.head
    BY <1>3, <2>1, NodesAssumption DEF Iterate, ListInv, LoopStaysInItsList, Foothold, Nodes
  <2>3. CASE loop.safe
    BY <2>1, <2>2, <2>3, TurnInv
  <2>4. CASE ~loop.safe
    <3>1. links[loop.dir][pos] \in Nodes /\ ring[links[loop.dir][pos]] = loop.head
      BY <2>1, <2>2, <2>4 DEF Closed
    <3>2. QED
      BY <2>1, <2>4, <3>1, TurnInv
  <2>5. QED
    BY <2>3, <2>4
<1>4. QED
  BY <1>1, <1>2, <1>3

LEMMA BreakInv ==
  ASSUME ListInv, Break
  PROVE  ListInv'
BY DEF Break, ListInv, ListTypeOK, RingsClosed, HeadsOwnRings, LoopStaysInItsList

LEMMA InitInv == ListInit => ListInv
<1> SUFFICES ASSUME ListInit PROVE ListInv
  OBVIOUS
<1>1. /\ links \in Links /\ ring \in Bookkeeping
      /\ \A x \in Nodes : ring[x] = IF x \in Heads THEN x ELSE NoRing
      /\ \A x \in Heads : links.next[x] = x /\ links.prev[x] = x
  BY DEF ListInit, Links, Bookkeeping, Pointers, Nowhere, Nodes
<1>2. loop = NoLoop /\ pos = NULL /\ n = NULL
  BY DEF ListInit
<1>3. QED
  BY <1>1, <1>2, NodesAssumption
  DEF ListInv, ListTypeOK, RingsClosed, HeadsOwnRings, LoopStaysInItsList,
      Links, Bookkeeping, Nodes

LEMMA NextInv == ListInv /\ [ListNext]_listVars => ListInv'
<1> SUFFICES ASSUME ListInv, [ListNext]_listVars PROVE ListInv'
  OBVIOUS
<1>1. ASSUME NEW x \in Nodes, Reinit(x) PROVE ListInv'
  BY <1>1, ReinitInv
<1>2. ASSUME NEW e \in Entries, NEW at \in Nodes,
             Add(e, at) \/ AddTail(e, at) \/ Move(e, at) \/ MoveTail(e, at)
      PROVE  ListInv'
  BY <1>2, AddInv, MoveInv
<1>3. ASSUME NEW e \in Entries, Del(e) \/ DelInit(e) PROVE ListInv'
  BY <1>3, DelInv
<1>4. ASSUME NEW g \in Heads, NEW at \in Nodes, Splice(g, at) \/ SpliceInit(g, at)
      PROVE  ListInv'
  BY <1>4, SpliceInv
<1>5. ASSUME NEW h \in Heads, Empty(h) \/ FirstEntry(h) PROVE ListInv'
  BY <1>5, QueryInv DEF Empty, FirstEntry
<1>6. ASSUME \/ \E safe \in BOOLEAN :
                   \/ \E h \in Heads, dir \in {"next", "prev"} : ForEach(h, dir, safe)
                   \/ \E e \in Entries : Continue(e, safe) \/ From(e, safe)
             \/ Iterate
      PROVE  ListInv'
  BY <1>6, LoopInv
<1>7. ASSUME Break PROVE ListInv'
  BY <1>7, BreakInv
<1>8. ASSUME UNCHANGED listVars PROVE ListInv'
  BY <1>8, QueryInv DEF listVars, loopVars
<1>9. QED
  BY <1>1, <1>2, <1>3, <1>4, <1>5, <1>6, <1>7, <1>8 DEF ListNext

\* The invariant, of every behaviour of the lists of pet_list.h and their loops.
THEOREM ListInvariance == ListSpec => []ListInv
BY InitInv, NextInv, PTL DEF ListSpec

\* Pointers are nodes or one of the three values that are nowhere (pet_list.h:54-60),
\* and a node's list is known by a head.
THEOREM ListTypeCorrect == ListSpec => []ListTypeOK
<1>1. ListInv => ListTypeOK
  BY DEF ListInv
<1>2. QED
  BY <1>1, ListInvariance, PTL

\* No sequence of additions, deletions, moves and splices tears a ring open
\* (pet_list.h:85-248).
THEOREM RingsStayClosed == ListSpec => []RingsClosed
<1>1. ListInv => RingsClosed
  BY DEF ListInv
<1>2. QED
  BY <1>1, ListInvariance, PTL

\* A loop goes on from a node of its list, whatever its body has done to the entry it
\* was given (pet_list.h:276-419).
THEOREM LoopsStayInTheirLists == ListSpec => []LoopStaysInItsList
<1>1. ListInv => LoopStaysInItsList
  BY DEF ListInv
<1>2. QED
  BY <1>1, ListInvariance, PTL

-----------------------------------------------------------------------------
(***************************************************************************)
(* The chains of hlist stay closed, for any number of heads, nodes and      *)
(* calls.  As for rings, the argument is about neighbours only, and the     *)
(* three additions are one: behind the place whose pointer they redirect.   *)
(***************************************************************************)
Hlinks == [next : [Places -> HNodes \cup Nowhere], pprev : [HNodes -> Places \cup Nowhere]]
Hbookkeeping == [Places -> HHeads \cup {NoChain}]

\* ChainsClosed, of any links l and any bookkeeping r.
Hclosed(l, r) ==
  /\ \A x \in HNodes : r[x] # NoChain =>
       /\ l.pprev[x] \in Places /\ r[l.pprev[x]] = r[x] /\ l.next[l.pprev[x]] = x
  /\ \A p \in Places : r[p] # NoChain /\ l.next[p] # NULL =>
       /\ l.next[p] \in HNodes /\ r[l.next[p]] = r[p] /\ l.pprev[l.next[p]] = p

(***************************************************************************)
(* Whatever the pointers of a node in no list are, no list leads to it.     *)
(***************************************************************************)
LEMMA HstrayClosed ==
  ASSUME NEW l \in Hlinks, NEW r \in Hbookkeeping, Hclosed(l, r),
         NEW x \in HNodes, r[x] = NoChain, NEW a \in Nowhere, NEW b \in Nowhere,
         NEW m, m = [l EXCEPT !.next[x] = a, !.pprev[x] = b]
  PROVE  m \in Hlinks /\ Hclosed(m, r)
<1>1. /\ m \in Hlinks
      /\ \A y \in Places : m.next[y] = IF y = x THEN a ELSE l.next[y]
      /\ \A y \in HNodes : m.pprev[y] = IF y = x THEN b ELSE l.pprev[y]
  BY DEF Hlinks, Places
<1>2. QED
  BY <1>1, HnodesAssumption DEF Hclosed, Places, Nowhere

(***************************************************************************)
(* The pointer p is redirected to a new node.                               *)
(***************************************************************************)
LEMMA HinsertClosed ==
  ASSUME NEW l \in Hlinks, NEW r \in Hbookkeeping, Hclosed(l, r),
         NEW new \in HNodes, r[new] = NoChain, NEW p \in Places, r[p] # NoChain,
         NEW m \in Hlinks,
         \A y \in Places : m.next[y] = IF y = p THEN new ELSE IF y = new THEN l.next[p] ELSE l.next[y],
         \A y \in HNodes : m.pprev[y] = IF y = new THEN p ELSE IF y = l.next[p] THEN new ELSE l.pprev[y],
         NEW s, s = [r EXCEPT ![new] = r[p]]
  PROVE  Hclosed(m, s)
<1>1. new \in Places /\ NULL \notin Places /\ \A x \in HNodes : x \in Places
  BY HnodesAssumption DEF Places, Nowhere
<1>2. \A y \in Places : s[y] = IF y = new THEN r[p] ELSE r[y]
  BY DEF Hbookkeeping
<1>3. \A y \in Places : r[y] # NoChain => l.next[y] # new /\ y # new
  BY <1>1 DEF Hclosed
<1>4. \A y \in HNodes : r[y] # NoChain => l.pprev[y] # new /\ l.pprev[y] \in Places
  BY DEF Hclosed
<1>5. ASSUME NEW x \in HNodes, s[x] # NoChain
      PROVE  m.pprev[x] \in Places /\ s[m.pprev[x]] = s[x] /\ m.next[m.pprev[x]] = x
  BY <1>1, <1>2, <1>3, <1>4, <1>5 DEF Hclosed
<1>6. ASSUME NEW y \in Places, s[y] # NoChain, m.next[y] # NULL
      PROVE  m.next[y] \in HNodes /\ s[m.next[y]] = s[y] /\ m.pprev[m.next[y]] = y
  BY <1>1, <1>2, <1>3, <1>4, <1>6 DEF Hclosed
<1>7. QED
  BY <1>5, <1>6 DEF Hclosed

LEMMA HunlinkClosed ==
  ASSUME NEW l \in Hlinks, NEW r \in Hbookkeeping, Hclosed(l, r),
         NEW x \in HNodes, r[x] # NoChain,
         NEW m, m = hlist_unlink(l, x), NEW s, s = [r EXCEPT ![x] = NoChain]
  PROVE  m \in Hlinks /\ Hclosed(m, s)
<1>1. x \in Places /\ NULL \notin Places /\ \A y \in HNodes : y \in Places
  BY HnodesAssumption DEF Places, Nowhere
<1>2. /\ l.pprev[x] \in Places /\ r[l.pprev[x]] = r[x] /\ l.next[l.pprev[x]] = x
      /\ l.next[x] # NULL =>
           l.next[x] \in HNodes /\ r[l.next[x]] = r[x] /\ l.pprev[l.next[x]] = x
  BY <1>1 DEF Hclosed
<1>3. /\ m \in Hlinks
      /\ \A y \in Places : m.next[y] = IF y = l.pprev[x] THEN l.next[x] ELSE l.next[y]
      /\ \A y \in HNodes : m.pprev[y] = IF y = l.next[x] THEN l.pprev[x] ELSE l.pprev[y]
  <2>1. CASE l.next[x] = NULL
    BY <1>1, <1>2, <2>1 DEF hlist_unlink, PointBack, Hlinks
  <2>2. CASE l.next[x] # NULL
    BY <1>1, <1>2, <2>2 DEF hlist_unlink, PointBack, Hlinks
  <2>3. QED
    BY <2>1, <2>2
<1>4. \A y \in Places : s[y] = IF y = x THEN NoChain ELSE r[y]
  BY DEF Hbookkeeping
<1>5. ASSUME NEW y \in HNodes, s[y] # NoChain
      PROVE  m.pprev[y] \in Places /\ s[m.pprev[y]] = s[y] /\ m.next[m.pprev[y]] = y
  BY <1>1, <1>2, <1>3, <1>4, <1>5 DEF Hclosed
<1>6. ASSUME NEW y \in Places, s[y] # NoChain, m.next[y] # NULL
      PROVE  m.next[y] \in HNodes /\ s[m.next[y]] = s[y] /\ m.pprev[m.next[y]] = y
  BY <1>1, <1>2, <1>3, <1>4, <1>6 DEF Hclosed
<1>7. QED
  BY <1>3, <1>5, <1>6 DEF Hclosed

-----------------------------------------------------------------------------
(***************************************************************************)
(* The inductive invariant.                                                 *)
(***************************************************************************)
HlistInv ==
  /\ hlinks \in Hlinks /\ chain \in Hbookkeeping /\ Hclosed(hlinks, chain)
  /\ \A h \in HHeads : chain[h] = h

LEMMA HaddInv ==
  ASSUME HlistInv, NEW x \in HNodes, NEW at \in Places,
         \/ at \in HHeads /\ HaddHead(x, at)
         \/ at \in HNodes /\ (HaddAfter(x, at) \/ HaddBefore(x, at))
  PROVE  HlistInv'
<1>1. /\ hlinks \in Hlinks /\ chain \in Hbookkeeping /\ Hclosed(hlinks, chain)
      /\ chain[x] = NoChain /\ chain[at] # NoChain /\ chain' = [chain EXCEPT ![x] = chain[at]]
      /\ x \in Places /\ NULL \notin Places /\ \A y \in HNodes : y \in Places
  BY HnodesAssumption DEF HlistInv, HaddHead, HaddAfter, HaddBefore, Hlink, Places, Nowhere
<1>2. PICK p \in Places :
        /\ chain[p] = chain[at]
        /\ hlinks' \in Hlinks
        /\ \A y \in Places : hlinks'.next[y] = IF y = p THEN x ELSE IF y = x THEN hlinks.next[p] ELSE hlinks.next[y]
        /\ \A y \in HNodes : hlinks'.pprev[y] = IF y = x THEN p ELSE IF y = hlinks.next[p] THEN x ELSE hlinks.pprev[y]
  <2> DEFINE Inserted(p) ==
        /\ chain[p] = chain[at]
        /\ hlinks' \in Hlinks
        /\ \A y \in Places : hlinks'.next[y] = IF y = p THEN x ELSE IF y = x THEN hlinks.next[p] ELSE hlinks.next[y]
        /\ \A y \in HNodes : hlinks'.pprev[y] = IF y = x THEN p ELSE IF y = hlinks.next[p] THEN x ELSE hlinks.pprev[y]
  <2>0. at # x /\ (hlinks.next[at] # NULL => hlinks.next[at] \in HNodes /\ hlinks.next[at] # x)
    BY <1>1 DEF Hclosed
  <2>1. CASE at \in HHeads /\ HaddHead(x, at)
    <3>1. CASE hlinks.next[at] = NULL
      BY <1>1, <2>0, <2>1, <3>1 DEF HaddHead, hlist_add_head, PointBack, Hlinks
    <3>2. CASE hlinks.next[at] # NULL
      BY <1>1, <2>0, <2>1, <3>2 DEF HaddHead, hlist_add_head, PointBack, Hlinks
    <3>3. QED
      BY <3>1, <3>2
  <2>2. CASE at \in HNodes /\ HaddAfter(x, at)
    <3>1. CASE hlinks.next[at] = NULL
      BY <1>1, <2>0, <2>2, <3>1 DEF HaddAfter, hlist_add_after, PointBack, Hlinks
    <3>2. CASE hlinks.next[at] # NULL
      BY <1>1, <2>0, <2>2, <3>2 DEF HaddAfter, hlist_add_after, PointBack, Hlinks
    <3>3. QED
      BY <3>1, <3>2
  <2>3. CASE at \in HNodes /\ HaddBefore(x, at)
    <3>1. /\ hlinks.pprev[at] \in Places /\ chain[hlinks.pprev[at]] = chain[at]
          /\ hlinks.next[hlinks.pprev[at]] = at /\ hlinks.pprev[at] # x
      BY <1>1, <2>3 DEF Hclosed
    <3>2. Inserted(hlinks.pprev[at])
      BY <1>1, <2>0, <2>3, <3>1 DEF HaddBefore, hlist_add_before, Hlinks
    <3>3. QED
      BY <3>1, <3>2
  <2>4. QED
    BY <2>1, <2>2, <2>3
<1>3. Hclosed(hlinks', chain')
  BY <1>1, <1>2, HinsertClosed
<1>4. chain' \in Hbookkeeping /\ \A h \in HHeads : chain'[h] = h
  BY <1>1, HnodesAssumption DEF HlistInv, Hbookkeeping, Places
<1>5. QED
  BY <1>2, <1>3, <1>4 DEF HlistInv

LEMMA HdelInv ==
  ASSUME HlistInv, NEW x \in HNodes, Hdel(x) \/ HdelInit(x)
  PROVE  HlistInv'
<1>1. /\ hlinks \in Hlinks /\ chain \in Hbookkeeping /\ Hclosed(hlinks, chain)
      /\ chain' = [chain EXCEPT ![x] = NoChain]
      /\ x \in Places /\ NULL \notin Places
      /\ {NULL, LIST_POISON1, LIST_POISON2} \subseteq Nowhere
  BY HnodesAssumption DEF HlistInv, Hdel, HdelInit, Places, Nowhere
<1>2. chain' \in Hbookkeeping /\ \A h \in HHeads : chain'[h] = h
  BY <1>1, HnodesAssumption DEF HlistInv, Hbookkeeping, Places
<1>3. CASE chain[x] = NoChain
  <2>1. hlinks' = hlinks /\ chain' = chain
    BY <1>1, <1>3 DEF Hdel, HdelInit, hlist_del_init, Hbookkeeping
  <2>2. QED
    BY <2>1 DEF HlistInv
<1>4. CASE chain[x] # NoChain
  <2>1. hlist_unlink(hlinks, x) \in Hlinks /\ Hclosed(hlist_unlink(hlinks, x), chain')
    BY <1>1, <1>4, HunlinkClosed
  <2>2. ~hlist_unhashed(hlinks, x)
    BY <1>1, <1>4 DEF Hclosed, hlist_unhashed
  <2>3. PICK a \in Nowhere, b \in Nowhere :
          hlinks' = [hlist_unlink(hlinks, x) EXCEPT !.next[x] = a, !.pprev[x] = b]
    BY <1>1, <2>2 DEF Hdel, HdelInit, hlist_del, hlist_del_init, INIT_HLIST_NODE
  <2>4. chain'[x] = NoChain
    BY <1>1 DEF Hbookkeeping
  <2>5. hlinks' \in Hlinks /\ Hclosed(hlinks', chain')
    BY <1>2, <2>1, <2>3, <2>4, HstrayClosed
  <2>6. QED
    BY <1>2, <2>5 DEF HlistInv
<1>5. QED
  BY <1>3, <1>4

LEMMA HinitNodeInv ==
  ASSUME HlistInv, NEW x \in HNodes, HinitNode(x)
  PROVE  HlistInv'
<1>1. /\ hlinks' = [hlinks EXCEPT !.next[x] = NULL, !.pprev[x] = NULL]
      /\ chain' = chain /\ chain[x] = NoChain /\ NULL \in Nowhere
  BY DEF HinitNode, INIT_HLIST_NODE, Nowhere
<1>2. hlinks' \in Hlinks /\ Hclosed(hlinks', chain)
  BY <1>1, HstrayClosed DEF HlistInv
<1>3. QED
  BY <1>1, <1>2 DEF HlistInv

LEMMA HinitHeadInv ==
  ASSUME HlistInv, NEW h \in HHeads, HinitHead(h)
  PROVE  HlistInv'
<1>1. hlinks' = hlinks /\ chain' = chain
  BY DEF HlistInv, HinitHead, hlist_empty, Hlinks, Places
<1>2. QED
  BY <1>1 DEF HlistInv

LEMMA HlistInitInv == HlistInit => HlistInv
BY HnodesAssumption DEF HlistInit, HlistInv, Hlinks, Hbookkeeping, Hclosed, Places, Nowhere

LEMMA HlistNextInv == HlistInv /\ [HlistNext]_hlistVars => HlistInv'
<1> SUFFICES ASSUME HlistInv, [HlistNext]_hlistVars PROVE HlistInv'
  OBVIOUS
<1>1. ASSUME NEW x \in HNodes, NEW h \in HHeads, HaddHead(x, h) PROVE HlistInv'
  BY <1>1, HaddInv DEF Places
<1>2. ASSUME NEW x \in HNodes, NEW at \in HNodes, HaddAfter(x, at) \/ HaddBefore(x, at)
      PROVE  HlistInv'
  BY <1>2, HaddInv DEF Places
<1>3. ASSUME NEW x \in HNodes, Hdel(x) \/ HdelInit(x) PROVE HlistInv'
  BY <1>3, HdelInv
<1>4. ASSUME NEW x \in HNodes, HinitNode(x) PROVE HlistInv'
  BY <1>4, HinitNodeInv
<1>5. ASSUME NEW h \in HHeads, HinitHead(h) PROVE HlistInv'
  BY <1>5, HinitHeadInv
<1>6. ASSUME \/ \E h \in HHeads : Hempty(h) \/ \E safe \in BOOLEAN : HforEach(h, safe)
             \/ \E x \in HNodes : Hcontinue(x) \/ Hfrom(x)
             \/ Hiterate \/ Hbreak
             \/ UNCHANGED hlistVars
      PROVE  HlistInv'
  <2>1. hlinks' = hlinks /\ chain' = chain
    BY <1>6 DEF Hempty, HforEach, Hcontinue, Hfrom, Hiterate, Hbreak, Hturn, hlistVars
  <2>2. QED
    BY <2>1 DEF HlistInv
<1>7. QED
  BY <1>1, <1>2, <1>3, <1>4, <1>5, <1>6 DEF HlistNext

\* The invariant, of every behaviour of hlist and its loops.
THEOREM HlistInvariance == HlistSpec => []HlistInv
BY HlistInitInv, HlistNextInv, PTL DEF HlistSpec

\* No sequence of calls tears a chain, and a node in a list never looks unhashed
\* (pet_list.h:428-513).
THEOREM ChainsStayClosed == HlistSpec => []ChainsClosed
<1>1. HlistInv => ChainsClosed
  BY DEF HlistInv, Hclosed, ChainsClosed
<1>2. QED
  BY <1>1, HlistInvariance, PTL

-----------------------------------------------------------------------------
(***************************************************************************)
(* The example: the list holds the arguments in their order, so the search  *)
(* meets every one of them before the head.                                 *)
(***************************************************************************)

\* The ring of test_list leads through s.
InOrder(s) ==
  /\ s \in Seq(Entries)
  /\ \A i \in 1 .. Len(s) : ring[s[i]] = test_list
  /\ links.next[test_list] = IF Len(s) = 0 THEN test_list ELSE s[1]
  /\ \A i \in 1 .. Len(s) : links.next[s[i]] = IF i = Len(s) THEN test_list ELSE s[i + 1]

SearchLoop == [head |-> test_list, dir |-> "next", safe |-> FALSE]

ExampleInv ==
  /\ ListInv
  /\ ring[test_list] = test_list
  /\ stage \in {"add", "search", "deleted", "undefined"}
  /\ stage \in {"add", "search"} => InOrder(bufs) /\ freed = {}
  /\ stage = "add" => loop = NoLoop
  /\ stage = "search" =>
       \/ /\ loop = SearchLoop
          /\ \E j \in 1 .. Len(bufs) : pos = bufs[j] /\ (index \in DOMAIN bufs => j <= index)
       \/ loop = NoLoop /\ pos = test_list /\ index \notin DOMAIN bufs
       \/ loop = NoLoop /\ index \in DOMAIN bufs /\ pos = bufs[index]
  /\ stage = "deleted" => /\ index \in DOMAIN bufs /\ freed = {bufs[index]}
                          /\ freed \subseteq Nodes /\ \A e \in freed : ring[e] = NoRing
  /\ stage = "undefined" => index \notin DOMAIN bufs /\ freed = {}

\* Every step of the example is a call of the list or none.
LEMMA ExampleCalls == ExampleNext => [ListNext]_listVars
<1>1. test_list \in Heads /\ test_list \in Nodes
  BY ExampleAssumption DEF Nodes
<1>2. AddArgument => ListNext
  BY <1>1 DEF AddArgument, ListNext
<1>3. StartSearch => ListNext
  BY <1>1 DEF StartSearch, ListNext
<1>4. Search => ListNext
  BY DEF Search, ListNext
<1>5. Use => [ListNext]_listVars
  BY DEF Use, ListNext
<1>6. QED
  BY <1>2, <1>3, <1>4, <1>5 DEF ExampleNext

LEMMA ExampleKeepsList ==
  ASSUME ExampleInv, ExampleNext
  PROVE  ListInv'
BY ExampleCalls, NextInv DEF ExampleInv

LEMMA LoopIsNone == SearchLoop # NoLoop
BY ExampleAssumption, NodesAssumption DEF SearchLoop

LEMMA ExampleInitInv == ListInit /\ ExampleInit => ExampleInv
<1> SUFFICES ASSUME ListInit, ExampleInit PROVE ExampleInv
  OBVIOUS
<1>1. ListInv
  BY InitInv
<1>2. test_list \in Nodes /\ ring[test_list] = test_list /\ links.next[test_list] = test_list
  BY ExampleAssumption DEF ListInit, Nodes
<1>3. bufs = <<>> /\ stage = "add" /\ freed = {} /\ loop = NoLoop
  BY DEF ListInit, ExampleInit
<1>4. InOrder(bufs)
  BY <1>2, <1>3, EmptySeq DEF InOrder
<1>5. QED
  BY <1>1, <1>2, <1>3, <1>4 DEF ExampleInv

LEMMA AddArgumentInv ==
  ASSUME ExampleInv, AddArgument
  PROVE  ExampleInv'
<1>1. PICK e \in Entries : AddTail(e, test_list) /\ bufs' = Append(bufs, e)
  BY DEF AddArgument
<1>2. ListInv' /\ InOrder(bufs) /\ freed = {} /\ loop = NoLoop /\ stage = "add"
  BY ExampleKeepsList DEF ExampleInv, AddArgument, ExampleNext
<1>3. /\ links \in Links /\ ring \in Bookkeeping /\ Closed(links, ring)
      /\ test_list \in Nodes /\ e \in Nodes /\ ring[test_list] = test_list /\ test_list # NoRing
  BY InvParts, ExampleAssumption, NodesAssumption DEF ExampleInv, Nodes
<1> DEFINE last == links.prev[test_list]
<1>4. /\ ring[e] = NoRing /\ ring' = [ring EXCEPT ![e] = test_list] /\ loop' = loop
      /\ links' = link_between(links, e, last, test_list)
  BY <1>1, <1>3 DEF AddTail, Link, list_add_tail, loopVars
<1>5. last \in Nodes /\ ring[last] = test_list /\ links.next[last] = test_list
  BY <1>3 DEF Closed
<1> HIDE DEF last
<1>6. \A x \in Nodes : /\ links'.next[x] = IF x = last THEN e ELSE IF x = e THEN test_list
                                           ELSE links.next[x]
                       /\ ring'[x] = IF x = e THEN test_list ELSE ring[x]
  BY <1>3, <1>4, <1>5 DEF link_between, Links, Bookkeeping
<1>7. /\ bufs' \in Seq(Entries) /\ Len(bufs') = Len(bufs) + 1 /\ Len(bufs) \in Nat
      /\ bufs'[Len(bufs) + 1] = e /\ \A i \in 1 .. Len(bufs) : bufs'[i] = bufs[i]
      /\ \A i \in 1 .. Len(bufs) : bufs[i] \in Entries /\ bufs[i] \in Nodes
  <2>1. bufs \in Seq(Entries)
    BY <1>2 DEF InOrder
  <2>2. QED
    BY <1>1, <2>1, AppendProperties, LenProperties DEF Nodes
\* Only the last node of the ring has the head behind it.
<1>8. \A x \in Nodes : ring[x] = test_list /\ links.next[x] = test_list => x = last
  BY <1>3 DEF Closed, last
<1>9. last = IF Len(bufs) = 0 THEN test_list ELSE bufs[Len(bufs)]
  <2>1. CASE Len(bufs) = 0
    BY <1>2, <1>3, <1>8, <2>1 DEF InOrder
  <2>2. CASE Len(bufs) # 0
    <3>1. Len(bufs) \in 1 .. Len(bufs)
      BY <1>7, <2>2
    <3>2. ring[bufs[Len(bufs)]] = test_list /\ links.next[bufs[Len(bufs)]] = test_list
      BY <1>2, <3>1 DEF InOrder
    <3>3. QED
      BY <1>7, <1>8, <2>2, <3>1, <3>2
  <2>3. QED
    BY <2>1, <2>2
<1>10. \A i \in 1 .. Len(bufs) : bufs[i] # e /\ (i # Len(bufs) => bufs[i] # last) /\ test_list # bufs[i]
  <2> SUFFICES ASSUME NEW i \in 1 .. Len(bufs)
               PROVE  bufs[i] # e /\ (i # Len(bufs) => bufs[i] # last) /\ test_list # bufs[i]
    OBVIOUS
  <2>1. bufs[i] # e
    BY <1>2, <1>3, <1>4 DEF InOrder
  <2>2. test_list # bufs[i]
    BY <1>7, ExampleAssumption, NodesAssumption
  <2>3. i # Len(bufs) => links.next[bufs[i]] \in Entries
    <3>1. i # Len(bufs) => i + 1 \in 1 .. Len(bufs)
      BY <1>7
    <3>2. QED
      BY <1>2, <1>7, <3>1 DEF InOrder
  <2>4. i # Len(bufs) => bufs[i] # last
    BY <1>5, <2>3, ExampleAssumption, NodesAssumption
  <2>5. QED
    BY <2>1, <2>2, <2>4
<1>11. \A i \in 1 .. Len(bufs') : ring'[bufs'[i]] = test_list
  <2>1. \A i \in 1 .. Len(bufs) : ring'[bufs[i]] = test_list
    BY <1>2, <1>6, <1>7 DEF InOrder
  <2>2. ring'[e] = test_list
    BY <1>3, <1>6
  <2>3. QED
    BY <1>7, <2>1, <2>2
<1>12. links'.next[test_list] = bufs'[1]
  <2>1. CASE Len(bufs) = 0
    BY <1>3, <1>6, <1>7, <1>9, <2>1
  <2>2. CASE Len(bufs) # 0
    <3>1. test_list # last /\ test_list # e /\ 1 \in 1 .. Len(bufs)
      <4>1. Len(bufs) \in 1 .. Len(bufs) /\ 1 \in 1 .. Len(bufs)
        BY <1>7, <2>2
      <4>2. QED
        BY <1>3, <1>4, <1>9, <1>10, <2>2, <4>1
    <3>2. QED
      BY <1>2, <1>3, <1>6, <1>7, <2>2, <3>1 DEF InOrder
  <2>3. QED
    BY <2>1, <2>2
<1>13. ASSUME NEW i \in 1 .. Len(bufs')
       PROVE  links'.next[bufs'[i]] = IF i = Len(bufs') THEN test_list ELSE bufs'[i + 1]
  <2>1. CASE i = Len(bufs')
    <3>1. e # last
      BY <1>3, <1>4, <1>5
    <3>2. links'.next[e] = test_list
      BY <1>3, <1>6, <3>1
    <3>3. QED
      BY <1>7, <2>1, <3>2
  <2>2. CASE i = Len(bufs)
    <3>1. i \in 1 .. Len(bufs) /\ Len(bufs) # 0 /\ bufs'[i] = last
      BY <1>7, <1>9, <1>13, <2>2
    <3>2. links'.next[last] = e
      BY <1>5, <1>6
    <3>3. QED
      BY <1>7, <2>2, <3>1, <3>2
  <2>3. CASE i # Len(bufs) /\ i # Len(bufs')
    <3>1. i \in 1 .. Len(bufs) /\ i + 1 \in 1 .. Len(bufs)
      BY <1>7, <1>13, <2>3
    <3>2. links'.next[bufs[i]] = links.next[bufs[i]]
      BY <1>6, <1>7, <1>10, <2>3, <3>1
    <3>3. links.next[bufs[i]] = bufs[i + 1]
      BY <1>2, <2>3, <3>1 DEF InOrder
    <3>4. QED
      BY <1>7, <2>3, <3>1, <3>2, <3>3
  <2>4. QED
    BY <2>1, <2>2, <2>3
<1>14. InOrder(bufs)'
  BY <1>7, <1>11, <1>12, <1>13 DEF InOrder
<1>15. ring'[test_list] = test_list
  BY <1>3, <1>6
<1>16. stage' = "add" /\ freed' = {} /\ loop' = NoLoop
  BY <1>2, <1>4 DEF AddArgument
<1>17. QED
  BY <1>2, <1>14, <1>15, <1>16 DEF ExampleInv

\* A turn of the search: to the next argument, or to the head behind the last.
LEMMA SearchTurn ==
  ASSUME ExampleInv, ListInv', InOrder(bufs), freed = {}, freed' = {}, stage' = "search",
         bufs' = bufs, NEW j \in 1 .. Len(bufs) + 1,
         Turn(SearchLoop, IF j = Len(bufs) + 1 THEN test_list ELSE bufs[j]),
         index' \in DOMAIN bufs => j <= index'
  PROVE  ExampleInv'
<1>1. /\ links' = links /\ ring' = ring
      /\ bufs \in Seq(Entries) /\ Len(bufs) \in Nat /\ DOMAIN bufs = 1 .. Len(bufs)
      /\ \A i \in 1 .. Len(bufs) : bufs[i] \in Entries
  BY LenProperties DEF Turn, InOrder
<1>2. InOrder(bufs)' /\ ring'[test_list] = test_list
  BY <1>1 DEF InOrder, ExampleInv
<1>3. CASE j = Len(bufs) + 1
  <2>1. pos' = test_list /\ loop' = NoLoop
    BY <1>3 DEF Turn, SearchLoop
  <2>2. index' \notin DOMAIN bufs'
    BY <1>1, <1>3
  <2>3. QED
    BY <1>2, <2>1, <2>2 DEF ExampleInv
<1>4. CASE j # Len(bufs) + 1
  <2>1. j \in 1 .. Len(bufs) /\ bufs[j] # test_list
    BY <1>1, <1>4, ExampleAssumption, NodesAssumption
  <2>2. pos' = bufs[j] /\ loop' = SearchLoop
    BY <1>4, <2>1 DEF Turn, SearchLoop
  <2>3. \E i \in 1 .. Len(bufs') : pos' = bufs'[i] /\ (index' \in DOMAIN bufs' => i <= index')
    BY <2>1, <2>2
  <2>4. QED
    BY <1>2, <2>2, <2>3 DEF ExampleInv, SearchLoop
<1>5. QED
  BY <1>3, <1>4

LEMMA StartSearchInv ==
  ASSUME ExampleInv, StartSearch
  PROVE  ExampleInv'
<1>1. /\ ListInv' /\ InOrder(bufs) /\ freed = {} /\ freed' = {} /\ bufs' = bufs
      /\ stage' = "search" /\ Turn(SearchLoop, links.next[test_list])
  BY ExampleKeepsList DEF ExampleInv, StartSearch, ExampleNext, ForEach, SearchLoop
<1>2. /\ Len(bufs) \in Nat /\ DOMAIN bufs = 1 .. Len(bufs)
      /\ links.next[test_list] = IF 1 = Len(bufs) + 1 THEN test_list ELSE bufs[1]
  BY <1>1, LenProperties DEF InOrder
<1>3. 1 \in 1 .. Len(bufs) + 1 /\ (index' \in DOMAIN bufs => 1 <= index')
  BY <1>2
<1>4. QED
  BY <1>1, <1>2, <1>3, SearchTurn

LEMMA SearchInv ==
  ASSUME ExampleInv, Search
  PROVE  ExampleInv'
<1>1. /\ ListInv' /\ InOrder(bufs) /\ freed = {} /\ freed' = {} /\ bufs' = bufs
      /\ stage' = "search" /\ index' = index /\ loop = SearchLoop
      /\ Len(bufs) \in Nat /\ DOMAIN bufs = 1 .. Len(bufs)
  BY ExampleKeepsList, LenProperties
     DEF ExampleInv, Search, ExampleNext, exampleVars, InOrder
<1>2. PICK j \in 1 .. Len(bufs) : pos = bufs[j] /\ (index \in DOMAIN bufs => j <= index)
  BY <1>1, LoopIsNone DEF ExampleInv, Search
<1>3. CASE index \in DOMAIN bufs /\ bufs[index] = pos
  <2>1. loop' = NoLoop /\ pos' = pos /\ links' = links /\ ring' = ring
    BY <1>3 DEF Search, Break
  <2>2. InOrder(bufs)' /\ ring'[test_list] = test_list
    BY <1>1, <2>1 DEF InOrder, ExampleInv
  <2>3. QED
    BY <1>1, <1>3, <2>1, <2>2 DEF ExampleInv
<1>4. CASE ~(index \in DOMAIN bufs /\ bufs[index] = pos)
  <2>1. Turn(SearchLoop, links.next[bufs[j]])
    BY <1>1, <1>2, <1>4 DEF Search, Iterate, SearchLoop
  <2>2. links.next[bufs[j]] = IF j + 1 = Len(bufs) + 1 THEN test_list ELSE bufs[j + 1]
    <3>1. links.next[bufs[j]] = IF j = Len(bufs) THEN test_list ELSE bufs[j + 1]
      BY <1>1 DEF InOrder
    <3>2. Len(bufs) \in Nat /\ j \in Nat
      <4>1. Len(bufs) \in Nat
        BY <1>1
      <4>2. QED
        BY <4>1
    <3>3. j = Len(bufs) <=> j + 1 = Len(bufs) + 1
      BY <3>2
    <3>4. QED
      BY <3>1, <3>3, SMT
  <2>3. j + 1 \in 1 .. Len(bufs) + 1 /\ (index' \in DOMAIN bufs => j + 1 <= index')
    BY <1>1, <1>2, <1>4
  <2>4. QED
    BY <1>1, <2>1, <2>2, <2>3, SearchTurn
<1>5. QED
  BY <1>3, <1>4

LEMMA UseInv ==
  ASSUME ExampleInv, Use
  PROVE  ExampleInv'
<1>1. /\ ListInv' /\ InOrder(bufs) /\ freed = {} /\ loop = NoLoop
      /\ bufs' = bufs /\ index' = index
      /\ ring \in Bookkeeping /\ ring[test_list] = test_list
      /\ bufs \in Seq(Entries) /\ \A i \in 1 .. Len(bufs) : bufs[i] \in Entries
      /\ DOMAIN bufs = 1 .. Len(bufs)
  BY ExampleKeepsList, InvParts, LenProperties DEF ExampleInv, Use, ExampleNext, InOrder
<1>2. /\ test_list \notin Entries /\ test_list # NULL /\ NULL \notin Entries
      /\ Entries \subseteq Nodes
  BY ExampleAssumption, NodesAssumption DEF Nodes, Nowhere
<1>3. \/ pos = test_list /\ index \notin DOMAIN bufs
      \/ index \in DOMAIN bufs /\ pos = bufs[index]
  BY <1>1, LoopIsNone DEF ExampleInv, Use
<1>4. CASE pos = test_list /\ index \notin DOMAIN bufs
  <2>1. stage' = "undefined" /\ freed' = {} /\ ring' = ring
    BY <1>1, <1>2, <1>4 DEF Use, listVars
  <2>2. QED
    BY <1>1, <1>4, <2>1 DEF ExampleInv
<1>5. CASE index \in DOMAIN bufs /\ pos = bufs[index]
  <2>1. pos \in Entries /\ pos # NULL
    BY <1>1, <1>2, <1>5
  <2>2. stage' = "deleted" /\ freed' = {pos} /\ ring' = [ring EXCEPT ![pos] = NoRing]
    BY <2>1 DEF Use, Del, Unlink
  <2>3. ring'[pos] = NoRing /\ ring'[test_list] = test_list /\ pos \in Nodes
    BY <1>1, <1>2, <2>1, <2>2 DEF Bookkeeping
  <2>4. QED
    BY <1>1, <1>5, <2>2, <2>3 DEF ExampleInv
<1>6. QED
  BY <1>3, <1>4, <1>5

LEMMA ExampleNextInv == ExampleInv /\ [ExampleNext]_<<listVars, exampleVars>> => ExampleInv'
<1>1. ExampleInv /\ ExampleNext => ExampleInv'
  BY AddArgumentInv, StartSearchInv, SearchInv, UseInv DEF ExampleNext
<1>2. ASSUME ExampleInv, UNCHANGED <<listVars, exampleVars>> PROVE ExampleInv'
  <2>1. ListInv'
    BY <1>2, NextInv DEF ExampleInv
  <2>2. QED
    BY <1>2, <2>1 DEF ExampleInv, InOrder, listVars, exampleVars
<1>3. QED
  BY <1>1, <1>2

\* However many arguments there are, an index of one of them is never reported missing: the
\* program frees the entry asked for and no other, after unlinking it (list_example.c:74-95).
THEOREM ExampleFreesRightly == ExampleSpec => []ExampleFreesWhatItFound
<1>1. ExampleInv => ExampleFreesWhatItFound
  <2> SUFFICES ASSUME ExampleInv PROVE ExampleFreesWhatItFound
    OBVIOUS
  <2>1. Closed(links, ring)
    BY InvParts DEF ExampleInv
  <2>2. \A e \in freed : ring[e] = NoRing
    BY DEF ExampleInv
  <2>3. \A e \in freed : \A x \in Nodes : ring[x] # NoRing => links.next[x] # e
    BY <2>1, <2>2 DEF Closed
  <2>4. QED
    BY <2>2, <2>3 DEF ExampleInv, ExampleFreesWhatItFound
<1>2. QED
  BY <1>1, ExampleInitInv, ExampleNextInv, PTL DEF ExampleSpec
====
