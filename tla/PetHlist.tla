-------------------------------- MODULE PetHlist --------------------------------
(***************************************************************************)
(* struct hlist_head and hlist_node of pet_list.h: chains whose head is a   *)
(* single pointer.  A node's pprev is the address of the pointer that leads *)
(* to it, the first of a head or the next of a node; here it is that head   *)
(* or node, and next[h] stands for the first of h.                           *)
(*                                                                          *)
(* The caller is the one of PetList.                                        *)
(***************************************************************************)
EXTENDS ListPoison, Integers, Sequences, FiniteSets

CONSTANTS
  HHeads, HNodes,
  NoChain,       \* the chain of a node in no list
  NoHloop        \* the value of hloop outside of loops

Places == HHeads \cup HNodes

ASSUME HnodesAssumption ==
  /\ HHeads \cap HNodes = {}
  /\ (Nowhere \cup {NoChain}) \cap Places = {}
  /\ \A h \in HHeads, safe \in BOOLEAN : NoHloop # [head |-> h, safe |-> safe]

VARIABLES
  hlinks,  \* the next of every head and node, the pprev of every node
  chain,   \* what the caller knows: the head of the list that a node is in
  hloop,   \* the loop being run: its head, and whether it is a _safe one
  hpos,    \* its cursor
  hn,      \* the node a _safe loop goes on from
  hcall    \* the last call, and what it returned

hloopVars == <<hloop, hpos, hn>>
hlistVars == <<hlinks, chain, hloop, hpos, hn, hcall>>

-----------------------------------------------------------------------------

INIT_HLIST_NODE(l, x) == [l EXCEPT !.next[x] = NULL, !.pprev[x] = NULL]
hlist_unhashed(l, x)  == l.pprev[x] = NULL
hlist_empty(l, h)     == l.next[h] = NULL

\* x.pprev = p, unless x is NULL.
PointBack(l, x, p) == IF x = NULL THEN l ELSE [l EXCEPT !.pprev[x] = p]

hlist_unlink(l, x) == PointBack([l EXCEPT !.next[l.pprev[x]] = l.next[x]], l.next[x], l.pprev[x])
hlist_del(l, x) ==
  [hlist_unlink(l, x) EXCEPT !.next[x] = LIST_POISON1, !.pprev[x] = LIST_POISON2]
hlist_del_init(l, x) ==
  IF hlist_unhashed(l, x) THEN l ELSE INIT_HLIST_NODE(hlist_unlink(l, x), x)

\* Faulty variant: the old first node keeps pointing back at the head.
hlist_add_head_NoBackLink(l, new, h) ==
  [l EXCEPT !.next[new] = l.next[h], !.next[h] = new, !.pprev[new] = h]

hlist_add_head(l, new, h) ==
  [PointBack([l EXCEPT !.next[new] = l.next[h]], l.next[h], new)
     EXCEPT !.next[h] = new, !.pprev[new] = h]
hlist_add_before(l, new, next) ==
  [l EXCEPT !.pprev[new] = l.pprev[next], !.next[new] = next, !.pprev[next] = new,
            !.next[l.pprev[next]] = new]

\* Faulty variant: the node after x keeps its pprev.
hlist_add_after_NoBackLink(l, x, new) ==
  [l EXCEPT !.next[new] = l.next[x], !.next[x] = new, !.pprev[new] = x]

hlist_add_after(l, x, new) ==
  PointBack([l EXCEPT !.next[new] = l.next[x], !.next[x] = new, !.pprev[new] = x],
            l.next[x], new)

-----------------------------------------------------------------------------

\* Heads by HLIST_HEAD(), nodes by calloc().
HlistInit ==
  /\ hlinks = [next |-> [x \in Places |-> NULL], pprev |-> [x \in HNodes |-> NULL]]
  /\ chain = [x \in Places |-> IF x \in HHeads THEN x ELSE NoChain]
  /\ hloop = NoHloop
  /\ hpos = NULL
  /\ hn = NULL
  /\ hcall = <<"none">>

Hfoothold == IF hloop = NoHloop THEN {} ELSE IF hloop.safe THEN {hn} ELSE {hpos}

HinitNode(x) ==
  /\ chain[x] = NoChain
  /\ hlinks' = INIT_HLIST_NODE(hlinks, x)
  /\ hcall' = <<"init", x>>
  /\ UNCHANGED <<chain, hloopVars>>

\* The head is that of an empty list.
HinitHead(h) ==
  /\ hlist_empty(hlinks, h)
  /\ hlinks' = [hlinks EXCEPT !.next[h] = NULL]
  /\ hcall' = <<"init", h>>
  /\ UNCHANGED <<chain, hloopVars>>

Hlink(x, at) ==
  /\ chain[x] = NoChain /\ chain[at] # NoChain
  /\ chain' = [chain EXCEPT ![x] = chain[at]]
  /\ UNCHANGED hloopVars
HaddHead(x, h) ==
  Hlink(x, h) /\ hlinks' = hlist_add_head(hlinks, x, h) /\ hcall' = <<"add", x, h>>
HaddAfter(x, at) ==
  Hlink(x, at) /\ hlinks' = hlist_add_after(hlinks, at, x) /\ hcall' = <<"add", x, at>>
HaddBefore(x, at) ==
  Hlink(x, at) /\ hlinks' = hlist_add_before(hlinks, x, at) /\ hcall' = <<"add_tail", x, at>>

Hdel(x) ==
  /\ chain[x] # NoChain /\ x \notin Hfoothold
  /\ chain' = [chain EXCEPT ![x] = NoChain]
  /\ hlinks' = hlist_del(hlinks, x)
  /\ hcall' = <<"del", x>>
  /\ UNCHANGED hloopVars

\* Also of a node in no list, unless hlist_del() poisoned it.
HdelInit(x) ==
  /\ chain[x] # NoChain \/ hlist_unhashed(hlinks, x)
  /\ x \notin Hfoothold
  /\ chain' = [chain EXCEPT ![x] = NoChain]
  /\ hlinks' = hlist_del_init(hlinks, x)
  /\ hcall' = <<"del_init", x>>
  /\ UNCHANGED hloopVars

Hempty(h) ==
  /\ hcall' = <<"empty", h, hlist_empty(hlinks, h)>>
  /\ UNCHANGED <<hlinks, chain, hloopVars>>

\* From one execution of the body to the next, or out of the loop at NULL.
Hturn(lp, p) ==
  /\ hpos' = p
  /\ hloop' = IF p = NULL THEN NoHloop ELSE lp
  /\ hn' = IF p # NULL /\ lp.safe THEN hlinks.next[p] ELSE NULL
  /\ UNCHANGED <<hlinks, chain>>

HforEach(h, safe) ==
  /\ hloop = NoHloop
  /\ Hturn([head |-> h, safe |-> safe], hlinks.next[h])
  /\ hcall' = <<"for_each", h, "next">>

\* The _continue and _from variants; neither has a safe form.
Hcontinue(x) ==
  /\ hloop = NoHloop /\ chain[x] # NoChain
  /\ Hturn([head |-> chain[x], safe |-> FALSE], hlinks.next[x])
  /\ hcall' = <<"continue", x>>
Hfrom(x) ==
  /\ hloop = NoHloop /\ chain[x] # NoChain
  /\ Hturn([head |-> chain[x], safe |-> FALSE], x)
  /\ hcall' = <<"from", x>>

Hiterate ==
  /\ hloop # NoHloop
  /\ Hturn(hloop, IF hloop.safe THEN hn ELSE hlinks.next[hpos])
  /\ hcall' = <<"iterate">>

Hbreak ==
  /\ hloop # NoHloop
  /\ hloop' = NoHloop /\ hn' = NULL
  /\ hcall' = <<"break">>
  /\ UNCHANGED <<hlinks, chain, hpos>>

HlistNext ==
  \/ \E h \in HHeads :
       \/ HinitHead(h) \/ Hempty(h)
       \/ \E x \in HNodes : HaddHead(x, h)
       \/ \E safe \in BOOLEAN : HforEach(h, safe)
  \/ \E x \in HNodes :
       \/ HinitNode(x) \/ Hdel(x) \/ HdelInit(x) \/ Hcontinue(x) \/ Hfrom(x)
       \/ \E at \in HNodes : HaddAfter(x, at) \/ HaddBefore(x, at)
  \/ Hiterate \/ Hbreak

HlistSpec == HlistInit /\ [][HlistNext]_hlistVars

-----------------------------------------------------------------------------

\* No sequence of calls tears a chain: the pprev of whatever is in a list is the pointer
\* that leads to it, the pointers of a list lead to its own nodes only, none of them
\* deleted, and a node in a list never looks unhashed (pet_list.h:428-513).
ChainsClosed ==
  /\ \A x \in HNodes : chain[x] # NoChain =>
       /\ hlinks.pprev[x] \in Places /\ chain[hlinks.pprev[x]] = chain[x]
       /\ hlinks.next[hlinks.pprev[x]] = x
  /\ \A p \in Places : chain[p] # NoChain /\ hlinks.next[p] # NULL =>
       /\ hlinks.next[p] \in HNodes /\ chain[hlinks.next[p]] = chain[p]
       /\ hlinks.pprev[hlinks.next[p]] = p

\* The nodes met from x on before NULL, which is met in time.
Hpath(x) ==
  LET size == Cardinality(Places)
      node[i \in 0 .. size] ==
        IF i = 0 THEN x
        ELSE LET y == node[i - 1] IN IF y \in Places THEN hlinks.next[y] ELSE y
      ends == {i \in 0 .. size : node[i] = NULL}
  IN  IF ends = {} THEN <<"lost">>
      ELSE [i \in 1 .. (CHOOSE i \in ends : \A j \in ends : i <= j) |-> node[i - 1]]

Chains == INSTANCE Lists WITH
  Heads   <- HHeads,
  Entries <- HNodes,
  lists   <- [h \in HHeads |-> Hpath(hlinks.next[h])],
  cursor  <- IF hloop = NoHloop THEN NULL ELSE hpos,
  todo    <- IF hloop = NoHloop THEN <<>>
             ELSE Hpath(IF hloop.safe THEN hn ELSE hlinks.next[hpos]),
  call    <- hcall,
  NoList  <- NoChain,
  Nobody  <- NULL

\* Chains with a one-pointer head implement the same lists as rings, loops that delete
\* what they stand on included (pet_list.h:421-573).
ChainsImplementLists == Chains!ListsSpec

=============================================================================
