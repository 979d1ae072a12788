------------------------------- MODULE MCPetList -------------------------------
(***************************************************************************)
(* A caller of list_head, a caller of hlist, or the example.  The two kinds *)
(* of list share nothing, so a program with both interleaves one of each,   *)
(* and each is checked without the other.                                   *)
(***************************************************************************)
EXTENDS ListExample, PetHlist, TLC

CONSTANTS a, b, e1, e2, e3

VARIABLE program

TwoHeads     == {a, b}
ThreeEntries == {e1, e2, e3}
Symmetry     == Permutations(Entries)
SomeIndices  == 0 .. 4

MCInit == ListInit /\ HlistInit /\ ExampleInit /\ program \in {"list", "hlist", "example"}

MCNext ==
  /\ \/ program = "list" /\ ListNext /\ UNCHANGED <<hlistVars, exampleVars>>
     \/ program = "hlist" /\ HlistNext /\ UNCHANGED <<listVars, exampleVars>>
     \/ program = "example" /\ ExampleNext /\ UNCHANGED hlistVars
  /\ UNCHANGED program

\* The labels of the last calls are compared with what the lists promise on every step
\* and read by none, so states that differ in them only are explored once.
WithoutCalls == <<links, ring, loopVars, hlinks, chain, hloopVars, exampleVars, program>>

MCSpec == MCInit /\ [][MCNext]_<<listVars, hlistVars, exampleVars, program>>

=============================================================================
