---------------------------- MODULE MCPetHashtable ----------------------------
(***************************************************************************)
(* A small hashtable: tables of 2, 3 and 5 chains for 53, 97, ... and load  *)
(* limits that a second or third entry exceeds.  Keys 0 and 3 share a chain *)
(* in the table of 3 only; equal keys share one in every table.             *)
(***************************************************************************)
EXTENDS PetHashtable

CONSTANTS e1, e2, e3, e4

ThreeCells == {e1, e2, e3}
FourCells  == {e1, e2, e3, e4}
SomeKeys   == {0, 3}
HashOfKey  == [k \in SomeKeys |-> k]
SomePrimes == <<2, 3, 5>>
SomeLimits == <<1, 2, 2>>
OnlyTwo    == {2}
Sizes      == {0, 2}
AllOrOdd   == {{0, 1, 2}, {1}}

\* result is compared with what the collection promises on every step and read by none.
WithoutResult == <<tableVars, iter>>
Symmetry   == Permutations(Cells)

=============================================================================
