------------------------------ MODULE ListExample ------------------------------
(***************************************************************************)
(* list_example.c: the arguments go into a list, in order; the one with the *)
(* index the user types is searched, unlinked and freed.                    *)
(***************************************************************************)
EXTENDS PetList

CONSTANTS
  test_list,  \* the list
  Indices     \* what the user may type

ASSUME ExampleAssumption == test_list \in Heads

VARIABLES
  bufs,   \* the entries made so far, that with idx k at place k
  index,  \* the index typed in; 0 before
  stage,  \* "add", "search", "deleted", "reported", or "undefined"
  freed   \* the entries given to free()

exampleVars == <<bufs, index, stage, freed>>

ExampleInit ==
  /\ bufs = <<>> /\ index = 0
  /\ stage = "add"
  /\ freed = {}

AddArgument ==
  /\ stage = "add"
  /\ \E e \in Entries : AddTail(e, test_list) /\ bufs' = Append(bufs, e)
  /\ UNCHANGED <<index, stage, freed>>

StartSearch ==
  /\ stage = "add"
  /\ ForEach(test_list, "next", FALSE)
  /\ index' \in Indices
  /\ stage' = "search"
  /\ UNCHANGED <<bufs, freed>>

\* The body: break at the entry with that index.
Search ==
  /\ stage = "search" /\ loop # NoLoop
  /\ IF index \in DOMAIN bufs /\ bufs[index] = pos THEN Break ELSE Iterate
  /\ UNCHANGED exampleVars

\* Faulty variant: the entry is freed and stays in the list.
Use_FreesOnly ==
  /\ stage = "search" /\ loop = NoLoop
  /\ stage' = IF pos = NULL THEN "reported" ELSE IF pos \in Entries THEN "deleted" ELSE "undefined"
  /\ freed' = freed \cup ({pos} \cap Entries)
  /\ UNCHANGED <<bufs, index, listVars>>

\* The cursor is taken for an entry unless it is NULL.  That of a loop that found nothing
\* is where an entry would be if the head were part of one: it is printed, unlinked and
\* freed all the same, and nothing is claimed of what follows.
Use ==
  /\ stage = "search" /\ loop = NoLoop
  /\ stage' = IF pos = NULL THEN "reported" ELSE IF pos \in Entries THEN "deleted" ELSE "undefined"
  /\ IF pos \in Entries THEN Del(pos) /\ freed' = {pos} ELSE UNCHANGED <<freed, listVars>>
  /\ UNCHANGED <<bufs, index>>

ExampleNext == AddArgument \/ StartSearch \/ Search \/ Use

ExampleSpec == ListInit /\ ExampleInit /\ [][ExampleNext]_<<listVars, exampleVars>>

\* An index that an argument has is found: the program never reports it missing, frees the
\* entry asked for and no other, and only after unlinking it.  Of an index that no argument
\* has, nothing is said (list_example.c:74-95).
ExampleFreesWhatItFound ==
  /\ index \in DOMAIN bufs => stage \notin {"reported", "undefined"}
  /\ stage = "deleted" => index \in DOMAIN bufs /\ freed = {bufs[index]}
  /\ \A e \in freed : ring[e] = NoRing /\ \A x \in Nodes : ring[x] # NoRing => links.next[x] # e

\* What the branch is there for: an index that no argument has is reported, and only such
\* a one ("Error: Could not locate index ...", list_example.c:81-84).
AbsentIndexReported ==
  stage \in {"deleted", "reported", "undefined"} => (stage = "reported" <=> index \notin DOMAIN bufs)

=============================================================================
