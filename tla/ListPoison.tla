------------------------------ MODULE ListPoison ------------------------------
(***************************************************************************)
(* The pointers of pet_list.h that lead to no node.                         *)
(***************************************************************************)
CONSTANTS NULL, LIST_POISON1, LIST_POISON2

ASSUME PoisonAssumption == NULL \notin {LIST_POISON1, LIST_POISON2}

Nowhere == {NULL, LIST_POISON1, LIST_POISON2}

=============================================================================
