----------------------------- MODULE MCKmalloc ------------------------------
(***************************************************************************)
(* A heap of 30 units with headers of 4 and alignment 2 (the ratio of the  *)
(* code's 32 and 16).  Five blocks of the smallest size fit, so that *)
(* splits that leave no room for a header, merges on both sides of a freed *)
(* block and failures by fragmentation all happen.                         *)
(***************************************************************************)
EXTENDS Kmalloc
=============================================================================
