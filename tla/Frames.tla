------------------------------- MODULE Frames -------------------------------
(***************************************************************************)
(* Runs of page frames.  A frame is named by its index in the bitmap of    *)
(* pmm.c; a run of n frames from s is s..(s+n-1).  These operators are the *)
(* vocabulary in which the bitmap allocator, the loop that searches the    *)
(* bitmap and the allocator's abstract promise are all stated.             *)
(***************************************************************************)
EXTENDS Integers

Run(s, n) == s..(s + n - 1)

(* Every start of a run of n frames that is free and ends below lim. *)
Fits(used, lim, n) ==
  {s \in 0..(lim - n) : Run(s, n) \cap used = {}}

(* The lowest such start: the answer of a first-fit search. *)
FirstFit(used, lim, n) ==
  CHOOSE s \in Fits(used, lim, n) : \A t \in Fits(used, lim, n) : s <= t
=============================================================================
