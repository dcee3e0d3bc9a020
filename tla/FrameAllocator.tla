--------------------------- MODULE FrameAllocator ---------------------------
(***************************************************************************)
(* What pmm.h promises its callers, without a bitmap or a byte count: a    *)
(* set of frames to hand out, reservations that take frames away for good, *)
(* allocations that are runs of frames nobody else holds, and frees that   *)
(* give a run back.                                                        *)
(***************************************************************************)
EXTENDS Frames

VARIABLES avail,       \* frames free to hand out
          held         \* the runs handed out, each a set of frames

avars == <<avail, held>>

AInit == avail \in SUBSET Nat /\ held = {}

(* pmm_reserve: frames disappear from the pool. *)
Withdraw == /\ avail' \subseteq avail
            /\ UNCHANGED held

(* pmm_alloc_frames[_below]: a run of free frames becomes held. *)
Take == \E s, t \in avail :
          /\ s <= t /\ s..t \subseteq avail
          /\ avail' = avail \ (s..t)
          /\ held' = held \cup {s..t}

(* pmm_free_frames: a held run is free again. *)
Give == \E run \in held :
          /\ avail' = avail \cup run
          /\ held' = held \ {run}

ANext == Withdraw \/ Take \/ Give

ASpec == AInit /\ [][ANext]_avars
=============================================================================
