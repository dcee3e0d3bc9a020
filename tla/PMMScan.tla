------------------------------ MODULE PMMScan -------------------------------
(***************************************************************************)
(* The allocation calls of src/kernel/mm/pmm.c with their search loop one  *)
(* frame per step: the early returns, the run length counter `run', the    *)
(* remembered start `run_start' and the return as soon as the run is long  *)
(* enough.  pmm_alloc_frames is the case lim = frames of                   *)
(* pmm_alloc_frames_below; both share the loop line for line.  The module  *)
(* PMM, where a call is one step that knows the first fit, is the          *)
(* specification this one implements.                                      *)
(***************************************************************************)
EXTENDS PMM

VARIABLES pc,              \* "idle", or "scan" while a call is in its loop
          count, lim, max, \* its arguments, the limit as an index and as given
          i, run, run_start

scan == <<pc, count, lim, max, i, run, run_start>>
allvars == <<vars, scan>>

ScanInit ==
  /\ Init
  /\ pc = "idle" /\ count = 0 /\ lim = 0 /\ max = 0
  /\ i = 0 /\ run = 0 /\ run_start = 0

(* The call returns, its locals are gone. *)
Leave ==
  /\ pc' = "idle" /\ count' = 0 /\ lim' = 0 /\ max' = 0
  /\ i' = 0 /\ run' = 0 /\ run_start' = 0

(* What it returns, and that it was no reservation. *)
Answer(c, m, addr) ==
  /\ ret' = [count |-> c, max |-> m, addr |-> addr]
  /\ phase' = "run"
  /\ UNCHANGED <<map, reserved>>

Refused(c, m) ==
  Answer(c, m, NoFrames) /\ UNCHANGED <<used, g_free, live>>

(* Mutant: the early test on g_free refuses an exact fit. *)
Enter_RefusesLast(c, l, m) ==
  /\ pc = "idle"
  /\ \/ /\ c = 0 \/ g_free <= c * FrameSize
        /\ Refused(c, m) /\ UNCHANGED scan
     \/ /\ c # 0 /\ g_free > c * FrameSize
        /\ pc' = "scan" /\ count' = c /\ lim' = l /\ max' = m
        /\ i' = 0 /\ run' = 0 /\ run_start' = 0
        /\ UNCHANGED vars

(* The entry of either function: refuse 0 frames, refuse on g_free, or     *)
(* start the search.                                                       *)
Enter(c, l, m) ==
  /\ pc = "idle"
  /\ \/ /\ c = 0 \/ g_free < c * FrameSize
        /\ Refused(c, m) /\ UNCHANGED scan
     \/ /\ c # 0 /\ g_free >= c * FrameSize
        /\ pc' = "scan" /\ count' = c /\ lim' = l /\ max' = m
        /\ i' = 0 /\ run' = 0 /\ run_start' = 0
        /\ UNCHANGED vars

(* Mutant: one frame too few is marked. *)
Take_MarksShort(s) ==
  /\ used' = used \cup Run(s, count - 1)
  /\ g_free' = g_free - count * FrameSize
  /\ live' = live \cup {[start |-> s, count |-> count]}
  /\ Answer(count, max, map.base + s * FrameSize)

(* The run from s on is taken and returned. *)
Take(s) ==
  /\ used' = used \cup Run(s, count)
  /\ g_free' = g_free - count * FrameSize
  /\ live' = live \cup {[start |-> s, count |-> count]}
  /\ Answer(count, max, map.base + s * FrameSize)

(* Mutant: run_start is set on every free frame, not on the first of a run. *)
FreeFrame_LateStart ==
  LET s == i
  IN  /\ pc = "scan" /\ i < lim /\ i \notin used
      /\ \/ run + 1 >= count /\ Take(s) /\ Leave
         \/ /\ run + 1 < count
            /\ run_start' = s /\ run' = run + 1 /\ i' = i + 1
            /\ UNCHANGED <<vars, pc, count, lim, max>>

(* A free frame extends the run; a run of `count' frames is taken. *)
FreeFrame ==
  LET s == IF run = 0 THEN i ELSE run_start
  IN  /\ pc = "scan" /\ i < lim /\ i \notin used
      /\ \/ run + 1 >= count /\ Take(s) /\ Leave
         \/ /\ run + 1 < count
            /\ run_start' = s /\ run' = run + 1 /\ i' = i + 1
            /\ UNCHANGED <<vars, pc, count, lim, max>>

(* A used frame ends the run. *)
UsedFrame ==
  /\ pc = "scan" /\ i < lim /\ i \in used
  /\ run' = 0
  /\ i' = i + 1
  /\ UNCHANGED <<vars, pc, count, lim, max, run_start>>

(* The loop ends without a return: the function returns 0. *)
Exhausted ==
  /\ pc = "scan" /\ i >= lim
  /\ Refused(count, max) /\ Leave

(* A call runs to its end before the next one begins. *)
Idly(A) == pc = "idle" /\ A /\ UNCHANGED scan

ScanNext ==
  \/ \E r \in ReserveRanges : Idly(pmm_reserve(r[1], r[2]))
  \/ \E a \in live : Idly(pmm_free_frames(a))
  \/ \E c \in Counts : Enter(c, NFrames(map), map.limit)
  \/ \E c \in Counts, m \in MaxPhys : Enter(c, limit_idx(m), m)
  \/ FreeFrame
  \/ UsedFrame
  \/ Exhausted

ScanSpec == ScanInit /\ [][ScanNext]_allvars

-----------------------------------------------------------------------------
(* The call in progress asked for something it may ask for, and g_free     *)
(* covers it.                                                              *)
CallInv ==
  pc = "scan" =>
    /\ count \in Counts \ {0} /\ g_free >= count * FrameSize
    /\ \/ lim = NFrames(map) /\ max = map.limit
       \/ max \in MaxPhys /\ lim = limit_idx(max)

(* What the loop knows at the head of an iteration: the last `run' frames  *)
(* are free and start at run_start, the frame before them is used, and no  *)
(* run of `count' free frames ends at or before i.                         *)
LoopInv ==
  pc = "scan" =>
    /\ i \in 0..lim /\ run \in 0..i /\ run < count
    /\ run > 0 => run_start = i - run
    /\ \A k \in (i - run)..(i - 1) : k \notin used
    /\ i > run => (i - run - 1) \in used
    /\ \A s \in 0..(i - count) : Run(s, count) \cap used # {}

(* The loop is a first-fit search: a call of pmm_alloc_frames or           *)
(* pmm_alloc_frames_below ends as the one-step call of PMM does, with the  *)
(* lowest run of free frames below the limit taken, or with 0 and nothing  *)
(* changed when there is none.                                             *)
ImplementsPMM == Spec
=============================================================================
