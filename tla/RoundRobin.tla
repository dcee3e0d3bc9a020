----------------------------- MODULE RoundRobin -----------------------------
(***************************************************************************)
(* The scheduling policy that sched.c promises ("round-robin: enqueue      *)
(* current if still runnable", src/kernel64/sched/sched.c:77): a first-in  *)
(* first-out queue of ready threads, one of which runs at a time.  No      *)
(* pointers, no stacks.                                                    *)
(***************************************************************************)
EXTENDS Sequences, Naturals

CONSTANTS Threads, None

VARIABLES queue,     \* ready threads, the next to run first
          running,   \* the thread that runs, or None
          ended      \* threads whose entry function returned

rvars == <<queue, running, ended>>

RInit == queue = << >> /\ running = None /\ ended = {}

Ready(t) == \E i \in 1..Len(queue) : queue[i] = t

RCreate == \E t \in Threads :
             /\ ~Ready(t) /\ t # running /\ t \notin ended
             /\ queue' = Append(queue, t)
             /\ UNCHANGED <<running, ended>>

RStart == /\ running = None /\ queue # << >>
          /\ running' = Head(queue) /\ queue' = Tail(queue)
          /\ UNCHANGED ended

RYield == /\ running # None /\ queue # << >>
          /\ running' = Head(queue) /\ queue' = Append(Tail(queue), running)
          /\ UNCHANGED ended

RExit == /\ running # None
         /\ ended' = ended \cup {running}
         /\ IF queue = << >> THEN running' = None /\ UNCHANGED queue
            ELSE running' = Head(queue) /\ queue' = Tail(queue)

RNext == RCreate \/ RStart \/ RYield \/ RExit

RSpec == RInit /\ [][RNext]_rvars
=============================================================================
