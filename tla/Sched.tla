------------------------------- MODULE Sched --------------------------------
(***************************************************************************)
(* The cooperative scheduler, src/kernel64/sched/sched.c, at the level of  *)
(* its linked run queue and of the stack the processor is on.  Threads are *)
(* named by their index in g_threads.  A switch happens only where a       *)
(* thread yields or returns, so each call is one step.                     *)
(***************************************************************************)
EXTENDS Integers, Sequences

CONSTANT MAX_THREADS

ASSUME SchedAssumption == MAX_THREADS \in Nat \ {0}

VARIABLES g_runq, g_current, g_thread_count,
          next,      \* t->next, stale once t is dequeued
          state,     \* 0 ready, 1 running, 2 done
          rsp,       \* t->rsp: the stack it points into and what `ret' there resumes
          cpu,       \* the stack the processor is on
          at,        \* what it resumed at the last switch
          regs,      \* whose values the callee-saved registers hold
          halted     \* the hlt loop of thread_trampoline

vars == <<g_runq, g_current, g_thread_count, next, state, rsp, cpu, at, regs, halted>>

NULL == -1
Boot == -1                                \* the stack kmain64 runs on
Threads == 0..(MAX_THREADS - 1)
Created == 0..(g_thread_count - 1)

Init ==
  /\ g_runq = NULL /\ g_current = NULL /\ g_thread_count = 0
  /\ next = [t \in Threads |-> NULL] /\ state = [t \in Threads |-> 0]
  /\ rsp = [t \in Threads |-> [stack |-> t, resume |-> "none"]]
  /\ cpu = Boot /\ at = "boot" /\ regs = Boot
  /\ halted = FALSE

(* s is what a walk from rq along nx visits, up to its NULL. *)
IsList(rq, nx, s) ==
  IF s = << >> THEN rq = NULL
  ELSE /\ rq = s[1]
       /\ \A i \in 1..(Len(s) - 1) : nx[s[i]] = s[i + 1]
       /\ nx[s[Len(s)]] = NULL

Lists == UNION {[1..n -> Threads] : n \in 0..MAX_THREADS}
Walk(rq, nx) == CHOOSE s \in Lists : IsList(rq, nx, s)

(* Mutant: the stale t->next of a dequeued thread is not reset. *)
enqueue_KeepsNext(rq, nx, t) ==
  LET s == Walk(rq, nx)
  IN  IF rq = NULL THEN [runq |-> t, next |-> nx]
      ELSE [runq |-> rq, next |-> [nx EXCEPT ![s[Len(s)]] = t]]

(* Mutant: the thread is pushed at the head. *)
enqueue_AtHead(rq, nx, t) == [runq |-> t, next |-> [nx EXCEPT ![t] = rq]]

(* enqueue walks to the last thread and links t behind it. *)
enqueue(rq, nx, t) ==
  LET cut == [nx EXCEPT ![t] = NULL]
      s == Walk(rq, cut)
  IN  IF rq = NULL THEN [runq |-> t, next |-> cut]
      ELSE [runq |-> rq, next |-> [cut EXCEPT ![s[Len(s)]] = t]]

(* Mutant: the stack pointer is saved in the thread that is switched to. *)
sched_context_switch_SavesNew(prev, t, here) ==
  /\ rsp' = [rsp EXCEPT ![t] = [stack |-> cpu, resume |-> here]]
  /\ cpu' = rsp[t].stack
  /\ at' = rsp[t].resume
  /\ regs' = prev

(* The processor leaves prev for the saved stack of t.  Only rsp is saved: *)
(* the registers keep the values prev left in them.                        *)
sched_context_switch(prev, t, here) ==
  /\ rsp' = [rsp EXCEPT ![prev] = [stack |-> cpu, resume |-> here]]
  /\ cpu' = rsp[t].stack
  /\ at' = rsp[t].resume
  /\ regs' = prev

(* Called by kmain64 before the start and by running threads after it. *)
sched_create ==
  /\ ~halted
  /\ g_thread_count < MAX_THREADS
  /\ LET t == g_thread_count
         q == enqueue(g_runq, next, t)
     IN  /\ state' = [state EXCEPT ![t] = 0]
         /\ rsp' = [rsp EXCEPT ![t] = [stack |-> t, resume |-> "trampoline"]]
         /\ g_runq' = q.runq /\ next' = q.next
  /\ g_thread_count' = g_thread_count + 1
  /\ UNCHANGED <<g_current, cpu, at, regs, halted>>

(* kmain64's own stack pointer goes to a dummy and is never resumed. *)
sched_start ==
  /\ g_current = NULL /\ g_runq # NULL
  /\ LET t == g_runq
     IN  /\ g_runq' = next[t]
         /\ g_current' = t
         /\ state' = [state EXCEPT ![t] = 1]
         /\ cpu' = rsp[t].stack /\ at' = rsp[t].resume
  /\ regs' = Boot
  /\ UNCHANGED <<g_thread_count, next, rsp, halted>>

(* Mutant: the running thread is not put back in the queue. *)
sched_yield_Drops ==
  /\ g_current # NULL /\ ~halted /\ g_runq # NULL
  /\ LET t == g_runq
     IN  /\ g_runq' = next[t] /\ UNCHANGED next
         /\ state' = [state EXCEPT ![g_current] = 0, ![t] = 1]
         /\ g_current' = t
         /\ sched_context_switch(g_current, t, "yield")
  /\ UNCHANGED <<g_thread_count, halted>>

(* The running thread gives way to the head of the queue.                  *)
sched_yield ==
  /\ g_current # NULL /\ ~halted /\ g_runq # NULL
  /\ LET t == g_runq
         rest == next[t]
     IN  IF t = g_current
         THEN LET q == enqueue(rest, next, t)
              IN  /\ g_runq' = q.runq /\ next' = q.next
                  /\ UNCHANGED <<g_current, state, rsp, cpu, at, regs>>
         ELSE /\ IF state[g_current] = 1
                 THEN LET q == enqueue(rest, next, g_current)
                      IN  /\ g_runq' = q.runq /\ next' = q.next
                          /\ state' = [state EXCEPT ![g_current] = 0, ![t] = 1]
                 ELSE /\ g_runq' = rest /\ UNCHANGED next
                      /\ state' = [state EXCEPT ![t] = 1]
              /\ g_current' = t
              /\ sched_context_switch(g_current, t, "yield")
  /\ UNCHANGED <<g_thread_count, halted>>

(* The entry function of the running thread returned to thread_trampoline. *)
thread_trampoline ==
  /\ g_current # NULL /\ ~halted
  /\ LET t == g_runq
     IN  IF t = NULL
         THEN /\ halted' = TRUE
              /\ state' = [state EXCEPT ![g_current] = 2]
              /\ UNCHANGED <<g_runq, g_current, rsp, cpu, at, regs>>
         ELSE /\ g_runq' = next[t]
              /\ g_current' = t
              /\ state' = [state EXCEPT ![g_current] = 2, ![t] = 1]
              /\ sched_context_switch(g_current, t, "end")
              /\ UNCHANGED halted
  /\ UNCHANGED <<g_thread_count, next>>

(* for(;;) hlt *)
hlt == halted /\ UNCHANGED vars

Next == sched_create \/ sched_start \/ sched_yield \/ thread_trampoline \/ hlt

Spec == Init /\ [][Next]_vars

(* kmain64 calls sched_start, and a cooperative thread yields or returns   *)
(* in the end: shell_main yields after every line it reads.                *)
FairSpec == Spec /\ WF_vars(sched_start) /\ WF_vars(sched_yield \/ thread_trampoline)

-----------------------------------------------------------------------------
Frame == [stack : Threads \cup {Boot}, resume : {"none", "trampoline", "yield", "end"}]

\* Type correctness of src/kernel64/sched/sched.c: queue links and current name slots of the
\* thread table, and the number of threads stays within MAX_THREADS.
TypeOK ==
  /\ g_runq \in Threads \cup {NULL} /\ g_current \in Threads \cup {NULL}
  /\ g_thread_count \in 0..MAX_THREADS
  /\ next \in [Threads -> Threads \cup {NULL}]
  /\ state \in [Threads -> 0..2]
  /\ rsp \in [Threads -> Frame]
  /\ cpu \in Threads \cup {Boot}
  /\ at \in {"boot", "none", "trampoline", "yield", "end"}
  /\ regs \in Threads \cup {Boot}
  /\ halted \in BOOLEAN

Queue == Walk(g_runq, next)

(* The run queue is a proper list of exactly the ready threads, each once: *)
(* no thread is lost, queued twice, or queued while it runs or after it    *)
(* ended, although dequeue leaves t->next stale.                           *)
NoLostThread ==
  /\ \E s \in Lists : IsList(g_runq, next, s)
  /\ \A t \in Created : state[t] = 0 <=> \E i \in 1..Len(Queue) : Queue[i] = t
  /\ \A i, j \in 1..Len(Queue) : Queue[i] = Queue[j] => i = j
  /\ \A i \in 1..Len(Queue) : Queue[i] \in Created

(* The processor is always on the stack of g_current, the one thread in    *)
(* state 1, and every ready thread will resume on its own stack.           *)
RightStack ==
  /\ g_current # NULL =>
       /\ cpu = g_current
       /\ state[g_current] = IF halted THEN 2 ELSE 1
  /\ \A t \in Created : state[t] = 1 => t = g_current
  /\ \A t \in Created : state[t] = 0 =>
       rsp[t].stack = t /\ rsp[t].resume \in {"trampoline", "yield"}

(* A thread that ended is never resumed: the end of thread_trampoline,     *)
(* which has no return address, is never reached.                          *)
EndedStaysEnded == [][\A t \in Created : state[t] = 2 => state'[t] = 2 /\ cpu' # t]_vars

(* Every thread that is ready runs in the end. *)
EveryReadyRuns ==
  \A t \in Threads : (t \in Created /\ state[t] = 0) ~> (state[t] = 1)

Policy == INSTANCE RoundRobin WITH
            None <- NULL,
            queue <- Queue,
            running <- IF g_current # NULL /\ ~halted THEN g_current ELSE NULL,
            ended <- {t \in Created : state[t] = 2}

(* The linked list implements first-in first-out scheduling. *)
ImplementsRoundRobin == Policy!RSpec

(* "x86_64 long mode kernel with proper SysV ABI calling conventions"      *)
(* (README.md:8): a call returns with the callee-saved registers it was    *)
(* made with, so a thread that resumes in sched_yield finds its own.       *)
CalleeSavedPreserved == at = "yield" => regs = g_current
=============================================================================
