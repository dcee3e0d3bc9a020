------------------------------ MODULE ByteHeap ------------------------------
(***************************************************************************)
(* What kmalloc.h promises its callers: allocations are aligned ranges of  *)
(* the heap that nobody else holds, kfree gives one back, and a request    *)
(* may fail.  No headers, no list.                                         *)
(***************************************************************************)
EXTENDS Integers

CONSTANTS HeapSize, Align

VARIABLE held       \* allocations not yet freed: [ptr, size] with size > 0

Bytes(a) == a.ptr..(a.ptr + a.size - 1)

HInit == held = {}

HAlloc == \E a \in held' \ held :
            /\ held' = held \cup {a}
            /\ a.size > 0 /\ a.ptr % Align = 0
            /\ Bytes(a) \subseteq 0..(HeapSize - 1)
            /\ \A b \in held : Bytes(a) \cap Bytes(b) = {}

HFree == \E a \in held : held' = held \ {a}

HSpec == HInit /\ [][HAlloc \/ HFree]_held
=============================================================================
