------------------------------ MODULE Kmalloc -------------------------------
(***************************************************************************)
(* The early kernel heap, src/kernel/mm/kmalloc.c: a first-fit allocator   *)
(* over a singly linked list of block headers kept inside the heap.  The   *)
(* loops of kmalloc and kfree are modelled one iteration per step, over    *)
(* the header fields themselves; a call runs to its end before the next    *)
(* one starts (one core, cooperative threads).                             *)
(*                                                                         *)
(* A header is named by its offset in the heap.  DOMAIN blk is the set of  *)
(* headers on the list; a header swallowed by a merge leaves it.           *)
(***************************************************************************)
EXTENDS Integers

CONSTANTS HeapSize,     \* heap_size
          HEADER_SIZE,
          Align,        \* 16
          Sizes         \* sizes callers ask for

(* Sizes stay far below 2^64: the largest request is a cluster, a uint32_t *)
(* count of bytes, so ALIGN_UP and the additions of split_block are exact. *)
ASSUME KmallocAssumption ==
  /\ Align \in Nat \ {0} /\ HEADER_SIZE \in Nat \ {0} /\ HEADER_SIZE % Align = 0
  /\ HeapSize \in Nat /\ HEADER_SIZE < HeapSize /\ HeapSize % Align = 0
  /\ Sizes \subseteq Nat

VARIABLES blk,      \* header -> [size, free, next]
          g_head,
          pc,       \* "idle", "search" (in kmalloc), "merge" (in kfree)
          cur,      \* the loop variable of both
          size,     \* argument of kmalloc
          ret,      \* result of the last kmalloc
          live      \* history: [ptr, size] returned and not yet freed

vars == <<blk, g_head, pc, cur, size, ret, live>>

NULL == -1

(* Mutant: sizes are not rounded. *)
ALIGN_UP_None(x) == x

ALIGN_UP(x) == ((x + Align - 1) \div Align) * Align
asize == ALIGN_UP(size)

Init ==
  /\ blk = [h \in {} |-> {}] /\ g_head = NULL
  /\ pc = "idle" /\ cur = NULL /\ size = 0 /\ ret = NULL
  /\ live = {}

(* Called once, by kmain64, before any thread runs. *)
kmalloc_init ==
  /\ g_head = NULL
  /\ g_head' = 0
  /\ blk' = [h \in {0} |-> [size |-> HeapSize - HEADER_SIZE, free |-> TRUE, next |-> NULL]]
  /\ UNCHANGED <<pc, cur, size, ret, live>>

kmalloc(n) ==
  /\ pc = "idle"
  /\ size' = n
  /\ ret' = NULL
  /\ \/ /\ n = 0 \/ g_head = NULL
        /\ UNCHANGED <<pc, cur>>
     \/ /\ n # 0 /\ g_head # NULL
        /\ pc' = "search" /\ cur' = g_head
  /\ UNCHANGED <<blk, g_head, live>>

(* Mutant: an exact fit is refused. *)
Suitable_Strict(h) == blk[h].free /\ blk[h].size > asize

Suitable(h) == blk[h].free /\ blk[h].size >= asize

(* One round of the search that does not end it, and the end of the list. *)
Skip ==
  /\ pc = "search" /\ cur # NULL /\ ~Suitable(cur)
  /\ cur' = blk[cur].next
  /\ UNCHANGED <<blk, g_head, pc, size, ret, live>>

Exhausted ==
  /\ pc = "search" /\ cur = NULL
  /\ pc' = "idle" /\ ret' = NULL
  /\ UNCHANGED <<blk, g_head, cur, size, live>>

(* Mutant: the rest of the list is lost. *)
split_block_DropsTail(h) ==
  LET new == h + HEADER_SIZE + asize
      total == blk[h].size
  IN  IF total >= asize + HEADER_SIZE + Align
      THEN [g \in DOMAIN blk \cup {new} |->
              IF g = new
              THEN [size |-> total - asize - HEADER_SIZE, free |-> TRUE, next |-> NULL]
              ELSE IF g = h THEN [size |-> asize, free |-> FALSE, next |-> new]
              ELSE blk[g]]
      ELSE [blk EXCEPT ![h].free = FALSE]

(* The tail of a block with room for a header and Align bytes becomes a    *)
(* free block of its own.                                                  *)
split_block(h) ==
  LET new == h + HEADER_SIZE + asize
      total == blk[h].size
  IN  IF total >= asize + HEADER_SIZE + Align
      THEN [g \in DOMAIN blk \cup {new} |->
              IF g = new
              THEN [size |-> total - asize - HEADER_SIZE, free |-> TRUE, next |-> blk[h].next]
              ELSE IF g = h THEN [size |-> asize, free |-> FALSE, next |-> new]
              ELSE blk[g]]
      ELSE [blk EXCEPT ![h].free = FALSE]

Found ==
  /\ pc = "search" /\ cur # NULL /\ Suitable(cur)
  /\ blk' = split_block(cur)
  /\ ret' = cur + HEADER_SIZE
  /\ live' = live \cup {[ptr |-> cur + HEADER_SIZE, size |-> size]}
  /\ pc' = "idle"
  /\ UNCHANGED <<g_head, cur, size>>

ptr_to_hdr(p) == p - HEADER_SIZE

(* Callers free what they hold, once. *)
kfree(a) ==
  /\ pc = "idle" /\ a \in live
  /\ blk' = [blk EXCEPT ![ptr_to_hdr(a.ptr)].free = TRUE]
  /\ live' = live \ {a}
  /\ pc' = "merge" /\ cur' = g_head
  /\ UNCHANGED <<g_head, size, ret>>

Mergeable(h) ==
  LET n == blk[h].next
  IN  /\ n # NULL
      /\ blk[h].free /\ blk[n].free
      /\ h + HEADER_SIZE + blk[h].size = n

(* The successor is swallowed; the loop looks at the same block again. *)
Merge ==
  /\ pc = "merge" /\ Mergeable(cur)
  /\ LET n == blk[cur].next
     IN  blk' = [g \in DOMAIN blk \ {n} |->
                   IF g = cur
                   THEN [size |-> blk[g].size + HEADER_SIZE + blk[n].size,
                         free |-> blk[g].free, next |-> blk[n].next]
                   ELSE blk[g]]
  /\ UNCHANGED <<g_head, pc, cur, size, ret, live>>

(* Mutant: the loop does not move past a block it cannot merge. *)
Advance_Stays ==
  /\ pc = "merge" /\ blk[cur].next # NULL /\ ~Mergeable(cur)
  /\ UNCHANGED vars

Advance ==
  /\ pc = "merge" /\ blk[cur].next # NULL /\ ~Mergeable(cur)
  /\ cur' = blk[cur].next
  /\ UNCHANGED <<blk, g_head, pc, size, ret, live>>

Merged ==
  /\ pc = "merge" /\ blk[cur].next = NULL
  /\ pc' = "idle"
  /\ UNCHANGED <<blk, g_head, cur, size, ret, live>>

Loops == Skip \/ Exhausted \/ Found \/ Merge \/ Advance \/ Merged

Next ==
  \/ kmalloc_init
  \/ \E n \in Sizes : kmalloc(n)
  \/ \E a \in live : kfree(a)
  \/ Loops

Spec == Init /\ [][Next]_vars

(* A call that has started keeps the processor until it returns. *)
FairSpec == Spec /\ WF_vars(Loops)

-----------------------------------------------------------------------------
Block == [size : Nat, free : BOOLEAN, next : Nat \cup {NULL}]

\* Type correctness of the heap of src/kernel/mm/kmalloc.c: every header lies inside the heap, has
\* a natural size (no unsigned wrap in a split), and links to a header or NULL.
TypeOK ==
  /\ DOMAIN blk \subseteq 0..(HeapSize - 1) /\ blk \in [DOMAIN blk -> Block]
  /\ g_head \in {NULL, 0}
  /\ pc \in {"idle", "search", "merge"}
  /\ cur \in DOMAIN blk \cup {NULL}
  /\ size \in Nat /\ ret \in Nat \cup {NULL}
  /\ live \in SUBSET [ptr : Nat, size : Nat \ {0}]

End(h) == h + HEADER_SIZE + blk[h].size

(* The list runs through the heap in address order and its blocks tile it  *)
(* exactly: each block ends where the next begins, the last one at the end *)
(* of the heap, through every split and merge.                             *)
Tiling ==
  g_head = 0 =>
    /\ 0 \in DOMAIN blk
    /\ \A h \in DOMAIN blk :
         IF End(h) = HeapSize THEN blk[h].next = NULL
         ELSE blk[h].next = End(h) /\ End(h) \in DOMAIN blk
    /\ \A g, h \in DOMAIN blk : g < h => End(g) <= h

Payload(a) == a.ptr..(a.ptr + a.size - 1)
Header(h) == h..(h + HEADER_SIZE - 1)

(* The bytes a caller was given are its own: inside its block, apart from  *)
(* every other allocation and from every header kmalloc and kfree write.   *)
Isolation ==
  /\ \A a \in live :
       /\ ptr_to_hdr(a.ptr) \in DOMAIN blk /\ ~blk[ptr_to_hdr(a.ptr)].free
       /\ a.size <= blk[ptr_to_hdr(a.ptr)].size
       /\ \A h \in DOMAIN blk : Payload(a) \cap Header(h) = {}
  /\ \A a, b \in live : a # b => Payload(a) \cap Payload(b) = {}

(* No block is lost: one that is not free belongs to a live allocation. *)
NoLeak == \A h \in DOMAIN blk : ~blk[h].free => \E a \in live : ptr_to_hdr(a.ptr) = h

(* "Coalesce simple next-adjacent" (kmalloc.c:66) coalesces everything: no *)
(* two neighbouring blocks are free when kfree returns.                    *)
Coalesced == pc # "merge" => \A h \in DOMAIN blk : ~Mergeable(h)

(* When everything is freed the heap is the one block it started as.       *)
WholeAgain ==
  pc = "idle" /\ live = {} /\ g_head = 0 =>
    blk = [h \in {0} |-> [size |-> HeapSize - HEADER_SIZE, free |-> TRUE, next |-> NULL]]

Taken == UNION {h..(End(h) - 1) : h \in {g \in DOMAIN blk : ~blk[g].free}}

(* kmalloc returns NULL only when the heap has no gap between allocations  *)
(* that would hold the rounded request and its header.                     *)
NoSpuriousFailure ==
  pc = "search" /\ cur = NULL =>
    \A x \in 0..(HeapSize - HEADER_SIZE - asize) :
      (x..(x + HEADER_SIZE + asize - 1)) \cap Taken # {}

(* Every call returns. *)
CallsReturn == pc # "idle" ~> pc = "idle"

Heap == INSTANCE ByteHeap WITH held <- live

(* The header list implements the allocator of kmalloc.h, alignment        *)
(* included ("alignment to 16 bytes", kmalloc.c:5).                        *)
ImplementsHeap == Heap!HSpec
=============================================================================
