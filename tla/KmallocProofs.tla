---------------------------- MODULE KmallocProofs ---------------------------
(***************************************************************************)
(* Proofs about the kernel heap, for every heap size, header size,         *)
(* alignment and sequence of calls.                                        *)
(***************************************************************************)
EXTENDS Kmalloc, NaturalsInduction, WellFoundedInduction, TLAPS

-----------------------------------------------------------------------------
(* Arithmetic of alignment. *)

\* ALIGN_UP returns a multiple of the alignment that is at least its argument.
LEMMA AlignUp ==
  ASSUME NEW x \in Nat
  PROVE  /\ ALIGN_UP(x) \in Nat /\ ALIGN_UP(x) >= x
         /\ ALIGN_UP(x) % Align = 0
<1> DEFINE q == (x + Align - 1) \div Align
<1>1. Align \in Nat /\ Align > 0
  BY KmallocAssumption
<1>2. q \in Nat /\ q * Align <= x + Align - 1 /\ x + Align - 1 < q * Align + Align
  BY <1>1
<1> HIDE DEF q
<1>3. q * Align \in Nat /\ (q * Align) % Align = 0
  BY <1>1, <1>2
<1>4. q * Align >= x
  BY <1>1, <1>2, <1>3
<1>. QED
  BY <1>3, <1>4 DEF ALIGN_UP, q

\* An aligned number is a multiple of the alignment, in the form the arithmetic steps need.
LEMMA AlignedIsMultiple ==
  ASSUME NEW a \in Nat, a % Align = 0
  PROVE  \E i \in Nat : a = i * Align
<1>1. Align \in Nat /\ Align > 0
  BY KmallocAssumption
<1>2. a = (a \div Align) * Align /\ a \div Align \in Nat
  BY <1>1
<1>. QED
  BY <1>2

\* Sums of aligned numbers are aligned.
LEMMA AlignedSum ==
  ASSUME NEW a \in Nat, NEW b \in Nat, a % Align = 0, b % Align = 0
  PROVE  (a + b) % Align = 0
<1>1. Align \in Nat /\ Align > 0
  BY KmallocAssumption
<1>2. PICK i \in Nat : a = i * Align
  BY AlignedIsMultiple
<1>3. PICK j \in Nat : b = j * Align
  BY AlignedIsMultiple
<1>4. a + b = (i + j) * Align
  BY <1>1, <1>2, <1>3
<1>5. ASSUME NEW k \in Nat PROVE (k * Align) % Align = 0
  BY <1>1
<1>. QED
  BY <1>4, <1>5

-----------------------------------------------------------------------------
(* The invariant. *)

(* A live allocation sits in its own block, which is not free. *)
Owned ==
  /\ \A a \in live :
       /\ ptr_to_hdr(a.ptr) \in DOMAIN blk /\ ~blk[ptr_to_hdr(a.ptr)].free
       /\ a.size <= blk[ptr_to_hdr(a.ptr)].size
  /\ \A a, b \in live : a.ptr = b.ptr => a = b

(* Headers are aligned. *)
Aligned == \A h \in DOMAIN blk : h % Align = 0

(* Before kmalloc_init there is no heap, and nobody calls kfree. *)
Unset == g_head = NULL => DOMAIN blk = {} /\ pc = "idle" /\ live = {}

(* What the two loops know of the blocks behind them. *)
SearchInv ==
  pc = "search" =>
    /\ size # 0
    /\ \A h \in DOMAIN blk : (cur = NULL \/ h < cur) => ~Suitable(h)

MergeInv ==
  pc = "merge" =>
    /\ cur # NULL
    /\ \A h \in DOMAIN blk : h < cur => ~Mergeable(h)

IInv == /\ TypeOK /\ Tiling /\ Owned /\ NoLeak /\ Aligned /\ Unset
        /\ SearchInv /\ MergeInv /\ Coalesced

\* The heap's inductive invariant holds before kmalloc_init.
LEMMA KmallocInit == Init => IInv
BY KmallocAssumption
   DEF Init, IInv, TypeOK, Tiling, Owned, NoLeak, Aligned, Unset, SearchInv, MergeInv,
       Coalesced, Block, NULL

\* kmalloc_init, which makes one free block of the whole heap, keeps the invariant.
LEMMA InitStep == ASSUME IInv, kmalloc_init PROVE IInv'
<1>1. /\ DOMAIN blk' = {0} /\ blk'[0].next = NULL /\ blk'[0].free
      /\ blk'[0].size = HeapSize - HEADER_SIZE /\ blk' \in [{0} -> Block]
      /\ g_head' = 0 /\ pc = "idle" /\ live = {}
      /\ UNCHANGED <<pc, cur, size, ret, live>> /\ cur \in {NULL}
  BY KmallocAssumption DEF kmalloc_init, Block, NULL, IInv, Unset, TypeOK
<1>2. TypeOK'
  BY <1>1, KmallocAssumption DEF IInv, TypeOK
<1>3. Tiling' /\ Coalesced' /\ Owned' /\ NoLeak'
  BY <1>1, KmallocAssumption DEF Tiling, End, Coalesced, Mergeable, Owned, NoLeak, NULL
<1>4. Aligned'
  <2>1. 0 % Align = 0
    BY KmallocAssumption
  <2>. QED
    BY <1>1, <2>1 DEF Aligned
<1>5. Unset' /\ SearchInv' /\ MergeInv'
  BY <1>1 DEF Unset, SearchInv, MergeInv, NULL
<1>. QED
  BY <1>2, <1>3, <1>4, <1>5 DEF IInv

\* Entering kmalloc keeps the invariant: the search starts at the first block.
LEMMA CallStep == ASSUME IInv, NEW n \in Sizes, kmalloc(n) PROVE IInv'
<1>1. n \in Nat
  BY KmallocAssumption
<1>2. UNCHANGED <<blk, g_head, live>> /\ pc = "idle"
  BY DEF kmalloc
<1>3. CASE n = 0 \/ g_head = NULL
  <2>1. UNCHANGED <<pc, cur>> /\ size' = n /\ ret' = NULL
    BY <1>3 DEF kmalloc
  <2>. QED
    BY <1>1, <1>2, <2>1
       DEF IInv, TypeOK, Tiling, End, Owned, NoLeak, Aligned, Unset, SearchInv, MergeInv,
           Coalesced, Mergeable
<1>4. CASE n # 0 /\ g_head # NULL
  <2>1. pc' = "search" /\ cur' = g_head /\ size' = n /\ ret' = NULL /\ g_head = 0
    BY <1>4 DEF kmalloc, IInv, TypeOK
  <2>2. 0 \in DOMAIN blk /\ \A h \in DOMAIN blk : ~(h < 0)
    BY <2>1, KmallocAssumption DEF IInv, Tiling, TypeOK
  <2>3. TypeOK'
    BY <1>1, <1>2, <2>1, <2>2 DEF IInv, TypeOK
  <2>4. SearchInv'
    BY <1>2, <1>4, <2>1, <2>2 DEF SearchInv, NULL
  <2>. QED
    BY <1>2, <2>1, <2>3, <2>4
       DEF IInv, Tiling, End, Owned, NoLeak, Aligned, Unset, MergeInv,
           Coalesced, Mergeable, NULL
<1>. QED
  BY <1>2, <1>3, <1>4

(* What the tiling says of the successor of a block. *)
LEMMA Successor ==
  ASSUME TypeOK, Tiling, g_head = 0, NEW h \in DOMAIN blk
  PROVE  /\ h \in Nat /\ blk[h].size \in Nat /\ blk[h].free \in BOOLEAN
         /\ End(h) \in Nat /\ End(h) > h
         /\ blk[h].next = NULL => \A g \in DOMAIN blk : g # h => g < h
         /\ blk[h].next # NULL =>
              /\ blk[h].next \in DOMAIN blk /\ blk[h].next = End(h)
              /\ \A g \in DOMAIN blk : g < blk[h].next => g <= h
<1>1. blk[h] \in Block /\ DOMAIN blk \subseteq Nat
  BY DEF TypeOK
<1>2. h \in Nat /\ blk[h].size \in Nat /\ blk[h].free \in BOOLEAN
      /\ blk[h].next \in Nat \cup {NULL}
  BY <1>1 DEF Block
<1>3. End(h) \in Nat /\ End(h) > h
  BY <1>2, KmallocAssumption DEF End
<1>4. \A g \in DOMAIN blk : g \in Nat /\ g < HeapSize /\ (g > h => End(h) <= g)
  BY KmallocAssumption DEF TypeOK, Tiling
<1>5. IF End(h) = HeapSize THEN blk[h].next = NULL
      ELSE blk[h].next = End(h) /\ End(h) \in DOMAIN blk
  BY DEF Tiling
<1>6. ASSUME blk[h].next = NULL, NEW g \in DOMAIN blk, g # h PROVE g < h
  <2>1. End(h) = HeapSize
    BY <1>3, <1>5, <1>6 DEF NULL
  <2>. QED
    BY <1>2, <1>4, <1>6, <2>1, KmallocAssumption
<1>7. ASSUME blk[h].next # NULL
      PROVE  /\ blk[h].next \in DOMAIN blk /\ blk[h].next = End(h)
             /\ \A g \in DOMAIN blk : g < blk[h].next => g <= h
  BY <1>2, <1>3, <1>4, <1>5, <1>7
<1>. QED
  BY <1>2, <1>3, <1>6, <1>7

\* Passing over an unsuitable block keeps the invariant.
LEMMA SkipStep == ASSUME IInv, Skip PROVE IInv'
<1>1. /\ pc = "search" /\ cur # NULL /\ ~Suitable(cur) /\ cur' = blk[cur].next
      /\ UNCHANGED <<blk, g_head, pc, size, ret, live>>
  BY DEF Skip
<1>2. cur \in DOMAIN blk /\ g_head = 0
  BY <1>1 DEF IInv, TypeOK, Unset, NULL
<1>3. /\ cur \in Nat
      /\ blk[cur].next = NULL => \A g \in DOMAIN blk : g # cur => g < cur
      /\ blk[cur].next # NULL =>
           /\ blk[cur].next \in DOMAIN blk
           /\ \A g \in DOMAIN blk : g < blk[cur].next => g <= cur
  BY <1>2, Successor DEF IInv
<1>4. TypeOK'
  BY <1>1, <1>3 DEF IInv, TypeOK
<1>5. \A h \in DOMAIN blk : h \in Nat /\ (h < cur => ~Suitable(h))
  BY <1>1 DEF IInv, SearchInv, TypeOK
<1>6. \A h \in DOMAIN blk : (cur' = NULL \/ h < cur') => h < cur \/ h = cur
  BY <1>1, <1>3, <1>5
<1>7. \A h \in DOMAIN blk : Suitable(h)' <=> Suitable(h)
  BY <1>1 DEF Suitable, asize
<1>8. SearchInv'
  BY <1>1, <1>5, <1>6, <1>7 DEF IInv, SearchInv
<1>. QED
  BY <1>1, <1>4, <1>8
     DEF IInv, Tiling, End, Owned, NoLeak, Aligned, Unset, MergeInv, Coalesced, Mergeable

\* kmalloc returning NULL at the end of the list keeps the invariant.
LEMMA ExhaustedStep == ASSUME IInv, Exhausted PROVE IInv'
BY DEF Exhausted, IInv, TypeOK, Tiling, End, Owned, NoLeak, Aligned, Unset, SearchInv,
       MergeInv, Coalesced, Mergeable, NULL

(* Taking a block without splitting it. *)
LEMMA TakeWhole ==
  ASSUME IInv, Found, ~(blk[cur].size >= asize + HEADER_SIZE + Align)
  PROVE  IInv'
<1>1. /\ pc = "search" /\ cur # NULL /\ Suitable(cur)
      /\ blk' = [blk EXCEPT ![cur].free = FALSE]
      /\ ret' = cur + HEADER_SIZE
      /\ live' = live \cup {[ptr |-> cur + HEADER_SIZE, size |-> size]}
      /\ pc' = "idle" /\ UNCHANGED <<g_head, cur, size>>
  BY DEF Found, split_block
<1>2. /\ cur \in DOMAIN blk /\ cur \in Nat /\ g_head = 0 /\ size \in Nat \ {0}
      /\ blk \in [DOMAIN blk -> Block]
  BY <1>1 DEF IInv, TypeOK, Unset, NULL, SearchInv
<1>3. /\ DOMAIN blk' = DOMAIN blk /\ blk' \in [DOMAIN blk -> Block]
      /\ \A h \in DOMAIN blk : blk'[h].size = blk[h].size /\ blk'[h].next = blk[h].next
      /\ \A h \in DOMAIN blk : h # cur => blk'[h].free = blk[h].free
      /\ ~blk'[cur].free
  BY <1>1, <1>2, Zenon DEF Block
<1>4. blk[cur].free /\ size <= blk[cur].size
  <2>1. asize \in Nat /\ asize >= size /\ blk[cur].size \in Nat
    BY <1>2, AlignUp DEF asize, Block
  <2>. QED
    BY <1>1, <1>2, <2>1 DEF Suitable
<1>5. TypeOK'
  BY <1>1, <1>2, <1>3, KmallocAssumption DEF IInv, TypeOK
<1>6. Tiling' /\ Aligned' /\ Unset'
  BY <1>1, <1>2, <1>3 DEF IInv, Tiling, End, Aligned, Unset, NULL
<1>7. ptr_to_hdr(cur + HEADER_SIZE) = cur
  BY <1>2, KmallocAssumption DEF ptr_to_hdr
<1>8. \A a \in live : ptr_to_hdr(a.ptr) # cur /\ a.ptr # cur + HEADER_SIZE
  BY <1>4, <1>7 DEF IInv, Owned
<1>9. Owned'
  BY <1>1, <1>2, <1>3, <1>4, <1>7, <1>8 DEF IInv, Owned
<1>10. NoLeak'
  <2> DEFINE a == [ptr |-> cur + HEADER_SIZE, size |-> size]
  <2>1. a \in live' /\ ptr_to_hdr(a.ptr) = cur /\ live \subseteq live'
    BY <1>1, <1>7
  <2> HIDE DEF a
  <2>2. ASSUME NEW h \in DOMAIN blk, ~blk'[h].free
        PROVE  \E b \in live' : ptr_to_hdr(b.ptr) = h
    BY <1>3, <2>1, <2>2 DEF IInv, NoLeak
  <2>. QED
    BY <1>3, <2>2 DEF NoLeak
<1>11. Coalesced'
  <2>1. \A h \in DOMAIN blk : ~Mergeable(h)
    BY <1>1 DEF IInv, Coalesced
  <2>2. ASSUME NEW h \in DOMAIN blk', Mergeable(h)' PROVE FALSE
    <3>1. blk[h].next # NULL => blk[h].next \in DOMAIN blk
      BY <1>2, <1>3, Successor DEF IInv
    <3>2. /\ blk[h].next # NULL /\ blk'[h].free /\ blk'[blk[h].next].free
          /\ h + HEADER_SIZE + blk[h].size = blk[h].next
      BY <2>2, <1>3 DEF Mergeable
    <3>3. blk[h].free /\ blk[blk[h].next].free
      BY <1>3, <3>1, <3>2
    <3>. QED
      BY <1>3, <2>1, <3>2, <3>3 DEF Mergeable
  <2>. QED
    BY <2>2 DEF Coalesced
<1>12. SearchInv' /\ MergeInv'
  BY <1>1 DEF SearchInv, MergeInv
<1>. QED
  BY <1>5, <1>6, <1>9, <1>10, <1>11, <1>12 DEF IInv

(* Splitting a block and taking its front. *)
LEMMA TakeFront ==
  ASSUME IInv, Found, blk[cur].size >= asize + HEADER_SIZE + Align
  PROVE  IInv'
<1> DEFINE new == cur + HEADER_SIZE + asize
           total == blk[cur].size
           D == DOMAIN blk
<1>1. /\ pc = "search" /\ cur # NULL /\ Suitable(cur)
      /\ blk' = [g \in D \cup {new} |->
              IF g = new
              THEN [size |-> total - asize - HEADER_SIZE, free |-> TRUE, next |-> blk[cur].next]
              ELSE IF g = cur THEN [size |-> asize, free |-> FALSE, next |-> new]
              ELSE blk[g]]
      /\ ret' = cur + HEADER_SIZE
      /\ live' = live \cup {[ptr |-> cur + HEADER_SIZE, size |-> size]}
      /\ pc' = "idle" /\ UNCHANGED <<g_head, cur, size>>
  BY DEF Found, split_block
<1>2. /\ cur \in D /\ g_head = 0 /\ size \in Nat \ {0} /\ blk \in [D -> Block]
      /\ D \subseteq 0..(HeapSize - 1)
  BY <1>1 DEF IInv, TypeOK, Unset, NULL, SearchInv
<1>3. /\ cur \in Nat /\ total \in Nat /\ End(cur) = cur + HEADER_SIZE + total
      /\ blk[cur].next \in Nat \cup {NULL}
      /\ HEADER_SIZE \in Nat /\ HEADER_SIZE > 0 /\ Align \in Nat /\ Align > 0 /\ HeapSize \in Nat
  BY <1>2, KmallocAssumption DEF End, Block
<1>4. /\ asize \in Nat /\ asize >= size /\ asize % Align = 0
      /\ total >= asize + HEADER_SIZE + Align /\ blk[cur].free
  BY <1>1, <1>2, AlignUp DEF asize, Suitable
<1>5. /\ IF End(cur) = HeapSize THEN blk[cur].next = NULL
         ELSE blk[cur].next = End(cur) /\ End(cur) \in D
      /\ \A h \in D : h \in Nat /\ (cur < h => End(cur) <= h) /\ (h < cur => End(h) <= cur)
      /\ 0 \in D
  BY <1>2 DEF IInv, Tiling
<1> HIDE DEF total, D
<1>6. new \in Nat /\ cur < new /\ new < End(cur) /\ new \notin D /\ End(cur) <= HeapSize
  <2>1. new \in Nat /\ cur < new /\ new < End(cur)
    BY <1>3, <1>4
  <2>2. End(cur) <= HeapSize
    BY <1>2, <1>3, <1>5
  <2>. QED
    BY <1>5, <2>1, <2>2, <1>3
<1> HIDE DEF new
<1>7. /\ DOMAIN blk' = D \cup {new}
      /\ blk'[new] = [size |-> total - asize - HEADER_SIZE, free |-> TRUE, next |-> blk[cur].next]
      /\ blk'[cur] = [size |-> asize, free |-> FALSE, next |-> new]
      /\ \A h \in D : h # cur => blk'[h] = blk[h]
  BY <1>1, <1>2, <1>6
<1> DEFINE end(h) == h + HEADER_SIZE + blk'[h].size
<1>8. /\ end(new) = End(cur) /\ end(cur) = new /\ \A h \in D : h # cur => end(h) = End(h)
  <2>1. end(cur) = new
    BY <1>7 DEF new
  <2>2. end(new) = End(cur)
    BY <1>3, <1>4, <1>7 DEF new
  <2>3. \A h \in D : h # cur => end(h) = End(h)
    BY <1>7 DEF End
  <2>. QED
    BY <2>1, <2>2, <2>3
<1>9. TypeOK'
  <2>1. blk'[new] \in Block /\ blk'[cur] \in Block
    BY <1>3, <1>4, <1>6, <1>7 DEF Block
  <2>2. DOMAIN blk' \subseteq 0..(HeapSize - 1)
    BY <1>2, <1>3, <1>6, <1>7 DEF D
  <2>3. blk' \in [DOMAIN blk' -> Block]
    <3>1. \A h \in DOMAIN blk' : blk'[h] \in Block
      BY <1>2, <1>7, <2>1, Zenon
    <3>. QED
      BY <1>1, <3>1, Zenon
  <2>4. /\ live' \in SUBSET [ptr : Nat, size : Nat \ {0}]
        /\ ret' \in Nat /\ cur' \in DOMAIN blk' /\ size' \in Nat /\ g_head' = 0
    BY <1>1, <1>2, <1>3, <1>7 DEF IInv, TypeOK
  <2>. QED
    BY <1>1, <2>2, <2>3, <2>4, Zenon DEF TypeOK
<1>10. Tiling'
  <2> HIDE DEF end
  <2>1. 0 \in DOMAIN blk'
    BY <1>5, <1>7
  <2>2. ASSUME NEW h \in DOMAIN blk'
        PROVE  IF end(h) = HeapSize THEN blk'[h].next = NULL
               ELSE blk'[h].next = end(h) /\ end(h) \in DOMAIN blk'
    <3>1. CASE h = new
      BY <3>1, <1>5, <1>7, <1>8
    <3>2. CASE h = cur
      BY <3>2, <1>3, <1>6, <1>7, <1>8
    <3>3. CASE h \in D /\ h # cur
      BY <3>3, <1>2, <1>7, <1>8 DEF IInv, Tiling, D
    <3>. QED
      BY <1>7, <3>1, <3>2, <3>3
  <2>3. ASSUME NEW g \in DOMAIN blk', NEW h \in DOMAIN blk', g < h PROVE end(g) <= h
    <3>0. \A x, y \in D : x < y => End(x) <= y
      BY <1>2 DEF IInv, Tiling, D
    <3>1. CASE g \in D /\ g # cur /\ h \in D
      BY <2>3, <3>0, <3>1, <1>8
    <3>2. CASE g \in D /\ g # cur /\ h = new
      <4>1. g < cur
        BY <2>3, <3>2, <1>3, <1>5, <1>6
      <4>2. End(g) <= cur
        BY <3>2, <4>1, <1>5
      <4>3. End(g) \in Nat
        BY <1>2, <3>2, Successor DEF IInv, D
      <4>. QED
        BY <3>2, <4>2, <4>3, <1>3, <1>6, <1>8
    <3>3. CASE g = cur /\ h \in D
      BY <2>3, <3>3, <1>3, <1>5, <1>6, <1>8
    <3>4. CASE g = cur /\ h = new
      BY <3>4, <1>6, <1>8
    <3>5. CASE g = new /\ h \in D
      BY <2>3, <3>5, <1>3, <1>5, <1>6, <1>8
    <3>. QED
      BY <1>7, <2>3, <3>1, <3>2, <3>3, <3>4, <3>5, <1>6
  <2>. QED
    BY <2>1, <2>2, <2>3 DEF Tiling, End, end
<1>11. Aligned'
  <2>1. cur % Align = 0 /\ HEADER_SIZE % Align = 0 /\ asize % Align = 0
    BY <1>2, <1>4, KmallocAssumption DEF IInv, Aligned, D
  <2>2. (cur + HEADER_SIZE) % Align = 0
    BY <1>3, <2>1, AlignedSum
  <2>3. new % Align = 0
    BY <1>3, <1>4, <2>1, <2>2, AlignedSum DEF new
  <2>. QED
    BY <1>7, <2>3 DEF IInv, Aligned, D
<1>12. ptr_to_hdr(cur + HEADER_SIZE) = cur
  BY <1>3 DEF ptr_to_hdr
<1>13. \A a \in live : ptr_to_hdr(a.ptr) \in D /\ ptr_to_hdr(a.ptr) # cur
                       /\ a.ptr # cur + HEADER_SIZE
  BY <1>4, <1>12 DEF IInv, Owned, D
<1> DEFINE mine == [ptr |-> cur + HEADER_SIZE, size |-> size]
<1>14. live' = live \cup {mine} /\ mine.ptr = cur + HEADER_SIZE /\ mine.size = size
  BY <1>1
<1> HIDE DEF mine
<1>15. Owned'
  <2>1. \A a \in live : /\ ptr_to_hdr(a.ptr) \in DOMAIN blk' /\ ~blk'[ptr_to_hdr(a.ptr)].free
                        /\ a.size <= blk'[ptr_to_hdr(a.ptr)].size
    BY <1>7, <1>13 DEF IInv, Owned, D
  <2>2. /\ cur \in DOMAIN blk' /\ ~blk'[cur].free /\ size <= blk'[cur].size
    BY <1>2, <1>4, <1>7
  <2>3. \A a, b \in live' : a.ptr = b.ptr => a = b
    BY <1>13, <1>14 DEF IInv, Owned
  <2>. QED
    BY <1>12, <1>14, <2>1, <2>2, <2>3 DEF Owned
<1>16. NoLeak'
  <2>1. ASSUME NEW h \in DOMAIN blk', ~blk'[h].free
        PROVE  \E b \in live' : ptr_to_hdr(b.ptr) = h
    <3>1. CASE h = cur
      BY <3>1, <1>12, <1>14
    <3>2. CASE h \in D /\ h # cur
      BY <2>1, <3>2, <1>7, <1>14 DEF IInv, NoLeak, D
    <3>. QED
      BY <1>7, <2>1, <3>1, <3>2
  <2>. QED
    BY <2>1 DEF NoLeak
<1>17. Coalesced'
  <2>1. \A h \in D : ~Mergeable(h)
    BY <1>1 DEF IInv, Coalesced, D
  <2>2. ASSUME NEW h \in DOMAIN blk', Mergeable(h)' PROVE FALSE
    <3>0. /\ blk'[h].next # NULL /\ blk'[h].free /\ blk'[blk'[h].next].free
          /\ h + HEADER_SIZE + blk'[h].size = blk'[h].next
      BY <2>2 DEF Mergeable
    <3>1. CASE h = new
      <4>1. blk[cur].next # NULL /\ blk[cur].next = End(cur) /\ blk[cur].next \in D
            /\ blk[cur].next # cur
        BY <3>0, <3>1, <1>3, <1>5, <1>6, <1>7
      <4>2. blk[blk[cur].next].free
        BY <3>0, <3>1, <4>1, <1>7
      <4>. QED
        BY <1>2, <1>3, <1>4, <2>1, <4>1, <4>2 DEF Mergeable, total
    <3>2. CASE h = cur
      BY <3>0, <3>2, <1>7
    <3>3. CASE h \in D /\ h # cur
      <4>1. blk[h].next # NULL /\ blk[h].free /\ h + HEADER_SIZE + blk[h].size = blk[h].next
        BY <3>0, <3>3, <1>7
      <4>2. blk[h].next \in D
        BY <1>2, <3>3, <4>1, Successor DEF IInv, D
      <4>3. blk[blk[h].next].free
        BY <3>0, <3>3, <4>2, <1>4, <1>7
      <4>. QED
        BY <2>1, <3>3, <4>1, <4>3 DEF Mergeable
    <3>. QED
      BY <1>7, <3>1, <3>2, <3>3
  <2>. QED
    BY <2>2 DEF Coalesced
<1>. QED
  BY <1>1, <1>2, <1>9, <1>10, <1>11, <1>15, <1>16, <1>17
     DEF IInv, Unset, SearchInv, MergeInv, NULL

\* Taking a block, split or whole, keeps the invariant.
LEMMA FoundStep == ASSUME IInv, Found PROVE IInv'
BY TakeWhole, TakeFront

\* Marking a block free at the start of kfree keeps the invariant.
LEMMA FreeStep == ASSUME IInv, NEW a \in live, kfree(a) PROVE IInv'
<1> DEFINE f == ptr_to_hdr(a.ptr)
<1>1. /\ pc = "idle"
      /\ blk' = [blk EXCEPT ![f].free = TRUE]
      /\ live' = live \ {a} /\ pc' = "merge" /\ cur' = g_head
      /\ UNCHANGED <<g_head, size, ret>>
  BY DEF kfree
<1>2. g_head = 0 /\ f \in DOMAIN blk /\ blk \in [DOMAIN blk -> Block] /\ 0 \in DOMAIN blk
  BY DEF IInv, TypeOK, Unset, Owned, Tiling, NULL
<1> HIDE DEF f
<1>3. /\ DOMAIN blk' = DOMAIN blk /\ blk' \in [DOMAIN blk -> Block]
      /\ \A h \in DOMAIN blk : blk'[h].size = blk[h].size /\ blk'[h].next = blk[h].next
      /\ \A h \in DOMAIN blk : h # f => blk'[h].free = blk[h].free
      /\ blk'[f].free
  BY <1>1, <1>2, Zenon DEF Block
<1>4. TypeOK'
  BY <1>1, <1>2, <1>3 DEF IInv, TypeOK
<1>5. Tiling' /\ Aligned' /\ Unset'
  BY <1>1, <1>2, <1>3 DEF IInv, Tiling, End, Aligned, Unset, NULL
<1>6. \A b \in live : b.ptr \in Nat /\ (b # a => ptr_to_hdr(b.ptr) # f)
  <2>1. \A b \in live : b.ptr \in Nat /\ (b # a => b.ptr # a.ptr)
    BY DEF IInv, TypeOK, Owned
  <2>. QED
    BY <2>1, KmallocAssumption DEF ptr_to_hdr, f
<1>7. Owned'
  BY <1>1, <1>3, <1>6 DEF IInv, Owned
<1>8. NoLeak'
  BY <1>1, <1>3 DEF IInv, NoLeak, f
<1>9. MergeInv'
  <2>1. \A h \in DOMAIN blk : h \in Nat
    BY DEF IInv, TypeOK
  <2>. QED
    BY <1>1, <1>2, <1>3, <2>1 DEF MergeInv, NULL
<1>. QED
  BY <1>1, <1>4, <1>5, <1>7, <1>8, <1>9 DEF IInv, SearchInv, Coalesced

\* Moving the merge loop of kfree on to the next block keeps the invariant.
LEMMA AdvanceStep == ASSUME IInv, Advance PROVE IInv'
<1>1. /\ pc = "merge" /\ blk[cur].next # NULL /\ ~Mergeable(cur) /\ cur' = blk[cur].next
      /\ UNCHANGED <<blk, g_head, pc, size, ret, live>>
  BY DEF Advance
<1>2. cur \in DOMAIN blk /\ g_head = 0
  BY <1>1 DEF IInv, TypeOK, Unset, MergeInv, NULL
<1>3. /\ cur \in Nat /\ blk[cur].next \in DOMAIN blk
      /\ \A g \in DOMAIN blk : g < blk[cur].next => g <= cur
  BY <1>1, <1>2, Successor DEF IInv
<1>4. TypeOK'
  BY <1>1, <1>3 DEF IInv, TypeOK
<1>5. \A h \in DOMAIN blk : h \in Nat /\ (h < cur => ~Mergeable(h))
  BY <1>1 DEF IInv, MergeInv, TypeOK
<1>6. \A h \in DOMAIN blk : h < cur' => h < cur \/ h = cur
  BY <1>1, <1>3, <1>5
<1>7. \A h \in DOMAIN blk : Mergeable(h)' <=> Mergeable(h)
  BY <1>1 DEF Mergeable
<1>8. MergeInv'
  BY <1>1, <1>5, <1>6, <1>7 DEF IInv, MergeInv
<1>. QED
  BY <1>1, <1>4, <1>8
     DEF IInv, Tiling, End, Owned, NoLeak, Aligned, Unset, SearchInv, Coalesced

\* The end of kfree's merge loop keeps the invariant.
LEMMA MergedStep == ASSUME IInv, Merged PROVE IInv'
<1>1. /\ pc = "merge" /\ blk[cur].next = NULL /\ pc' = "idle"
      /\ UNCHANGED <<blk, g_head, cur, size, ret, live>>
  BY DEF Merged
<1>2. cur \in DOMAIN blk /\ g_head = 0
  BY <1>1 DEF IInv, TypeOK, Unset, MergeInv, NULL
<1>3. \A g \in DOMAIN blk : g # cur => g < cur
  BY <1>1, <1>2, Successor DEF IInv
<1>4. \A h \in DOMAIN blk : ~Mergeable(h)
  <2>1. ~Mergeable(cur)
    BY <1>1 DEF Mergeable
  <2>. QED
    BY <1>1, <1>3, <2>1 DEF IInv, MergeInv
<1>5. Coalesced'
  BY <1>1, <1>4 DEF Coalesced, Mergeable
<1>. QED
  BY <1>1, <1>2, <1>5
     DEF IInv, TypeOK, Tiling, End, Owned, NoLeak, Aligned, Unset, SearchInv, MergeInv, NULL

\* Joining a free block with the free block behind it keeps the invariant.
LEMMA MergeStep == ASSUME IInv, Merge PROVE IInv'
<1> DEFINE n == blk[cur].next
           D == DOMAIN blk
<1>1. /\ pc = "merge" /\ Mergeable(cur)
      /\ blk' = [g \in D \ {n} |->
                   IF g = cur
                   THEN [size |-> blk[g].size + HEADER_SIZE + blk[n].size,
                         free |-> blk[g].free, next |-> blk[n].next]
                   ELSE blk[g]]
      /\ UNCHANGED <<g_head, pc, cur, size, ret, live>>
  BY DEF Merge
<1>2. cur \in D /\ g_head = 0 /\ blk \in [D -> Block] /\ D \subseteq 0..(HeapSize - 1)
  BY <1>1 DEF IInv, TypeOK, Unset, MergeInv, NULL
<1>3. n # NULL /\ blk[cur].free /\ blk[n].free
  BY <1>1 DEF Mergeable
<1>4. /\ cur \in Nat /\ blk[cur].size \in Nat /\ End(cur) \in Nat /\ End(cur) > cur
      /\ n \in D /\ n = End(cur) /\ \A g \in D : g < n => g <= cur
  BY <1>2, <1>3, Successor DEF IInv
<1>5. /\ blk[n].size \in Nat /\ End(n) \in Nat /\ End(n) > n /\ n \in Nat
      /\ blk[n].next \in Nat \cup {NULL}
  BY <1>2, <1>4, Successor DEF IInv, Block
<1>6. /\ IF End(n) = HeapSize THEN blk[n].next = NULL
         ELSE blk[n].next = End(n) /\ End(n) \in D
      /\ \A g, h \in D : g < h => End(g) <= h
      /\ 0 \in D
  BY <1>2, <1>4 DEF IInv, Tiling
<1> HIDE DEF n, D
<1>7. n # cur /\ n # 0 /\ D \subseteq Nat
  BY <1>2, <1>4, <1>5
<1>8. /\ DOMAIN blk' = D \ {n}
      /\ blk'[cur] = [size |-> blk[cur].size + HEADER_SIZE + blk[n].size,
                      free |-> TRUE, next |-> blk[n].next]
      /\ \A h \in D \ {n} : h # cur => blk'[h] = blk[h]
  BY <1>1, <1>2, <1>3, <1>7, Zenon
<1> DEFINE end(h) == h + HEADER_SIZE + blk'[h].size
<1>9. end(cur) = End(n) /\ \A h \in D \ {n} : h # cur => end(h) = End(h)
  <2>1. end(cur) = End(n)
    <3>1. n = cur + HEADER_SIZE + blk[cur].size /\ End(n) = n + HEADER_SIZE + blk[n].size
          /\ blk'[cur].size = blk[cur].size + HEADER_SIZE + blk[n].size
      BY <1>4, <1>8 DEF End
    <3>. QED
      BY <3>1, <1>4, <1>5, KmallocAssumption
  <2>. QED
    BY <2>1, <1>8 DEF End
<1>10. TypeOK'
  <2>1. blk'[cur] \in Block
    BY <1>4, <1>5, <1>8, KmallocAssumption DEF Block
  <2>2. blk' \in [DOMAIN blk' -> Block]
    <3>1. \A h \in DOMAIN blk' : blk'[h] \in Block
      BY <1>2, <1>8, <2>1, Zenon
    <3>. QED
      BY <1>1, <3>1
  <2>3. cur' \in DOMAIN blk' /\ DOMAIN blk' \subseteq 0..(HeapSize - 1)
    BY <1>1, <1>2, <1>7, <1>8
  <2>. QED
    BY <1>1, <2>2, <2>3 DEF IInv, TypeOK
<1>11. Tiling'
  <2> HIDE DEF end
  <2>1. 0 \in DOMAIN blk'
    BY <1>6, <1>7, <1>8
  <2>2. ASSUME NEW h \in DOMAIN blk'
        PROVE  IF end(h) = HeapSize THEN blk'[h].next = NULL
               ELSE blk'[h].next = end(h) /\ end(h) \in DOMAIN blk'
    <3>1. CASE h = cur
      BY <3>1, <1>5, <1>6, <1>8, <1>9
    <3>2. CASE h \in D \ {n} /\ h # cur
      <4>1. /\ end(h) = End(h) /\ blk'[h] = blk[h]
            /\ IF End(h) = HeapSize THEN blk[h].next = NULL
               ELSE blk[h].next = End(h) /\ End(h) \in D
        BY <1>2, <1>8, <1>9, <3>2 DEF IInv, Tiling, D
      <4>2. End(h) # n
        <5>1. End(h) \in Nat /\ End(h) > h /\ h \in Nat
          BY <1>2, <3>2, Successor DEF IInv, D
        <5>2. CASE h < cur
          BY <5>1, <5>2, <3>2, <1>2, <1>4, <1>6
        <5>3. CASE h > n
          BY <5>1, <5>3, <1>5
        <5>. QED
          BY <5>1, <5>2, <5>3, <3>2, <1>4, <1>5
      <4>. QED
        BY <1>8, <4>1, <4>2
    <3>. QED
      BY <1>8, <3>1, <3>2
  <2>3. ASSUME NEW g \in DOMAIN blk', NEW h \in DOMAIN blk', g < h PROVE end(g) <= h
    <3>1. CASE g = cur
      <4>1. h > n
        <5>1. h \in D /\ h \in Nat /\ h # n /\ h > cur
          BY <2>3, <3>1, <1>7, <1>8, Zenon
        <5>2. ~(h < n)
          BY <5>1, <1>4
        <5>. QED
          BY <5>1, <5>2, <1>5
      <4>. QED
        BY <3>1, <4>1, <1>4, <1>6, <1>8, <1>9
    <3>2. CASE g # cur
      BY <2>3, <3>2, <1>6, <1>8, <1>9
    <3>. QED
      BY <3>1, <3>2
  <2>. QED
    BY <1>1, <2>1, <2>2, <2>3 DEF Tiling, End, end
<1>12. Aligned' /\ Unset'
  BY <1>1, <1>2, <1>8 DEF IInv, Aligned, Unset, D, NULL
<1>13. \A a \in live : ptr_to_hdr(a.ptr) \in D /\ ptr_to_hdr(a.ptr) # n /\ ptr_to_hdr(a.ptr) # cur
  BY <1>3 DEF IInv, Owned, D
<1>14. Owned'
  BY <1>1, <1>8, <1>13 DEF IInv, Owned, D
<1>15. NoLeak'
  BY <1>1, <1>8 DEF IInv, NoLeak, D
<1>16. MergeInv'
  <2>1. ASSUME NEW h \in DOMAIN blk', h < cur, Mergeable(h)' PROVE FALSE
    <3>1. h \in D \ {n} /\ h # cur /\ h \in Nat /\ blk'[h] = blk[h]
      <4>1. h \in D \ {n} /\ h \in Nat
        BY <1>7, <1>8, Zenon
      <4>2. h # cur
        BY <1>4, <2>1, <4>1
      <4>. QED
        BY <1>8, <4>1, <4>2
    <3>2. /\ blk[h].next # NULL /\ blk[h].free /\ blk'[blk[h].next].free
          /\ h + HEADER_SIZE + blk[h].size = blk[h].next
      BY <2>1, <3>1 DEF Mergeable
    <3>3. blk[h].next \in D /\ blk[h].next = End(h) /\ End(h) <= cur
      BY <1>2, <1>6, <2>1, <3>1, <3>2, Successor DEF IInv, D
    <3>4. blk[h].next # n
      BY <3>3, <1>4, <1>5
    <3>5. blk[blk[h].next].free
      BY <1>3, <1>8, <3>2, <3>3, <3>4
    <3>6. Mergeable(h)
      BY <3>2, <3>5 DEF Mergeable
    <3>. QED
      BY <1>1, <2>1, <3>1, <3>6 DEF IInv, MergeInv, D
  <2>. QED
    BY <1>1, <2>1 DEF IInv, MergeInv
<1>. QED
  BY <1>1, <1>10, <1>11, <1>12, <1>14, <1>15, <1>16 DEF IInv, SearchInv, Coalesced

\* Every step of the heap keeps the invariant.
LEMMA KmallocStep == IInv /\ [Next]_vars => IInv'
<1> SUFFICES ASSUME IInv, [Next]_vars PROVE IInv'
  OBVIOUS
<1>1. CASE kmalloc_init
  BY <1>1, InitStep
<1>2. CASE \E n \in Sizes : kmalloc(n)
  BY <1>2, CallStep
<1>3. CASE \E a \in live : kfree(a)
  BY <1>3, FreeStep
<1>4. CASE Loops
  BY <1>4, SkipStep, ExhaustedStep, FoundStep, MergeStep, AdvanceStep, MergedStep DEF Loops
<1>5. CASE UNCHANGED vars
  BY <1>5 DEF vars, IInv, TypeOK, Tiling, End, Owned, NoLeak, Aligned, Unset,
              SearchInv, MergeInv, Coalesced, Mergeable, Suitable, asize
<1>. QED
  BY <1>1, <1>2, <1>3, <1>4, <1>5 DEF Next

\* The inductive invariant holds in every reachable state of the heap.
LEMMA KmallocInvariant == Spec => []IInv
BY KmallocInit, KmallocStep, PTL DEF Spec

(* Every variable of the heap keeps its type; in particular no block size  *)
(* ever underflows in split_block.                                         *)
THEOREM KmallocTypeCorrect == Spec => []TypeOK
<1>1. IInv => TypeOK
  BY DEF IInv
<1>. QED
  BY <1>1, KmallocInvariant, PTL

(* The header list tiles the heap through every split and merge. *)
THEOREM KmallocTiling == Spec => []Tiling
<1>1. IInv => Tiling
  BY DEF IInv
<1>. QED
  BY <1>1, KmallocInvariant, PTL

(* No block that is in use is forgotten by the callers' view of the heap. *)
THEOREM KmallocNoLeak == Spec => []NoLeak
<1>1. IInv => NoLeak
  BY DEF IInv
<1>. QED
  BY <1>1, KmallocInvariant, PTL

(* kfree leaves no two neighbouring free blocks. *)
THEOREM KmallocCoalesced == Spec => []Coalesced
<1>1. IInv => Coalesced
  BY DEF IInv
<1>. QED
  BY <1>1, KmallocInvariant, PTL

(* A live allocation's bytes lie inside its block. *)
LEMMA PayloadInBlock ==
  ASSUME IInv, NEW a \in live
  PROVE  /\ g_head = 0 /\ ptr_to_hdr(a.ptr) \in DOMAIN blk
         /\ a.ptr \in Nat /\ a.size \in Nat \ {0}
         /\ a.ptr = ptr_to_hdr(a.ptr) + HEADER_SIZE
         /\ ptr_to_hdr(a.ptr) \in Nat /\ End(ptr_to_hdr(a.ptr)) \in Nat
         /\ a.ptr + a.size <= End(ptr_to_hdr(a.ptr))
<1>1. a.ptr \in Nat /\ a.size \in Nat \ {0} /\ g_head = 0
  BY DEF IInv, TypeOK, Unset
<1>2. ptr_to_hdr(a.ptr) \in DOMAIN blk /\ a.size <= blk[ptr_to_hdr(a.ptr)].size
  BY DEF IInv, Owned
<1> DEFINE h == ptr_to_hdr(a.ptr)
<1>3. h \in Nat /\ End(h) \in Nat /\ blk[h].size \in Nat
  BY <1>1, <1>2, Successor DEF IInv
<1>4. a.ptr = h + HEADER_SIZE
  BY <1>1, KmallocAssumption DEF ptr_to_hdr
<1> HIDE DEF h
<1>5. a.ptr + a.size <= End(h)
  BY <1>1, <1>2, <1>3, <1>4, KmallocAssumption DEF End, h
<1>. QED
  BY <1>1, <1>2, <1>3, <1>4, <1>5 DEF h

\* A tiling of the heap by blocks keeps payloads and headers apart.
LEMMA BlocksIsolate == IInv => Isolation
<1> SUFFICES ASSUME IInv PROVE Isolation
  OBVIOUS
<1>1. ASSUME NEW a \in live
      PROVE  /\ ptr_to_hdr(a.ptr) \in DOMAIN blk /\ ~blk[ptr_to_hdr(a.ptr)].free
             /\ a.size <= blk[ptr_to_hdr(a.ptr)].size
             /\ \A h \in DOMAIN blk : Payload(a) \cap Header(h) = {}
  <2> DEFINE f == ptr_to_hdr(a.ptr)
  <2>1. f \in DOMAIN blk /\ ~blk[f].free /\ a.size <= blk[f].size
    BY <1>1 DEF IInv, Owned
  <2>2. /\ g_head = 0 /\ a.ptr \in Nat /\ a.size \in Nat /\ a.ptr = f + HEADER_SIZE
        /\ f \in Nat /\ End(f) \in Nat /\ a.ptr + a.size <= End(f)
    BY <1>1, PayloadInBlock
  <2> HIDE DEF f
  <2>3. ASSUME NEW h \in DOMAIN blk, NEW x \in Payload(a), x \in Header(h) PROVE FALSE
    <3>1. /\ h \in Nat /\ x \in Int /\ a.ptr <= x /\ x < a.ptr + a.size
          /\ h <= x /\ x < h + HEADER_SIZE /\ HEADER_SIZE \in Nat /\ HEADER_SIZE > 0
      BY <2>2, <2>3, KmallocAssumption DEF Payload, Header, IInv, TypeOK
    <3>2. (f < h => End(f) <= h) /\ (h < f => End(h) <= f)
      BY <2>1, <2>2 DEF IInv, Tiling
    <3>3. End(h) \in Nat /\ End(h) >= h + HEADER_SIZE
      <4>1. blk[h].size \in Nat /\ h \in Nat /\ End(h) \in Nat
        BY <2>2, Successor DEF IInv
      <4>. QED
        BY <4>1, KmallocAssumption DEF End
    <3>. QED
      BY <2>2, <3>1, <3>2, <3>3
  <2>. QED
    BY <2>1, <2>3 DEF f
<1>2. ASSUME NEW a \in live, NEW b \in live, a # b, NEW x \in Payload(a), x \in Payload(b)
      PROVE  FALSE
  <2> DEFINE f == ptr_to_hdr(a.ptr)
             g == ptr_to_hdr(b.ptr)
  <2>1. /\ g_head = 0 /\ f \in DOMAIN blk /\ a.ptr \in Nat /\ a.size \in Nat
        /\ a.ptr = f + HEADER_SIZE
        /\ f \in Nat /\ End(f) \in Nat /\ a.ptr + a.size <= End(f)
    BY PayloadInBlock
  <2>2. /\ g \in DOMAIN blk /\ b.ptr \in Nat /\ b.size \in Nat /\ b.ptr = g + HEADER_SIZE
        /\ g \in Nat /\ End(g) \in Nat /\ b.ptr + b.size <= End(g)
    BY PayloadInBlock
  <2>3. a.ptr # b.ptr
    BY <1>2 DEF IInv, Owned
  <2> HIDE DEF f, g
  <2>4. /\ x \in Int /\ a.ptr <= x /\ x < a.ptr + a.size /\ b.ptr <= x /\ x < b.ptr + b.size
    BY <1>2, <2>1, <2>2 DEF Payload
  <2>5. (f < g => End(f) <= g) /\ (g < f => End(g) <= f)
    BY <2>1, <2>2 DEF IInv, Tiling
  <2>. QED
    BY <2>1, <2>2, <2>3, <2>4, <2>5, KmallocAssumption
<1>. QED
  BY <1>1, <1>2 DEF Isolation

(* Callers' bytes are never shared with another caller or with a header.   *)
THEOREM KmallocIsolation == Spec => []Isolation
BY BlocksIsolate, KmallocInvariant, PTL

\* A coalesced heap with no live block is one free block.
LEMMA FreeHeapIsWhole == IInv => WholeAgain
<1> SUFFICES ASSUME IInv, pc = "idle", live = {}, g_head = 0
             PROVE  blk = [h \in {0} |-> [size |-> HeapSize - HEADER_SIZE,
                                          free |-> TRUE, next |-> NULL]]
  BY DEF WholeAgain
<1>1. 0 \in DOMAIN blk /\ DOMAIN blk \subseteq Nat /\ blk \in [DOMAIN blk -> Block]
  BY DEF IInv, Tiling, TypeOK
<1>2. \A h \in DOMAIN blk : blk[h].free /\ ~Mergeable(h)
  BY DEF IInv, NoLeak, Coalesced
<1>3. blk[0].next = NULL
  BY <1>1, <1>2, Successor DEF IInv, Mergeable, End
<1>4. DOMAIN blk = {0}
  BY <1>1, <1>3, Successor DEF IInv
<1>5. blk[0].size = HeapSize - HEADER_SIZE
  <2>1. End(0) = HeapSize /\ blk[0].size \in Nat /\ End(0) = 0 + HEADER_SIZE + blk[0].size
    BY <1>1, <1>3, Successor DEF IInv, Tiling, NULL, End
  <2>. QED
    BY <2>1, KmallocAssumption
<1>6. blk[0] = [size |-> HeapSize - HEADER_SIZE, free |-> TRUE, next |-> NULL]
  <2>1. blk[0] \in Block /\ blk[0].free = TRUE
    BY <1>1, <1>2 DEF Block
  <2>. QED
    BY <1>3, <1>5, <2>1, Zenon DEF Block
<1>. QED
  BY <1>1, <1>4, <1>6

(* Freeing everything restores the heap kmalloc_init made. *)
THEOREM KmallocWholeAgain == Spec => []WholeAgain
BY FreeHeapIsWhole, KmallocInvariant, PTL

\* A nonempty set of naturals has a least element.
LEMMA LeastNatural ==
  ASSUME NEW T \in SUBSET Nat, T # {}
  PROVE  \E x \in T : \A y \in T : x <= y
<1> DEFINE R == {ss \in Nat \X Nat : ss[1] < ss[2]}
<1>1. IsWellFoundedOn(R, Nat)
  BY NatLessThanWellFounded DEF OpToRel
<1> HIDE DEF R
<1>2. PICK x \in T : \A y \in T : ~ (<<y, x>> \in R)
  BY <1>1, WFMin, Zenon
<1>3. ASSUME NEW y \in T, y < x PROVE FALSE
  <2>1. <<y, x>> \in R
    BY <1>3 DEF R
  <2>. QED
    BY <2>1, <1>2
<1>. QED
  BY <1>3

(* Every byte of the heap is in some block. *)
LEMMA Covering ==
  ASSUME TypeOK, Tiling, g_head = 0, NEW x \in 0..(HeapSize - 1)
  PROVE  \E h \in DOMAIN blk : h <= x /\ x < End(h)
<1> DEFINE T == {x - h : h \in {g \in DOMAIN blk : g <= x}}
<1>1. DOMAIN blk \subseteq Nat /\ 0 \in DOMAIN blk /\ x \in Nat /\ x < HeapSize
      /\ HeapSize \in Nat
  BY KmallocAssumption DEF TypeOK, Tiling
<1>2. T \in SUBSET Nat /\ x - 0 \in T
  BY <1>1
<1>3. PICK d \in T : \A y \in T : d <= y
  BY <1>2, LeastNatural, Zenon
<1>4. PICK h \in DOMAIN blk : h <= x /\ d = x - h
  BY <1>3
<1>5. \A g \in DOMAIN blk : g <= x => g <= h
  <2> SUFFICES ASSUME NEW g \in DOMAIN blk, g <= x PROVE g <= h
    OBVIOUS
  <2>1. d <= x - g
    BY <1>3
  <2>. QED
    BY <1>1, <1>4, <2>1
<1>6. x < End(h)
  <2>1. /\ End(h) \in Nat /\ End(h) > h /\ h \in Nat
        /\ End(h) = HeapSize \/ End(h) \in DOMAIN blk
    BY <1>4, Successor DEF Tiling
  <2>. QED
    BY <1>1, <1>5, <2>1
<1>. QED
  BY <1>4, <1>6

\* When the search has passed every block, none was suitable.
LEMMA FailureIsReal == IInv => NoSpuriousFailure
<1> SUFFICES ASSUME IInv, pc = "search", cur = NULL,
                    NEW x \in 0..(HeapSize - HEADER_SIZE - asize),
                    (x..(x + HEADER_SIZE + asize - 1)) \cap Taken = {}
             PROVE  FALSE
  BY DEF NoSpuriousFailure
<1>1. /\ g_head = 0 /\ \A h \in DOMAIN blk : ~Suitable(h) /\ ~Mergeable(h)
  BY DEF IInv, SearchInv, Unset, Coalesced, TypeOK
<1>2. /\ asize \in Nat /\ HEADER_SIZE \in Nat /\ HEADER_SIZE > 0 /\ HeapSize \in Nat
  BY AlignUp, KmallocAssumption DEF asize, IInv, TypeOK
<1>3. x \in Nat /\ x + HEADER_SIZE + asize <= HeapSize /\ x < HeapSize
  BY <1>2
<1>4. PICK h \in DOMAIN blk : h <= x /\ x < End(h)
  BY <1>1, <1>2, <1>3, Covering DEF IInv
<1>5. /\ h \in Nat /\ End(h) \in Nat /\ blk[h].size \in Nat
      /\ End(h) = h + HEADER_SIZE + blk[h].size
      /\ End(h) # HeapSize => blk[h].next # NULL /\ blk[h].next = End(h)
                              /\ End(h) \in DOMAIN blk
  BY <1>1, Successor DEF IInv, Tiling, End, NULL
<1>6. \A g \in DOMAIN blk, y \in x..(x + HEADER_SIZE + asize - 1) :
        ~blk[g].free => ~(y \in g..(End(g) - 1))
  BY DEF Taken
<1>7. blk[h].free
  BY <1>2, <1>3, <1>4, <1>5, <1>6
<1>8. blk[h].size < asize
  BY <1>1, <1>2, <1>5, <1>7 DEF Suitable
<1>9. End(h) # HeapSize /\ End(h) \in x..(x + HEADER_SIZE + asize - 1)
  BY <1>2, <1>3, <1>4, <1>5, <1>8
<1>10. blk[End(h)].free
  <2>1. End(End(h)) \in Nat /\ End(End(h)) > End(h)
    BY <1>1, <1>5, <1>9, Successor DEF IInv
  <2>2. End(h) \in End(h)..(End(End(h)) - 1)
    BY <1>5, <2>1
  <2>. QED
    BY <1>5, <1>6, <1>9, <2>2
<1>. QED
  BY <1>1, <1>5, <1>7, <1>9, <1>10 DEF Mergeable

(* kmalloc fails only when no gap is large enough. *)
THEOREM KmallocNoSpuriousFailure == Spec => []NoSpuriousFailure
BY FailureIsReal, KmallocInvariant, PTL

-----------------------------------------------------------------------------
(* The header list implements the byte allocator. *)

\* The step of kmalloc that takes a block is the abstract heap's allocation.
LEMMA FoundAllocates == ASSUME IInv, IInv', Found PROVE Heap!HAlloc
<1> DEFINE a == [ptr |-> cur + HEADER_SIZE, size |-> size]
<1>1. live' = live \cup {a} /\ Suitable(cur) /\ cur # NULL /\ pc = "search" /\ g_head' = g_head
  BY DEF Found
<1>2. cur \in DOMAIN blk /\ cur \in Nat /\ size \in Nat \ {0} /\ HEADER_SIZE \in Nat
  BY <1>1, KmallocAssumption DEF IInv, TypeOK, NULL, SearchInv
<1>3. a.ptr = cur + HEADER_SIZE /\ a.size = size /\ a.ptr \in Nat
  BY <1>2
<1> HIDE DEF a
<1>4. a \notin live
  <2>1. ptr_to_hdr(a.ptr) = cur /\ blk[cur].free
    BY <1>1, <1>2, <1>3 DEF ptr_to_hdr, Suitable
  <2>. QED
    BY <2>1 DEF IInv, Owned
<1>5. a.ptr % Align = 0
  <2>1. cur % Align = 0 /\ HEADER_SIZE % Align = 0
    BY <1>2, KmallocAssumption DEF IInv, Aligned
  <2>. QED
    BY <1>2, <1>3, <2>1, AlignedSum
<1>6. Isolation'
  BY BlocksIsolate, PTL
<1>7. \A b \in live : Payload(a) \cap Payload(b) = {}
  BY <1>1, <1>4, <1>6 DEF Isolation, Payload
<1>8. Payload(a) \subseteq 0..(HeapSize - 1)
  <2>1. asize \in Nat /\ asize >= size /\ asize <= blk[cur].size /\ blk[cur].size \in Nat
    BY <1>1, <1>2, AlignUp DEF asize, Suitable, IInv, TypeOK, Block
  <2>2. End(cur) <= HeapSize /\ End(cur) = cur + HEADER_SIZE + blk[cur].size
    <3>1. g_head = 0
      BY <1>1 DEF IInv, Unset, TypeOK
    <3>2. End(cur) = HeapSize \/ End(cur) \in DOMAIN blk
      BY <1>2, <3>1 DEF IInv, Tiling
    <3>. QED
      BY <3>2, KmallocAssumption DEF IInv, TypeOK, End
  <2>. QED
    BY <1>2, <1>3, <2>1, <2>2, KmallocAssumption DEF Payload
<1>. QED
  BY <1>1, <1>2, <1>3, <1>4, <1>5, <1>7, <1>8 DEF Heap!HAlloc, Heap!Bytes, Payload

(* kmalloc and kfree do what kmalloc.h promises: aligned, disjoint ranges  *)
(* inside the heap, given back by kfree; everything else leaves the set of *)
(* allocations alone.                                                      *)
THEOREM KmallocImplementsHeap == Spec => ImplementsHeap
<1>1. Init => Heap!HInit
  BY DEF Init, Heap!HInit
<1>2. IInv /\ IInv' /\ [Next]_vars => [Heap!HAlloc \/ Heap!HFree]_live
  <2> SUFFICES ASSUME IInv, IInv', [Next]_vars
               PROVE  Heap!HAlloc \/ Heap!HFree \/ UNCHANGED live
    OBVIOUS
  <2>1. CASE Found
    BY <2>1, FoundAllocates
  <2>2. CASE \E a \in live : kfree(a)
    BY <2>2 DEF kfree, Heap!HFree
  <2>3. CASE kmalloc_init \/ (\E n \in Sizes : kmalloc(n)) \/ Skip \/ Exhausted \/ Merge
             \/ Advance \/ Merged \/ UNCHANGED vars
    BY <2>3 DEF kmalloc_init, kmalloc, Skip, Exhausted, Merge, Advance, Merged, vars
  <2>. QED
    BY <2>1, <2>2, <2>3 DEF Next, Loops
<1>. QED
  BY <1>1, <1>2, KmallocInvariant, PTL DEF Spec, ImplementsHeap, Heap!HSpec
=============================================================================
