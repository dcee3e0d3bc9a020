-------------------------------- MODULE PMM ---------------------------------
(***************************************************************************)
(* The physical memory manager, src/kernel/mm/pmm.c: a bitmap of frames    *)
(* and a running count of free bytes, g_free, that every operation keeps   *)
(* by itself.  Single-core and cooperative: every call is one step.        *)
(*                                                                         *)
(* `reserved' and `live' are history: the frames some reservation covered  *)
(* and the allocations not yet freed.  They are not in the code, which     *)
(* keeps one bit per frame and cannot tell the two apart.                  *)
(***************************************************************************)
EXTENDS MemMap, Frames, FiniteSets

CONSTANTS Word,          \* 2^64: g_free is a uint64_t
          BootInfos,     \* Multiboot2 informations the kernel may be given
          ReserveRanges, \* <<paddr, size>> kmain64 may reserve
          Counts,        \* frame counts callers ask for
          MaxPhys        \* exclusive limits callers give

VARIABLES map,           \* bounds of the bitmap and what pmm_init found in them
          used,          \* bits set in g_bitmap
          g_free,        \* free bytes, modulo Word
          phase,         \* "reserve" until the first allocation, then "run"
          ret,           \* what the last allocation call asked and returned
          reserved, live

vars == <<map, used, g_free, phase, ret, reserved, live>>

(* uint64_t arithmetic on operands below Word. *)
Minus64(a, b) == IF b <= a THEN a - b ELSE a + Word - b
Plus64(a, b) == IF a + b < Word THEN a + b ELSE a + b - Word

(* What pmm_init may find: bounds, unusable frames, usable bytes. *)
BootMaps == {boot_map(info) : info \in BootInfos}

(* Bytes pmm_init counts beyond those of the bits it leaves free: positive *)
(* for overlapping regions, negative for a limit inside a frame, else 0.   *)
Slack(m) == m.usable - FrameSize * Cardinality(Bits(m) \ m.unusable)

(* No map is so large that the byte counts leave the word, and only a      *)
(* limit inside a frame makes the count run low.                           *)
ASSUME PMMAssumption ==
  /\ Word \in Nat
  /\ Counts \subseteq Nat /\ MaxPhys \subseteq Nat
  /\ ReserveRanges \subseteq Nat \X Nat
  /\ \A m \in BootMaps :
       /\ m.base \in Nat /\ m.limit \in Nat /\ m.base <= m.limit
       /\ m.unusable \subseteq 0..(NFrames(m) - 1)
       /\ m.usable \in Nat
       /\ FrameSize * Cardinality(Bits(m)) + m.usable < Word
       /\ Slack(m) > -FrameSize
       /\ Slack(m) < 0 => NFrames(m) \in Bits(m)

(* The return value 0 of the allocation functions. *)
NoFrames == 0
Idle == [count |-> 0, max |-> 0, addr |-> NoFrames]

(* pmm_init: the regions' frames free, then the first frame of the bitmap  *)
(* and everything below 1 MiB reserved.                                    *)
InitReserved(m) ==
  reserve_range(m, m.base, FrameSize) \cup reserve_range(m, 0, LowMem)

Init ==
  /\ map \in BootMaps
  /\ reserved = InitReserved(map)
  /\ used = map.unusable \cup reserved
  /\ g_free = Minus64(map.usable,
                      FrameSize * Cardinality(reserved \ map.unusable))
  /\ phase = "reserve"
  /\ ret = Idle
  /\ live = {}

(* Mutant: g_free is charged for every frame of the range. *)
pmm_reserve_Overcharges(paddr, size) ==
  /\ phase = "reserve"
  /\ LET idx == reserve_range(map, paddr, size)
     IN  /\ used' = used \cup idx
         /\ g_free' = Minus64(g_free, FrameSize * Cardinality(idx))
         /\ reserved' = reserved \cup idx
  /\ UNCHANGED <<map, phase, ret, live>>

(* kmain64 makes all its reservations before the first allocation. *)
pmm_reserve(paddr, size) ==
  /\ phase = "reserve"
  /\ LET idx == reserve_range(map, paddr, size)
     IN  /\ used' = used \cup idx
         /\ g_free' = Minus64(g_free, FrameSize * Cardinality(idx \ used))
         /\ reserved' = reserved \cup idx
  /\ UNCHANGED <<map, phase, ret, live>>

(* Mutant: the limit is rounded up to the next frame. *)
limit_idx_RoundsUp(max) ==
  IF max > map.base
  THEN Min({(max - map.base + FrameSize - 1) \div FrameSize, NFrames(map)})
  ELSE 0

(* The search limit of pmm_alloc_frames_below, in frames. *)
limit_idx(max) ==
  IF max > map.base
  THEN Min({(max - map.base) \div FrameSize, NFrames(map)})
  ELSE 0

(* The common body: refuse 0 frames, refuse on g_free, else first fit      *)
(* (the loop itself is in the module PMMScan).                             *)
alloc(count, lim, max) ==
  LET need == count * FrameSize
      fits == count # 0 /\ g_free >= need /\ Fits(used, lim, count) # {}
      s == FirstFit(used, lim, count)
  IN  /\ \/ /\ fits
            /\ used' = used \cup Run(s, count)
            /\ g_free' = g_free - need
            /\ live' = live \cup {[start |-> s, count |-> count]}
            /\ ret' = [count |-> count, max |-> max, addr |-> map.base + s * FrameSize]
         \/ /\ ~fits
            /\ ret' = [count |-> count, max |-> max, addr |-> NoFrames]
            /\ UNCHANGED <<used, g_free, live>>
      /\ phase' = "run"
      /\ UNCHANGED <<map, reserved>>

pmm_alloc_frames(count) == alloc(count, NFrames(map), map.limit)

pmm_alloc_frames_below(count, max) == alloc(count, limit_idx(max), max)

(* A caller frees an allocation it still holds.  No caller in the tree     *)
(* does; the function is part of pmm.h.                                    *)
pmm_free_frames(a) ==
  LET paddr == map.base + a.start * FrameSize
      cleared == {k \in Run(a.start, a.count) : k < NFrames(map) /\ k \in used}
  IN  /\ a \in live
      /\ a.count # 0 /\ paddr >= map.base /\ paddr < map.limit
      /\ used' = used \ cleared
      /\ g_free' = Plus64(g_free, FrameSize * Cardinality(cleared))
      /\ live' = live \ {a}
      /\ ret' = Idle
      /\ UNCHANGED <<map, phase, reserved>>

Next ==
  \/ \E r \in ReserveRanges : pmm_reserve(r[1], r[2])
  \/ \E c \in Counts : pmm_alloc_frames(c)
  \/ \E c \in Counts, m \in MaxPhys : pmm_alloc_frames_below(c, m)
  \/ \E a \in live : pmm_free_frames(a)

Spec == Init /\ [][Next]_vars

-----------------------------------------------------------------------------
\* Type correctness of src/kernel/mm/pmm.c: the bitmap has a bit for every frame that is marked,
\* and the free-byte counter is a 64-bit number.
TypeOK ==
  /\ map \in BootMaps
  /\ used \in SUBSET Bits(map)
  /\ g_free \in 0..(Word - 1)
  /\ phase \in {"reserve", "run"}
  /\ reserved \in SUBSET Bits(map)
  /\ live \in SUBSET [start : Nat, count : Nat \ {0}]
  /\ ret \in [count : Nat, max : Nat, addr : Nat]

FramesOf(a) == Run(a.start, a.count)

(* The bytes of the clear bits, off by the mis-count of pmm_init, as a     *)
(* uint64_t.                                                               *)
FreeBytes(m, u) == FrameSize * Cardinality(Bits(m) \ u) + Slack(m)
Unsigned(x) == IF x >= 0 THEN x ELSE x + Word

(* g_free, which reserve, alloc and free each adjust on their own, is the  *)
(* size of the clear bits plus what pmm_init mis-counted (Slack), modulo   *)
(* 2^64: no sequence of calls lets the count and the bitmap drift apart.   *)
Accounting == g_free = Unsigned(FreeBytes(map, used))

(* The bitmap is exactly unusable memory, reservations and live            *)
(* allocations, and these never overlap: nothing reserved or already       *)
(* handed out is handed out again, and nothing freed stays marked.         *)
Ownership ==
  /\ used = map.unusable \cup reserved \cup UNION {FramesOf(a) : a \in live}
  /\ \A a \in live : FramesOf(a) \cap (map.unusable \cup reserved) = {}
  /\ \A a, b \in live : a # b => FramesOf(a) \cap FramesOf(b) = {}
  /\ \A a \in live : FramesOf(a) \subseteq 0..(NFrames(map) - 1)

(* A refused request could not have been met: the shortcut on g_free never *)
(* refuses what the bitmap could satisfy.  It needs the count not to run   *)
(* low: no mis-count at boot, or the cut last frame not yet reserved.      *)
NoSpuriousFailure ==
  /\ ret.count # 0 /\ ret.addr = NoFrames
  /\ Slack(map) >= 0 \/ NFrames(map) \notin used
  => Fits(used, limit_idx(ret.max), ret.count) = {}

(* "Allocate contiguous frames such that the returned base + size <=       *)
(* max_phys" (pmm.h:18), and never the null page or low memory.            *)
Placement ==
  ret.addr # NoFrames =>
    /\ ret.addr >= LowMem
    /\ ret.addr + ret.count * FrameSize <= ret.max

Pool == INSTANCE FrameAllocator WITH
          avail <- Bits(map) \ used,
          held <- {FramesOf(a) : a \in live}

(* The bitmap with its first-fit scans (pmm_alloc_frames, its _below form   *)
(* and pmm_free_frames) implements the allocator pmm.h promises: runs of   *)
(* frames are handed out while free and come back when freed.              *)
ImplementsAllocator == Pool!ASpec
=============================================================================
