------------------------------ MODULE PMMProofs -----------------------------
(***************************************************************************)
(* Proofs about the physical memory manager, for every frame size, memory  *)
(* map, reservation and sequence of calls.                                 *)
(***************************************************************************)
EXTENDS PMMScan, FiniteSetTheorems, TLAPS

-----------------------------------------------------------------------------
(* Arithmetic and cardinality. *)

\* The maximum of a pair is the greater of the two.
LEMMA MaxOfTwo ==
  ASSUME NEW a \in Int, NEW b \in Int
  PROVE  Max({a, b}) = IF a >= b THEN a ELSE b
<1>1. \E x \in {a, b} : \A y \in {a, b} : x >= y
  OBVIOUS
<1>. QED
  BY <1>1 DEF Max

\* The minimum of a pair is the lesser of the two.
LEMMA MinOfTwo ==
  ASSUME NEW a \in Int, NEW b \in Int
  PROVE  Min({a, b}) = IF a <= b THEN a ELSE b
<1>1. \E x \in {a, b} : \A y \in {a, b} : x <= y
  OBVIOUS
<1>. QED
  BY <1>1 DEF Min

(* Taking idx out of the free part of B costs exactly the bits of idx that *)
(* were free.                                                              *)
LEMMA CardinalityOfRest ==
  ASSUME NEW B, IsFiniteSet(B), NEW u \in SUBSET B, NEW idx \in SUBSET B
  PROVE  /\ Cardinality(B \ (u \cup idx)) = Cardinality(B \ u) - Cardinality(idx \ u)
         /\ Cardinality(B \ u) \in Nat /\ Cardinality(idx \ u) \in Nat
         /\ Cardinality(B \ (u \cup idx)) \in Nat
         /\ Cardinality(idx \ u) <= Cardinality(B \ u)
<1>1. IsFiniteSet(B \ u) /\ IsFiniteSet(idx \ u) /\ IsFiniteSet(B \ (u \cup idx))
  BY FS_Subset
<1>2. (B \ u) \ (idx \ u) = B \ (u \cup idx) /\ (B \ u) \cap (idx \ u) = idx \ u
  OBVIOUS
<1>3. Cardinality((B \ u) \ (idx \ u))
        = Cardinality(B \ u) - Cardinality((B \ u) \cap (idx \ u))
  BY <1>1, FS_Difference, Zenon
<1>4. Cardinality(idx \ u) <= Cardinality(B \ u)
  BY <1>1, FS_Subset
<1>. QED
  BY <1>1, <1>2, <1>3, <1>4, FS_CardinalityType, Zenon

(* Quotients by the frame size. *)
LEMMA Quotient ==
  ASSUME NEW x \in Nat
  PROVE  /\ x \div FrameSize \in Nat
         /\ (x \div FrameSize) * FrameSize <= x
         /\ x < (x \div FrameSize) * FrameSize + FrameSize
BY MemMapAssumption

\* align_down returns an integer.
LEMMA AlignDownType ==
  ASSUME NEW x \in Nat
  PROVE  align_down(x) \in Int
<1>1. x % FrameSize \in Int
  BY MemMapAssumption
<1>. QED
  BY <1>1 DEF align_down

\* Facts about products with the frame size, which the linear arithmetic of the provers needs spelled out.
LEMMA FrameProduct ==
  ASSUME NEW a \in Int, NEW b \in Int, a <= b
  PROVE  /\ FrameSize * a \in Int /\ FrameSize * b \in Int
         /\ FrameSize * a <= FrameSize * b
         /\ FrameSize * (b - a) = FrameSize * b - FrameSize * a
         /\ a < b => FrameSize * a + FrameSize <= FrameSize * b
         /\ a * FrameSize = FrameSize * a
BY MemMapAssumption

-----------------------------------------------------------------------------
(* The bits of a bitmap. *)

\* The bitmap of a boot map is a finite range of frame indices.
LEMMA BitsOfMap ==
  ASSUME NEW m \in BootMaps
  PROVE  /\ NFrames(m) \in Nat
         /\ Bits(m) \subseteq 0..NFrames(m) /\ 0..(NFrames(m) - 1) \subseteq Bits(m)
         /\ IsFiniteSet(Bits(m))
<1>0. m.base \in Nat /\ m.limit \in Nat /\ m.base <= m.limit
  BY PMMAssumption
<1>1. m.limit - m.base \in Nat /\ m.base \in Nat
  BY <1>0
<1>2. NFrames(m) \in Nat /\ NFrames(m) * FrameSize <= m.limit - m.base
  BY <1>1, Quotient DEF NFrames
<1>3. ASSUME NEW k \in 0..(NFrames(m) - 1) PROVE k \in Bits(m)
  <2>1. FrameSize * k + FrameSize <= FrameSize * NFrames(m)
        /\ k * FrameSize = FrameSize * k /\ NFrames(m) * FrameSize = FrameSize * NFrames(m)
    BY <1>2, FrameProduct
  <2>2. k * FrameSize \in Int /\ k * FrameSize + FrameSize <= m.limit - m.base
    BY <1>2, <2>1, <1>1, MemMapAssumption
  <2>3. m.base + k * FrameSize < m.limit
    BY <2>2, <1>1, <1>0, MemMapAssumption
  <2>. QED
    BY <1>2, <2>3 DEF Bits
<1>4. IsFiniteSet(Bits(m))
  <2>1. Bits(m) \in SUBSET (0..NFrames(m)) /\ IsFiniteSet(0..NFrames(m))
    BY <1>2, FS_Interval DEF Bits
  <2>. QED
    BY <2>1, FS_Subset, Zenon
<1>. QED
  BY <1>2, <1>3, <1>4 DEF Bits

\* The frames reserve_range marks are bits of the bitmap.
LEMMA ReservedBits ==
  ASSUME NEW m \in BootMaps, NEW paddr \in Nat, NEW size \in Nat
  PROVE  reserve_range(m, paddr, size) \subseteq Bits(m)
<1> DEFINE s == Max({align_down(paddr), m.base})
           e == Min({align_up(paddr + size), m.limit})
<1>1. m.base \in Nat /\ m.limit \in Nat /\ m.base <= m.limit
  BY PMMAssumption
<1>2. align_down(paddr) \in Int /\ align_up(paddr + size) \in Int
  BY MemMapAssumption, AlignDownType DEF align_up
<1>3. s \in Nat /\ s >= m.base /\ e \in Int /\ e <= m.limit
  BY <1>1, <1>2, MaxOfTwo, MinOfTwo
<1> HIDE DEF s, e
<1>4. ASSUME s < e, NEW k \in addr_to_index(m, s)..addr_to_index(m, e - 1)
      PROVE  k \in Bits(m)
  <2>1. s - m.base \in Nat /\ e - 1 - m.base \in Nat /\ m.limit - m.base \in Nat
    BY <1>1, <1>3, <1>4
  <2>2. /\ addr_to_index(m, s) \in Nat /\ addr_to_index(m, e - 1) \in Nat
        /\ addr_to_index(m, e - 1) * FrameSize <= e - 1 - m.base
    BY <2>1, Quotient DEF addr_to_index
  <2>3. k \in Nat /\ k <= addr_to_index(m, e - 1)
    BY <2>2
  <2>4. k * FrameSize <= addr_to_index(m, e - 1) * FrameSize /\ k * FrameSize \in Int
    BY <2>2, <2>3, FrameProduct
  <2>5. m.base + k * FrameSize < m.limit
    <3>1. k * FrameSize <= e - 1 - m.base
      BY <1>1, <1>3, <2>1, <2>2, <2>4, MemMapAssumption
    <3>. QED
      BY <3>1, <1>1, <1>3, <2>4
  <2>6. k <= NFrames(m)
    <3>1. NFrames(m) \in Nat /\ m.limit - m.base < NFrames(m) * FrameSize + FrameSize
      BY <2>1, Quotient DEF NFrames
    <3>2. SUFFICES ASSUME NFrames(m) < k PROVE FALSE
      BY <2>3, <3>1
    <3>3. FrameSize * NFrames(m) + FrameSize <= FrameSize * k
          /\ k * FrameSize = FrameSize * k /\ NFrames(m) * FrameSize = FrameSize * NFrames(m)
      BY <3>1, <3>2, <2>3, FrameProduct
    <3>. QED
      BY <3>1, <3>3, <2>5, <2>4, <1>1, MemMapAssumption
  <2>. QED
    BY <2>3, <2>5, <2>6, BitsOfMap DEF Bits
<1>5. reserve_range(m, paddr, size) =
        IF e <= s THEN {} ELSE addr_to_index(m, s)..addr_to_index(m, e - 1)
  BY DEF reserve_range, s, e
<1>. QED
  BY <1>3, <1>4, <1>5

-----------------------------------------------------------------------------
(* The invariant. *)

(* Reservations come before the first allocation. *)
ReserveFirst == phase = "reserve" => live = {}

IInv == TypeOK /\ Accounting /\ Ownership /\ ReserveFirst

(* What a count of n free bits means for the byte count. *)
LEMMA FreeBytesFacts ==
  ASSUME NEW m \in BootMaps, NEW u \in SUBSET Bits(m)
  PROVE  /\ Cardinality(Bits(m) \ u) \in Nat
         /\ Slack(m) \in Int /\ FreeBytes(m, u) \in Int /\ Word \in Nat
         /\ -Word < FreeBytes(m, u) /\ FreeBytes(m, u) < Word
         /\ FreeBytes(m, u) < 0 => Cardinality(Bits(m) \ u) = 0
         /\ Cardinality(Bits(m) \ u) > 0 => FreeBytes(m, u) > 0
         /\ Unsigned(FreeBytes(m, u)) \in 0..(Word - 1)
<1> DEFINE n == Cardinality(Bits(m) \ u)
           b == Cardinality(Bits(m))
           f == Cardinality(Bits(m) \ m.unusable)
           x == FrameSize * n + Slack(m)
<1>1. /\ Bits(m) \ u \in SUBSET Bits(m) /\ Bits(m) \ m.unusable \in SUBSET Bits(m)
      /\ IsFiniteSet(Bits(m))
  BY BitsOfMap
<1>2. IsFiniteSet(Bits(m) \ u) /\ IsFiniteSet(Bits(m) \ m.unusable)
      /\ n <= b /\ f <= b
  BY <1>1, FS_Subset
<1>3. n \in Nat /\ b \in Nat /\ f \in Nat
  BY <1>1, <1>2, FS_CardinalityType
<1>4. /\ Word \in Nat /\ m.usable \in Nat
      /\ FrameSize * b + m.usable < Word /\ Slack(m) > -FrameSize
  BY PMMAssumption
<1>5. Slack(m) = m.usable - FrameSize * f
  BY DEF Slack
<1> HIDE DEF n, b, f
<1>6. /\ FrameSize * n \in Int /\ FrameSize * b \in Int /\ FrameSize * f \in Int
      /\ FrameSize * n <= FrameSize * b /\ FrameSize * f <= FrameSize * b
      /\ FrameSize \in Nat
  BY <1>2, <1>3, FrameProduct, MemMapAssumption
<1>7. FrameSize * n >= 0 /\ FrameSize * f >= 0
  BY <1>3, <1>6, MemMapAssumption
<1>8. n > 0 => FrameSize * n >= FrameSize
  BY <1>3, <1>6, MemMapAssumption
<1>9. Slack(m) \in Int /\ x \in Int /\ -Word < x /\ x < Word
  BY <1>4, <1>5, <1>6, <1>7
<1>10. (x < 0 => n = 0) /\ (n > 0 => x > 0)
  BY <1>3, <1>4, <1>6, <1>8, <1>9
<1>11. FreeBytes(m, u) = x
  BY DEF FreeBytes, n
<1>12. Unsigned(FreeBytes(m, u)) \in 0..(Word - 1)
  BY <1>4, <1>9, <1>11 DEF Unsigned
<1>. QED
  BY <1>3, <1>4, <1>9, <1>10, <1>11, <1>12 DEF n

(* Marking idx changes the bytes by the frames of idx that were free. *)
LEMMA FreeBytesDifference ==
  ASSUME NEW m \in BootMaps, NEW u \in SUBSET Bits(m), NEW idx \in SUBSET Bits(m)
  PROVE  /\ Cardinality(idx \ u) \in Nat
         /\ Cardinality(idx \ u) <= Cardinality(Bits(m) \ u)
         /\ FrameSize * Cardinality(idx \ u) \in Nat
         /\ FreeBytes(m, u \cup idx) = FreeBytes(m, u) - FrameSize * Cardinality(idx \ u)
         /\ Cardinality(idx \ u) = 0 => FrameSize * Cardinality(idx \ u) = 0
<1> DEFINE n == Cardinality(Bits(m) \ u)
           c == Cardinality(idx \ u)
           r == Cardinality(Bits(m) \ (u \cup idx))
<1>1. n \in Nat /\ c \in Nat /\ r \in Nat /\ r = n - c /\ c <= n
  BY BitsOfMap, CardinalityOfRest, Zenon
<1>2. Slack(m) \in Int
  BY FreeBytesFacts, Zenon
<1>3. FreeBytes(m, u) = FrameSize * n + Slack(m)
      /\ FreeBytes(m, u \cup idx) = FrameSize * r + Slack(m)
  BY DEF FreeBytes
<1> HIDE DEF n, c, r
<1>4. /\ FrameSize * (n - c) = FrameSize * n - FrameSize * c
      /\ FrameSize * n \in Int /\ FrameSize * c \in Int /\ FrameSize * c >= 0
      /\ c = 0 => FrameSize * c = 0
  BY <1>1, MemMapAssumption
<1>5. FreeBytes(m, u \cup idx) = FreeBytes(m, u) - FrameSize * c
  BY <1>1, <1>2, <1>3, <1>4
<1>. QED
  BY <1>1, <1>4, <1>5 DEF n, c

(* Reservations charge what they mark. *)
LEMMA Charge ==
  ASSUME NEW m \in BootMaps, NEW u \in SUBSET Bits(m), NEW idx \in SUBSET Bits(m)
  PROVE  Minus64(Unsigned(FreeBytes(m, u)), FrameSize * Cardinality(idx \ u))
           = Unsigned(FreeBytes(m, u \cup idx))
<1> DEFINE x == FreeBytes(m, u)
           y == FreeBytes(m, u \cup idx)
           cost == FrameSize * Cardinality(idx \ u)
<1>1. /\ Word \in Nat /\ x \in Int /\ y \in Int /\ -Word < x /\ x < Word /\ -Word < y
      /\ x < 0 => Cardinality(Bits(m) \ u) = 0
  <2>1. u \cup idx \in SUBSET Bits(m)
    OBVIOUS
  <2>. QED
    BY <2>1, FreeBytesFacts, Zenon
<1>2. cost \in Nat /\ y = x - cost /\ (x < 0 => cost = 0)
  <2> DEFINE c == Cardinality(idx \ u)
  <2>1. /\ cost \in Nat /\ y = x - cost /\ (c = 0 => cost = 0)
        /\ c \in Nat /\ c <= Cardinality(Bits(m) \ u)
    BY FreeBytesDifference, Zenon
  <2> HIDE DEF c, x, y, cost
  <2>2. x < 0 => c = 0
    BY <1>1, <2>1
  <2>. QED
    BY <2>1, <2>2
<1> HIDE DEF x, y, cost
<1>3. Minus64(Unsigned(x), cost) = Unsigned(y)
  BY <1>1, <1>2 DEF Minus64, Unsigned
<1>. QED
  BY <1>3 DEF x, y, cost

(* A free returns what it clears. *)
LEMMA Refund ==
  ASSUME NEW m \in BootMaps, NEW u \in SUBSET Bits(m), NEW idx \in SUBSET u
  PROVE  Plus64(Unsigned(FreeBytes(m, u)), FrameSize * Cardinality(idx))
           = Unsigned(FreeBytes(m, u \ idx))
<1> DEFINE x == FreeBytes(m, u)
           y == FreeBytes(m, u \ idx)
           gain == FrameSize * Cardinality(idx)
<1>1. /\ u \ idx \in SUBSET Bits(m) /\ idx \in SUBSET Bits(m)
      /\ (u \ idx) \cup idx = u /\ idx \ (u \ idx) = idx
  OBVIOUS
<1>2. /\ Word \in Nat /\ x \in Int /\ y \in Int /\ -Word < x /\ y < Word /\ -Word < y
      /\ y < 0 => Cardinality(Bits(m) \ (u \ idx)) = 0
  BY <1>1, FreeBytesFacts, Zenon
<1>3. gain \in Nat /\ x = y - gain /\ (y < 0 => gain = 0)
  <2> DEFINE c == Cardinality(idx)
             v == u \ idx
  <2>1. v \in SUBSET Bits(m) /\ v \cup idx = u /\ idx \ v = idx
    BY <1>1
  <2> HIDE DEF v
  <2>2. /\ gain \in Nat /\ x = FreeBytes(m, v) - gain /\ (c = 0 => gain = 0)
        /\ c \in Nat /\ c <= Cardinality(Bits(m) \ v)
    <3>1. /\ Cardinality(idx \ v) \in Nat
          /\ Cardinality(idx \ v) <= Cardinality(Bits(m) \ v)
          /\ FrameSize * Cardinality(idx \ v) \in Nat
          /\ FreeBytes(m, v \cup idx) = FreeBytes(m, v) - FrameSize * Cardinality(idx \ v)
          /\ Cardinality(idx \ v) = 0 => FrameSize * Cardinality(idx \ v) = 0
      BY <1>1, <2>1, FreeBytesDifference, Zenon
    <3>. QED
      BY <2>1, <3>1, Zenon
  <2> HIDE DEF c, x, gain
  <2>3. y < 0 => c = 0
    BY <1>2, <2>2 DEF v
  <2>. QED
    BY <2>2, <2>3 DEF v
<1> HIDE DEF x, y, gain
<1>4. Plus64(Unsigned(x), gain) = Unsigned(y)
  BY <1>2, <1>3 DEF Plus64, Unsigned
<1>. QED
  BY <1>4 DEF x, y, gain

-----------------------------------------------------------------------------
(* The steps. *)

\* The inductive invariant holds after pmm_init.
LEMMA PMMInit == Init => IInv
<1> SUFFICES ASSUME Init PROVE IInv
  OBVIOUS
<1>1. map \in BootMaps
  BY DEF Init
<1>2. /\ map.base \in Nat /\ map.limit \in Nat /\ map.usable \in Nat
      /\ map.unusable \subseteq 0..(NFrames(map) - 1) /\ Word \in Nat
  BY <1>1, PMMAssumption
<1>3. reserved \in SUBSET Bits(map) /\ map.unusable \in SUBSET Bits(map)
  BY <1>1, <1>2, BitsOfMap, ReservedBits, MemMapAssumption DEF Init, InitReserved
<1>4. used \in SUBSET Bits(map) /\ used = map.unusable \cup reserved
  BY <1>3 DEF Init
<1>5. map.usable = Unsigned(FreeBytes(map, map.unusable))
  <2>1. Cardinality(Bits(map) \ map.unusable) \in Nat
    BY <1>1, <1>3, FreeBytesFacts
  <2>. QED
    BY <1>2, <2>1, MemMapAssumption DEF Slack, FreeBytes, Unsigned
<1>6. Accounting /\ g_free \in 0..(Word - 1)
  <2>1. g_free = Minus64(map.usable, FrameSize * Cardinality(reserved \ map.unusable))
    BY DEF Init
  <2>2. g_free = Unsigned(FreeBytes(map, map.unusable \cup reserved))
    BY <1>1, <1>3, <1>5, <2>1, Charge, ZenonT(30)
  <2>. QED
    BY <1>1, <1>4, <2>2, FreeBytesFacts, Zenon DEF Accounting
<1>7. TypeOK
  BY <1>1, <1>3, <1>4, <1>6 DEF Init, TypeOK, Idle, NoFrames
<1>8. Ownership /\ ReserveFirst
  BY <1>4 DEF Init, Ownership, ReserveFirst
<1>. QED
  BY <1>6, <1>7, <1>8 DEF IInv

\* pmm_reserve keeps the invariant.
LEMMA ReserveStep ==
  ASSUME IInv, NEW p \in ReserveRanges, pmm_reserve(p[1], p[2])
  PROVE  IInv'
<1> DEFINE idx == reserve_range(map, p[1], p[2])
<1>1. map \in BootMaps /\ used \in SUBSET Bits(map)
      /\ reserved \in SUBSET Bits(map) /\ live = {}
  BY DEF IInv, TypeOK, ReserveFirst, pmm_reserve
<1>2. idx \in SUBSET Bits(map)
  <2>1. p[1] \in Nat /\ p[2] \in Nat
    BY PMMAssumption
  <2>. QED
    BY <1>1, <2>1, ReservedBits
<1>3. /\ used' = used \cup idx /\ reserved' = reserved \cup idx
      /\ g_free' = Minus64(g_free, FrameSize * Cardinality(idx \ used))
      /\ UNCHANGED <<map, phase, ret, live>>
  BY DEF pmm_reserve
<1> HIDE DEF idx
<1>4. g_free' = Unsigned(FreeBytes(map, used \cup idx))
  BY <1>1, <1>2, <1>3, Charge, Zenon DEF IInv, Accounting
<1>5. Accounting' /\ g_free' \in 0..(Word - 1)
  <2>1. used \cup idx \in SUBSET Bits(map)
    BY <1>1, <1>2
  <2>. QED
    BY <1>1, <1>3, <1>4, <2>1, FreeBytesFacts, Zenon DEF Accounting
<1>6. TypeOK'
  BY <1>1, <1>2, <1>3, <1>5 DEF IInv, TypeOK
<1>7. Ownership' /\ ReserveFirst'
  BY <1>1, <1>3 DEF IInv, Ownership, ReserveFirst
<1>. QED
  BY <1>5, <1>6, <1>7 DEF IInv

(* A nonempty set of naturals has a least element. *)
LEMMA LeastNatural ==
  ASSUME NEW T \in SUBSET Nat, T # {}
  PROVE  \E x \in T : \A y \in T : x <= y
<1> DEFINE R == {ss \in Nat \X Nat : ss[1] < ss[2]}
<1>1. IsWellFoundedOn(R, Nat)
  BY NatLessThanWellFounded DEF OpToRel
<1> HIDE DEF R
<1>2. PICK x \in T : \A y \in T : ~ (<<y, x>> \in R)
  BY <1>1, WFMin, Zenon
<1>3. ASSUME NEW y \in T, y < x PROVE FALSE
  <2>1. <<y, x>> \in R
    BY <1>3 DEF R
  <2>. QED
    BY <2>1, <1>2
<1>. QED
  BY <1>3

(* What a search that succeeds returns. *)
LEMMA FirstFitRun ==
  ASSUME NEW u, NEW l0 \in Nat, NEW n \in Nat \ {0}, Fits(u, l0, n) # {}
  PROVE  /\ FirstFit(u, l0, n) \in 0..(l0 - n)
         /\ Run(FirstFit(u, l0, n), n) \cap u = {}
         /\ Run(FirstFit(u, l0, n), n) \subseteq 0..(l0 - 1)
         /\ IsFiniteSet(Run(FirstFit(u, l0, n), n))
         /\ Cardinality(Run(FirstFit(u, l0, n), n)) = n
<1> DEFINE s == FirstFit(u, l0, n)
<1>1. Fits(u, l0, n) \in SUBSET Nat
  BY DEF Fits
<1>2. s \in Fits(u, l0, n)
  BY <1>1, LeastNatural DEF FirstFit
<1> HIDE DEF s
<1>3. s \in 0..(l0 - n) /\ Run(s, n) \cap u = {}
  BY <1>2 DEF Fits
<1>4. Run(s, n) \subseteq 0..(l0 - 1)
  BY <1>3 DEF Run
<1>5. IsFiniteSet(Run(s, n)) /\ Cardinality(Run(s, n)) = n
  <2>1. s \in Int /\ s + n - 1 \in Int /\ s <= s + n - 1 /\ (s + n - 1) - s + 1 = n
    BY <1>3
  <2> DEFINE e == s + n - 1
  <2>2. e \in Int /\ s <= e /\ e - s + 1 = n
    BY <2>1
  <2>3. Run(s, n) = s..e
    BY DEF Run
  <2> HIDE DEF e
  <2>4. IsFiniteSet(s..e) /\ Cardinality(s..e) = IF s > e THEN 0 ELSE e - s + 1
    BY <2>1, <2>2, FS_Interval
  <2>. QED
    BY <2>1, <2>2, <2>3, <2>4
<1>. QED
  BY <1>3, <1>4, <1>5 DEF s

\* limit_idx never passes the end of the bitmap, and the frames below it end at or below the caller's limit.
LEMMA LimitIdx ==
  ASSUME map \in BootMaps, NEW m0 \in Nat
  PROVE  /\ limit_idx(m0) \in 0..NFrames(map)
         /\ limit_idx(m0) > 0 => map.base + limit_idx(m0) * FrameSize <= m0
<1>1. map.base \in Nat /\ NFrames(map) \in Nat
  BY PMMAssumption, BitsOfMap
<1>2. CASE m0 > map.base
  <2> DEFINE q == (m0 - map.base) \div FrameSize
  <2>1. q \in Nat /\ q * FrameSize <= m0 - map.base
    <3>1. m0 - map.base \in Nat
      BY <1>1, <1>2
    <3>. QED
      BY <3>1, Quotient
  <2>2. limit_idx(m0) = IF q <= NFrames(map) THEN q ELSE NFrames(map)
    <3>1. limit_idx(m0) = Min({q, NFrames(map)})
      BY <1>2 DEF limit_idx
    <3> HIDE DEF q
    <3>. QED
      BY <1>1, <2>1, <3>1, MinOfTwo
  <2> HIDE DEF q
  <2>3. limit_idx(m0) \in 0..NFrames(map) /\ limit_idx(m0) <= q
    BY <1>1, <2>1, <2>2
  <2>4. limit_idx(m0) * FrameSize <= q * FrameSize /\ limit_idx(m0) * FrameSize \in Int
        /\ q * FrameSize \in Int
    <3>1. limit_idx(m0) \in Int /\ q \in Int
      BY <2>1, <2>3, <1>1
    <3>. QED
      BY <3>1, <2>3, FrameProduct
  <2>. QED
    BY <1>1, <2>1, <2>3, <2>4
<1>3. CASE ~(m0 > map.base)
  BY <1>1, <1>3 DEF limit_idx
<1>. QED
  BY <1>2, <1>3

(* The test that decides between the two outcomes of an allocation. *)
Granted(n0, l0) ==
  n0 # 0 /\ g_free >= n0 * FrameSize /\ Fits(used, l0, n0) # {}

(* A refused call changes nothing but what it reports. *)
LEMMA AllocRefused ==
  ASSUME NEW n0, NEW l0, NEW m0, alloc(n0, l0, m0), ~Granted(n0, l0)
  PROVE  /\ UNCHANGED <<map, used, g_free, reserved, live>> /\ phase' = "run"
         /\ ret' = [count |-> n0, max |-> m0, addr |-> NoFrames]
BY DEF alloc, Granted

(* A granted call hands out a free run below the limit. *)
LEMMA AllocGranted ==
  ASSUME IInv, NEW n0 \in Nat, NEW l0 \in 0..NFrames(map), NEW m0,
         alloc(n0, l0, m0), Granted(n0, l0)
  PROVE  \E s \in 0..(l0 - n0) :
           /\ n0 # 0 /\ n0 * FrameSize <= g_free
           /\ Run(s, n0) \cap used = {}
           /\ Run(s, n0) \subseteq 0..(NFrames(map) - 1)
           /\ IsFiniteSet(Run(s, n0)) /\ Cardinality(Run(s, n0)) = n0
           /\ used' = used \cup Run(s, n0)
           /\ g_free' = g_free - n0 * FrameSize
           /\ live' = live \cup {[start |-> s, count |-> n0]}
           /\ ret' = [count |-> n0, max |-> m0, addr |-> map.base + s * FrameSize]
           /\ phase' = "run" /\ UNCHANGED <<map, reserved>>
<1> DEFINE s == FirstFit(used, l0, n0)
<1>1. /\ n0 # 0 /\ g_free >= n0 * FrameSize /\ Fits(used, l0, n0) # {}
      /\ used' = used \cup Run(s, n0)
      /\ g_free' = g_free - n0 * FrameSize
      /\ live' = live \cup {[start |-> s, count |-> n0]}
      /\ ret' = [count |-> n0, max |-> m0, addr |-> map.base + s * FrameSize]
      /\ phase' = "run" /\ UNCHANGED <<map, reserved>>
  BY DEF alloc, Granted
<1>2. NFrames(map) \in Nat /\ l0 \in Nat /\ l0 <= NFrames(map)
  BY BitsOfMap DEF IInv, TypeOK
<1>3. g_free \in Nat /\ n0 * FrameSize \in Int
  BY MemMapAssumption, FrameProduct DEF IInv, TypeOK
<1>4. /\ s \in 0..(l0 - n0) /\ Run(s, n0) \cap used = {}
      /\ Run(s, n0) \subseteq 0..(l0 - 1)
      /\ IsFiniteSet(Run(s, n0)) /\ Cardinality(Run(s, n0)) = n0
  BY <1>1, <1>2, FirstFitRun
<1> HIDE DEF s
<1>5. Run(s, n0) \subseteq 0..(NFrames(map) - 1)
  BY <1>2, <1>4
<1>6. n0 * FrameSize <= g_free
  BY <1>1, <1>3
<1>. QED
  BY <1>1, <1>4, <1>5, <1>6, SMTT(20)

\* An allocation, successful or not, keeps the invariant.
LEMMA AllocStep ==
  ASSUME IInv, NEW n0 \in Nat, NEW l0 \in 0..NFrames(map), NEW m0 \in Nat,
         alloc(n0, l0, m0)
  PROVE  IInv'
<1>0. map \in BootMaps /\ used \in SUBSET Bits(map) /\ g_free \in 0..(Word - 1)
      /\ map.base \in Nat /\ Word \in Nat
  BY PMMAssumption DEF IInv, TypeOK
<1>1. CASE ~Granted(n0, l0)
  <2>1. /\ UNCHANGED <<map, used, g_free, reserved, live>> /\ phase' = "run"
        /\ ret' = [count |-> n0, max |-> m0, addr |-> NoFrames]
    BY <1>1, AllocRefused
  <2>. QED
    BY <1>0, <2>1, ZenonT(30) DEF IInv, TypeOK, Accounting, Ownership, ReserveFirst, FramesOf, NoFrames
<1>2. CASE Granted(n0, l0)
  <2>1. PICK s \in 0..(l0 - n0) :
           /\ n0 # 0 /\ n0 * FrameSize <= g_free
           /\ Run(s, n0) \cap used = {}
           /\ Run(s, n0) \subseteq 0..(NFrames(map) - 1)
           /\ IsFiniteSet(Run(s, n0)) /\ Cardinality(Run(s, n0)) = n0
           /\ used' = used \cup Run(s, n0)
           /\ g_free' = g_free - n0 * FrameSize
           /\ live' = live \cup {[start |-> s, count |-> n0]}
           /\ ret' = [count |-> n0, max |-> m0, addr |-> map.base + s * FrameSize]
           /\ phase' = "run" /\ UNCHANGED <<map, reserved>>
    BY <1>2, AllocGranted
  <2> DEFINE a == [start |-> s, count |-> n0]
             idx == Run(s, n0)
  <2>2. idx \in SUBSET Bits(map) /\ idx \ used = idx /\ FramesOf(a) = idx
    BY <1>0, <2>1, BitsOfMap DEF FramesOf
  <2>3. Accounting' /\ g_free' \in 0..(Word - 1)
    <3> DEFINE cost == FrameSize * n0
    <3>1. Minus64(Unsigned(FreeBytes(map, used)), FrameSize * Cardinality(idx \ used))
            = Unsigned(FreeBytes(map, used \cup idx))
      BY <1>0, <2>2, Charge, Zenon
    <3>2. Minus64(g_free, cost) = Unsigned(FreeBytes(map, used \cup idx))
      BY <2>1, <2>2, <3>1, Zenon DEF IInv, Accounting
    <3>3. cost = n0 * FrameSize /\ cost \in Int
      BY MemMapAssumption
    <3> HIDE DEF cost
    <3>4. Minus64(g_free, cost) = g_free'
      BY <1>0, <2>1, <3>3 DEF Minus64
    <3>5. Unsigned(FreeBytes(map, used \cup idx)) \in 0..(Word - 1)
      <4>1. used \cup idx \in SUBSET Bits(map)
        BY <1>0, <2>2, SMTT(20)
      <4>. QED
        BY <1>0, <4>1, FreeBytesFacts, ZenonT(30)
    <3>. QED
      BY <2>1, <3>2, <3>4, <3>5, SMTT(20) DEF Accounting
  <2>4. TypeOK'
    <3>1. map.base + s * FrameSize \in Nat /\ s \in Nat
      BY <1>0, MemMapAssumption
    <3>. QED
      BY <1>0, <2>1, <2>2, <2>3, <3>1, SMTT(20) DEF IInv, TypeOK
  <2>5. Ownership'
    <3>1. \A b \in live : FramesOf(b) \subseteq used
      BY DEF IInv, Ownership
    <3>2. live' = live \cup {a} /\ used' = used \cup FramesOf(a)
          /\ FramesOf(a) \cap used = {} /\ FramesOf(a) \subseteq 0..(NFrames(map) - 1)
          /\ map' = map /\ reserved' = reserved
      BY <2>1, <2>2
    <3> HIDE DEF a, idx
    <3>3. /\ used = map.unusable \cup reserved \cup UNION {FramesOf(b) : b \in live}
          /\ \A b \in live : FramesOf(b) \cap (map.unusable \cup reserved) = {}
          /\ \A b, c \in live : b # c => FramesOf(b) \cap FramesOf(c) = {}
          /\ \A b \in live : FramesOf(b) \subseteq 0..(NFrames(map) - 1)
      BY DEF IInv, Ownership
    <3>4. used' = map.unusable \cup reserved \cup UNION {FramesOf(b) : b \in live'}
      BY <3>2, <3>3
    <3>5. \A b \in live' : FramesOf(b) \cap (map.unusable \cup reserved) = {}
      BY <3>2, <3>3
    <3>6. \A b, c \in live' : b # c => FramesOf(b) \cap FramesOf(c) = {}
      BY <3>1, <3>2, <3>3, SMTT(20)
    <3>7. \A b \in live' : FramesOf(b) \subseteq 0..(NFrames(map) - 1)
      BY <3>2, <3>3
    <3>. QED
      BY <3>2, <3>4, <3>5, <3>6, <3>7, SMTT(20) DEF Ownership
  <2>. QED
    BY <2>1, <2>3, <2>4, <2>5, SMTT(20) DEF IInv, ReserveFirst
<1>. QED
  BY <1>1, <1>2

(* Freeing a live allocation clears exactly its frames. *)
LEMMA FreeEffect ==
  ASSUME IInv, NEW a \in live, pmm_free_frames(a)
  PROVE  /\ FramesOf(a) \subseteq used
         /\ used' = used \ FramesOf(a)
         /\ g_free' = Plus64(g_free, FrameSize * Cardinality(FramesOf(a)))
         /\ live' = live \ {a} /\ ret' = Idle
         /\ UNCHANGED <<map, phase, reserved>>
<1>1. FramesOf(a) \subseteq used /\ FramesOf(a) \subseteq 0..(NFrames(map) - 1)
      /\ NFrames(map) \in Nat
  BY BitsOfMap DEF IInv, Ownership, TypeOK
<1>2. {k \in Run(a.start, a.count) : k < NFrames(map) /\ k \in used} = FramesOf(a)
  BY <1>1 DEF FramesOf
<1>. QED
  BY <1>1, <1>2, ZenonT(30) DEF pmm_free_frames

\* pmm_free_frames of a live allocation keeps the invariant.
LEMMA FreeStep ==
  ASSUME IInv, NEW a \in live, pmm_free_frames(a)
  PROVE  IInv'
<1>0. map \in BootMaps /\ used \in SUBSET Bits(map)
  BY DEF IInv, TypeOK
<1>1. /\ FramesOf(a) \subseteq used
      /\ used' = used \ FramesOf(a)
      /\ g_free' = Plus64(g_free, FrameSize * Cardinality(FramesOf(a)))
      /\ live' = live \ {a} /\ ret' = Idle
      /\ UNCHANGED <<map, phase, reserved>>
  BY FreeEffect
<1>2. g_free' = Unsigned(FreeBytes(map, used \ FramesOf(a)))
  BY <1>0, <1>1, Refund DEF IInv, Accounting
<1>3. Accounting' /\ g_free' \in 0..(Word - 1)
  <2>1. used \ FramesOf(a) \in SUBSET Bits(map)
    BY <1>0
  <2>. QED
    BY <1>0, <1>1, <1>2, <2>1, FreeBytesFacts, ZenonT(30) DEF Accounting
<1>4. TypeOK'
  BY <1>0, <1>1, <1>3, SMTT(20) DEF IInv, TypeOK, Idle, NoFrames
<1>5. Ownership'
  <2>1. /\ used = map.unusable \cup reserved \cup UNION {FramesOf(b) : b \in live}
        /\ \A b \in live : FramesOf(b) \cap (map.unusable \cup reserved) = {}
        /\ \A b, c \in live : b # c => FramesOf(b) \cap FramesOf(c) = {}
        /\ \A b \in live : FramesOf(b) \subseteq 0..(NFrames(map) - 1)
    BY DEF IInv, Ownership
  <2>2. used' = map.unusable \cup reserved \cup UNION {FramesOf(b) : b \in live'}
    BY <1>1, <2>1
  <2>. QED
    BY <1>1, <2>1, <2>2, SMTT(20) DEF Ownership
<1>. QED
  BY <1>1, <1>3, <1>4, <1>5, SMTT(20) DEF IInv, ReserveFirst

\* Every step of the frame allocator keeps the invariant.
LEMMA PMMStep == IInv /\ [Next]_vars => IInv'
<1> SUFFICES ASSUME IInv, [Next]_vars PROVE IInv'
  OBVIOUS
<1>0. /\ map \in BootMaps /\ map.limit \in Nat /\ NFrames(map) \in 0..NFrames(map)
      /\ Counts \subseteq Nat /\ MaxPhys \subseteq Nat
  BY PMMAssumption, BitsOfMap DEF IInv, TypeOK
<1>1. ASSUME NEW r \in ReserveRanges, pmm_reserve(r[1], r[2]) PROVE IInv'
  BY <1>1, ReserveStep
<1>2. ASSUME NEW c \in Counts, pmm_alloc_frames(c) PROVE IInv'
  BY <1>0, <1>2, AllocStep DEF pmm_alloc_frames
<1>3. ASSUME NEW c \in Counts, NEW m \in MaxPhys, pmm_alloc_frames_below(c, m) PROVE IInv'
  BY <1>0, <1>3, LimitIdx, AllocStep DEF pmm_alloc_frames_below
<1>4. ASSUME NEW a \in live, pmm_free_frames(a) PROVE IInv'
  BY <1>4, FreeStep
<1>5. CASE UNCHANGED vars
  BY <1>5, Zenon DEF vars, IInv, TypeOK, Accounting, Ownership, ReserveFirst, FramesOf
<1>. QED
  BY <1>1, <1>2, <1>3, <1>4, <1>5 DEF Next

\* The inductive invariant holds in every reachable state of the frame allocator.
LEMMA PMMInvariant == Spec => []IInv
BY PMMInit, PMMStep, PTL DEF Spec

(* Every variable of the frame allocator keeps its type, whatever the boot *)
(* information and the calls.                                              *)
THEOREM PMMTypeCorrect == Spec => []TypeOK
<1>1. IInv => TypeOK
  BY DEF IInv
<1>. QED
  BY <1>1, PMMInvariant, PTL

(* g_free and the bitmap never drift apart (pmm_reserve, both allocation   *)
(* functions and pmm_free_frames).                                         *)
THEOREM PMMAccounting == Spec => []Accounting
<1>1. IInv => Accounting
  BY DEF IInv
<1>. QED
  BY <1>1, PMMInvariant, PTL

(* No frame is handed out twice, nor one that is reserved or not memory.   *)
THEOREM PMMOwnership == Spec => []Ownership
<1>1. IInv => Ownership
  BY DEF IInv
<1>. QED
  BY <1>1, PMMInvariant, PTL

-----------------------------------------------------------------------------
(* The bitmap implements the abstract allocator. *)

\* An allocation is a step of the abstract pool: a run of unowned frames becomes owned.
LEMMA AllocTakes ==
  ASSUME IInv, NEW n0 \in Nat, NEW l0 \in 0..NFrames(map), NEW m0 \in Nat,
         alloc(n0, l0, m0)
  PROVE  Pool!ANext \/ UNCHANGED <<Bits(map) \ used, {FramesOf(a) : a \in live}>>
<1>1. CASE ~Granted(n0, l0)
  BY <1>1, AllocRefused
<1>2. CASE Granted(n0, l0)
  <2>1. PICK s \in 0..(l0 - n0) :
           /\ n0 # 0
           /\ Run(s, n0) \cap used = {}
           /\ Run(s, n0) \subseteq 0..(NFrames(map) - 1)
           /\ used' = used \cup Run(s, n0)
           /\ live' = live \cup {[start |-> s, count |-> n0]}
           /\ UNCHANGED <<map, reserved>>
    BY <1>2, AllocGranted
  <2> DEFINE t == s + n0 - 1
  <2>2. s..t = Run(s, n0) /\ s \in s..t /\ t \in s..t /\ s <= t
    BY <2>1 DEF Run
  <2>3. s..t \subseteq Bits(map) \ used
    BY <2>1, <2>2, BitsOfMap, Zenon DEF IInv, TypeOK
  <2>4. (Bits(map) \ used)' = (Bits(map) \ used) \ (s..t)
    BY <2>1, <2>2
  <2>5. {FramesOf(a) : a \in live}' = {FramesOf(a) : a \in live} \cup {s..t}
    <3>1. FramesOf([start |-> s, count |-> n0]) = s..t
      BY <2>2 DEF FramesOf
    <3>. QED
      BY <2>1, <3>1
  <2>6. s \in Bits(map) \ used /\ t \in Bits(map) \ used
    BY <2>2, <2>3
  <2> HIDE DEF t
  <2>7. Pool!Take
    BY <2>2, <2>3, <2>4, <2>5, <2>6, Zenon DEF Pool!Take
  <2>. QED
    BY <2>7 DEF Pool!ANext
<1>. QED
  BY <1>1, <1>2

\* A free is a step of the abstract pool: an owned run becomes unowned.
LEMMA FreeGives ==
  ASSUME IInv, NEW a \in live, pmm_free_frames(a)
  PROVE  Pool!Give
<1>1. /\ FramesOf(a) \subseteq used
      /\ used' = used \ FramesOf(a)
      /\ live' = live \ {a} /\ map' = map
  BY FreeEffect
<1>2. /\ used \in SUBSET Bits(map)
      /\ \A b, c \in live : b # c => FramesOf(b) \cap FramesOf(c) = {}
      /\ \A b \in live : b.start \in FramesOf(b)
  BY DEF IInv, TypeOK, Ownership, FramesOf, Run
<1>3. (Bits(map) \ used)' = (Bits(map) \ used) \cup FramesOf(a)
  BY <1>1, <1>2
<1>4. {FramesOf(b) : b \in live}' = {FramesOf(b) : b \in live} \ {FramesOf(a)}
  <2>1. \A b \in live : b # a => FramesOf(b) # FramesOf(a)
    BY <1>2
  <2>2. {FramesOf(b) : b \in live}' = {FramesOf(b) : b \in live \ {a}}
    BY <1>1
  <2>. QED
    BY <2>1, <2>2
<1>. QED
  BY <1>3, <1>4 DEF Pool!Give

(* Every run of the bitmap allocator is a run of the allocator pmm.h       *)
(* promises: reservations withdraw frames, allocations take free runs,     *)
(* frees give back exactly what was taken, failures change nothing.        *)
THEOREM PMMImplementsAllocator == Spec => ImplementsAllocator
<1>1. Init => Pool!AInit
  <2> SUFFICES ASSUME Init PROVE Pool!AInit
    OBVIOUS
  <2>1. map \in BootMaps /\ live = {}
    BY DEF Init
  <2>2. Bits(map) \ used \in SUBSET Nat
    BY <2>1, BitsOfMap
  <2>. QED
    BY <2>1, <2>2 DEF Pool!AInit
<1>2. IInv /\ [Next]_vars => [Pool!ANext]_(Pool!avars)
  <2> SUFFICES ASSUME IInv, [Next]_vars
               PROVE  Pool!ANext \/ UNCHANGED <<Bits(map) \ used, {FramesOf(a) : a \in live}>>
    BY DEF Pool!avars
  <2>0. /\ map \in BootMaps /\ map.limit \in Nat /\ NFrames(map) \in 0..NFrames(map)
        /\ Counts \subseteq Nat /\ MaxPhys \subseteq Nat
    BY PMMAssumption, BitsOfMap DEF IInv, TypeOK
  <2>1. ASSUME NEW r \in ReserveRanges, pmm_reserve(r[1], r[2]) PROVE Pool!ANext
    BY <2>1 DEF pmm_reserve, Pool!ANext, Pool!Withdraw
  <2>2. CASE \E c \in Counts : pmm_alloc_frames(c)
    BY <2>0, <2>2, AllocTakes, SMTT(20) DEF pmm_alloc_frames
  <2>3. CASE \E c \in Counts, m \in MaxPhys : pmm_alloc_frames_below(c, m)
    BY <2>0, <2>3, LimitIdx, AllocTakes, SMTT(20) DEF pmm_alloc_frames_below
  <2>4. ASSUME NEW a \in live, pmm_free_frames(a) PROVE Pool!ANext
    BY <2>4, FreeGives DEF Pool!ANext
  <2>5. CASE UNCHANGED vars
    BY <2>5 DEF vars
  <2>. QED
    BY <2>1, <2>2, <2>3, <2>4, <2>5, SMTT(20) DEF Next
<1>. QED
  BY <1>1, <1>2, PMMInvariant, PTL DEF Spec, ImplementsAllocator, Pool!ASpec

-----------------------------------------------------------------------------
(* What the callers see. *)

(* Nothing is returned before the first call, and what pmm_init reserved   *)
(* stays reserved.                                                         *)
AnswerInv ==
  /\ phase = "reserve" => ret = Idle
  /\ InitReserved(map) \subseteq reserved
  /\ NoSpuriousFailure /\ Placement

(* Frames of the bitmap that pmm_init left unreserved lie above LowMem. *)
LEMMA AboveLowMem ==
  ASSUME NEW m \in BootMaps, NEW k \in 0..(NFrames(m) - 1), k \notin InitReserved(m)
  PROVE  m.base + k * FrameSize >= LowMem
<1> DEFINE e == Min({align_up(0 + LowMem), m.limit})
           s == Max({align_down(0), m.base})
<1>1. /\ m.base \in Nat /\ m.limit \in Nat /\ m.base <= m.limit
      /\ LowMem \in Nat /\ FrameSize \in Nat /\ FrameSize > 0
  BY PMMAssumption, MemMapAssumption
<1>2. align_down(0) = 0
  BY MemMapAssumption DEF align_down
<1>3. align_up(0 + LowMem) \in Int /\ align_up(0 + LowMem) >= LowMem
  <2> DEFINE x == LowMem + FrameSize - 1
  <2>1. x \in Nat /\ x % FrameSize \in 0..(FrameSize - 1)
    BY <1>1
  <2>2. align_up(0 + LowMem) = x - (x % FrameSize)
    BY <1>1 DEF align_up, align_down
  <2> HIDE DEF x
  <2>3. x = LowMem + FrameSize - 1
    BY DEF x
  <2>. QED
    BY <1>1, <2>1, <2>2, <2>3
<1>4. /\ s = m.base /\ e \in Int /\ e <= m.limit
      /\ e = align_up(0 + LowMem) \/ e = m.limit
  BY <1>1, <1>2, <1>3, MaxOfTwo, MinOfTwo, SMTT(20)
<1>5. k \notin (IF e <= s THEN {} ELSE addr_to_index(m, s)..addr_to_index(m, e - 1))
  BY DEF InitReserved, reserve_range
<1> HIDE DEF e, s
<1>6. /\ k \in Nat /\ m.base + k * FrameSize < m.limit
      /\ k * FrameSize \in Nat
  <2>1. k \in Bits(m) /\ NFrames(m) \in Nat
    BY BitsOfMap
  <2>. QED
    BY <1>1, <2>1, MemMapAssumption DEF Bits
<1>7. CASE e <= s
  BY <1>1, <1>3, <1>4, <1>6, <1>7, SMTT(20)
<1>8. CASE e > s
  <2>1. s - m.base = 0 /\ e - 1 - m.base \in Nat
    BY <1>1, <1>4, <1>8
  <2> DEFINE q == addr_to_index(m, e - 1)
  <2>2. q \in Nat /\ e - 1 - m.base < q * FrameSize + FrameSize
    BY <2>1, Quotient DEF addr_to_index
  <2>3. addr_to_index(m, s) = 0
    <3>1. 0 \div FrameSize = 0
      BY MemMapAssumption
    <3>. QED
      BY <2>1, <3>1 DEF addr_to_index
  <2>4. ~(e <= s) /\ k \notin 0..q
    BY <1>1, <1>4, <1>5, <1>8, <2>3, SMTT(20)
  <2> HIDE DEF q
  <2>5. q < k
    BY <1>6, <2>2, <2>4
  <2>6. FrameSize * q + FrameSize <= FrameSize * k
        /\ q * FrameSize = FrameSize * q /\ k * FrameSize = FrameSize * k
        /\ FrameSize * q \in Int
    BY <2>2, <2>5, <1>6, FrameProduct, SMTT(20)
  <2>7. k * FrameSize >= e - m.base
    BY <1>1, <1>4, <1>6, <2>1, <2>2, <2>6, SMTT(20)
  <2>. QED
    BY <1>1, <1>3, <1>4, <1>6, <2>7, SMTT(20)
<1>9. e <= s \/ e > s
  BY <1>1, <1>4
<1>. QED
  BY <1>7, <1>8, <1>9, Zenon

(* Free frames fit in the byte count: the test on g_free is no stricter    *)
(* than the bitmap.                                                        *)
LEMMA FitIsCounted ==
  ASSUME IInv, NEW n \in Nat \ {0}, NEW l0 \in 0..NFrames(map),
         Fits(used, l0, n) # {},
         Slack(map) >= 0 \/ NFrames(map) \notin used
  PROVE  g_free >= n * FrameSize
<1> DEFINE R == Run(FirstFit(used, l0, n), n)
           free == Bits(map) \ used
           c == Cardinality(free)
<1>1. /\ map \in BootMaps /\ used \in SUBSET Bits(map) /\ NFrames(map) \in Nat
      /\ IsFiniteSet(Bits(map)) /\ 0..(NFrames(map) - 1) \subseteq Bits(map)
  BY BitsOfMap DEF IInv, TypeOK
<1>2. /\ R \cap used = {} /\ R \subseteq 0..(NFrames(map) - 1)
      /\ IsFiniteSet(R) /\ Cardinality(R) = n
  BY <1>1, FirstFitRun
<1>3. IsFiniteSet(free) /\ R \subseteq free
  BY <1>1, <1>2, FS_Subset
<1> HIDE DEF R, free
<1>4. c \in Nat /\ n <= c
  BY <1>2, <1>3, FS_Subset, FS_CardinalityType, Zenon
<1>5. Slack(map) < 0 => n + 1 <= c
  <2> SUFFICES ASSUME Slack(map) < 0 PROVE n + 1 <= c
    OBVIOUS
  <2>1. NFrames(map) \in Bits(map) /\ NFrames(map) \notin used /\ Slack(map) \in Int
    <3>1. Slack(map) \in Int
      BY <1>1, FreeBytesFacts, Zenon
    <3>. QED
      BY <1>1, <3>1, PMMAssumption
  <2>2. NFrames(map) \notin R /\ R \cup {NFrames(map)} \subseteq free
    <3>1. NFrames(map) \notin 0..(NFrames(map) - 1)
      BY <1>1
    <3>2. NFrames(map) \in free
      BY <2>1 DEF free
    <3>. QED
      BY <3>1, <3>2, <1>2, <1>3, Zenon
  <2>3. IsFiniteSet(R \cup {NFrames(map)})
        /\ Cardinality(R \cup {NFrames(map)}) = n + 1
    BY <1>2, <2>2, FS_AddElement
  <2>. QED
    BY <1>3, <2>2, <2>3, FS_Subset, SMTT(20)
<1>6. /\ Slack(map) \in Int /\ Slack(map) > -FrameSize /\ FrameSize \in Nat
      /\ g_free = Unsigned(FrameSize * c + Slack(map))
  BY <1>1, FreeBytesFacts, PMMAssumption, MemMapAssumption, Zenon
     DEF IInv, Accounting, FreeBytes, free
<1> HIDE DEF c
<1>7. /\ FrameSize * n <= FrameSize * c /\ FrameSize * n \in Int /\ FrameSize * c \in Int
      /\ n * FrameSize = FrameSize * n
      /\ n < c => FrameSize * n + FrameSize <= FrameSize * c
  <2>1. n \in Int /\ c \in Int /\ n <= c
    BY <1>4
  <2>. QED
    BY <2>1, FrameProduct, Zenon
<1>8. FrameSize * n >= 0
  BY <1>7, MemMapAssumption
<1>9. FrameSize * c + Slack(map) >= FrameSize * n
  BY <1>4, <1>5, <1>6, <1>7
<1>. QED
  BY <1>6, <1>7, <1>8, <1>9 DEF Unsigned

\* align_up never returns less than its argument.
LEMMA AlignUpBound ==
  ASSUME NEW x \in Nat
  PROVE  align_up(x) \in Int /\ align_up(x) >= x
<1> DEFINE y == x + FrameSize - 1
<1>1. y \in Nat /\ y % FrameSize \in 0..(FrameSize - 1) /\ FrameSize \in Nat
  BY MemMapAssumption
<1>2. align_up(x) = y - (y % FrameSize)
  BY DEF align_up, align_down
<1> HIDE DEF y
<1>3. y = x + FrameSize - 1
  BY DEF y
<1>. QED
  BY <1>1, <1>2, <1>3

(* The first frame of the bitmap is never handed out, so that address 0    *)
(* can mean failure.                                                       *)
LEMMA FirstFrameReserved ==
  ASSUME NEW m \in BootMaps, 0 \in 0..(NFrames(m) - 1)
  PROVE  0 \in reserve_range(m, m.base, FrameSize)
<1> DEFINE s == Max({align_down(m.base), m.base})
           e == Min({align_up(m.base + FrameSize), m.limit})
<1>1. /\ m.base \in Nat /\ m.limit \in Nat /\ FrameSize \in Nat /\ FrameSize > 0
      /\ NFrames(m) \in Nat
  BY PMMAssumption, MemMapAssumption, BitsOfMap
<1>2. m.base < m.limit
  <2>1. 0 \in Bits(m)
    BY BitsOfMap
  <2>. QED
    BY <1>1, <2>1, MemMapAssumption DEF Bits
<1>3. align_down(m.base) \in Int /\ align_down(m.base) <= m.base
  <2>1. m.base % FrameSize \in Nat
    BY <1>1
  <2>. QED
    BY <1>1, <2>1 DEF align_down
<1>4. align_up(m.base + FrameSize) \in Int /\ align_up(m.base + FrameSize) >= m.base + FrameSize
  BY <1>1, AlignUpBound
<1>5. s = m.base /\ e \in Int /\ e > s
  BY <1>1, <1>2, <1>3, <1>4, MaxOfTwo, MinOfTwo, SMTT(20)
<1>6. reserve_range(m, m.base, FrameSize) =
        IF e <= s THEN {} ELSE addr_to_index(m, s)..addr_to_index(m, e - 1)
  BY DEF reserve_range
<1> HIDE DEF s, e
<1>7. addr_to_index(m, s) = 0
  <2>1. s - m.base = 0 /\ 0 \div FrameSize = 0
    BY <1>1, <1>5, MemMapAssumption
  <2>. QED
    BY <2>1 DEF addr_to_index
<1>8. addr_to_index(m, e - 1) \in Nat
  <2>1. e - 1 - m.base \in Nat
    BY <1>1, <1>5
  <2>. QED
    BY <2>1, Quotient DEF addr_to_index
<1>. QED
  BY <1>1, <1>5, <1>6, <1>7, <1>8, SMTT(20)

\* What an allocation answers: zero only when no run fits, else a run below the limit.
LEMMA AllocAnswer ==
  ASSUME IInv, AnswerInv,
         NEW n0 \in Nat, NEW m0 \in Nat,
         alloc(n0, limit_idx(m0), m0)
  PROVE  AnswerInv'
<1> DEFINE l0 == limit_idx(m0)
<1>0. map \in BootMaps /\ l0 \in 0..NFrames(map) /\ map.base \in Nat /\ LowMem \in Nat
      /\ NFrames(map) \in Nat /\ FrameSize \in Nat
  BY LimitIdx, BitsOfMap, PMMAssumption, MemMapAssumption, SMTT(20) DEF IInv, TypeOK
<1>1. CASE ~Granted(n0, l0)
  <2>1. /\ UNCHANGED <<map, used, g_free, reserved, live>> /\ phase' = "run"
        /\ ret' = [count |-> n0, max |-> m0, addr |-> NoFrames]
    BY <1>1, AllocRefused
  <2>2. NoSpuriousFailure'
    <3>1. SUFFICES ASSUME n0 # 0, Slack(map) >= 0 \/ NFrames(map) \notin used,
                          Fits(used, l0, n0) # {}
                   PROVE  FALSE
      BY <2>1, ZenonT(30) DEF NoSpuriousFailure, limit_idx
    <3>2. g_free >= n0 * FrameSize
      BY <1>0, <3>1, FitIsCounted
    <3>. QED
      BY <1>1, <3>1, <3>2 DEF Granted
  <2>3. Placement'
    BY <2>1 DEF Placement
  <2>. QED
    BY <2>1, <2>2, <2>3 DEF AnswerInv, InitReserved
<1>2. CASE Granted(n0, l0)
  <2>1. PICK s \in 0..(l0 - n0) :
           /\ n0 # 0
           /\ Run(s, n0) \cap used = {}
           /\ Run(s, n0) \subseteq 0..(NFrames(map) - 1)
           /\ ret' = [count |-> n0, max |-> m0, addr |-> map.base + s * FrameSize]
           /\ phase' = "run" /\ UNCHANGED <<map, reserved>>
    BY <1>0, <1>2, AllocGranted
  <2> HIDE DEF l0
  <2>2. s \in Nat /\ s + n0 <= l0 /\ s \in 0..(NFrames(map) - 1) /\ s \notin used /\ l0 > 0
    BY <1>0, <2>1 DEF Run
  <2>3. s \notin InitReserved(map)
    BY <2>2 DEF AnswerInv, IInv, Ownership
  <2>4. map.base + s * FrameSize >= LowMem
    BY <1>0, <2>2, <2>3, AboveLowMem
  <2>5. map.base + l0 * FrameSize <= m0
    BY <1>0, <2>2, LimitIdx DEF l0
  <2>6. /\ s * FrameSize \in Nat /\ n0 * FrameSize \in Nat /\ l0 * FrameSize \in Nat
        /\ s * FrameSize + n0 * FrameSize <= l0 * FrameSize
        /\ n0 * FrameSize > 0
    <3>1. s * FrameSize + n0 * FrameSize = (s + n0) * FrameSize
      BY <1>0, <2>2
    <3>2. (s + n0) * FrameSize <= l0 * FrameSize
      BY <1>0, <2>2, MemMapAssumption, SMTT(20)
    <3>. QED
      BY <1>0, <2>1, <2>2, <3>1, <3>2, MemMapAssumption, SMTT(20)
  <2>7. Placement'
    BY <1>0, <2>1, <2>4, <2>5, <2>6, SMTT(20) DEF Placement
  <2>8. NoSpuriousFailure'
    <3>1. ret'.addr # NoFrames
      <4>1. s # 0
        <5>1. SUFFICES ASSUME s = 0 PROVE FALSE
          OBVIOUS
        <5>2. 0 \in reserve_range(map, map.base, FrameSize)
          BY <1>0, <2>2, FirstFrameReserved, SMTT(20)
        <5>. QED
          BY <2>3, <5>1, <5>2 DEF InitReserved
      <4>2. s * FrameSize > 0
        BY <1>0, <2>2, <4>1, MemMapAssumption, SMTT(20)
      <4>3. ret'.addr = map.base + s * FrameSize
        BY <2>1, Zenon
      <4>4. s * FrameSize \in Nat /\ map.base \in Nat
        BY <1>0, <2>6
      <4>5. ASSUME NEW a, a = s * FrameSize, a \in Nat, a > 0 PROVE map.base + a # 0
        BY <4>4, <4>5
      <4>. QED
        BY <4>2, <4>3, <4>4, <4>5, Zenon DEF NoFrames
    <3>. QED
      BY <3>1 DEF NoSpuriousFailure
  <2>. QED
    BY <2>1, <2>7, <2>8 DEF AnswerInv, InitReserved
<1>. QED
  BY <1>1, <1>2

(* pmm_alloc_frames is pmm_alloc_frames_below with the limit of the bitmap. *)
LEMMA WholeBitmap ==
  ASSUME map \in BootMaps
  PROVE  limit_idx(map.limit) = NFrames(map)
<1>1. map.base \in Nat /\ map.limit \in Nat /\ map.base <= map.limit /\ NFrames(map) \in Nat
  BY PMMAssumption, BitsOfMap
<1>2. CASE map.limit > map.base
  BY <1>1, <1>2, MinOfTwo DEF limit_idx, NFrames
<1>3. CASE map.limit = map.base
  <2>1. map.limit - map.base = 0 /\ 0 \div FrameSize = 0 /\ ~(map.limit > map.base)
    BY <1>1, <1>3, MemMapAssumption, SMTT(20)
  <2>. QED
    BY <2>1 DEF limit_idx, NFrames
<1>. QED
  BY <1>1, <1>2, <1>3

\* The claim about the last answer holds before any allocation.
LEMMA AnswerInit == Init => AnswerInv
<1> SUFFICES ASSUME Init PROVE AnswerInv
  OBVIOUS
<1>. QED
  BY DEF Init, AnswerInv, NoSpuriousFailure, Placement, Idle

\* Every step keeps the claim about the last answer.
LEMMA AnswerStep == IInv /\ AnswerInv /\ [Next]_vars => AnswerInv'
<1> SUFFICES ASSUME IInv, AnswerInv, [Next]_vars PROVE AnswerInv'
  OBVIOUS
<1>0. map \in BootMaps /\ map.limit \in Nat /\ Counts \subseteq Nat /\ MaxPhys \subseteq Nat
  BY PMMAssumption DEF IInv, TypeOK
<1>1. ASSUME NEW r \in ReserveRanges, pmm_reserve(r[1], r[2]) PROVE AnswerInv'
  <2>1. phase = "reserve" /\ map' = map /\ ret' = ret /\ reserved \subseteq reserved'
    BY <1>1 DEF pmm_reserve
  <2>2. ret = Idle /\ InitReserved(map) \subseteq reserved
    BY <2>1, Zenon DEF AnswerInv
  <2>3. ret'.count = 0 /\ ret'.addr = NoFrames
    BY <2>1, <2>2 DEF Idle
  <2>4. NoSpuriousFailure' /\ Placement'
    BY <2>3, Zenon DEF NoSpuriousFailure, Placement
  <2>5. InitReserved(map)' \subseteq reserved'
    BY <2>1, <2>2, Zenon DEF InitReserved
  <2>. QED
    BY <2>1, <2>2, <2>4, <2>5, Zenon DEF AnswerInv
<1>2. ASSUME NEW c \in Counts, pmm_alloc_frames(c) PROVE AnswerInv'
  <2>1. alloc(c, limit_idx(map.limit), map.limit)
    BY <1>0, <1>2, WholeBitmap DEF pmm_alloc_frames
  <2>. QED
    BY <1>0, <2>1, AllocAnswer
<1>3. ASSUME NEW c \in Counts, NEW m \in MaxPhys, pmm_alloc_frames_below(c, m) PROVE AnswerInv'
  BY <1>0, <1>3, AllocAnswer, SMTT(20) DEF pmm_alloc_frames_below
<1>4. ASSUME NEW a \in live, pmm_free_frames(a) PROVE AnswerInv'
  BY <1>4 DEF pmm_free_frames, AnswerInv, NoSpuriousFailure, Placement, Idle, InitReserved
<1>5. CASE UNCHANGED vars
  BY <1>5, Zenon DEF vars, AnswerInv, NoSpuriousFailure, Placement, InitReserved, limit_idx
<1>. QED
  BY <1>1, <1>2, <1>3, <1>4, <1>5 DEF Next

(* The early test on g_free never refuses a request the bitmap could meet. *)
THEOREM PMMNoSpuriousFailure == Spec => []NoSpuriousFailure
<1>1. AnswerInv => NoSpuriousFailure
  BY DEF AnswerInv
<1>. QED
  BY <1>1, AnswerInit, AnswerStep, PMMInvariant, PTL DEF Spec

(* What is returned lies between low memory and the caller's limit. *)
THEOREM PMMPlacement == Spec => []Placement
<1>1. AnswerInv => Placement
  BY DEF AnswerInv
<1>. QED
  BY <1>1, AnswerInit, AnswerStep, PMMInvariant, PTL DEF Spec

-----------------------------------------------------------------------------
(***************************************************************************)
(* The allocation calls with their loop implement the one-step calls of    *)
(* PMM, for bitmaps and requests of every size, and so meet everything     *)
(* that is proved of PMM.                                                  *)
(***************************************************************************)
ScanIInv == IInv /\ CallInv /\ LoopInv

\* What PMM's invariant says of the bitmap and the byte counter.
LEMMA MapTypes ==
  ASSUME ScanIInv
  PROVE  /\ map \in BootMaps /\ NFrames(map) \in Nat /\ g_free \in Nat
         /\ FrameSize \in Nat /\ Counts \subseteq Nat /\ MaxPhys \subseteq Nat
BY PMMAssumption, MemMapAssumption, BitsOfMap DEF ScanIInv, IInv, TypeOK

(* A lowest element of Fits is what FirstFit chooses. *)
LEMMA FirstFitIsLowest ==
  ASSUME NEW U, NEW l \in Nat, NEW n \in Nat, NEW s \in Fits(U, l, n),
         \A t \in Fits(U, l, n) : s <= t
  PROVE  FirstFit(U, l, n) = s
<1>1. \A x, y \in Fits(U, l, n) : x \in Int /\ y \in Int
  BY DEF Fits
<1>2. FirstFit(U, l, n) \in Fits(U, l, n)
      /\ \A t \in Fits(U, l, n) : FirstFit(U, l, n) <= t
  BY DEF FirstFit
<1>. QED
  BY <1>1, <1>2

\* The arguments of a call in its loop are numbers, and its limit is within the bitmap.
LEMMA CallTypes ==
  ASSUME ScanIInv, pc = "scan"
  PROVE  /\ count \in Nat \ {0} /\ lim \in 0..NFrames(map) /\ lim \in Nat
         /\ i \in Nat /\ run \in Nat /\ i <= lim /\ run <= i /\ run < count
<1>1. map \in BootMaps /\ NFrames(map) \in Nat /\ Counts \subseteq Nat /\ MaxPhys \subseteq Nat
  BY MapTypes
<1>2. count \in Nat \ {0}
  BY <1>1, Zenon DEF ScanIInv, CallInv
<1>3. lim \in 0..NFrames(map)
  <2>1. CASE lim = NFrames(map)
    BY <2>1, <1>1
  <2>2. CASE max \in MaxPhys /\ lim = limit_idx(max)
    BY <2>2, <1>1, LimitIdx
  <2>. QED
    BY <2>1, <2>2 DEF ScanIInv, CallInv
<1>. QED
  BY <1>1, <1>2, <1>3 DEF ScanIInv, LoopInv

\* With a call in its loop, its outcome is the outcome of the one-step call.
LEMMA AllocIsNext ==
  ASSUME ScanIInv, pc = "scan", alloc(count, lim, max)
  PROVE  Next
BY DEF ScanIInv, CallInv, Next, pmm_alloc_frames, pmm_alloc_frames_below

\* Entering a call: an early return is a refused one-step call, and the loop starts with its invariant.
LEMMA EnterStep ==
  ASSUME ScanIInv, NEW c \in Counts, NEW l, NEW m, Enter(c, l, m),
         \/ l = NFrames(map) /\ m = map.limit
         \/ m \in MaxPhys /\ l = limit_idx(m)
  PROVE  CallInv' /\ LoopInv' /\ [Next]_vars
<1>0. /\ NFrames(map) \in Nat /\ c \in Nat /\ l \in Nat
      /\ MaxPhys \subseteq Nat
  <2>1. map \in BootMaps /\ NFrames(map) \in Nat /\ Counts \subseteq Nat /\ MaxPhys \subseteq Nat
    BY MapTypes
  <2>2. CASE l = NFrames(map)
    BY <2>1, <2>2
  <2>3. CASE m \in MaxPhys /\ l = limit_idx(m)
    BY <2>1, <2>3, LimitIdx
  <2>. QED
    BY <2>1, <2>2, <2>3
<1>1. CASE (c = 0 \/ g_free < c * FrameSize) /\ Refused(c, m) /\ UNCHANGED scan
  <2>1. pc' = "idle" /\ map' = map
    BY <1>1 DEF Enter, Refused, Answer, scan
  <2>2. ~(c # 0 /\ g_free >= c * FrameSize /\ Fits(used, l, c) # {})
    <3>1. c * FrameSize \in Nat /\ g_free \in Nat
      BY <1>0, MapTypes
    <3>. QED
      BY <3>1, <1>1
  <2>3. alloc(c, l, m)
    BY <1>1, <2>2 DEF alloc, Refused, Answer
  <2>4. Next
    BY <2>3 DEF Next, pmm_alloc_frames, pmm_alloc_frames_below
  <2>. QED
    BY <2>1, <2>4 DEF CallInv, LoopInv
<1>2. CASE /\ c # 0 /\ g_free >= c * FrameSize
           /\ pc' = "scan" /\ count' = c /\ lim' = l /\ max' = m
           /\ i' = 0 /\ run' = 0 /\ run_start' = 0
           /\ UNCHANGED vars
  <2>1. map' = map /\ used' = used /\ g_free' = g_free
    BY <1>2 DEF vars
  <2>2. NFrames(map)' = NFrames(map) /\ \A x : limit_idx(x)' = limit_idx(x)
    BY <2>1 DEF NFrames, limit_idx
  <2>3. CallInv'
    BY <1>2, <2>1, <2>2 DEF CallInv, NFrames, limit_idx
  <2>4. LoopInv'
    BY <1>0, <1>2, <2>1 DEF LoopInv, Run
  <2>. QED
    BY <1>2, <2>3, <2>4
<1>. QED
  BY <1>1, <1>2 DEF Enter

(* A free frame: the frame before a run of free frames keeps every longer  *)
(* run that ends at i+1 from being free, and a run that is long enough is  *)
(* the first fit.                                                          *)
LEMMA FreeFrameStep ==
  ASSUME ScanIInv, FreeFrame
  PROVE  CallInv' /\ LoopInv' /\ [Next]_vars
<1> DEFINE s == IF run = 0 THEN i ELSE run_start
<1>0. pc = "scan" /\ i < lim /\ i \notin used
  BY DEF FreeFrame
<1>1. /\ count \in Nat \ {0} /\ lim \in 0..NFrames(map) /\ lim \in Nat
      /\ i \in Nat /\ run \in Nat /\ i <= lim /\ run <= i /\ run < count
  BY <1>0, CallTypes
<1>2. s = i - run /\ s \in Nat
  <2>1. run > 0 => run_start = i - run
    BY <1>0 DEF ScanIInv, LoopInv
  <2>2. CASE run = 0
    BY <1>1, <2>2
  <2>3. CASE run # 0
    BY <1>1, <2>1, <2>3
  <2>. QED
    BY <2>2, <2>3
<1>3. \A k \in (i - run)..i : k \notin used
  BY <1>0, <1>1 DEF ScanIInv, LoopInv
<1>a. \/ run + 1 >= count /\ Take(s) /\ Leave
      \/ /\ run + 1 < count
         /\ run_start' = s /\ run' = run + 1 /\ i' = i + 1
         /\ UNCHANGED <<vars, pc, count, lim, max>>
  BY DEF FreeFrame
<1> HIDE DEF s
<1>4. CASE run + 1 >= count /\ Take(s) /\ Leave
  <2>1. count = run + 1 /\ s + count = i + 1
    BY <1>1, <1>2, <1>4
  <2>2. s \in Fits(used, lim, count)
    <3>1. Run(s, count) \cap used = {}
      BY <1>1, <1>2, <1>3, <2>1 DEF Run
    <3>. QED
      BY <1>0, <1>1, <1>2, <2>1, <3>1, SMTT(20) DEF Fits
  <2>3. \A t \in Fits(used, lim, count) : s <= t
    <3> SUFFICES ASSUME NEW t \in Fits(used, lim, count), t < s PROVE FALSE
      BY <1>2 DEF Fits
    <3>1. t \in 0..(i - count) /\ Run(t, count) \cap used = {}
      BY <1>0, <1>1, <1>2, <2>1, SMTT(20) DEF Fits
    <3>. QED
      BY <3>1, <1>0 DEF ScanIInv, LoopInv
  <2>4. FirstFit(used, lim, count) = s
    BY <1>1, <2>2, <2>3, FirstFitIsLowest
  <2>5. g_free >= count * FrameSize
    BY <1>0 DEF ScanIInv, CallInv
  <2>6. alloc(count, lim, max)
    <3> DEFINE t == FirstFit(used, lim, count)
    <3>1. count # 0 /\ Fits(used, lim, count) # {}
      BY <1>1, <2>1, <2>2
    <3>2. Take(t)
      BY <1>4, <2>4, Zenon
    <3>3. /\ used' = used \cup Run(t, count) /\ g_free' = g_free - count * FrameSize
          /\ live' = live \cup {[start |-> t, count |-> count]}
          /\ ret' = [count |-> count, max |-> max, addr |-> map.base + t * FrameSize]
          /\ phase' = "run" /\ UNCHANGED <<map, reserved>>
      BY <3>2, Zenon DEF Take, Answer
    <3>. QED
      BY <2>5, <3>1, <3>3, Zenon DEF alloc
  <2>7. pc' = "idle" /\ map' = map
    BY <1>4 DEF Take, Answer, Leave
  <2>. QED
    BY <1>0, <2>6, <2>7, AllocIsNext DEF CallInv, LoopInv
<1>5. CASE /\ run + 1 < count
           /\ run_start' = s /\ run' = run + 1 /\ i' = i + 1
           /\ UNCHANGED <<vars, pc, count, lim, max>>
  <2>1. /\ map' = map /\ used' = used /\ g_free' = g_free /\ UNCHANGED vars
        /\ pc' = pc /\ count' = count /\ lim' = lim /\ max' = max
    BY <1>5 DEF vars
  <2>2. CallInv'
    BY <2>1 DEF ScanIInv, CallInv, NFrames, limit_idx
  <2>3. \A t \in 0..(i + 1 - count) : Run(t, count) \cap used # {}
    <3> SUFFICES ASSUME NEW t \in 0..(i + 1 - count)
                 PROVE  Run(t, count) \cap used # {}
      OBVIOUS
    <3>1. CASE t <= i - count
      BY <3>1, <1>0, <1>1 DEF ScanIInv, LoopInv
    <3>2. CASE t = i + 1 - count
      <4>1. i - run - 1 \in Run(t, count) /\ i > run
        BY <3>2, <1>1, <1>5 DEF Run
      <4>. QED
        BY <4>1, <1>0 DEF ScanIInv, LoopInv
    <3>. QED
      BY <3>1, <3>2, <1>1
  <2>4. LoopInv'
    <3>1. i' \in 0..lim' /\ run' \in 0..i' /\ run' < count' /\ run_start' = i' - run'
      BY <1>0, <1>1, <1>2, <1>5, <2>1, SMTT(20)
    <3>2. \A k \in (i' - run')..(i' - 1) : k \notin used'
      BY <1>1, <1>3, <1>5, <2>1, SMTT(20)
    <3>3. i' > run' => (i' - run' - 1) \in used'
      <4>1. i > run => (i - run - 1) \in used
        BY <1>0 DEF ScanIInv, LoopInv
      <4>. QED
        BY <1>1, <1>5, <2>1, <4>1, SMTT(20)
    <3>4. \A t \in 0..(i' - count') : Run(t, count') \cap used' # {}
      <4>1. i' = i + 1 /\ count' = count /\ used' = used
        BY <1>1, <1>5, <2>1
      <4>2. ASSUME NEW t \in 0..(i' - count') PROVE Run(t, count') \cap used' # {}
        <5>1. t \in 0..(i + 1 - count)
          BY <4>1, <4>2, <1>1
        <5>2. Run(t, count) \cap used # {}
          BY <5>1, <2>3, Zenon
        <5>. QED
          BY <5>2, <4>1, Zenon
      <4>. QED
        BY <4>2, Zenon
    <3>. QED
      BY <3>1, <3>2, <3>3, <3>4, Zenon DEF LoopInv, Run
  <2>. QED
    BY <2>1, <2>2, <2>4
<1>. QED
  BY <1>a, <1>4, <1>5

\* A used frame resets the run counter and keeps the loop invariant.
LEMMA UsedFrameStep ==
  ASSUME ScanIInv, UsedFrame
  PROVE  CallInv' /\ LoopInv' /\ [Next]_vars
<1>1. /\ pc = "scan" /\ i < lim /\ i \in used /\ run' = 0 /\ i' = i + 1
      /\ map' = map /\ used' = used /\ g_free' = g_free /\ UNCHANGED vars
      /\ pc' = pc /\ count' = count /\ lim' = lim /\ max' = max /\ run_start' = run_start
  BY DEF UsedFrame, vars
<1>2. /\ count \in Nat \ {0} /\ lim \in 0..NFrames(map) /\ lim \in Nat
      /\ i \in Nat /\ run \in Nat /\ i <= lim /\ run <= i /\ run < count
  BY <1>1, CallTypes
<1>3. CallInv'
  BY <1>1 DEF ScanIInv, CallInv, NFrames, limit_idx
<1>4. \A t \in 0..(i + 1 - count) : Run(t, count) \cap used # {}
  <2> SUFFICES ASSUME NEW t \in 0..(i + 1 - count)
               PROVE  Run(t, count) \cap used # {}
    OBVIOUS
  <2>1. CASE t <= i - count
    BY <1>1, <1>2, <2>1, SMTT(20) DEF ScanIInv, LoopInv
  <2>2. CASE t = i + 1 - count
    <3>1. i \in Run(t, count)
      BY <1>2, <2>2 DEF Run
    <3>. QED
      BY <3>1, <1>1
  <2>. QED
    BY <1>2, <2>1, <2>2, SMTT(20)
<1>5. LoopInv'
  <2>1. \A t \in 0..(i' - count') : Run(t, count') \cap used' # {}
    BY <1>1, <1>2, <1>4, SMTT(20)
  <2>2. i' \in 0..lim' /\ run' \in 0..i' /\ run' < count' /\ i' - run' - 1 = i
        /\ ~(run' > 0) /\ (i' - run')..(i' - 1) = {}
    BY <1>1, <1>2
  <2>. QED
    BY <1>1, <2>1, <2>2, SMTT(20) DEF LoopInv, Run
<1>. QED
  BY <1>1, <1>3, <1>5

\* Leaving the loop without a run is a refused one-step call: no fitting run was passed over.
LEMMA ExhaustedStep ==
  ASSUME ScanIInv, Exhausted
  PROVE  CallInv' /\ LoopInv' /\ [Next]_vars
<1>1. pc = "scan" /\ i >= lim /\ Refused(count, max) /\ pc' = "idle" /\ map' = map
  BY DEF Exhausted, Leave, Refused, Answer
<1>2. /\ count \in Nat \ {0} /\ lim \in Nat /\ i = lim
  BY <1>1, CallTypes
<1>3. Fits(used, lim, count) = {}
  BY <1>1, <1>2 DEF Fits, ScanIInv, LoopInv
<1>4. alloc(count, lim, max)
  BY <1>1, <1>3, Zenon DEF alloc, Refused, Answer
<1>. QED
  BY <1>1, <1>4, AllocIsNext, SMTT(20) DEF CallInv, LoopInv

\* Every step of the calls with their loop is a step or a stutter of PMM.
LEMMA ScanStep == ScanIInv /\ [ScanNext]_allvars => ScanIInv' /\ [Next]_vars
<1> SUFFICES ASSUME ScanIInv, [ScanNext]_allvars
             PROVE  CallInv' /\ LoopInv' /\ [Next]_vars
  BY PMMStep DEF ScanIInv
<1>1. CASE UNCHANGED allvars
  BY <1>1 DEF allvars, vars, scan, ScanIInv, CallInv, LoopInv, NFrames, limit_idx
<1>2. ASSUME NEW r \in ReserveRanges, Idly(pmm_reserve(r[1], r[2]))
      PROVE  CallInv' /\ LoopInv' /\ [Next]_vars
  BY <1>2, Zenon DEF Idly, pmm_reserve, scan, Next, ScanIInv, CallInv, LoopInv
<1>3. ASSUME NEW a \in live, Idly(pmm_free_frames(a))
      PROVE  CallInv' /\ LoopInv' /\ [Next]_vars
  BY <1>3, Zenon DEF Idly, pmm_free_frames, scan, Next, ScanIInv, CallInv, LoopInv
<1>4. ASSUME NEW c \in Counts, Enter(c, NFrames(map), map.limit)
      PROVE  CallInv' /\ LoopInv' /\ [Next]_vars
  BY <1>4, EnterStep
<1>5. ASSUME NEW c \in Counts, NEW m \in MaxPhys, Enter(c, limit_idx(m), m)
      PROVE  CallInv' /\ LoopInv' /\ [Next]_vars
  BY <1>5, EnterStep
<1>. QED
  BY <1>1, <1>2, <1>3, <1>4, <1>5, FreeFrameStep, UsedFrameStep, ExhaustedStep, SMTT(20) DEF ScanNext

(* The search loop of pmm_alloc_frames and pmm_alloc_frames_below          *)
(* implements the first-fit allocation of PMM, for every bitmap, request   *)
(* and limit.                                                              *)
THEOREM ScanImplementsPMM == ScanSpec => ImplementsPMM
<1>1. ScanInit => Init /\ ScanIInv
  BY PMMInit DEF ScanInit, ScanIInv, CallInv, LoopInv
<1>. QED
  BY <1>1, ScanStep, PTL DEF ScanSpec, Spec, ImplementsPMM

(* What is proved of the one-step calls holds of the calls with their      *)
(* loop: byte counter and bitmap agree, and no frame has two owners.       *)
THEOREM ScanKeepsAccounts == ScanSpec => [](Accounting /\ Ownership)
BY ScanImplementsPMM, PMMAccounting, PMMOwnership, PTL DEF ImplementsPMM

(* ... and so is the way from the loop to the abstract allocator.          *)
THEOREM ScanImplementsAllocator == ScanSpec => ImplementsAllocator
BY ScanImplementsPMM, PMMImplementsAllocator, PTL DEF ImplementsPMM
=============================================================================
