------------------------------ MODULE VMMProofs -----------------------------
(***************************************************************************)
(* Proofs about the virtual memory manager, for every fan-out of the       *)
(* tables, length of the identity map, set of free frames and sequence of  *)
(* calls.                                                                  *)
(*                                                                         *)
(* First, what the four-level tables are, as facts about their contents:   *)
(* every frame that was taken has a level, an entry leads one level down   *)
(* and no two entries lead to the same table.  get_pte and the write of an *)
(* entry keep this, and change where pages lead as they should.  Then the  *)
(* steps of the component, and the theorems.                               *)
(***************************************************************************)
EXTENDS VMM, WellFoundedInduction, TLAPS

Slots == 0..(Fan - 1)
Contents == [Frames -> [Slots -> Entry]]

-----------------------------------------------------------------------------
(* Numbers: the frame an allocation gives, and the digits of a page. *)

\* A non-empty set of naturals has a least member.
LEMMA LeastNatural ==
  ASSUME NEW T \in SUBSET Nat, T # {}
  PROVE  \E x \in T : \A y \in T : x <= y
<1> DEFINE R == {ss \in Nat \X Nat : ss[1] < ss[2]}
<1>1. IsWellFoundedOn(R, Nat)
  BY NatLessThanWellFounded DEF OpToRel
<1> HIDE DEF R
<1>2. PICK x \in T : \A y \in T : ~ (<<y, x>> \in R)
  BY <1>1, WFMin, Zenon
<1>3. ASSUME NEW y \in T, y < x PROVE FALSE
  <2>1. <<y, x>> \in R
    BY <1>3 DEF R
  <2>. QED
    BY <2>1, <1>2
<1>. QED
  BY <1>3

\* The frame an allocation gives was free.
LEMMA AllocFree ==
  ASSUME NEW F \in SUBSET Nat, F # {}
  PROVE  pmm_alloc_frames(F) \in F
BY LeastNatural, Zenon DEF pmm_alloc_frames

\* Quotient and remainder by the fan-out.
LEMMA Digit ==
  ASSUME NEW x \in Nat
  PROVE  /\ x \div Fan \in Nat /\ x % Fan \in Slots
         /\ x = (x \div Fan) * Fan + (x % Fan)
BY VMMAssumption DEF Slots

\* A quotient is below a where the number is below a * Fan.
LEMMA QuotientBelow ==
  ASSUME NEW x \in Nat, NEW b \in Nat, x < b * Fan
  PROVE  x \div Fan < b
<1> DEFINE q == x \div Fan
<1>1. q \in Nat /\ q * Fan <= x /\ Fan \in Nat
  BY VMMAssumption
<1> HIDE DEF q
<1>2. SUFFICES ASSUME q >= b PROVE FALSE
  BY <1>1 DEF q
<1>3. PICK k \in Nat : q = b + k
  <2>1. q - b \in Nat /\ q = b + (q - b)
    BY <1>1, <1>2
  <2>. QED
    BY <2>1
<1>4. q * Fan = b * Fan + k * Fan /\ k * Fan \in Nat /\ b * Fan \in Nat
  BY <1>1, <1>3
<1>. QED
  BY <1>1, <1>4

\* An index is a slot of a table.
LEMMA IndexInTable ==
  ASSUME NEW v \in Nat, NEW k \in 1..4
  PROVE  Ix(v, k) \in Slots
<1>1. v \div Fan \in Nat /\ (v \div Fan) \div Fan \in Nat /\ ((v \div Fan) \div Fan) \div Fan \in Nat
  BY Digit
<1>2. k = 1 \/ k = 2 \/ k = 3 \/ k = 4
  OBVIOUS
<1>. QED
  BY <1>1, <1>2, Digit DEF Ix

\* Two pages with the same four indices are the same page.
LEMMA IndicesName ==
  ASSUME NEW v \in Pages, NEW w \in Pages, \A k \in 1..4 : Ix(v, k) = Ix(w, k)
  PROVE  v = w
<1> DEFINE D(x) == x \div Fan
<1>1. v \in Nat /\ w \in Nat /\ Fan \in Nat /\ Fan > 0
  BY VMMAssumption DEF Pages
<1>2. /\ v < Fan * Fan * Fan * Fan /\ w < Fan * Fan * Fan * Fan
      /\ Fan * Fan * Fan \in Nat /\ Fan * Fan \in Nat
  <2>1. Fan * Fan * Fan * Fan \in Nat /\ Fan * Fan * Fan \in Nat /\ Fan * Fan \in Nat
    BY <1>1
  <2>. QED
    BY <1>1, <2>1 DEF Pages
<1>3. ASSUME NEW x \in Nat, x < Fan * Fan * Fan * Fan
      PROVE  /\ D(x) \in Nat /\ D(D(x)) \in Nat /\ D(D(D(x))) \in Nat
             /\ D(D(D(x))) < Fan
  <2>1. D(x) \in Nat /\ D(x) < Fan * Fan * Fan
    BY <1>2, <1>3, Digit, QuotientBelow
  <2> HIDE DEF D
  <2>2. D(D(x)) \in Nat /\ D(D(x)) < Fan * Fan
    BY <1>2, <2>1, Digit, QuotientBelow DEF D
  <2>3. D(D(D(x))) \in Nat /\ D(D(D(x))) < Fan
    BY <1>1, <2>2, Digit, QuotientBelow DEF D
  <2>. QED
    BY <2>1, <2>2, <2>3
<1>4. ASSUME NEW x \in Nat, x < Fan PROVE x % Fan = x
  BY <1>1, <1>4
<1>5. /\ v % Fan = w % Fan /\ D(v) % Fan = D(w) % Fan
      /\ D(D(v)) % Fan = D(D(w)) % Fan /\ D(D(D(v))) % Fan = D(D(D(w))) % Fan
  BY DEF Ix
<1>6. D(D(D(v))) = D(D(D(w)))
  BY <1>1, <1>2, <1>3, <1>4, <1>5
<1>7. ASSUME NEW x \in Nat, NEW y \in Nat, D(x) = D(y), x % Fan = y % Fan PROVE x = y
  BY <1>7, Digit
<1>8. /\ D(v) \in Nat /\ D(D(v)) \in Nat /\ D(w) \in Nat /\ D(D(w)) \in Nat
  BY <1>1, <1>2, <1>3
<1> HIDE DEF D
<1>9. D(D(v)) = D(D(w))
  BY <1>5, <1>6, <1>7, <1>8
<1>10. D(v) = D(w)
  BY <1>5, <1>7, <1>8, <1>9, SMTT(20)
<1>. QED
  BY <1>1, <1>5, <1>7, <1>10

-----------------------------------------------------------------------------
(* The walk over given contents, and what makes contents a tree. *)

Through(M, t, i) == IF t # 0 /\ Present(M[t][i]) THEN M[t][i].frame ELSE 0
Table3(M, r, v) == Through(M, r, Ix(v, 4))
Table2(M, r, v) == Through(M, Table3(M, r, v), Ix(v, 3))
Table1(M, r, v) == Through(M, Table2(M, r, v), Ix(v, 2))
Reached(M, r, v) ==
  LET t == Table1(M, r, v)
  IN  IF t # 0 /\ Present(M[t][Ix(v, 1)]) THEN M[t][Ix(v, 1)].frame ELSE None

\* The walk over mem is the code's.
LEMMA WalkOfMem ==
  ASSUME NEW v
  PROVE  /\ Lookup(v) = Table1(mem, root, v) /\ vmm_virt_to_phys(v) = Reached(mem, root, v)
         /\ vmm_virt_to_phys(v)' = Reached(mem', root', v)
BY ZenonT(30) DEF Lookup, vmm_virt_to_phys, Reached, Follow, Through, Table1, Table2, Table3

(* Every frame taken from the pool P has a level, the root alone is at 4. *)
Graded(M, F, r, P, lev) ==
  /\ M \in Contents /\ F \in SUBSET P /\ P \in SUBSET (1..(Low - 1)) /\ r \in P
  /\ P \in SUBSET Frames /\ r # 0 /\ F \in SUBSET Nat
  /\ lev \in [Frames -> 0..4]
  /\ \A f \in Frames : lev[f] # 0 <=> f \in P \ F
  /\ \A f \in Frames : lev[f] = 4 <=> f = r

(* An entry of a table above level 1 leads one level down. *)
LeadsDown(M, lev) ==
  \A t \in Frames, i \in Slots :
    lev[t] >= 2 /\ Present(M[t][i])
      => M[t][i].frame \in Frames /\ lev[M[t][i].frame] = lev[t] - 1

(* No two of them lead to the same table. *)
OneEntry(M, lev) ==
  \A t, u \in Frames, i, j \in Slots :
    lev[t] >= 2 /\ lev[u] >= 2 /\ Present(M[t][i]) /\ Present(M[u][j])
      /\ M[t][i].frame = M[u][j].frame => t = u /\ i = j

(* Every table but the root is led to. *)
LedTo(M, lev) ==
  \A f \in Frames : lev[f] \in 1..3 =>
    \E t \in Frames, i \in Slots :
      lev[t] = lev[f] + 1 /\ Present(M[t][i]) /\ M[t][i].frame = f

Levels(M, F, r, P, lev) ==
  Graded(M, F, r, P, lev) /\ LeadsDown(M, lev) /\ OneEntry(M, lev) /\ LedTo(M, lev)

\* One level of a walk leads one level down, or nowhere.
LEMMA DownOne ==
  ASSUME NEW M, NEW F, NEW r, NEW P, NEW lev, Levels(M, F, r, P, lev),
         NEW t, NEW k \in 2..4, t = 0 \/ (t \in Frames /\ lev[t] = k), NEW i \in Slots
  PROVE  LET u == Through(M, t, i) IN u = 0 \/ (u \in Frames /\ lev[u] = k - 1)
<1> DEFINE u == Through(M, t, i)
<1>1. SUFFICES ASSUME u # 0 PROVE u \in Frames /\ lev[u] = k - 1
  OBVIOUS
<1>2. t # 0 /\ Present(M[t][i]) /\ u = M[t][i].frame
  BY <1>1 DEF Through
<1>3. t \in Frames /\ lev[t] = k /\ lev[t] >= 2
  BY <1>2
<1> HIDE DEF u
<1>4. LeadsDown(M, lev)
  BY DEF Levels
<1>. QED
  BY <1>2, <1>3, <1>4, Zenon DEF LeadsDown

\* The tables a walk visits, with their levels.
LEMMA WalkLevels ==
  ASSUME NEW M, NEW F, NEW r, NEW P, NEW lev, Levels(M, F, r, P, lev), NEW v \in Nat
  PROVE  /\ r \in Frames /\ lev[r] = 4 /\ r # 0
         /\ LET t == Table3(M, r, v) IN t = 0 \/ (t \in Frames /\ lev[t] = 3)
         /\ LET t == Table2(M, r, v) IN t = 0 \/ (t \in Frames /\ lev[t] = 2)
         /\ LET t == Table1(M, r, v) IN t = 0 \/ (t \in Frames /\ lev[t] = 1)
<1>1. r \in Frames /\ lev[r] = 4 /\ r # 0
  BY VMMAssumption DEF Levels, Graded, Frames
<1>2. Ix(v, 4) \in Slots /\ Ix(v, 3) \in Slots /\ Ix(v, 2) \in Slots
  BY IndexInTable
<1> DEFINE t3 == Table3(M, r, v)
           t2 == Table2(M, r, v)
           t1 == Table1(M, r, v)
<1>3. t3 = 0 \/ (t3 \in Frames /\ lev[t3] = 4 - 1)
  BY <1>1, <1>2, DownOne DEF Table3
<1>4. t2 = Through(M, t3, Ix(v, 3)) /\ t1 = Through(M, t2, Ix(v, 2))
  BY DEF Table2, Table1
<1> HIDE DEF t3, t2, t1
<1>5. t2 = 0 \/ (t2 \in Frames /\ lev[t2] = 3 - 1)
  BY <1>2, <1>3, <1>4, DownOne
<1>6. t1 = 0 \/ (t1 \in Frames /\ lev[t1] = 2 - 1)
  BY <1>2, <1>4, <1>5, DownOne
<1>. QED
  BY <1>1, <1>3, <1>5, <1>6 DEF t3, t2, t1

(* Two pages whose walks end in the same page table share all indices but  *)
(* the last.                                                               *)
LEMMA OneWalk ==
  ASSUME NEW M, NEW F, NEW r, NEW P, NEW lev, Levels(M, F, r, P, lev),
         NEW v \in Nat, NEW w \in Nat,
         Table1(M, r, v) # 0, Table1(M, r, v) = Table1(M, r, w)
  PROVE  \A k \in 2..4 : Ix(v, k) = Ix(w, k)
<1> DEFINE t3(x) == Table3(M, r, x)
           t2(x) == Table2(M, r, x)
           t1(x) == Table1(M, r, x)
<1>1. ASSUME NEW x \in {v, w}
      PROVE  /\ x \in Nat
             /\ t2(x) \in Frames /\ lev[t2(x)] = 2 /\ t3(x) \in Frames /\ lev[t3(x)] = 3
             /\ Present(M[t2(x)][Ix(x, 2)]) /\ M[t2(x)][Ix(x, 2)].frame = t1(x)
             /\ Present(M[t3(x)][Ix(x, 3)]) /\ M[t3(x)][Ix(x, 3)].frame = t2(x)
             /\ Present(M[r][Ix(x, 4)]) /\ M[r][Ix(x, 4)].frame = t3(x)
  <2>1. t1(x) # 0 /\ t1(x) = Through(M, t2(x), Ix(x, 2))
    BY <1>1, SMTT(20) DEF Table1
  <2>2. t2(x) # 0 /\ t2(x) = Through(M, t3(x), Ix(x, 3))
    BY <2>1, ZenonT(30) DEF Through, Table2
  <2>3. t3(x) # 0 /\ t3(x) = Through(M, r, Ix(x, 4))
    BY <2>2 DEF Through, Table3
  <2>4. x \in Nat
    BY <1>1
  <2>5. t2(x) \in Frames /\ lev[t2(x)] = 2 /\ t3(x) \in Frames /\ lev[t3(x)] = 3
    BY <2>2, <2>3, <2>4, WalkLevels
  <2> HIDE DEF t1, t2, t3
  <2>. QED
    BY <2>1, <2>2, <2>3, <2>4, <2>5, Zenon DEF Through
<1>2. \A x \in {v, w}, k \in 2..4 : Ix(x, k) \in Slots
  BY <1>1, IndexInTable
<1>3. r \in Frames /\ lev[r] = 4
  BY WalkLevels
<1>4. ASSUME NEW t \in Frames, NEW u \in Frames, NEW i \in Slots, NEW j \in Slots,
             lev[t] >= 2, lev[u] >= 2, Present(M[t][i]), Present(M[u][j]),
             M[t][i].frame = M[u][j].frame
      PROVE  t = u /\ i = j
  BY <1>4 DEF Levels, OneEntry
<1>5. t1(v) = t1(w)
  OBVIOUS
<1> HIDE DEF t1, t2, t3
<1>6. t2(v) = t2(w) /\ Ix(v, 2) = Ix(w, 2)
  BY <1>1, <1>2, <1>4, <1>5
<1>7. t3(v) = t3(w) /\ Ix(v, 3) = Ix(w, 3)
  BY <1>1, <1>2, <1>4, <1>6
<1>8. Ix(v, 4) = Ix(w, 4)
  BY <1>1, <1>2, <1>3, <1>4, <1>7
<1>. QED
  BY <1>6, <1>7, <1>8, SMTT(20)

-----------------------------------------------------------------------------
(* Linking a new, empty table n into the unused entry i of table t. *)

LinkNew(M, n, t, i) ==
  [M EXCEPT ![n] = Zeroed, ![t] = [@ EXCEPT ![i] = [frame |-> n, flags |-> {"P", "RW"}]]]

\* What the contents are then: n is empty, (t, i) leads to it, the rest of
\* the tables is as it was.
LEMMA Linking ==
  ASSUME NEW M \in Contents, NEW n \in Frames, NEW t \in Frames, n # t, NEW i \in Slots
  PROVE  /\ LinkNew(M, n, t, i) \in Contents
         /\ \A j \in Slots : ~Present(LinkNew(M, n, t, i)[n][j])
         /\ Present(LinkNew(M, n, t, i)[t][i]) /\ LinkNew(M, n, t, i)[t][i].frame = n
         /\ \A u \in Frames, j \in Slots :
              u # n /\ (u # t \/ j # i) => LinkNew(M, n, t, i)[u][j] = M[u][j]
<1> DEFINE e == [frame |-> n, flags |-> {"P", "RW"}]
<1>1. e \in Entry /\ Present(e) /\ e.frame = n
  BY DEF Entry, FlagBits, Present
<1>2. Zeroed \in [Slots -> Entry] /\ \A j \in Slots : ~Present(Zeroed[j])
  <2>1. 0 \in Frames
    BY VMMAssumption DEF Frames
  <2>2. Absent \in Entry /\ ~Present(Absent)
    BY <2>1 DEF Absent, Entry, Present
  <2>. QED
    BY <2>2 DEF Zeroed, Slots
<1> HIDE DEF e
<1>3. LinkNew(M, n, t, i) = [M EXCEPT ![n] = Zeroed, ![t] = [@ EXCEPT ![i] = e]]
  BY DEF LinkNew, e
<1> DEFINE L == LinkNew(M, n, t, i)
<1>4. M[t] \in [Slots -> Entry]
  BY DEF Contents
<1>5. [M[t] EXCEPT ![i] = e] \in [Slots -> Entry]
  BY <1>1, <1>4
<1>6. /\ L \in Contents /\ L[n] = Zeroed /\ L[t] = [M[t] EXCEPT ![i] = e]
      /\ \A u \in Frames : u # n /\ u # t => L[u] = M[u]
  BY <1>2, <1>3, <1>5 DEF Contents
<1> HIDE DEF L
<1>7. L[t][i] = e /\ \A j \in Slots : j # i => L[t][j] = M[t][j]
  BY <1>4, <1>6
<1>8. /\ L \in Contents /\ (\A j \in Slots : ~Present(L[n][j]))
      /\ Present(L[t][i]) /\ L[t][i].frame = n
      /\ \A u \in Frames, j \in Slots : u # n /\ (u # t \/ j # i) => L[u][j] = M[u][j]
  BY <1>1, <1>2, <1>6, <1>7, Zenon
<1>. QED
  BY <1>8 DEF L

\* Linking a free frame below a table of level k keeps the tree.
LEMMA LinkLevels ==
  ASSUME NEW M, NEW F, NEW r, NEW P, NEW lev, Levels(M, F, r, P, lev),
         NEW k \in 2..4, NEW t \in Frames, lev[t] = k, NEW i \in Slots,
         ~Present(M[t][i]), NEW n \in F
  PROVE  Levels(LinkNew(M, n, t, i), F \ {n}, r, P, [lev EXCEPT ![n] = k - 1])
<1> DEFINE L == LinkNew(M, n, t, i)
           G == F \ {n}
           l2 == [lev EXCEPT ![n] = k - 1]
<1>1. n \in Frames /\ n # t /\ lev[n] = 0 /\ n # r /\ n \in P
  BY DEF Levels, Graded, Frames
<1>2. /\ L \in Contents /\ (\A j \in Slots : ~Present(L[n][j]))
      /\ Present(L[t][i]) /\ L[t][i].frame = n
      /\ \A u \in Frames, j \in Slots : u # n /\ (u # t \/ j # i) => L[u][j] = M[u][j]
  <2>1. M \in Contents
    BY DEF Levels, Graded
  <2>. QED
    BY <1>1, <2>1, Linking
<1>3. /\ l2 \in [Frames -> 0..4] /\ l2[n] = k - 1
      /\ \A f \in Frames : f # n => l2[f] = lev[f]
  BY <1>1 DEF Levels, Graded
<1> HIDE DEF L, l2
<1>4. G \in SUBSET P /\ P \in SUBSET (1..(Low - 1)) /\ r \in P
  BY DEF Levels, Graded
<1>5. \A f \in Frames : l2[f] # 0 <=> f \in P \ G
  BY <1>1, <1>3 DEF Levels, Graded
<1>6. \A f \in Frames : l2[f] = 4 <=> f = r
  BY <1>1, <1>3 DEF Levels, Graded
<1>7. \A u \in Frames, j \in Slots : lev[u] >= 2 /\ Present(M[u][j])
        => M[u][j].frame \in Frames /\ lev[M[u][j].frame] = lev[u] - 1 /\ M[u][j].frame # n
  <2>1. SUFFICES ASSUME NEW u \in Frames, NEW j \in Slots, lev[u] >= 2, Present(M[u][j])
        PROVE M[u][j].frame \in Frames /\ lev[M[u][j].frame] = lev[u] - 1 /\ M[u][j].frame # n
    OBVIOUS
  <2>2. M[u][j].frame \in Frames /\ lev[M[u][j].frame] = lev[u] - 1 /\ lev[u] \in 0..4
    BY <2>1 DEF Levels, Graded, LeadsDown
  <2>. QED
    BY <1>1, <2>1, <2>2
<1>8. \A u \in Frames, j \in Slots :
        l2[u] >= 2 /\ Present(L[u][j]) =>
          u # n /\ lev[u] >= 2 /\ (\/ u = t /\ j = i
                                   \/ L[u][j] = M[u][j] /\ Present(M[u][j]) /\ (u # t \/ j # i))
  BY <1>1, <1>2, <1>3
<1>9. \A u \in Frames, j \in Slots :
        l2[u] >= 2 /\ Present(L[u][j])
          => L[u][j].frame \in Frames /\ l2[L[u][j].frame] = l2[u] - 1
  BY <1>1, <1>2, <1>3, <1>7, <1>8
<1>10. \A u, w \in Frames, j, h \in Slots :
         l2[u] >= 2 /\ l2[w] >= 2 /\ Present(L[u][j]) /\ Present(L[w][h])
           /\ L[u][j].frame = L[w][h].frame => u = w /\ j = h
  <2>1. SUFFICES ASSUME NEW u \in Frames, NEW w \in Frames, NEW j \in Slots, NEW h \in Slots,
                        l2[u] >= 2, l2[w] >= 2, Present(L[u][j]), Present(L[w][h]),
                        L[u][j].frame = L[w][h].frame
                 PROVE  u = w /\ j = h
    OBVIOUS
  <2>2. \A x, y \in Frames, c, d \in Slots :
          lev[x] >= 2 /\ lev[y] >= 2 /\ Present(M[x][c]) /\ Present(M[y][d])
            /\ M[x][c].frame = M[y][d].frame => x = y /\ c = d
    BY DEF Levels, OneEntry
  <2>3. lev[u] >= 2 /\ lev[w] >= 2
    BY <1>8, <2>1, SMTT(20)
  <2>4. ASSUME NEW x \in Frames, NEW c \in Slots, lev[x] >= 2, l2[x] >= 2, Present(L[x][c])
        PROVE  \/ x = t /\ c = i /\ L[x][c].frame = n
               \/ L[x][c] = M[x][c] /\ Present(M[x][c]) /\ L[x][c].frame # n
    BY <1>2, <1>7, <1>8, <2>4
  <2>5. CASE L[u][j].frame = n
    <3>1. u = t /\ j = i
      BY <2>1, <2>3, <2>4, <2>5
    <3>2. L[w][h].frame = n
      BY <2>1, <2>5
    <3>3. w = t /\ h = i
      BY <2>1, <2>3, <2>4, <3>2
    <3>. QED
      BY <3>1, <3>3
  <2>6. CASE L[u][j].frame # n
    <3>1. L[u][j] = M[u][j] /\ Present(M[u][j]) /\ L[w][h] = M[w][h] /\ Present(M[w][h])
      BY <1>2, <2>1, <2>3, <2>4, <2>6, SMTT(20)
    <3>. QED
      BY <2>1, <2>2, <2>3, <3>1, SMTT(20)
  <2>. QED
    BY <2>5, <2>6, SMTT(20)
<1>11. ASSUME NEW f \in Frames, l2[f] \in 1..3
       PROVE  \E u \in Frames, j \in Slots :
                l2[u] = l2[f] + 1 /\ Present(L[u][j]) /\ L[u][j].frame = f
  <2>1. CASE f = n
    BY <1>1, <1>2, <1>3, <2>1
  <2>2. CASE f # n
    <3>1. lev[f] = l2[f] /\ lev[f] \in 1..3
      BY <1>3, <1>11, <2>2
    <3>2. PICK u \in Frames, j \in Slots :
             lev[u] = lev[f] + 1 /\ Present(M[u][j]) /\ M[u][j].frame = f
      BY <3>1 DEF Levels, LedTo
    <3>3. u # n /\ (u # t \/ j # i)
      BY <1>1, <3>1, <3>2
    <3>4. l2[u] = l2[f] + 1 /\ L[u][j] = M[u][j]
      BY <1>2, <1>3, <3>1, <3>2, <3>3, SMTT(20)
    <3>. QED
      BY <3>2, <3>4
  <2>. QED
    BY <2>1, <2>2
<1>12. Levels(L, G, r, P, l2)
  BY <1>2, <1>3, <1>4, <1>5, <1>6, <1>9, <1>10, <1>11, SMTT(20) DEF Levels, Graded, LeadsDown, OneEntry, LedTo
<1>. QED
  BY <1>12 DEF L, l2

\* Linking an empty table changes where no page leads.
LEMMA LinkReached ==
  ASSUME NEW M, NEW F, NEW r, NEW P, NEW lev, Levels(M, F, r, P, lev),
         NEW k \in 2..4, NEW t \in Frames, lev[t] = k, NEW i \in Slots,
         ~Present(M[t][i]), NEW n \in F, NEW v \in Nat
  PROVE  Reached(LinkNew(M, n, t, i), r, v) = Reached(M, r, v)
<1> DEFINE L == LinkNew(M, n, t, i)
<1>1. n \in Frames /\ n # t /\ lev[n] = 0 /\ n # 0 /\ t # 0
  BY VMMAssumption, SMTT(20) DEF Levels, Graded, Frames
<1>2. /\ \A j \in Slots : ~Present(L[n][j])
      /\ L[t][i].frame = n
      /\ \A u \in Frames, j \in Slots : u # n /\ (u # t \/ j # i) => L[u][j] = M[u][j]
  <2>1. M \in Contents
    BY DEF Levels, Graded
  <2>. QED
    BY <1>1, <2>1, Linking
<1>3. Ix(v, 1) \in Slots /\ Ix(v, 2) \in Slots /\ Ix(v, 3) \in Slots /\ Ix(v, 4) \in Slots
  BY IndexInTable
<1> DEFINE t3 == Table3(M, r, v)
           t2 == Table2(M, r, v)
           t1 == Table1(M, r, v)
           u3 == Table3(L, r, v)
           u2 == Table2(L, r, v)
           u1 == Table1(L, r, v)
<1>4. /\ r \in Frames /\ lev[r] = 4
      /\ t3 = 0 \/ (t3 \in Frames /\ lev[t3] = 3)
      /\ t2 = 0 \/ (t2 \in Frames /\ lev[t2] = 2)
      /\ t1 = 0 \/ (t1 \in Frames /\ lev[t1] = 1)
  BY WalkLevels, SMTT(20)
<1>5. /\ t3 = Through(M, r, Ix(v, 4)) /\ t2 = Through(M, t3, Ix(v, 3))
      /\ t1 = Through(M, t2, Ix(v, 2))
      /\ u3 = Through(L, r, Ix(v, 4)) /\ u2 = Through(L, u3, Ix(v, 3))
      /\ u1 = Through(L, u2, Ix(v, 2))
  BY Zenon DEF Table3, Table2, Table1
<1>6. /\ Reached(M, r, v) = IF t1 # 0 /\ Present(M[t1][Ix(v, 1)]) THEN M[t1][Ix(v, 1)].frame ELSE None
      /\ Reached(L, r, v) = IF u1 # 0 /\ Present(L[u1][Ix(v, 1)]) THEN L[u1][Ix(v, 1)].frame ELSE None
  BY SMTT(20) DEF Reached
<1> HIDE DEF L, t3, t2, t1, u3, u2, u1
<1>7. ASSUME NEW x, x = 0 \/ (x \in Frames /\ lev[x] # 0), NEW j \in Slots
      PROVE  \/ Through(L, x, j) = Through(M, x, j)
             \/ Through(L, x, j) = n /\ Through(M, x, j) = 0 /\ x = t
  BY <1>1, <1>2, <1>7, ZenonT(30) DEF Through
<1>8. \A j \in Slots : Through(L, n, j) = 0 /\ Through(L, 0, j) = 0 /\ Through(M, 0, j) = 0
  BY <1>2 DEF Through
<1>9. u3 = t3 \/ (u3 = n /\ t3 = 0)
  BY <1>3, <1>4, <1>5, <1>7
<1>10. u2 = t2 \/ (u2 = n /\ t2 = 0)
  BY <1>3, <1>4, <1>5, <1>7, <1>8, <1>9, SMTT(20)
<1>11. u1 = t1 \/ (u1 = n /\ t1 = 0)
  BY <1>3, <1>4, <1>5, <1>7, <1>8, <1>10, SMTT(20)
<1>12. CASE u1 = n /\ t1 = 0
  BY <1>2, <1>3, <1>6, <1>12 DEF L
<1>13. CASE u1 = t1
  <2>1. t1 # 0 => L[t1][Ix(v, 1)] = M[t1][Ix(v, 1)]
    BY <1>1, <1>2, <1>3, <1>4
  <2>. QED
    BY <1>6, <1>13, <2>1 DEF L
<1>. QED
  BY <1>11, <1>12, <1>13, Zenon

-----------------------------------------------------------------------------
(* get_pte *)

\* What one level of get_pte gives, d, from the contents M and the table t at
\* level k: the tree is kept, and where every page leads; the table it gives
\* is one level down and the walk goes through it.
Descended(M, F, r, P, lev, k, t, i, d) ==
  /\ d = [mem |-> d.mem, free |-> d.free, at |-> d.at]
  /\ d.at # 0 => t # 0 /\ Through(d.mem, t, i) = d.at
  /\ \A u \in Frames, j \in Slots :
       lev[u] # 0 /\ Present(M[u][j]) => d.mem[u][j] = M[u][j]
  /\ \A v \in Nat : Reached(d.mem, r, v) = Reached(M, r, v)
  /\ \E l2 : /\ Levels(d.mem, d.free, r, P, l2)
             /\ d.at = 0 \/ (d.at \in Frames /\ l2[d.at] = k - 1)
             /\ \A f \in Frames : lev[f] # 0 => l2[f] = lev[f]

\* One level of get_pte does so.
LEMMA DescendStep ==
  ASSUME NEW M, NEW F, NEW r, NEW P, NEW lev, Levels(M, F, r, P, lev),
         NEW k \in 2..4, NEW t, t = 0 \/ (t \in Frames /\ lev[t] = k), NEW i \in Slots
  PROVE  Descended(M, F, r, P, lev, k, t, i, Descend([mem |-> M, free |-> F, at |-> t], i))
<1> SUFFICES ASSUME NEW d, d = Descend([mem |-> M, free |-> F, at |-> t], i)
             PROVE  Descended(M, F, r, P, lev, k, t, i, d)
  OBVIOUS
<1> DEFINE n == pmm_alloc_frames(F)
<1>1. CASE t = 0
  <2>1. d = [mem |-> M, free |-> F, at |-> 0]
    BY <1>1 DEF Descend
  <2>. QED
    BY <2>1 DEF Descended
<1>2. CASE t # 0 /\ Present(M[t][i])
  <2>1. d = [mem |-> M, free |-> F, at |-> M[t][i].frame]
    BY <1>2 DEF Descend
  <2>2. Through(M, t, i) = M[t][i].frame
    BY <1>2, SMTT(20) DEF Through
  <2>3. M[t][i].frame = 0 \/ (M[t][i].frame \in Frames /\ lev[M[t][i].frame] = k - 1)
    BY <2>2, DownOne
  <2>4. /\ d = [mem |-> d.mem, free |-> d.free, at |-> d.at]
        /\ d.mem = M /\ d.free = F /\ d.at = M[t][i].frame
    BY <2>1
  <2>. QED
    BY <1>2, <2>2, <2>3, <2>4 DEF Descended
<1>3. CASE t # 0 /\ ~Present(M[t][i]) /\ F = {}
  <2>1. d = [mem |-> M, free |-> F, at |-> 0]
    BY <1>3 DEF Descend
  <2>. QED
    BY <2>1 DEF Descended
<1>4. CASE t # 0 /\ ~Present(M[t][i]) /\ F # {}
  <2>0. Graded(M, F, r, P, lev)
    BY DEF Levels
  <2>1. n \in F
    <3>1. F \in SUBSET Nat
      BY <2>0 DEF Graded
    <3>. QED
      BY <1>4, <3>1, AllocFree
  <2> HIDE DEF n
  <2>2. n \in Frames /\ n # t /\ n # 0 /\ lev[n] = 0 /\ M \in Contents /\ t \in Frames /\ lev[t] = k
    <3>1. n \in P /\ n \in Frames /\ n \in 1..(Low - 1) /\ lev[n] = 0 /\ M \in Contents
      BY <2>0, <2>1 DEF Graded
    <3>2. t \in Frames /\ lev[t] = k
      BY <1>4
    <3>. QED
      BY <3>1, <3>2
  <2>3. d = [mem |-> LinkNew(M, n, t, i), free |-> F \ {n}, at |-> n]
    BY <1>4 DEF Descend, LinkNew, n
  <2>4. Levels(LinkNew(M, n, t, i), F \ {n}, r, P, [lev EXCEPT ![n] = k - 1])
    BY <1>4, <2>1, <2>2, LinkLevels
  <2>5. \A v \in Nat : Reached(LinkNew(M, n, t, i), r, v) = Reached(M, r, v)
    BY <1>4, <2>1, <2>2, LinkReached, SMTT(20)
  <2>6. /\ Present(LinkNew(M, n, t, i)[t][i]) /\ LinkNew(M, n, t, i)[t][i].frame = n
        /\ \A u \in Frames, j \in Slots :
             u # n /\ (u # t \/ j # i) => LinkNew(M, n, t, i)[u][j] = M[u][j]
    <3>1. /\ LinkNew(M, n, t, i) \in Contents
          /\ \A j \in Slots : ~Present(LinkNew(M, n, t, i)[n][j])
          /\ Present(LinkNew(M, n, t, i)[t][i]) /\ LinkNew(M, n, t, i)[t][i].frame = n
          /\ \A u \in Frames, j \in Slots :
               u # n /\ (u # t \/ j # i) => LinkNew(M, n, t, i)[u][j] = M[u][j]
      BY ONLY <2>2, i \in Slots, Linking, SMTT(30)
    <3>. QED
      BY <3>1, Zenon
  <2>7. Through(LinkNew(M, n, t, i), t, i) = n
    BY <1>4, <2>6, Zenon DEF Through
  <2>8. \A u \in Frames, j \in Slots :
          lev[u] # 0 /\ Present(M[u][j]) => LinkNew(M, n, t, i)[u][j] = M[u][j]
    BY <1>4, <2>2, <2>6, Zenon
  <2> DEFINE l2 == [lev EXCEPT ![n] = k - 1]
  <2>9. l2[n] = k - 1 /\ \A f \in Frames : lev[f] # 0 => l2[f] = lev[f]
    BY <2>2 DEF Levels, Graded
  <2>10. d.mem = LinkNew(M, n, t, i) /\ d.free = F \ {n} /\ d.at = n
    BY <2>3
  <2> HIDE DEF l2
  <2>11. Levels(d.mem, d.free, r, P, l2)
    BY <2>4, <2>10, Zenon DEF l2
  <2>12. \E l : /\ Levels(d.mem, d.free, r, P, l)
                /\ d.at = 0 \/ (d.at \in Frames /\ l[d.at] = k - 1)
                /\ \A f \in Frames : lev[f] # 0 => l[f] = lev[f]
    BY <2>2, <2>9, <2>10, <2>11
  <2>. QED
    BY <1>4, <2>3, <2>5, <2>7, <2>8, <2>10, <2>12 DEF Descended
<1>. QED
  BY <1>1, <1>2, <1>3, <1>4

\* get_pte with create: the tree stays a tree, every page leads where it led,
\* and the page table it gives is the one the walk of v ends in.
LEMMA GetPte ==
  ASSUME NEW lev, Levels(mem, free, root, pool, lev), NEW v \in Nat
  PROVE  /\ \A w \in Nat : Reached(get_pte(v).mem, root, w) = Reached(mem, root, w)
         /\ \E l2 : Levels(get_pte(v).mem, get_pte(v).free, root, pool, l2)
         /\ get_pte(v).at # 0 => Table1(get_pte(v).mem, root, v) = get_pte(v).at
         /\ \A t \in {root, At3(v).at, At2(v).at, get_pte(v).at} : t = 0 \/ t \in pool
<1> DEFINE d3 == At3(v)
           d2 == At2(v)
           d1 == get_pte(v)
           i4 == Ix(v, 4)
           i3 == Ix(v, 3)
           i2 == Ix(v, 2)
<1>0. 2 \in 2..4 /\ 3 \in 2..4 /\ 4 \in 2..4
  OBVIOUS
<1>1. i4 \in Slots /\ i3 \in Slots /\ i2 \in Slots
  BY IndexInTable
<1>2. /\ d3 = Descend([mem |-> mem, free |-> free, at |-> root], i4)
      /\ d2 = Descend(d3, i3) /\ d1 = Descend(d2, i2)
  BY DEF At3, At2, At4, get_pte
<1>3. root \in Frames /\ lev[root] = 4 /\ root # 0
  BY WalkLevels
<1> HIDE DEF d3, d2, d1, i4, i3, i2
<1>4. /\ d3 = [mem |-> d3.mem, free |-> d3.free, at |-> d3.at]
      /\ d3.at # 0 => Through(d3.mem, root, i4) = d3.at
      /\ \A w \in Nat : Reached(d3.mem, root, w) = Reached(mem, root, w)
      /\ \E l2 : /\ Levels(d3.mem, d3.free, root, pool, l2)
                 /\ d3.at = 0 \/ (d3.at \in Frames /\ l2[d3.at] = 4 - 1)
                 /\ \A f \in Frames : lev[f] # 0 => l2[f] = lev[f]
  <2>1. Descended(mem, free, root, pool, lev, 4, root, i4, d3)
    BY <1>0, <1>1, <1>2, <1>3, DescendStep, SMTT(20)
  <2>. QED
    BY <2>1 DEF Descended
<1>5. PICK l3 : /\ Levels(d3.mem, d3.free, root, pool, l3)
                /\ d3.at = 0 \/ (d3.at \in Frames /\ l3[d3.at] = 3)
                /\ \A f \in Frames : lev[f] # 0 => l3[f] = lev[f]
  BY <1>4
<1>6. /\ d2 = [mem |-> d2.mem, free |-> d2.free, at |-> d2.at]
      /\ d2.at # 0 => d3.at # 0 /\ Through(d2.mem, d3.at, i3) = d2.at
      /\ \A u \in Frames, j \in Slots :
           l3[u] # 0 /\ Present(d3.mem[u][j]) => d2.mem[u][j] = d3.mem[u][j]
      /\ \A w \in Nat : Reached(d2.mem, root, w) = Reached(d3.mem, root, w)
      /\ \E l2 : /\ Levels(d2.mem, d2.free, root, pool, l2)
                 /\ d2.at = 0 \/ (d2.at \in Frames /\ l2[d2.at] = 3 - 1)
                 /\ \A f \in Frames : l3[f] # 0 => l2[f] = l3[f]
  <2>1. d2 = Descend([mem |-> d3.mem, free |-> d3.free, at |-> d3.at], i3)
    BY <1>2, <1>4, SMTT(20)
  <2>2. Descended(d3.mem, d3.free, root, pool, l3, 3, d3.at, i3, d2)
    BY <1>0, <1>1, <1>5, <2>1, DescendStep, ZenonT(30)
  <2>. QED
    BY <2>2 DEF Descended
<1>7. PICK l2 : /\ Levels(d2.mem, d2.free, root, pool, l2)
                /\ d2.at = 0 \/ (d2.at \in Frames /\ l2[d2.at] = 2)
                /\ \A f \in Frames : l3[f] # 0 => l2[f] = l3[f]
  BY <1>6
<1>8. /\ d1.at # 0 => d2.at # 0 /\ Through(d1.mem, d2.at, i2) = d1.at
      /\ \A u \in Frames, j \in Slots :
           l2[u] # 0 /\ Present(d2.mem[u][j]) => d1.mem[u][j] = d2.mem[u][j]
      /\ \A w \in Nat : Reached(d1.mem, root, w) = Reached(d2.mem, root, w)
      /\ \E l : /\ Levels(d1.mem, d1.free, root, pool, l)
                /\ d1.at = 0 \/ (d1.at \in Frames /\ l[d1.at] = 2 - 1)
                /\ \A f \in Frames : l2[f] # 0 => l[f] = l2[f]
  <2>1. d1 = Descend([mem |-> d2.mem, free |-> d2.free, at |-> d2.at], i2)
    BY <1>2, <1>6, SMTT(20)
  <2>2. Descended(d2.mem, d2.free, root, pool, l2, 2, d2.at, i2, d1)
    BY <1>0, <1>1, <1>7, <2>1, DescendStep, ZenonT(30)
  <2>. QED
    BY <2>2 DEF Descended
<1>9. PICK l1 : /\ Levels(d1.mem, d1.free, root, pool, l1)
                /\ d1.at = 0 \/ (d1.at \in Frames /\ l1[d1.at] = 1)
  BY <1>8
<1>10. \A w \in Nat : Reached(d1.mem, root, w) = Reached(mem, root, w)
  BY <1>4, <1>6, <1>8, SMTT(20)
<1>13. \A u \in Frames, j \in Slots :
         l2[u] # 0 /\ Present(d2.mem[u][j]) => d1.mem[u][j] = d2.mem[u][j]
  BY <1>8, ZenonT(30)
<1>11. ASSUME d1.at # 0 PROVE Table1(d1.mem, root, v) = d1.at
  <2>1. /\ d2.at # 0 /\ d3.at # 0
        /\ Through(d1.mem, d2.at, i2) = d1.at /\ Through(d2.mem, d3.at, i3) = d2.at
        /\ Through(d3.mem, root, i4) = d3.at
    BY <1>4, <1>6, <1>8, <1>11
  <2>2. Present(d3.mem[root][i4]) /\ d3.mem[root][i4].frame = d3.at
    BY <2>1 DEF Through
  <2>3. Present(d2.mem[d3.at][i3]) /\ d2.mem[d3.at][i3].frame = d2.at
    BY <2>1 DEF Through
  <2>4. l3[root] = 4 /\ l2[root] = 4 /\ d3.at \in Frames /\ l2[d3.at] = 3
    BY <1>3, <1>5, <1>7, <2>1
  <2>5. d2.mem[root][i4] = d3.mem[root][i4]
    BY <1>1, <1>3, <1>6, <2>2, <2>4
  <2>6. d1.mem[root][i4] = d3.mem[root][i4]
    <3>1. Present(d2.mem[root][i4])
      BY <2>2, <2>5
    <3>2. d1.mem[root][i4] = d2.mem[root][i4]
      BY <1>1, <1>3, <1>13, <2>4, <3>1
    <3>. QED
      BY <2>5, <3>2
  <2>7. d1.mem[d3.at][i3] = d2.mem[d3.at][i3]
    BY <1>1, <1>13, <2>3, <2>4, SMTT(20)
  <2>8. Through(d1.mem, root, i4) = d3.at /\ Through(d1.mem, d3.at, i3) = d2.at
    BY <1>3, <2>1, <2>2, <2>3, <2>6, <2>7 DEF Through
  <2>. QED
    BY <2>1, <2>8, ZenonT(30) DEF Table1, Table2, Table3, i4, i3, i2
<1>12. \A t \in {root, d3.at, d2.at, d1.at} : t = 0 \/ t \in pool
  <2>1. ASSUME NEW l, Levels(d1.mem, d1.free, root, pool, l) \/ Levels(d2.mem, d2.free, root, pool, l)
                        \/ Levels(d3.mem, d3.free, root, pool, l)
        PROVE  root \in pool /\ \A f \in Frames : l[f] # 0 => f \in pool
    BY <2>1, Zenon DEF Levels, Graded
  <2>2. d3.at = 0 \/ (d3.at \in Frames /\ l3[d3.at] # 0)
    BY <1>5
  <2>3. d2.at = 0 \/ (d2.at \in Frames /\ l2[d2.at] # 0)
    BY <1>7
  <2>4. d1.at = 0 \/ (d1.at \in Frames /\ l1[d1.at] # 0)
    BY <1>9
  <2>5. d3.at = 0 \/ d3.at \in pool
    BY <1>5, <2>1, <2>2
  <2>6. d2.at = 0 \/ d2.at \in pool
    BY <1>7, <2>1, <2>3
  <2>7. root \in pool /\ (d1.at = 0 \/ d1.at \in pool)
    BY <1>9, <2>1, <2>4
  <2>. QED
    BY <2>5, <2>6, <2>7, SMTT(20)
<1>. QED
  BY <1>9, <1>10, <1>11, <1>12 DEF d3, d2, d1

-----------------------------------------------------------------------------
(* Writing the last entry of the walk of v. *)

OverLeaf(M, t, i, e) == [M EXCEPT ![t] = [@ EXCEPT ![i] = e]]

Overwritten(M, F, r, P, lev, v, e, L) ==
  /\ Levels(L, F, r, P, lev)
  /\ Reached(L, r, v) = IF Present(e) THEN e.frame ELSE None
  /\ \A w \in Pages : w # v => Reached(L, r, w) = Reached(M, r, w)

\* The tree is kept, v leads where the entry says, other pages where they led.
LEMMA LeafWrite ==
  ASSUME NEW M, NEW F, NEW r, NEW P, NEW lev, Levels(M, F, r, P, lev),
         NEW v \in Pages, NEW t, t = Table1(M, r, v), t # 0, NEW e \in Entry
  PROVE  Overwritten(M, F, r, P, lev, v, e, OverLeaf(M, t, Ix(v, 1), e))
<1> SUFFICES ASSUME NEW L, L = [M EXCEPT ![t] = [@ EXCEPT ![Ix(v, 1)] = e]]
             PROVE  /\ Levels(L, F, r, P, lev)
                    /\ Reached(L, r, v) = IF Present(e) THEN e.frame ELSE None
                    /\ \A w \in Pages : w # v => Reached(L, r, w) = Reached(M, r, w)
  BY Zenon DEF OverLeaf, Overwritten
<1>1. v \in Nat /\ Pages \subseteq Nat
  BY DEF Pages
<1> DEFINE i == Ix(v, 1)
<1>2. i \in Slots
  BY <1>1, IndexInTable
<1>3. t \in Frames /\ lev[t] = 1
  BY <1>1, WalkLevels
<1> HIDE DEF i
<1>4. /\ L \in Contents /\ L[t][i] = e
      /\ \A j \in Slots : j # i => L[t][j] = M[t][j]
      /\ \A u \in Frames : u # t => L[u] = M[u]
  <2>1. M \in Contents /\ M[t] \in [Slots -> Entry]
    BY <1>3 DEF Levels, Graded, Contents
  <2>2. L = [M EXCEPT ![t] = [M[t] EXCEPT ![i] = e]]
    BY DEF i
  <2>3. [M[t] EXCEPT ![i] = e] \in [Slots -> Entry]
    BY <1>2, <2>1
  <2>4. L \in Contents /\ L[t] = [M[t] EXCEPT ![i] = e] /\ \A u \in Frames : u # t => L[u] = M[u]
    BY <1>3, <2>1, <2>2, <2>3, ZenonT(30) DEF Contents
  <2>. QED
    BY <1>2, <2>1, <2>4
<1>5. \A u \in Frames : lev[u] >= 2 => L[u] = M[u]
  BY <1>3, <1>4
<1>6. Levels(L, F, r, P, lev)
  <2>1. ASSUME NEW f \in Frames, lev[f] \in 1..3
        PROVE  \E u \in Frames, j \in Slots :
                 lev[u] = lev[f] + 1 /\ Present(L[u][j]) /\ L[u][j].frame = f
    <3>1. PICK u \in Frames, j \in Slots :
             lev[u] = lev[f] + 1 /\ Present(M[u][j]) /\ M[u][j].frame = f
      BY <2>1 DEF Levels, LedTo
    <3>. QED
      BY <1>5, <2>1, <3>1
  <2>2. \A u \in Frames, j \in Slots :
          lev[u] >= 2 /\ Present(L[u][j])
            => L[u][j].frame \in Frames /\ lev[L[u][j].frame] = lev[u] - 1
    BY <1>5 DEF Levels, LeadsDown
  <2>3. ASSUME NEW u \in Frames, NEW x \in Frames, NEW j \in Slots, NEW h \in Slots,
               lev[u] >= 2, lev[x] >= 2, Present(L[u][j]), Present(L[x][h]),
               L[u][j].frame = L[x][h].frame
        PROVE  u = x /\ j = h
    <3>1. L[u] = M[u] /\ L[x] = M[x]
      BY <1>5, <2>3
    <3>. QED
      BY <2>3, <3>1 DEF Levels, OneEntry
  <2>4. Graded(L, F, r, P, lev)
    BY <1>4, Zenon DEF Levels, Graded
  <2>5. LeadsDown(L, lev)
    BY <2>2, Zenon DEF LeadsDown
  <2>6. OneEntry(L, lev)
    BY <2>3, SMTT(30) DEF OneEntry
  <2>7. LedTo(L, lev)
    BY <2>1, Zenon DEF LedTo
  <2>. QED
    BY <2>4, <2>5, <2>6, <2>7, Zenon DEF Levels
<1>7. ASSUME NEW w \in Nat PROVE Table1(L, r, w) = Table1(M, r, w)
  <2>1. /\ r \in Frames /\ lev[r] = 4
        /\ Table3(M, r, w) = 0 \/ (Table3(M, r, w) \in Frames /\ lev[Table3(M, r, w)] = 3)
        /\ Table2(M, r, w) = 0 \/ (Table2(M, r, w) \in Frames /\ lev[Table2(M, r, w)] = 2)
    BY WalkLevels
  <2>2. ASSUME NEW u, u = 0 \/ (u \in Frames /\ lev[u] >= 2), NEW j
        PROVE  Through(L, u, j) = Through(M, u, j)
    BY <1>5, <2>2 DEF Through
  <2>3. /\ r = 0 \/ (r \in Frames /\ lev[r] >= 2)
        /\ Table3(M, r, w) = 0 \/ (Table3(M, r, w) \in Frames /\ lev[Table3(M, r, w)] >= 2)
        /\ Table2(M, r, w) = 0 \/ (Table2(M, r, w) \in Frames /\ lev[Table2(M, r, w)] >= 2)
    BY <2>1
  <2>4. Table3(L, r, w) = Table3(M, r, w)
    <3>1. Through(L, r, Ix(w, 4)) = Through(M, r, Ix(w, 4))
      BY <2>2, <2>3, Zenon
    <3>. QED
      BY <3>1 DEF Table3
  <2>5. Table2(L, r, w) = Table2(M, r, w)
    <3>1. Through(L, Table3(M, r, w), Ix(w, 3)) = Through(M, Table3(M, r, w), Ix(w, 3))
      BY <2>2, <2>3, Zenon
    <3>. QED
      BY <2>4, <3>1 DEF Table2
  <2>6. Through(L, Table2(M, r, w), Ix(w, 2)) = Through(M, Table2(M, r, w), Ix(w, 2))
    BY <2>2, <2>3, Zenon
  <2>. QED
    BY <2>5, <2>6 DEF Table1
<1>8. Reached(L, r, v) = IF Present(e) THEN e.frame ELSE None
  <2>1. Table1(L, r, v) = t
    BY <1>1, <1>7, Zenon
  <2>. QED
    BY <1>4, <2>1 DEF Reached, i
<1>9. ASSUME NEW w \in Pages, w # v PROVE Reached(L, r, w) = Reached(M, r, w)
  <2> DEFINE u == Table1(M, r, w)
  <2>1. w \in Nat /\ (u = 0 \/ u \in Frames) /\ Ix(w, 1) \in Slots /\ Table1(L, r, w) = u
    <3>1. w \in Nat
      BY <1>1
    <3>2. u = 0 \/ u \in Frames
      BY <3>1, WalkLevels
    <3>3. Ix(w, 1) \in Slots
      BY <3>1, 1 \in 1..4, IndexInTable
    <3>. QED
      BY <1>7, <3>1, <3>2, <3>3, Zenon
  <2>2. ASSUME u = t, Ix(w, 1) = i PROVE FALSE
    <3>1. \A k \in 2..4 : Ix(w, k) = Ix(v, k)
      BY <1>1, <2>1, <2>2, OneWalk
    <3>2. \A k \in 1..4 : Ix(w, k) = Ix(v, k)
      <4>1. \A k \in 1..4 : k = 1 \/ k \in 2..4
        OBVIOUS
      <4>. QED
        BY <2>2, <3>1, <4>1 DEF i
    <3>. QED
      BY <1>9, <3>2, IndicesName
  <2>3. u # 0 => L[u][Ix(w, 1)] = M[u][Ix(w, 1)]
    BY <1>4, <2>1, <2>2
  <2>. QED
    BY <2>1, <2>3 DEF Reached
<1>. QED
  BY <1>6, <1>8, <1>9, Zenon

-----------------------------------------------------------------------------
(* What the steps do to the tables. *)

Leveled == \E lev : Levels(mem, free, root, pool, lev)

\* Before the root is allocated nothing was taken; while the loader's map is
\* in use nothing was cached and nothing faults.
Rooted ==
  /\ root = 0 => free = pool /\ a = 0 /\ cr3 = 0
  /\ root # 0 => Leveled
  /\ cr3 = 0 => ~fault /\ \A v \in Callers : tlb[v] = None

Same == root' = root /\ \A w \in Pages : Reached(mem', root', w) = Reached(mem, root, w)
Wrote(v, f) ==
  /\ root' = root
  /\ \A w \in Pages : Reached(mem', root', w) = IF w = v THEN f ELSE Reached(mem, root, w)

\* Pages that callers name, the loop of the identity map included, are pages.
LEMMA PageRange ==
  /\ Pages \subseteq Nat /\ Frames \subseteq Pages /\ Callers \subseteq Pages /\ Frames \subseteq Nat
<1>1. Fan * Fan * Fan * Fan \in Nat
  <2>1. Fan \in Nat
    BY VMMAssumption
  <2>2. Fan * Fan \in Nat
    BY <2>1
  <2>3. Fan * Fan * Fan \in Nat
    BY <2>1, <2>2
  <2>. QED
    BY <2>1, <2>3
<1>. QED
  BY <1>1, VMMAssumption DEF Pages, Frames

\* The root of the tables: one empty table, and no page leads anywhere.
LEMMA RootStep ==
  ASSUME TypeOK, Rooted, vmm_init_identity
  PROVE  /\ root' \in pool /\ root' # 0 /\ Leveled' /\ mem' \in Contents /\ free' \subseteq pool
         /\ \A w \in Pages : Reached(mem', root', w) = None
<1> DEFINE n == root'
           lev == [f \in Frames |-> IF f = n THEN 4 ELSE 0]
<1>1. /\ free = pool /\ pool \in SUBSET (1..(Low - 1)) /\ free # {}
      /\ mem \in Contents /\ pool \in FreeSets /\ pool' = pool
  BY VMMAssumption DEF TypeOK, Rooted, vmm_init_identity, Contents, Slots
<1>2. n = pmm_alloc_frames(free) /\ free' = free \ {n} /\ mem' = [mem EXCEPT ![n] = Zeroed]
  BY DEF vmm_init_identity
<1>3. n \in free
  <2>1. free \in SUBSET Nat
    BY <1>1
  <2>. QED
    BY <1>1, <1>2, <2>1, AllocFree
<1>4. n \in Frames /\ n # 0 /\ n \in pool /\ 0 \in Frames
  BY <1>1, <1>3, VMMAssumption DEF Frames
<1>5. Zeroed \in [Slots -> Entry] /\ \A j \in Slots : ~Present(Zeroed[j])
  <2>1. Absent \in Entry /\ ~Present(Absent)
    BY <1>4 DEF Absent, Entry, Present
  <2>. QED
    BY <2>1 DEF Zeroed, Slots
<1>6. mem' \in Contents /\ mem'[n] = Zeroed
  BY <1>1, <1>2, <1>4, <1>5 DEF Contents
<1>7. \A j \in Slots : ~Present(mem'[n][j])
  BY <1>5, <1>6
<1>8. /\ lev \in [Frames -> 0..4] /\ lev[n] = 4
      /\ \A f \in Frames : f # n => lev[f] = 0
      /\ \A f \in Frames : lev[f] = IF f = n THEN 4 ELSE 0
  BY <1>4
<1> HIDE DEF lev
<1> HIDE DEF n
<1>9. \A f \in Frames : lev[f] # 0 <=> f \in pool \ free'
  BY <1>1, <1>2, <1>4, <1>8
<1>10. \A t \in Frames, j \in Slots : lev[t] >= 2 => ~Present(mem'[t][j])
  BY <1>7, <1>8
<1>11. \A f \in Frames : ~(lev[f] \in 1..3)
  BY <1>8
<1>12. Levels(mem', free', n, pool, lev)
  <2>1. pool \in SUBSET Frames /\ free' \in SUBSET pool /\ free' \in SUBSET Nat
    <3>1. \A f \in 1..(Low - 1) : f \in Frames /\ f \in Nat
      BY VMMAssumption DEF Frames
    <3>2. pool \in SUBSET Frames /\ pool \in SUBSET Nat
      BY <1>1, <3>1
    <3>. QED
      BY <1>1, <1>2, <3>2, Zenon
  <2>2. \A f \in Frames : lev[f] = 4 <=> f = n
    BY <1>8
  <2>3. Graded(mem', free', n, pool, lev)
    BY <1>1, <1>4, <1>6, <1>8, <1>9, <2>1, <2>2 DEF Graded
  <2>4. LeadsDown(mem', lev) /\ OneEntry(mem', lev)
    BY <1>10 DEF LeadsDown, OneEntry
  <2>5. LedTo(mem', lev)
    BY <1>11 DEF LedTo
  <2>. QED
    BY <2>3, <2>4, <2>5 DEF Levels
<1>13. Leveled'
  BY <1>1, <1>12 DEF Leveled, n
<1>14. ASSUME NEW w \in Pages PROVE Reached(mem', n, w) = None
  <2>1. Ix(w, 4) \in Slots
    BY 4 \in 1..4, PageRange, IndexInTable
  <2>2. Table3(mem', n, w) = 0
    BY <1>7, <2>1 DEF Table3, Through
  <2>3. Table2(mem', n, w) = 0
    BY <2>2 DEF Table2, Through
  <2>4. Table1(mem', n, w) = 0
    BY <2>3 DEF Table1, Through
  <2>. QED
    BY <2>4 DEF Reached
<1>. QED
  BY <1>1, <1>2, <1>4, <1>6, <1>13, <1>14, Zenon DEF n

\* get_pte, then a write of the entry it gave: the page leads where the entry
\* says and no other page is touched.  get_pte alone touches none.
LEMMA CreateStep ==
  ASSUME TypeOK, Rooted, root # 0, root' = root, pool' = pool, NEW v \in Pages, free' = get_pte(v).free
  PROVE  /\ mem' = get_pte(v).mem => Leveled' /\ Same /\ mem' \in Contents /\ free' \subseteq pool
         /\ \A e \in Entry :
              get_pte(v).at # 0
                /\ mem' = OverLeaf(get_pte(v).mem, get_pte(v).at, Ix(v, 1), e)
              => /\ Leveled' /\ mem' \in Contents /\ free' \subseteq pool
                 /\ Wrote(v, IF Present(e) THEN e.frame ELSE None)
<1> DEFINE m == get_pte(v)
<1>1. PICK lev : Levels(mem, free, root, pool, lev)
  BY DEF Rooted, Leveled
<1>2. v \in Nat /\ Pages \subseteq Nat
  BY PageRange
<1>3. /\ \A w \in Nat : Reached(m.mem, root, w) = Reached(mem, root, w)
      /\ \E l2 : Levels(m.mem, m.free, root, pool, l2)
      /\ m.at # 0 => Table1(m.mem, root, v) = m.at
  BY <1>1, <1>2, GetPte
<1> HIDE DEF m
<1>4. PICK l2 : Levels(m.mem, m.free, root, pool, l2)
  BY <1>3
<1>5. free' = m.free /\ free' \subseteq pool /\ m.mem \in Contents
  BY <1>4 DEF m, Levels, Graded
<1>6. ASSUME mem' = m.mem
      PROVE  Leveled' /\ Same /\ mem' \in Contents
  <2>1. Leveled'
    BY <1>4, <1>5, <1>6 DEF Leveled
  <2>. QED
    BY <1>2, <1>3, <1>5, <1>6, <2>1 DEF Same
<1>7. ASSUME NEW e \in Entry, m.at # 0,
             mem' = OverLeaf(m.mem, m.at, Ix(v, 1), e)
      PROVE  Leveled' /\ mem' \in Contents /\ Wrote(v, IF Present(e) THEN e.frame ELSE None)
  <2>1. /\ Levels(mem', m.free, root, pool, l2)
        /\ Reached(mem', root, v) = IF Present(e) THEN e.frame ELSE None
        /\ \A w \in Pages : w # v => Reached(mem', root, w) = Reached(m.mem, root, w)
    <3> DEFINE t == m.at
               M == m.mem
               F == m.free
    <3>1. t = Table1(M, root, v) /\ t # 0 /\ Levels(M, F, root, pool, l2)
      BY <1>3, <1>4, <1>7
    <3> HIDE DEF t, M, F
    <3>2. Overwritten(M, F, root, pool, l2, v, e, OverLeaf(M, t, Ix(v, 1), e))
      BY ONLY <3>1, v \in Pages, e \in Entry, LeafWrite, SMTT(20)
    <3>. QED
      BY <1>7, <3>2 DEF Overwritten, t, M, F
  <2>2. Leveled'
    BY <1>5, <2>1 DEF Leveled
  <2>3. mem' \in Contents
    BY <2>1 DEF Levels, Graded
  <2>. QED
    BY <1>2, <1>3, <2>1, <2>2, <2>3 DEF Wrote
<1>. QED
  BY <1>5, <1>6, <1>7 DEF m

\* unmap's write of the entry found: the page leads nowhere, no other page is
\* touched.
LEMMA ClearStep ==
  ASSUME TypeOK, Rooted, root # 0, root' = root, pool' = pool, free' = free,
         NEW v \in Pages, Lookup(v) # 0,
         mem' = [mem EXCEPT ![Lookup(v)] = [@ EXCEPT ![Ix(v, 1)] = Absent]]
  PROVE  Leveled' /\ mem' \in Contents /\ Wrote(v, None)
<1>1. PICK lev : Levels(mem, free, root, pool, lev)
  BY DEF Rooted, Leveled
<1>2. Absent \in Entry /\ ~Present(Absent)
  <2>1. 0 \in Frames
    BY <1>1, VMMAssumption DEF Levels, Graded, Frames
  <2>. QED
    BY <2>1 DEF Absent, Entry, Present
<1>3. Lookup(v) = Table1(mem, root, v)
  BY WalkOfMem
<1>4. mem' = OverLeaf(mem, Lookup(v), Ix(v, 1), Absent)
  BY DEF OverLeaf
<1>5. Overwritten(mem, free, root, pool, lev, v, Absent, mem')
  <2> DEFINE t == Lookup(v)
             e == Absent
  <2>1. t = Table1(mem, root, v) /\ t # 0 /\ e \in Entry
    BY <1>2, <1>3
  <2> HIDE DEF t, e
  <2>2. Overwritten(mem, free, root, pool, lev, v, e, OverLeaf(mem, t, Ix(v, 1), e))
    BY ONLY <1>1, <2>1, v \in Pages, LeafWrite
  <2>. QED
    BY <1>4, <2>2, Zenon DEF t, e
<1>6. Leveled'
  BY <1>5 DEF Leveled, Overwritten
<1>7. mem' \in Contents
  BY <1>5 DEF Levels, Graded, Overwritten
<1>. QED
  BY <1>2, <1>5, <1>6, <1>7, Zenon DEF Wrote, Overwritten

\* Where a page leads is a frame of memory or one that a caller named.
LEMMA ReachedType ==
  ASSUME TypeOK, Rooted, NEW w \in Pages
  PROVE  Reached(mem, root, w) \in Phys \cup Frames \cup {None}
<1>1. CASE root = 0
  BY <1>1 DEF Reached, Table1, Table2, Table3, Through
<1>2. CASE root # 0
  <2>1. PICK lev : Levels(mem, free, root, pool, lev)
    BY <1>2 DEF Rooted, Leveled
  <2> DEFINE t == Table1(mem, root, w)
  <2>2. t = 0 \/ t \in Frames
    BY <2>1, PageRange, WalkLevels
  <2>3. Ix(w, 1) \in Slots
    BY 1 \in 1..4, PageRange, IndexInTable
  <2>4. Reached(mem, root, w) = IF t # 0 /\ Present(mem[t][Ix(w, 1)]) THEN mem[t][Ix(w, 1)].frame ELSE None
    BY DEF Reached
  <2> HIDE DEF t
  <2>5. t # 0 => mem[t][Ix(w, 1)] \in Entry
    BY <2>1, <2>2, <2>3, Zenon DEF Levels, Graded, Contents
  <2>. QED
    BY <2>4, <2>5 DEF Entry
<1>. QED
  BY <1>1, <1>2, SMTT(20)

-----------------------------------------------------------------------------
(* The invariant. *)

IInv == TypeOK /\ Rooted /\ TLBCoherent /\ WalkerReaches

\* What pmm_init and the loader leave satisfies the invariant.
LEMMA VMMInit == Init => IInv
<1> SUFFICES ASSUME Init PROVE IInv
  OBVIOUS
<1>1. mem \in [Frames -> [0..(Fan - 1) -> Entry]]
  <2>1. ASSUME NEW f \in Frames PROVE Junk \in [0..(Fan - 1) -> Entry]
    <3>1. 0 \in Frames
      BY VMMAssumption DEF Frames
    <3>. QED
      BY <3>1 DEF Junk, Entry, FlagBits
  <2>. QED
    BY <2>1 DEF Init
<1>2. last \in [page : Pages, frame : Phys \cup Frames \cup {None}, ret : -2..0]
  <2>1. 0 \in Pages
    <3>1. Fan * Fan * Fan * Fan \in Nat /\ Fan * Fan * Fan * Fan > 0
      <4>1. Fan \in Nat /\ Fan > 0
        BY VMMAssumption
      <4>2. Fan * Fan \in Nat /\ Fan * Fan > 0
        BY <4>1
      <4>3. Fan * Fan * Fan \in Nat /\ Fan * Fan * Fan > 0
        BY <4>1, <4>2
      <4>. QED
        BY <4>1, <4>3
    <3>. QED
      BY <3>1 DEF Pages
  <2>. QED
    BY <2>1 DEF Init
<1>3. TypeOK
  <2>1. pool \in FreeSets /\ free \subseteq pool /\ root \in pool \cup {0} /\ cr3 \in {0, root}
    BY DEF Init
  <2>2. a \in 0..Low
    BY VMMAssumption DEF Init
  <2>3. tlb \in [Callers -> Phys \cup Frames \cup {None}] /\ fault \in BOOLEAN
    BY ZenonT(30) DEF Init
  <2>. QED
    BY <1>1, <1>2, <2>1, <2>2, <2>3 DEF TypeOK
<1>. QED
  BY <1>3 DEF IInv, Init, Rooted, TLBCoherent, WalkerReaches

\* A table in the pool is mapped at its own address once the identity map
\* covers the pool: callers leave those pages alone.
LEMMA Mapped ==
  ASSUME IInv, root # 0, pool \subseteq 0..(a - 1), NEW t, t = 0 \/ t \in pool
  PROVE  ~Unmapped(t)
<1>1. pool \in FreeSets /\ a \in 0..Low /\ Low \in Nat
  BY VMMAssumption DEF IInv, TypeOK
<1>2. pool \in SUBSET (1..(Low - 1)) /\ Callers \cap pool = {}
  BY <1>1, VMMAssumption
<1>3. t # 0 => t \in Frames \ Callers /\ t < a
  <2>1. SUFFICES ASSUME t \in pool PROVE t \in Frames \ Callers /\ t < a
    OBVIOUS
  <2>2. t \in 1..(Low - 1) /\ t \in 0..(a - 1) /\ t \notin Callers
    BY <1>2, <2>1
  <2>. QED
    BY <1>1, <2>2 DEF Frames
<1>. QED
  BY <1>3 DEF IInv, WalkerReaches, Unmapped

\* No call faults once the identity map covers the pool.
LEMMA NoFault ==
  ASSUME IInv, root # 0, pool \subseteq 0..(a - 1), NEW v \in Callers
  PROVE  ~CreateFaults(v) /\ ~LookupFaults(v)
<1>1. PICK lev : Levels(mem, free, root, pool, lev)
  BY DEF IInv, Rooted, Leveled
<1>2. v \in Nat
  BY PageRange
<1>3. ~CreateFaults(v)
  <2>1. \A t \in {root, At3(v).at, At2(v).at, get_pte(v).at} : t = 0 \/ t \in pool
    BY <1>1, <1>2, GetPte
  <2>. QED
    BY <2>1, Mapped DEF CreateFaults
<1>4. ~LookupFaults(v)
  <2> DEFINE t3 == Table3(mem, root, v)
             t2 == Table2(mem, root, v)
             t1 == Table1(mem, root, v)
  <2>1. /\ Follow(root, Ix(v, 4)) = t3
        /\ Follow(Follow(root, Ix(v, 4)), Ix(v, 3)) = t2
        /\ Lookup(v) = t1
    BY Zenon DEF Follow, Lookup, Table3, Table2, Table1, Through
  <2>2. /\ root \in Frames /\ lev[root] = 4
        /\ t3 = 0 \/ (t3 \in Frames /\ lev[t3] = 3)
        /\ t2 = 0 \/ (t2 \in Frames /\ lev[t2] = 2)
        /\ t1 = 0 \/ (t1 \in Frames /\ lev[t1] = 1)
    BY <1>1, <1>2, WalkLevels
  <2> HIDE DEF t3, t2, t1
  <2>3. \A f \in Frames : lev[f] # 0 => f \in pool
    BY <1>1 DEF Levels, Graded
  <2>4. \A t \in {root, t3, t2, t1} : t = 0 \/ t \in pool
    BY <2>2, <2>3
  <2>. QED
    BY <2>1, <2>4, Mapped, SMTT(20) DEF LookupFaults
<1>. QED
  BY <1>3, <1>4

\* What WalkerReaches and TLBCoherent say, in terms of the walk.
LEMMA WalkForm ==
  /\ TLBCoherent <=> \A v \in Callers : tlb[v] # None => tlb[v] = Reached(mem, root, v)
  /\ TLBCoherent' <=> \A v \in Callers : tlb'[v] # None => tlb'[v] = Reached(mem', root', v)
  /\ WalkerReaches <=>
       /\ pool \subseteq 0..(a - 1) => ~fault
       /\ root # 0 => \A v \in Frames \ Callers : Reached(mem, root, v) = IF v < a THEN v ELSE None
  /\ WalkerReaches' <=>
       /\ pool' \subseteq 0..(a' - 1) => ~fault'
       /\ root' # 0 => \A v \in Frames \ Callers : Reached(mem', root', v) = IF v < a' THEN v ELSE None
BY WalkOfMem DEF TLBCoherent, WalkerReaches

\* The root's allocation keeps the invariant.
LEMMA RootKeeps == ASSUME IInv, vmm_init_identity PROVE IInv'
<1>1. /\ root' \in pool /\ root' # 0 /\ Leveled' /\ mem' \in Contents /\ free' \subseteq pool
      /\ \A w \in Pages : Reached(mem', root', w) = None
  BY RootStep DEF IInv
<1>2. UNCHANGED <<pool, a, cr3, tlb, last, fault>> /\ a = 0 /\ cr3 = 0 /\ ~fault
      /\ \A v \in Callers : tlb[v] = None
  BY DEF vmm_init_identity, IInv, Rooted
<1>3. TypeOK'
  BY <1>1, <1>2 DEF IInv, TypeOK, Contents, Slots
<1>4. Rooted'
  BY <1>1, <1>2 DEF Rooted
<1>5. TLBCoherent'
  BY <1>2, WalkForm
<1>6. WalkerReaches'
  <2>1. \A v \in Frames : ~(v < a')
    BY <1>2 DEF Frames
  <2>. QED
    BY <1>1, <1>2, <2>1, PageRange, WalkForm
<1>. QED
  BY <1>3, <1>4, <1>5, <1>6 DEF IInv

\* A turn of the identity loop keeps the invariant and maps its page to itself.
LEMMA MapLowKeeps ==
  ASSUME IInv, MapLow
  PROVE  IInv' /\ last' = [page |-> a, frame |-> a, ret |-> 0] /\ a \in Pages /\ Wrote(a, a)
<1>1. /\ root # 0 /\ cr3 = 0 /\ a < Low /\ get_pte(a).at # 0 /\ free' = get_pte(a).free
      /\ mem' = [get_pte(a).mem EXCEPT ![get_pte(a).at] =
                   [@ EXCEPT ![Ix(a, 1)] = [frame |-> a, flags |-> {"P", "RW"}]]]
      /\ last' = [page |-> a, frame |-> a, ret |-> 0] /\ a' = a + 1
      /\ UNCHANGED <<pool, root, cr3, tlb, fault>>
  BY DEF MapLow
<1>2. a \in Frames /\ a \in Pages /\ a \in Nat /\ Low \in Nat
  BY <1>1, PageRange, VMMAssumption DEF IInv, TypeOK, Frames
<1>3. PICK e : e = [frame |-> a, flags |-> {"P", "RW"}] /\ e \in Entry /\ Present(e) /\ e.frame = a
  <2> DEFINE x == [frame |-> a, flags |-> {"P", "RW"}]
  <2>1. x \in Entry /\ Present(x) /\ x.frame = a
    BY <1>2 DEF Entry, FlagBits, Present
  <2> HIDE DEF x
  <2>2. \E e : e = x /\ e \in Entry /\ Present(e) /\ e.frame = a
    BY <2>1
  <2>. QED
    BY <2>2 DEF x
<1>4. Leveled' /\ mem' \in Contents /\ free' \subseteq pool /\ Wrote(a, a)
  <2>1. TypeOK /\ Rooted
    BY DEF IInv
  <2>2. mem' = OverLeaf(get_pte(a).mem, get_pte(a).at, Ix(a, 1), e)
    BY <1>1, <1>3 DEF OverLeaf
  <2>3. PICK p \in Pages : p = a
    BY <1>2, SMTT(20)
  <2>4. /\ Leveled' /\ mem' \in Contents /\ free' \subseteq pool
        /\ Wrote(p, IF Present(e) THEN e.frame ELSE None)
    <3>1. /\ free' = get_pte(p).free /\ get_pte(p).at # 0
          /\ mem' = OverLeaf(get_pte(p).mem, get_pte(p).at, Ix(p, 1), e)
      BY <1>1, <2>2, <2>3, Zenon
    <3>2. root # 0 /\ root' = root /\ pool' = pool /\ e \in Entry
      BY <1>1, <1>3
    <3>. QED
      BY ONLY <2>1, <3>1, <3>2, p \in Pages, CreateStep
  <2>. QED
    BY <1>3, <2>3, <2>4
<1>5. ~fault' /\ \A v \in Callers : tlb'[v] = None
  BY <1>1 DEF IInv, Rooted
<1>6. TypeOK'
  <2>1. last' \in [page : Pages, frame : Phys \cup Frames \cup {None}, ret : -2..0] /\ a' \in 0..Low
    <3>1. 0 \in -2..0
      OBVIOUS
    <3>2. last' \in [page : Pages, frame : Phys \cup Frames \cup {None}, ret : -2..0]
      BY <1>1, <1>2, <3>1, Zenon
    <3>3. a' \in 0..Low
      BY <1>1, <1>2
    <3>. QED
      BY <3>2, <3>3
  <2>. QED
    BY <1>1, <1>4, <2>1 DEF IInv, TypeOK, Contents, Slots
<1>7. Rooted'
  BY <1>1, <1>4, <1>5 DEF Rooted
<1>8. TLBCoherent'
  BY <1>5, WalkForm
<1>9. WalkerReaches'
  <2>1. ASSUME NEW v \in Frames \ Callers
        PROVE  Reached(mem', root', v) = IF v < a' THEN v ELSE None
    <3>1. v \in Pages /\ v \in Nat
      BY PageRange
    <3>2. Reached(mem', root', v) = IF v = a THEN a ELSE Reached(mem, root, v)
      BY <1>4, <3>1 DEF Wrote
    <3>3. Reached(mem, root, v) = IF v < a THEN v ELSE None
      BY <1>1, WalkForm DEF IInv
    <3>. QED
      BY <1>1, <1>2, <3>1, <3>2, <3>3
  <2>. QED
    BY <1>5, <2>1, WalkForm
<1>. QED
  BY <1>1, <1>2, <1>4, <1>6, <1>7, <1>8, <1>9 DEF IInv

\* Loading CR3, at the loop's end or early, keeps the invariant and every page.
LEMMA LoadKeeps == ASSUME IInv, vmm_load_cr3 PROVE IInv' /\ Same /\ UNCHANGED last
<1>1. /\ root # 0 /\ cr3 = 0 /\ cr3' = root
      /\ UNCHANGED <<pool, root, a, tlb, last, fault>>
  BY DEF vmm_load_cr3
<1>2. Leveled' /\ mem' \in Contents /\ free' \subseteq pool /\ Same
  <2>1. TypeOK /\ Rooted
    BY DEF IInv
  <2>2. CASE UNCHANGED <<mem, free>>
    <3>1. Leveled'
      BY <1>1, <2>1, <2>2 DEF Rooted, Leveled
    <3>. QED
      BY <1>1, <2>1, <2>2, <3>1 DEF Same, TypeOK, Contents, Slots
  <2>3. CASE a < Low /\ mem' = get_pte(a).mem /\ free' = get_pte(a).free
    <3>1. a \in Pages
      BY <2>1, <2>3, PageRange, VMMAssumption DEF TypeOK, Frames
    <3>2. PICK p \in Pages : p = a
      BY <3>1
    <3>3. mem' = get_pte(p).mem /\ free' = get_pte(p).free
      BY <2>3, <3>2
    <3>. QED
      BY <1>1, <2>1, <3>3, CreateStep
  <2>. QED
    BY <2>2, <2>3 DEF vmm_load_cr3
<1>3. TypeOK'
  BY <1>1, <1>2 DEF IInv, TypeOK, Contents, Slots
<1>4. Rooted'
  BY <1>1, <1>2 DEF Rooted
<1>5. TLBCoherent'
  BY <1>1, <1>2, PageRange, WalkForm DEF IInv, Same
<1>6. WalkerReaches'
  BY <1>1, <1>2, PageRange, WalkForm DEF IInv, Same
<1>. QED
  BY <1>1, <1>2, <1>3, <1>4, <1>5, <1>6 DEF IInv

\* A translation that the processor caches is the current one.
LEMMA AccessKeeps ==
  ASSUME IInv, NEW v \in Callers, Access(v)
  PROVE  IInv' /\ UNCHANGED <<mem, root, last>>
<1>1. /\ cr3 # 0 /\ tlb' = [tlb EXCEPT ![v] = Reached(mem, root, v)]
      /\ UNCHANGED <<mem, pool, free, root, a, cr3, last, fault>>
  BY WalkOfMem, Zenon DEF Access
<1>2. Reached(mem, root, v) \in Phys \cup Frames \cup {None}
  BY PageRange, ReachedType DEF IInv
<1>3. tlb \in [Callers -> Phys \cup Frames \cup {None}]
  BY DEF IInv, TypeOK
<1>4. TypeOK'
  <2>1. tlb' \in [Callers -> Phys \cup Frames \cup {None}]
    BY <1>1, <1>2, <1>3
  <2>. QED
    BY <1>1, <2>1 DEF IInv, TypeOK
<1>5. Rooted'
  <2>1. Rooted
    BY DEF IInv
  <2>. QED
    BY <1>1, <2>1, Zenon DEF Rooted, Leveled
<1>6. TLBCoherent'
  BY <1>1, <1>3, WalkForm, SMTT(20) DEF IInv
<1>7. WalkerReaches'
  BY <1>1, WalkForm DEF IInv
<1>. QED
  BY <1>1, <1>4, <1>5, <1>6, <1>7 DEF IInv

\* A fault stops the machine with the tables as they were.
LEMMA FaultKeeps ==
  ASSUME IInv, cr3 # 0, NEW v \in Callers, CreateFaults(v) \/ LookupFaults(v),
         fault' = TRUE, UNCHANGED <<mem, pool, free, root, a, cr3, tlb, last>>
  PROVE  IInv'
<1>1. root # 0
  BY DEF IInv, TypeOK
<1>2. ~(pool \subseteq 0..(a - 1))
  BY <1>1, NoFault
<1>3. TypeOK' /\ Rooted'
  BY DEF IInv, TypeOK, Rooted, Leveled
<1>4. TLBCoherent' /\ WalkerReaches'
  BY <1>2, WalkForm DEF IInv
<1>. QED
  BY <1>3, <1>4 DEF IInv

\* A call that leaves every page as it was, and one that changes page v.
LEMMA CallKeeps ==
  ASSUME IInv, cr3 # 0, NEW v \in Callers, Leveled', mem' \in Contents, free' \subseteq pool,
         last' \in [page : Pages, frame : Phys \cup Frames \cup {None}, ret : -2..0],
         UNCHANGED <<pool, root, a, cr3, fault>>,
         \/ Same /\ UNCHANGED tlb
         \/ \E f : Wrote(v, f) /\ tlb' = [tlb EXCEPT ![v] = None]
  PROVE  IInv'
<1>1. tlb \in [Callers -> Phys \cup Frames \cup {None}]
  BY DEF IInv, TypeOK
<1>2. TypeOK'
  <2>1. tlb' \in [Callers -> Phys \cup Frames \cup {None}]
    BY <1>1
  <2>. QED
    BY <2>1 DEF IInv, TypeOK, Contents, Slots
<1>3. Rooted'
  BY DEF IInv, Rooted, TypeOK
<1>4. \A w \in Pages : w # v => Reached(mem', root', w) = Reached(mem, root, w)
  BY DEF Same, Wrote
<1>5. tlb'[v] = None \/ (tlb'[v] = tlb[v] /\ Reached(mem', root', v) = Reached(mem, root, v))
  BY <1>1, PageRange DEF Same
<1>6. \A w \in Callers : w # v => tlb'[w] = tlb[w]
  BY <1>1
<1>7. TLBCoherent'
  BY <1>4, <1>5, <1>6, PageRange, WalkForm DEF IInv
<1>8. WalkerReaches'
  BY <1>4, PageRange, WalkForm DEF IInv
<1>. QED
  BY <1>2, <1>3, <1>7, <1>8 DEF IInv

\* What a call does to where pages lead: nothing when it fails or faults, and
\* what its answer says when it succeeds.
Answered ==
  \/ Same /\ (UNCHANGED last \/ last'.ret # 0)
  \/ last'.ret = 0 /\ last'.page \in Pages /\ Wrote(last'.page, last'.frame)

\* vmm_map_page keeps the invariant and does what it answers.
LEMMA MapKeeps ==
  ASSUME IInv, NEW v \in Callers, NEW phys \in Phys, NEW flags \in Flags,
         vmm_map_page(v, phys, flags)
  PROVE  IInv' /\ Answered
<1> DEFINE m == get_pte(v)
           pte == [frame |-> phys, flags |-> flags \ {"PS"}]
<1>1. cr3 # 0 /\ UNCHANGED <<pool, root, a, cr3>> /\ v \in Pages /\ TypeOK /\ Rooted
  BY PageRange DEF vmm_map_page, IInv
<1>2. root # 0
  BY <1>1 DEF TypeOK
<1>3. pte \in Entry /\ pte.frame = phys
  <2>1. flags \ {"PS"} \in SUBSET FlagBits
    BY VMMAssumption
  <2>. QED
    BY <2>1 DEF Entry
<1>4. CASE CreateFaults(v) /\ fault' = TRUE /\ UNCHANGED <<mem, free, tlb, last>>
  <2>1. IInv'
    BY <1>1, <1>4, FaultKeeps
  <2>. QED
    BY <1>1, <1>4, <2>1 DEF Answered, Same
<1>5. CASE /\ free' = m.free /\ mem' = m.mem /\ m.at = 0
           /\ Reply(v, phys, -2) /\ UNCHANGED <<tlb, fault>>
  <2>1. Leveled' /\ Same /\ mem' \in Contents /\ free' \subseteq pool
    BY <1>1, <1>2, <1>5, CreateStep, Zenon
  <2>2. last' = [page |-> v, frame |-> phys, ret |-> -2]
    BY <1>5 DEF Reply
  <2>3. /\ last' \in [page : Pages, frame : Phys \cup Frames \cup {None}, ret : -2..0]
        /\ last'.ret # 0
    BY <1>1, <2>2, SMTT(20)
  <2>4. IInv'
    BY <1>1, <1>5, <2>1, <2>3, CallKeeps
  <2>. QED
    BY <2>1, <2>3, <2>4, SMTT(20) DEF Answered
<1>6. CASE /\ free' = m.free /\ m.at # 0
           /\ mem' = [m.mem EXCEPT ![m.at] = [@ EXCEPT ![Ix(v, 1)] = pte]]
           /\ Reply(v, IF Present(pte) THEN phys ELSE None, 0)
           /\ tlb' = [tlb EXCEPT ![v] = None] /\ UNCHANGED fault
  <2> DEFINE f == IF Present(pte) THEN phys ELSE None
  <2>1. Leveled' /\ mem' \in Contents /\ free' \subseteq pool /\ Wrote(v, f)
    <3>1. Leveled' /\ mem' \in Contents /\ free' \subseteq pool
          /\ Wrote(v, IF Present(pte) THEN pte.frame ELSE None)
      <4>1. free' = m.free /\ m.at # 0 /\ mem' = OverLeaf(m.mem, m.at, Ix(v, 1), pte)
        <5>1. /\ free' = m.free /\ m.at # 0
              /\ mem' = [m.mem EXCEPT ![m.at] = [@ EXCEPT ![Ix(v, 1)] = pte]]
          BY <1>6, Zenon
        <5> HIDE DEF m, pte
        <5>. QED
          BY <5>1, Zenon DEF OverLeaf
      <4> HIDE DEF pte
      <4>. QED
        BY <1>1, <1>2, <1>3, <4>1, CreateStep, ZenonT(30)
    <3>. QED
      BY <1>3, <3>1, SMTT(20)
  <2>2. last' = [page |-> v, frame |-> f, ret |-> 0] /\ f \in Phys \cup {None}
    BY <1>6, Zenon DEF Reply
  <2> HIDE DEF f
  <2>3. /\ last' \in [page : Pages, frame : Phys \cup Frames \cup {None}, ret : -2..0]
        /\ last'.ret = 0 /\ last'.page = v /\ last'.frame = f
    BY <1>1, <2>2
  <2>4. IInv'
    BY <1>1, <1>6, <2>1, <2>3, CallKeeps, Zenon
  <2>. QED
    BY <1>1, <2>1, <2>3, <2>4 DEF Answered
<1>. QED
  BY <1>4, <1>5, <1>6, Zenon DEF vmm_map_page

\* vmm_unmap_page keeps the invariant and does what it answers.
LEMMA UnmapKeeps ==
  ASSUME IInv, NEW v \in Callers, vmm_unmap_page(v)
  PROVE  IInv' /\ Answered
<1>1. /\ cr3 # 0 /\ UNCHANGED <<pool, free, root, a, cr3>> /\ v \in Pages /\ TypeOK /\ Rooted
      /\ free \subseteq pool
  BY PageRange DEF vmm_unmap_page, IInv, TypeOK
<1>2. root # 0
  BY <1>1 DEF TypeOK
<1>3. CASE LookupFaults(v) /\ fault' = TRUE /\ UNCHANGED <<mem, tlb, last>>
  <2>1. IInv'
    BY <1>1, <1>3, FaultKeeps
  <2>. QED
    BY <1>1, <1>3, <2>1 DEF Answered, Same
<1>4. CASE Reply(v, None, -2) /\ UNCHANGED <<mem, tlb, fault>>
  <2>1. Leveled' /\ Same /\ mem' \in Contents
    BY <1>1, <1>2, <1>4 DEF Rooted, Leveled, Same, TypeOK, Contents, Slots
  <2>2. /\ last' \in [page : Pages, frame : Phys \cup Frames \cup {None}, ret : -2..0]
        /\ last'.ret # 0
    BY <1>1, <1>4 DEF Reply
  <2>3. IInv'
    BY <1>1, <1>4, <2>1, <2>2, CallKeeps
  <2>. QED
    BY <2>1, <2>2, <2>3 DEF Answered
<1>5. CASE /\ Lookup(v) # 0
           /\ mem' = [mem EXCEPT ![Lookup(v)] = [@ EXCEPT ![Ix(v, 1)] = Absent]]
           /\ Reply(v, None, 0) /\ tlb' = [tlb EXCEPT ![v] = None] /\ UNCHANGED fault
  <2>1. Leveled' /\ mem' \in Contents /\ Wrote(v, None)
    BY <1>1, <1>2, <1>5, ClearStep, Zenon
  <2>2. /\ last' \in [page : Pages, frame : Phys \cup Frames \cup {None}, ret : -2..0]
        /\ last'.ret = 0 /\ last'.page = v /\ last'.frame = None
    BY <1>1, <1>5 DEF Reply
  <2>3. IInv'
    BY <1>1, <1>5, <2>1, <2>2, CallKeeps, Zenon
  <2>. QED
    BY <1>1, <2>1, <2>2, <2>3 DEF Answered
<1>. QED
  BY <1>3, <1>4, <1>5, Zenon DEF vmm_unmap_page

\* A call without tables fails and changes nothing.
LEMMA NoMapKeeps == ASSUME IInv, NEW v \in Callers, NoMap(v) PROVE IInv' /\ Answered
<1>1. UNCHANGED <<mem, pool, free, root, a, cr3, tlb, fault>> /\ v \in Pages
      /\ last' = [page |-> v, frame |-> None, ret |-> -1]
  BY PageRange DEF NoMap, Reply
<1>2. last' \in [page : Pages, frame : Phys \cup Frames \cup {None}, ret : -2..0] /\ last'.ret # 0
  BY <1>1
<1>3. TypeOK' /\ Rooted'
  BY <1>1, <1>2 DEF IInv, TypeOK, Rooted, Leveled
<1>4. TLBCoherent' /\ WalkerReaches'
  BY <1>1, WalkForm DEF IInv
<1>. QED
  BY <1>1, <1>2, <1>3, <1>4 DEF IInv, Answered, Same

\* A halted machine stays as it is.
LEMMA StutterKeeps == ASSUME IInv, UNCHANGED vars PROVE IInv' /\ Same /\ UNCHANGED last
<1>1. UNCHANGED <<mem, pool, free, root, a, cr3, tlb, last, fault>>
  BY DEF vars
<1>2. TypeOK' /\ Rooted'
  BY <1>1 DEF IInv, TypeOK, Rooted, Leveled
<1>3. TLBCoherent' /\ WalkerReaches'
  BY <1>1, WalkForm DEF IInv
<1>. QED
  BY <1>1, <1>2, <1>3 DEF IInv, Same

\* Every step keeps the invariant and does to the pages what its answer says;
\* the root appears while no page leads anywhere.
LEMMA VMMStep ==
  ASSUME IInv, [Next]_vars
  PROVE  /\ IInv'
         /\ \/ Answered
            \/ UNCHANGED last /\ \A w \in Pages : Reached(mem', root', w) = Reached(mem, root, w)
<1>1. CASE UNCHANGED vars
  BY <1>1, StutterKeeps DEF Same
<1>2. CASE Down
  BY <1>2, StutterKeeps DEF Down, Same
<1>3. CASE vmm_init_identity
  <2>1. IInv' /\ UNCHANGED last /\ root = 0
    BY <1>3, RootKeeps DEF vmm_init_identity
  <2>2. \A w \in Pages : Reached(mem', root', w) = None
    BY <1>3, RootStep, SMTT(20) DEF IInv
  <2>3. \A w \in Pages : Reached(mem, root, w) = None
    BY <2>1, Zenon DEF Reached, Table1, Table2, Table3, Through
  <2>. QED
    BY <2>1, <2>2, <2>3
<1>4. CASE MapLow
  <2>1. IInv' /\ last' = [page |-> a, frame |-> a, ret |-> 0] /\ a \in Pages /\ Wrote(a, a)
    BY <1>4, MapLowKeeps
  <2>. QED
    BY <2>1 DEF Answered
<1>5. CASE vmm_load_cr3
  BY <1>5, LoadKeeps DEF Same
<1>6. CASE \E v \in Callers :
             \/ Access(v) \/ vmm_unmap_page(v) \/ NoMap(v)
             \/ \E p \in Phys, fl \in Flags : vmm_map_page(v, p, fl)
  <2>1. PICK v \in Callers :
             \/ Access(v) \/ vmm_unmap_page(v) \/ NoMap(v)
             \/ \E p \in Phys, fl \in Flags : vmm_map_page(v, p, fl)
    BY <1>6
  <2>2. CASE Access(v)
    BY <2>2, AccessKeeps
  <2>3. CASE vmm_unmap_page(v)
    BY <2>3, UnmapKeeps
  <2>4. CASE NoMap(v)
    BY <2>4, NoMapKeeps
  <2>5. CASE \E p \in Phys, fl \in Flags : vmm_map_page(v, p, fl)
    BY <2>5, MapKeeps
  <2>. QED
    BY <2>1, <2>2, <2>3, <2>4, <2>5
<1>. QED
  BY <1>1, <1>2, <1>3, <1>4, <1>5, <1>6 DEF Next

\* The invariant holds in every reachable state.
LEMMA VMMInvariant == Spec => []IInv
<1>1. IInv /\ [Next]_vars => IInv'
  BY VMMStep
<1>. QED
  BY <1>1, VMMInit, PTL DEF Spec

-----------------------------------------------------------------------------
(* The tree, from the levels. *)

\* The frames that entries of a set of tables lead to.
LEMMA LinkedBy ==
  ASSUME NEW T, NEW f
  PROVE  f \in Linked(T) <=> \E t \in T, i \in Slots : Present(mem[t][i]) /\ mem[t][i].frame = f
<1>1. ASSUME f \in Linked(T)
      PROVE  \E t \in T, i \in Slots : Present(mem[t][i]) /\ mem[t][i].frame = f
  <2>1. PICK x \in T \X Slots : Present(mem[x[1]][x[2]]) /\ mem[x[1]][x[2]].frame = f
    BY <1>1 DEF Linked, Slots
  <2>. QED
    BY <2>1
<1>2. ASSUME NEW t \in T, NEW i \in Slots, Present(mem[t][i]), mem[t][i].frame = f
      PROVE  f \in Linked(T)
  <2> DEFINE x == <<t, i>>
  <2>1. x \in T \X Slots /\ x[1] = t /\ x[2] = i
    OBVIOUS
  <2> HIDE DEF x
  <2>. QED
    BY <1>2, <2>1 DEF Linked, Slots
<1>. QED
  BY <1>1, <1>2

\* The tables above the last level are those of level 2 and up, and the tables
\* are the frames that were taken.
LEMMA TablesAreTaken ==
  ASSUME NEW lev, Levels(mem, free, root, pool, lev)
  PROVE  Upper = {f \in Frames : lev[f] >= 2} /\ Tables = pool \ free
<1> DEFINE L(k) == {f \in Frames : lev[f] = k}
<1>1. lev \in [Frames -> 0..4]
  BY DEF Levels, Graded
<1>2. ASSUME NEW k \in 2..4 PROVE Linked(L(k)) = L(k - 1)
  <2>1. ASSUME NEW f \in Linked(L(k)) PROVE f \in L(k - 1)
    <3>1. PICK t \in L(k), i \in Slots : Present(mem[t][i]) /\ mem[t][i].frame = f
      BY <2>1, LinkedBy, SMTT(20)
    <3>2. t \in Frames /\ lev[t] = k /\ lev[t] >= 2
      <4>1. t \in Frames /\ lev[t] = k
        BY <3>1, Zenon
      <4>2. k >= 2
        BY <1>2
      <4>. QED
        BY <4>1, <4>2, Zenon
    <3>. QED
      BY <3>1, <3>2 DEF Levels, LeadsDown
  <2>2. ASSUME NEW f \in L(k - 1) PROVE f \in Linked(L(k))
    <3>0. k - 1 \in 1..3
      BY <1>2
    <3>1. f \in Frames /\ lev[f] = k - 1 /\ lev[f] \in 1..3
      BY <2>2, <3>0, Zenon
    <3>2. PICK t \in Frames, i \in Slots :
             lev[t] = lev[f] + 1 /\ Present(mem[t][i]) /\ mem[t][i].frame = f
      BY <3>1, Zenon DEF Levels, LedTo
    <3>3. t \in L(k)
      <4>1. (k - 1) + 1 = k
        BY <1>2
      <4>. QED
        BY <3>1, <3>2, <4>1, Zenon
    <3>. QED
      BY <3>2, <3>3, LinkedBy, Zenon
  <2>. QED
    BY <2>1, <2>2, SMTT(20)
<1>3. {root} = L(4) /\ root # 0
  BY VMMAssumption DEF Levels, Graded, Frames
<1>4. Linked({root}) = L(3) /\ Linked(L(3)) = L(2) /\ Linked(L(2)) = L(1) /\ Linked(L(4)) = L(3)
  BY <1>2, <1>3
<1>5. Upper = L(4) \cup L(3) \cup L(2)
  BY <1>3, <1>4 DEF Upper
<1> HIDE DEF L
<1>6. \A f : f \in Linked(Upper) <=> f \in L(3) \cup L(2) \cup L(1)
  <2>1. \A f : f \in Linked(Upper) <=> f \in Linked(L(4)) \/ f \in Linked(L(3)) \/ f \in Linked(L(2))
    BY <1>5, LinkedBy
  <2>. QED
    BY <1>4, <2>1
<1>7. \A f : f \in Tables <=> f \in L(4) \cup L(3) \cup L(2) \cup L(1)
  BY <1>3, <1>5, <1>6 DEF Tables
<1>8. \A f : f \in Tables <=> f \in Frames /\ lev[f] # 0
  BY <1>1, <1>7 DEF L
<1>9. pool \subseteq Frames /\ \A f \in Frames : lev[f] # 0 <=> f \in pool \ free
  BY VMMAssumption DEF Levels, Graded, Frames
<1>10. Tables = pool \ free
  BY <1>8, <1>9
<1>11. Upper = {f \in Frames : lev[f] >= 2}
  BY <1>1, <1>5 DEF L
<1>. QED
  BY <1>10, <1>11

\* The inductive invariant gives the tree.
LEMMA TreeFromLevels == IInv => Tree
<1> SUFFICES ASSUME IInv PROVE Tree
  OBVIOUS
<1>1. TypeOK /\ free \subseteq pool
  BY DEF IInv, TypeOK
<1>2. CASE root = 0
  BY <1>1, <1>2 DEF IInv, Rooted, Tree, Tables
<1>3. CASE root # 0
  <2>1. PICK lev : Levels(mem, free, root, pool, lev)
    BY <1>3 DEF IInv, Rooted, Leveled
  <2>2. Upper = {f \in Frames : lev[f] >= 2} /\ Tables = pool \ free
    BY <2>1, TablesAreTaken, SMTT(20)
  <2>3. \A t, u \in Upper, i, j \in Slots :
          Present(mem[t][i]) /\ Present(mem[u][j]) /\ mem[t][i].frame = mem[u][j].frame
            => t = u /\ i = j
    <3>1. OneEntry(mem, lev)
      BY <2>1, Zenon DEF Levels
    <3>2. \A t \in Upper : t \in Frames /\ lev[t] >= 2
      BY <2>2, Zenon
    <3>. QED
      BY <3>1, <3>2, Zenon DEF OneEntry
  <2>4. ASSUME NEW t \in Upper, NEW i \in Slots, Present(mem[t][i]) PROVE mem[t][i].frame # root
    <3>1. t \in Frames /\ lev[t] >= 2 /\ lev[t] \in 0..4 /\ lev[mem[t][i].frame] = lev[t] - 1
      <4>1. Graded(mem, free, root, pool, lev) /\ LeadsDown(mem, lev)
        BY <2>1, Zenon DEF Levels
      <4>2. t \in Frames /\ lev[t] >= 2
        BY <2>2, Zenon
      <4>. QED
        BY <4>1, <4>2, <2>4 DEF Graded, LeadsDown
    <3>2. root \in Frames /\ lev[root] = 4
      BY <2>1, PageRange, WalkLevels, 0 \in Nat
    <3>. QED
      BY <3>1, <3>2
  <2>5. free \cap Tables = {} /\ free \cup Tables = pool
    BY <1>1, <2>2
  <2>. QED
    BY <1>1, <2>3, <2>4, <2>5 DEF Tree, Slots
<1>. QED
  BY <1>2, <1>3

-----------------------------------------------------------------------------
(* The theorems. *)

(* The tables stay a tree made of exactly the frames taken from the        *)
(* physical memory manager, through every map, unmap and failed get_pte.   *)
THEOREM VMMTree == Spec => []Tree
BY VMMInvariant, TreeFromLevels, PTL

(* No cached translation is stale.                                         *)
THEOREM VMMTLBCoherent == Spec => []TLBCoherent
<1>1. IInv => TLBCoherent
  BY DEF IInv
<1>. QED
  BY <1>1, VMMInvariant, PTL

(* The identity map reaches as far as its loop got, and no call faults     *)
(* when that covers the frames tables are made of.                         *)
THEOREM VMMWalkerReaches == Spec => []WalkerReaches
<1>1. IInv => WalkerReaches
  BY DEF IInv
<1>. QED
  BY <1>1, VMMInvariant, PTL

(* The four levels implement the flat address space: a call changes the    *)
(* page it names, as answered, and no other.                               *)
THEOREM VMMImplementsAddressSpace == Spec => ImplementsAddressSpace
<1> DEFINE map == [v \in Pages |-> vmm_virt_to_phys(v)]
<1>1. Init => Space!AInit
  <2>1. ASSUME Init PROVE \A v \in Pages : vmm_virt_to_phys(v) = None
    BY <2>1, Zenon DEF Init, vmm_virt_to_phys, Lookup, Follow
  <2>. QED
    BY <2>1, SMTT(20) DEF Space!AInit
<1>2. ASSUME IInv, [Next]_vars PROVE [Space!ANext]_(Space!avars)
  <2>1. \/ Answered
        \/ UNCHANGED last /\ \A w \in Pages : Reached(mem', root', w) = Reached(mem, root, w)
    BY <1>2, VMMStep
  <2>2. ASSUME \A w \in Pages : Reached(mem', root', w) = Reached(mem, root, w)
        PROVE  map' = map
    BY <2>2, WalkOfMem
  <2>3. ASSUME NEW p \in Pages, NEW f, Wrote(p, f)
        PROVE  map' = [map EXCEPT ![p] = f]
    <3>1. \A w \in Pages : vmm_virt_to_phys(w)' = IF w = p THEN f ELSE vmm_virt_to_phys(w)
      BY <2>3, WalkOfMem DEF Wrote
    <3>. QED
      BY <3>1, Zenon
  <2>4. CASE UNCHANGED last /\ \A w \in Pages : Reached(mem', root', w) = Reached(mem, root, w)
    BY <2>2, <2>4 DEF Space!avars
  <2>5. CASE Same /\ (UNCHANGED last \/ last'.ret # 0)
    <3>1. map' = map
      BY <2>2, <2>5 DEF Same
    <3>. QED
      BY <2>5, <3>1 DEF Space!avars, Space!ANext, Space!AFail
  <2>6. CASE last'.ret = 0 /\ last'.page \in Pages /\ Wrote(last'.page, last'.frame)
    <3>1. map' = [map EXCEPT ![last'.page] = last'.frame]
      BY <2>3, <2>6
    <3>. QED
      BY <2>6, <3>1 DEF Space!ANext, Space!ADone
  <2>. QED
    BY <2>1, <2>4, <2>5, <2>6 DEF Answered
<1>. QED
  BY <1>1, <1>2, VMMInvariant, PTL DEF Spec, ImplementsAddressSpace, Space!ASpec
=============================================================================
