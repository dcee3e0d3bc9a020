-------------------------------- MODULE VMM ---------------------------------
(***************************************************************************)
(* The virtual memory manager, src/kernel/mm/vmm.c: four-level page tables *)
(* held in frames of the physical memory manager, the identity map that    *)
(* vmm_init_identity builds page by page, and the map, unmap and translate *)
(* calls.  Tables are read and written at their physical address taken as  *)
(* a pointer, so once CR3 is loaded every access goes through the tables   *)
(* themselves.  Page and frame numbers are addresses over PAGE_SIZE.       *)
(***************************************************************************)
EXTENDS Integers

CONSTANTS Fan,        \* entries of a table: 512
          Low,        \* pages of the identity map: 4 GiB
          FreeSets,   \* what kmain64's reservations may have left free
          Callers,    \* pages that callers map and unmap
          Phys,       \* frames that callers map them to, devices included
          Flags       \* flag sets that callers pass

Pages == 0..(Fan * Fan * Fan * Fan - 1)
Frames == 0..(Low - 1)
FlagBits == {"P", "RW", "PS"}

(* pmm_init keeps frames below the clamp of 4 GiB and reserves frame 0.    *)
(* Callers leave the identity map of allocatable frames alone.             *)
ASSUME VMMAssumption ==
  /\ Fan \in Nat \ {0} /\ Low \in Nat /\ Low <= Fan * Fan * Fan * Fan
  /\ FreeSets \subseteq SUBSET (1..(Low - 1))
  /\ Callers \subseteq Pages
  /\ \A f \in FreeSets : Callers \cap f = {}
  /\ Phys \subseteq Nat /\ Flags \subseteq SUBSET FlagBits

VARIABLES mem,     \* contents of the frames, as tables
          pool,    \* frames that were free when paging was set up
          free,    \* frames the physical memory manager holds free
          root,    \* the PML4 under construction or in use, 0 for none
          a,       \* the page vmm_init_identity is at
          cr3,     \* g_cr3_phys: 0 until it is loaded, the loader's map till then
          tlb,     \* translations the processor holds
          last,    \* the last call: page, frame asked for, result
          fault    \* an access to a table went to an unmapped page

vars == <<mem, pool, free, root, a, cr3, tlb, last, fault>>

None == -1
Absent == [frame |-> 0, flags |-> {}]
Zeroed == [i \in 0..(Fan - 1) |-> Absent]
Entry == [frame : Frames \cup Phys, flags : SUBSET FlagBits]

(* Mutant: the page directory is indexed with the bits of the level above. *)
Ix_PdShift(v, k) ==
  CASE k = 1 -> v % Fan
    [] k = 2 -> ((v \div Fan) \div Fan) % Fan
    [] k = 3 -> ((v \div Fan) \div Fan) % Fan
    [] k = 4 -> (((v \div Fan) \div Fan) \div Fan) % Fan

(* idx_pt, idx_pd, idx_pdp, idx_pml4 for k = 1..4 *)
Ix(v, k) ==
  CASE k = 1 -> v % Fan
    [] k = 2 -> (v \div Fan) % Fan
    [] k = 3 -> ((v \div Fan) \div Fan) % Fan
    [] k = 4 -> (((v \div Fan) \div Fan) \div Fan) % Fan

Present(e) == "P" \in e.flags
pmm_alloc_frames(fr) == CHOOSE n \in fr : \A k \in fr : n <= k

(* get_pte without create: the page table of v, or 0 for NULL. *)
Follow(t, i) == IF t # 0 /\ Present(mem[t][i]) THEN mem[t][i].frame ELSE 0
Lookup(v) == Follow(Follow(Follow(root, Ix(v, 4)), Ix(v, 3)), Ix(v, 2))

(* Mutant: a new table is linked as it was found. *)
Descend_NotZeroed(m, i) ==
  LET n == pmm_alloc_frames(m.free)
  IN  IF m.at = 0 THEN m
      ELSE IF Present(m.mem[m.at][i]) THEN [m EXCEPT !.at = m.mem[m.at][i].frame]
      ELSE IF m.free = {} THEN [m EXCEPT !.at = 0]
      ELSE [mem |-> [m.mem EXCEPT ![m.at] = [@ EXCEPT ![i] = [frame |-> n, flags |-> {"P", "RW"}]]],
            free |-> m.free \ {n}, at |-> n]

(* One level of get_pte with create: from table m.at through entry i, to a *)
(* new zeroed table if there is none; at = 0 for NULL.                     *)
Descend(m, i) ==
  LET n == pmm_alloc_frames(m.free)
  IN  IF m.at = 0 THEN m
      ELSE IF Present(m.mem[m.at][i]) THEN [m EXCEPT !.at = m.mem[m.at][i].frame]
      ELSE IF m.free = {} THEN [m EXCEPT !.at = 0]
      ELSE [mem |-> [m.mem EXCEPT ![n] = Zeroed,
                                  ![m.at] = [@ EXCEPT ![i] = [frame |-> n, flags |-> {"P", "RW"}]]],
            free |-> m.free \ {n}, at |-> n]

At4 == [mem |-> mem, free |-> free, at |-> root]
At3(v) == Descend(At4, Ix(v, 4))
At2(v) == Descend(At3(v), Ix(v, 3))
get_pte(v) == Descend(At2(v), Ix(v, 2))

(* The translation of v, as the processor sees it too. *)
vmm_virt_to_phys(v) ==
  LET t == Lookup(v)
  IN  IF t # 0 /\ Present(mem[t][Ix(v, 1)]) THEN mem[t][Ix(v, 1)].frame ELSE None

(* A walk touches a table whose own address does not lead to it. *)
Unmapped(t) == t # 0 /\ vmm_virt_to_phys(t) # t
LookupFaults(v) ==
  LET t3 == Follow(root, Ix(v, 4))
      t2 == Follow(t3, Ix(v, 3))
  IN  \E t \in {root, t3, t2, Lookup(v)} : Unmapped(t)
CreateFaults(v) == \E t \in {root, At3(v).at, At2(v).at, get_pte(v).at} : Unmapped(t)

-----------------------------------------------------------------------------
(* Free frames hold whatever was left in them. *)
Junk == [i \in 0..(Fan - 1) |-> [frame |-> 0, flags |-> {"P"}]]

Init ==
  /\ mem = [f \in Frames |-> Junk]
  /\ pool \in FreeSets /\ free = pool
  /\ root = 0 /\ a = 0 /\ cr3 = 0
  /\ tlb = [v \in Callers |-> None]
  /\ last = [page |-> 0, frame |-> None, ret |-> 0]
  /\ fault = FALSE

(* The first allocation of vmm_init_identity. *)
vmm_init_identity ==
  /\ root = 0 /\ a = 0 /\ free # {}
  /\ LET n == pmm_alloc_frames(free)
     IN  root' = n /\ free' = free \ {n} /\ mem' = [mem EXCEPT ![n] = Zeroed]
  /\ UNCHANGED <<pool, a, cr3, tlb, last, fault>>

(* Mutant: a page that finds no table is skipped. *)
MapLow_Skips ==
  /\ root # 0 /\ cr3 = 0 /\ a < Low
  /\ LET m == get_pte(a)
         pte == [frame |-> a, flags |-> {"P", "RW"}]
     IN  /\ mem' = IF m.at = 0 THEN m.mem
                   ELSE [m.mem EXCEPT ![m.at] = [@ EXCEPT ![Ix(a, 1)] = pte]]
         /\ free' = m.free
  /\ last' = [page |-> a, frame |-> a, ret |-> 0]
  /\ a' = a + 1
  /\ UNCHANGED <<pool, root, cr3, tlb, fault>>

(* One turn of its loop; a missing table ends it early. *)
MapLow ==
  /\ root # 0 /\ cr3 = 0 /\ a < Low
  /\ LET m == get_pte(a)
         pte == [frame |-> a, flags |-> {"P", "RW"}]
     IN  /\ m.at # 0
         /\ mem' = [m.mem EXCEPT ![m.at] = [@ EXCEPT ![Ix(a, 1)] = pte]]
         /\ free' = m.free
  /\ last' = [page |-> a, frame |-> a, ret |-> 0]
  /\ a' = a + 1
  /\ UNCHANGED <<pool, root, cr3, tlb, fault>>

vmm_load_cr3 ==
  /\ root # 0 /\ cr3 = 0
  /\ \/ a = Low /\ UNCHANGED <<mem, free>>
     \/ LET m == get_pte(a)
        IN  a < Low /\ m.at = 0 /\ mem' = m.mem /\ free' = m.free
  /\ cr3' = root
  /\ UNCHANGED <<pool, root, a, tlb, last, fault>>

(* The processor caches a translation it used. *)
Access(v) ==
  /\ cr3 # 0 /\ ~fault
  /\ tlb[v] = None /\ vmm_virt_to_phys(v) # None
  /\ tlb' = [tlb EXCEPT ![v] = vmm_virt_to_phys(v)]
  /\ UNCHANGED <<mem, pool, free, root, a, cr3, last, fault>>

Reply(v, p, r) == last' = [page |-> v, frame |-> p, ret |-> r]

vmm_map_page(v, phys, flags) ==
  /\ cr3 # 0 /\ ~fault
  /\ LET m == get_pte(v)
         pte == [frame |-> phys, flags |-> flags \ {"PS"}]
     IN  IF CreateFaults(v) THEN fault' = TRUE /\ UNCHANGED <<mem, free, tlb, last>>
         ELSE /\ free' = m.free
              /\ IF m.at = 0 THEN mem' = m.mem /\ Reply(v, phys, -2) /\ UNCHANGED tlb
                 ELSE /\ mem' = [m.mem EXCEPT ![m.at] = [@ EXCEPT ![Ix(v, 1)] = pte]]
                      /\ Reply(v, IF Present(pte) THEN phys ELSE None, 0)
                      /\ tlb' = [tlb EXCEPT ![v] = None]
              /\ UNCHANGED fault
  /\ UNCHANGED <<pool, root, a, cr3>>

(* Mutant: no invlpg. *)
vmm_unmap_page_NoInvlpg(v) ==
  /\ cr3 # 0 /\ ~fault
  /\ LET t == Lookup(v)
     IN  IF t = 0 THEN Reply(v, None, -2) /\ UNCHANGED mem
         ELSE /\ mem' = [mem EXCEPT ![t] = [@ EXCEPT ![Ix(v, 1)] = Absent]]
              /\ Reply(v, None, 0)
  /\ UNCHANGED <<pool, free, root, a, cr3, tlb, fault>>

vmm_unmap_page(v) ==
  /\ cr3 # 0 /\ ~fault
  /\ LET t == Lookup(v)
     IN  IF LookupFaults(v) THEN fault' = TRUE /\ UNCHANGED <<mem, tlb, last>>
         ELSE /\ IF t = 0 THEN Reply(v, None, -2) /\ UNCHANGED <<mem, tlb>>
                 ELSE /\ mem' = [mem EXCEPT ![t] = [@ EXCEPT ![Ix(v, 1)] = Absent]]
                      /\ Reply(v, None, 0)
                      /\ tlb' = [tlb EXCEPT ![v] = None]
              /\ UNCHANGED fault
  /\ UNCHANGED <<pool, free, root, a, cr3>>

(* A call after vmm_init_identity found no frame at all. *)
NoMap(v) ==
  /\ root = 0 /\ free = {}
  /\ Reply(v, None, -1)
  /\ UNCHANGED <<mem, pool, free, root, a, cr3, tlb, fault>>

(* No interrupt table is ever loaded: the processor stops at a page fault. *)
Down == fault /\ UNCHANGED vars

Next ==
  \/ Down
  \/ vmm_init_identity \/ MapLow \/ vmm_load_cr3
  \/ \E v \in Callers :
       \/ Access(v) \/ vmm_unmap_page(v) \/ NoMap(v)
       \/ \E p \in Phys, fl \in Flags : vmm_map_page(v, p, fl)

Spec == Init /\ [][Next]_vars

-----------------------------------------------------------------------------
\* Type correctness of src/kernel/mm/vmm.c: every slot of every table frame holds an entry, and
\* the identity loop's position stays inside the range it maps.
TypeOK ==
  /\ mem \in [Frames -> [0..(Fan - 1) -> Entry]]
  /\ pool \in FreeSets /\ free \subseteq pool
  /\ root \in pool \cup {0} /\ cr3 \in {0, root} /\ a \in 0..Low
  /\ tlb \in [Callers -> Phys \cup Frames \cup {None}]
  /\ last \in [page : Pages, frame : Phys \cup Frames \cup {None}, ret : -2..0]
  /\ fault \in BOOLEAN

Linked(T) == {mem[x[1]][x[2]].frame :
                x \in {y \in T \X (0..(Fan - 1)) : Present(mem[y[1]][y[2]])}}
Upper == LET T3 == Linked({root}) IN {root} \cup T3 \cup Linked(T3)
Tables == IF root = 0 THEN {} ELSE Upper \cup Linked(Upper)

(* The tables are a tree of frames taken from the physical memory manager: *)
(* no two entries share a table, and every frame that was taken is in the  *)
(* tree, also after a get_pte that ran out of memory half way.  Every      *)
(* entry is a frame with its flags (TypeOK).                               *)
Tree ==
  /\ TypeOK
  /\ free \cap Tables = {} /\ free \cup Tables = pool
  /\ root # 0 =>
       \A t, u \in Upper, i, j \in 0..(Fan - 1) :
         /\ Present(mem[t][i]) /\ Present(mem[u][j]) /\ mem[t][i].frame = mem[u][j].frame
              => t = u /\ i = j
         /\ Present(mem[t][i]) => mem[t][i].frame # root

(* The processor never uses a translation the tables no longer hold: every *)
(* change of an entry invalidates the page.                                *)
TLBCoherent == \A v \in Callers : tlb[v] # None => tlb[v] = vmm_virt_to_phys(v)

(* The identity map reaches exactly as far as its loop got, and callers    *)
(* leave it so.  When it covers the frames tables are made of, whole or    *)
(* cut short, every table a walk visits or makes is mapped where get_pte   *)
(* looks for it, and no call faults.                                       *)
WalkerReaches ==
  /\ pool \subseteq 0..(a - 1) => ~fault
  /\ root # 0 => \A v \in Frames \ Callers : vmm_virt_to_phys(v) = IF v < a THEN v ELSE None

Space == INSTANCE AddressSpace WITH map <- [v \in Pages |-> vmm_virt_to_phys(v)]

(* The tables implement a flat map: a call changes the page it names, as   *)
(* asked, and no other, and a call that fails changes nothing.             *)
ImplementsAddressSpace == Space!ASpec

(* "Identity map 0 .. 4GiB-1" (src/kernel/mm/vmm.c:74): when CR3 is loaded *)
(* every low page leads to itself.                                         *)
IdentityComplete ==
  cr3 # 0 => \A v \in Frames \ Callers : vmm_virt_to_phys(v) = v
=============================================================================
