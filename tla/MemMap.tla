------------------------------- MODULE MemMap -------------------------------
(***************************************************************************)
(* How pmm_init turns the Multiboot2 information into the bounds and the   *)
(* first contents of the frame bitmap (src/kernel/mm/pmm.c: add_region,    *)
(* parse_mb2, build_bitmap_bounds, mark_range, the body of pmm_init).      *)
(*                                                                         *)
(* Addresses count an abstract unit of which a frame holds FrameSize, so   *)
(* that a range may start or end inside a frame.  An `info' is what the    *)
(* boot loader passed:                                                     *)
(*   from_uefi   the second argument of pmm_init                           *)
(*   tags        which of "efi", "mmap", "meminfo" are present             *)
(*   efi, mmap   their entries [base, len, avail], avail being Type = 7    *)
(*               (EFI) or type = 1 (mmap)                                  *)
(*   upper       mem_upper of the meminfo tag, in address units            *)
(***************************************************************************)
EXTENDS Integers, Sequences, FiniteSetsExt

CONSTANTS FrameSize,    \* PMM_FRAME_SIZE
          LowMem,       \* 1 MiB
          Cap,          \* 4 GiB
          MaxFrames,    \* PMM_MAX_FRAMES
          MaxRegions    \* MAX_REGIONS

ASSUME MemMapAssumption ==
  /\ FrameSize \in Nat \ {0}
  /\ LowMem \in Nat /\ Cap \in Nat /\ MaxFrames \in Nat /\ MaxRegions \in Nat

align_down(x) == x - (x % FrameSize)
align_up(x) == align_down(x + FrameSize - 1)

(* The region list grows by [base, end), cut at Cap; an empty region, one  *)
(* above Cap and one that finds the list full are dropped.                 *)
add_region(regions, base, end) ==
  IF end <= base \/ Len(regions) >= MaxRegions \/ base >= Cap
  THEN regions
  ELSE Append(regions, [base |-> base, end |-> Min({end, Cap})])

(* Available entries, shrunk to whole frames. *)
add_entries(entries) ==
  LET added[k \in 0..Len(entries)] ==
        IF k = 0 THEN << >>
        ELSE LET e == entries[k]
             IN  IF e.avail
                 THEN add_region(added[k - 1], align_up(e.base), align_down(e.base + e.len))
                 ELSE added[k - 1]
  IN  added[Len(entries)]

(* The EFI map counts only on a UEFI boot, the legacy map otherwise, and   *)
(* mem_upper, not rounded to frames, only when neither was there.          *)
parse_mb2(info) ==
  IF info.from_uefi /\ "efi" \in info.tags THEN add_entries(info.efi)
  ELSE IF "mmap" \in info.tags THEN add_entries(info.mmap)
  ELSE IF "meminfo" \in info.tags
       THEN add_region(<< >>, LowMem, LowMem + info.upper)
  ELSE << >>

(* <<g_bitmap_base, g_bitmap_limit>> *)
build_bitmap_bounds(regions) ==
  IF regions = << >> THEN <<0, 0>>
  ELSE LET lo == Min({r.base : r \in Range(regions)})
           hi == Max({r.end : r \in Range(regions)})
       IN  <<lo, Min({hi, lo + MaxFrames * FrameSize})>>

(* In what follows m is a bitmap, with m.base = g_bitmap_base and          *)
(* m.limit = g_bitmap_limit.  Whole frames under it, and the bits that     *)
(* stand for memory: one more when the limit is inside a frame.            *)
NFrames(m) == (m.limit - m.base) \div FrameSize
Bits(m) == {k \in 0..NFrames(m) : m.base + k * FrameSize < m.limit}

addr_to_index(m, paddr) == (paddr - m.base) \div FrameSize

(* The bits mark_range(paddr, size, _) writes. *)
mark_range(m, paddr, size) ==
  LET s == Max({align_down(paddr), m.base})
      e == Min({align_up(paddr + size), m.limit})
  IN  IF size = 0 \/ e <= s THEN {}
      ELSE addr_to_index(m, s)..(addr_to_index(m, e) - 1)

(* The bits pmm_reserve(paddr, size) visits: unlike mark_range it walks    *)
(* addresses, so a frame cut by the limit is visited too.                  *)
reserve_range(m, paddr, size) ==
  LET s == Max({align_down(paddr), m.base})
      e == Min({align_up(paddr + size), m.limit})
  IN  IF e <= s THEN {}
      ELSE addr_to_index(m, s)..addr_to_index(m, e - 1)

(* pmm_init up to its reservations: all bits set, then each region, cut to *)
(* the bitmap, cleared and its length added to usable_in_range, so that an *)
(* overlap of regions is counted once per region.  `unusable' is the set   *)
(* of bits still set, `usable' the byte count that becomes g_free.         *)
boot_map(info) ==
  LET regions == parse_mb2(info)
      bounds == build_bitmap_bounds(regions)
      m == [base |-> bounds[1], limit |-> bounds[2]]
      clip(r) == [base |-> Max({r.base, m.base}), end |-> Min({r.end, m.limit})]
      size(r) == Max({0, clip(r).end - clip(r).base})
  IN  [base |-> m.base, limit |-> m.limit,
       unusable |-> mark_range(m, m.base, m.limit - m.base)
                    \ UNION {mark_range(m, clip(r).base, size(r)) : r \in Range(regions)},
       usable |-> FoldFunction(LAMBDA r, sum : size(r) + sum, 0, regions)]
=============================================================================
