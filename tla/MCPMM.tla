------------------------------- MODULE MCPMM --------------------------------
(***************************************************************************)
(* Frames of 4 units, "1 MiB" at 8, "4 GiB" at 40.  The boot informations  *)
(* cover: a hole and ends inside frames, overlapping regions, a map past   *)
(* the cap with more regions than the list holds, the meminfo fallback     *)
(* with a limit inside a frame, an EFI map, and no memory at all.          *)
(***************************************************************************)
EXTENDS PMMScan

Info(uefi, tags, efi, mmap, upper) ==
  [from_uefi |-> uefi, tags |-> tags, efi |-> efi, mmap |-> mmap, upper |-> upper]
E(base, len, avail) == [base |-> base, len |-> len, avail |-> avail]

Hole    == Info(FALSE, {"mmap", "meminfo"}, << >>,
                <<E(0, 7, TRUE), E(7, 5, FALSE), E(11, 22, TRUE)>>, 16)
Overlap == Info(FALSE, {"mmap"}, << >>, <<E(8, 16, TRUE), E(16, 12, TRUE)>>, 0)
PastCap == Info(FALSE, {"mmap", "efi"}, <<E(0, 40, TRUE)>>,
                <<E(44, 8, TRUE), E(28, 20, TRUE), E(12, 8, TRUE), E(0, 4, TRUE)>>, 0)
Meminfo == Info(FALSE, {"meminfo"}, << >>, << >>, 21)
Uefi    == Info(TRUE, {"mmap", "efi"}, <<E(4, 20, TRUE)>>, <<E(0, 40, TRUE)>>, 0)
Nothing == Info(FALSE, {}, << >>, << >>, 0)

MCBootInfos == {Hole, Overlap, PastCap, Meminfo, Uefi, Nothing}
MCReserveRanges == {<<13, 2>>, <<18, 8>>, <<28, 1>>}
=============================================================================
