------------------------------ MODULE MCExfat -------------------------------
(***************************************************************************)
(* A directory cluster of ten slots holds a one-piece and a two-piece name *)
(* behind the three slots that the first write to a blank disk spoils, and *)
(* is then filled to its last slot.  The FAT describes one cluster more    *)
(* than the device has, as the fallback geometry does on an 8 MiB disk.    *)
(***************************************************************************)
EXTENDS Exfat

MCNames == {<<"a">>, <<"b", "c">>}
MCTexts == {<<[t |-> "data", b |-> "x"]>>}
=============================================================================
