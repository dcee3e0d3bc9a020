------------------------------ MODULE MCDevfs -------------------------------
(***************************************************************************)
(* A disk of four three-byte sectors, moved two at a time: the whole disk, a *)
(* partition in its middle, one whose table entry claims a sector more     *)
(* than the disk has, and a read-only disk.  Offsets and lengths reach     *)
(* every alignment, the end of the device and the end of the word.         *)
(***************************************************************************)
EXTENDS Devfs

Dev(b, c, w) == [base |-> b, count |-> c, writable |-> w]
MCDevs == {Dev(0, 4, TRUE), Dev(1, 2, TRUE), Dev(2, 3, TRUE), Dev(0, 4, FALSE)}
=============================================================================
