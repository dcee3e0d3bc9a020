------------------------------ MODULE MCShell -------------------------------
(***************************************************************************)
(* A name that is a mount, one that may become one, and one that never is; *)
(* paths of up to two components and a directory one deep, one more than   *)
(* resolve_path holds together.  Buffers of 3, 2 and 4 bytes, files of     *)
(* whole and of cut numbers of them, and numbers on either side of a       *)
(* file's end.                                                             *)
(***************************************************************************)
EXTENDS Shell
=============================================================================
