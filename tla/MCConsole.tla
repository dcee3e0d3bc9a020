----------------------------- MODULE MCConsole ------------------------------
(***************************************************************************)
(* A window of three rows of two cells over a ring of four rows: the ring  *)
(* wraps, and holds more than a screenful.                                 *)
(***************************************************************************)
EXTENDS Console
=============================================================================
