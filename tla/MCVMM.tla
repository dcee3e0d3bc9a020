------------------------------- MODULE MCVMM --------------------------------
(***************************************************************************)
(* Tables of three entries: the identity map of nine pages takes six of    *)
(* the frames, and two, one or none are left when callers ask for pages    *)
(* that need one, two or three new tables.                                 *)
(***************************************************************************)
EXTENDS VMM

MCFreeSets == {1..8, 1..5, 4..8, {3}, {}}
MCFlags == {{}, {"P", "PS"}}
=============================================================================
