------------------------------ MODULE MCSched -------------------------------
(***************************************************************************)
(* Four slots: enough for a queue of three behind a running thread, for a  *)
(* full table, and for threads created while others run or have ended.     *)
(***************************************************************************)
EXTENDS Sched
=============================================================================
