----------------------------- MODULE MCKeyboard -----------------------------
(***************************************************************************)
(* One key of each kind the decoder tells apart, and a queue that fills    *)
(* while nobody reads it.                                                  *)
(***************************************************************************)
EXTENDS Keyboard
=============================================================================
