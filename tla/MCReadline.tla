----------------------------- MODULE MCReadline -----------------------------
(***************************************************************************)
(* Lines of up to three characters on rows of five cells: a line fits      *)
(* after a prompt at the start of a row, and wraps after one further on.   *)
(***************************************************************************)
EXTENDS Readline
MCPrompt == <<">">>
=============================================================================
