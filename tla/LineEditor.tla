----------------------------- MODULE LineEditor -----------------------------
(***************************************************************************)
(* What a line editor promises: the text left and right of the cursor, and *)
(* the line handed over when Enter is pressed.                             *)
(***************************************************************************)
EXTENDS Integers, Sequences

CONSTANTS Letters,
          Room       \* characters a line may hold

VARIABLES left, right, line

evars == <<left, right, line>>

EInit == left = << >> /\ right = << >> /\ line = << >>

Insert(ch) == /\ Len(left) + Len(right) < Room
              /\ left' = Append(left, ch) /\ UNCHANGED <<right, line>>

Backspace == /\ left # << >> /\ left' = SubSeq(left, 1, Len(left) - 1)
             /\ UNCHANGED <<right, line>>

Delete == right # << >> /\ right' = Tail(right) /\ UNCHANGED <<left, line>>

(* Left, Right, Home and End: the same text, cut elsewhere *)
Move == left' \o right' = left \o right /\ UNCHANGED line

Enter == line' = left \o right /\ UNCHANGED <<left, right>>

NextLine == left' = << >> /\ right' = << >> /\ UNCHANGED line

ENext == (\E ch \in Letters : Insert(ch)) \/ Backspace \/ Delete \/ Move \/ Enter \/ NextLine

ESpec == EInit /\ [][ENext]_evars
=============================================================================
