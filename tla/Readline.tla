------------------------------ MODULE Readline ------------------------------
(***************************************************************************)
(* The shell's prompt loop (src/kernel64/shell.c) and input_readline       *)
(* (src/kernel64/input.c) on a console: each key edits the line buffer and *)
(* echoes the edit in characters and backspaces.                           *)
(***************************************************************************)
EXTENDS ConsoleOps

CONSTANTS Letters,     \* characters typed
          Prompt,      \* the prompt's characters
          Output,      \* characters a command prints
          max_len,     \* size of the line buffer
          MaxShown     \* bound: prompts and characters the shell prints

ASSUME ReadlineAssumption ==
  /\ Letters \cup {" "} \subseteq Printable /\ Output \cup {"nl", "bs"} \subseteq Chars
  /\ Prompt \in Seq(Printable)
  /\ max_len \in Nat \ {0} /\ MaxShown \in Nat

VARIABLES buf, len, cur,
          at,      \* "prompt": to be shown, "edit": in input_readline, "run": in the command
          line,    \* the line given to the command
          origin,  \* history: cursor column where the line began
          widest,  \* history: the longest the line has been
          shown    \* prompts and command output so far

rvars == <<con, buf, len, cur, at, line, origin, widest, shown>>

PutAll(c, s) ==
  LET after[k \in 0..Len(s)] == IF k = 0 THEN c ELSE vga_putc(after[k - 1], s[k])
  IN  after[Len(s)]
Backs(n) == [k \in 1..n |-> "bs"]
Piece(b, i, j) == [k \in 1..(j - i) |-> b[i + k - 1]]   \* b[i .. j-1]

RInit == /\ con = console_init /\ buf = [i \in 0..(max_len - 1) |-> "?"]
         /\ len = 0 /\ cur = 0 /\ at = "prompt" /\ line = << >>
         /\ origin = 0 /\ widest = 0 /\ shown = 0

shell_prompt_NoSnap(c) == PutAll(c, Prompt)
shell_prompt(c) == PutAll(console_page_end(c), Prompt)

(* shell_prompt, and the start of input_readline *)
Ask == /\ at = "prompt" /\ at' = "edit"
       /\ shown < MaxShown /\ shown' = shown + 1
       /\ con' = shell_prompt(con)
       /\ len' = 0 /\ cur' = 0
       /\ origin' = con'.col /\ widest' = 0
       /\ UNCHANGED <<buf, line>>

(* A key of input_readline that leaves the line as it is *)
Editing == at = "edit" /\ UNCHANGED <<at, line, origin, shown>>
Keeps == Editing /\ UNCHANGED <<buf, len, widest>>

KEY_ENTER == /\ at = "edit" /\ at' = "run"
             /\ con' = vga_putc(con, "nl")
             /\ line' = Piece(buf, 0, len)
             /\ UNCHANGED <<buf, len, cur, origin, widest, shown>>

Scroll == /\ Keeps /\ UNCHANGED cur
          /\ con' \in {console_page_up(con), console_page_down(con),
                       console_page_home(con), console_page_end(con)}

KEY_LEFT == Keeps /\ cur > 0 /\ con' = vga_putc(con, "bs") /\ cur' = cur - 1
KEY_RIGHT == Keeps /\ cur < len /\ con' = vga_putc(con, buf[cur]) /\ cur' = cur + 1
KEY_HOME == Keeps /\ con' = PutAll(con, Backs(cur)) /\ cur' = 0
KEY_END == Keeps /\ con' = PutAll(con, Piece(buf, cur, len)) /\ cur' = len

(* Close the gap at i, reprint the tail, blank the last cell and go back *)
CloseGap(i) == [k \in 0..(max_len - 1) |-> IF k \in i..(len - 2) THEN buf[k + 1] ELSE buf[k]]
Reprint_OneBackShort(b, i, n) == Piece(b, i, n) \o <<" ">> \o Backs(n - i)
Reprint(b, i, n) == Piece(b, i, n) \o <<" ">> \o Backs(n - i + 1)

KEY_BACKSPACE ==
  /\ Editing /\ cur > 0
  /\ buf' = CloseGap(cur - 1) /\ len' = len - 1 /\ cur' = cur - 1
  /\ con' = PutAll(con, <<"bs">> \o Reprint(buf', cur', len'))
  /\ UNCHANGED widest

KEY_DELETE ==
  /\ Editing /\ cur < len
  /\ buf' = CloseGap(cur) /\ len' = len - 1 /\ cur' = cur
  /\ con' = PutAll(con, Reprint(buf', cur, len'))
  /\ UNCHANGED widest

(* Open a gap at the cursor for ch *)
OpenGap_Forward(ch) ==
  [k \in 0..(max_len - 1) |->
     IF k = cur THEN ch ELSE IF k \in (cur + 1)..len THEN buf[cur] ELSE buf[k]]
OpenGap(ch) ==
  [k \in 0..(max_len - 1) |->
     IF k = cur THEN ch ELSE IF k \in (cur + 1)..len THEN buf[k - 1] ELSE buf[k]]

Fits == len + 1 < max_len

KEY_CHAR(ch) ==
  /\ Editing /\ Fits
  /\ buf' = OpenGap(ch) /\ len' = len + 1 /\ cur' = cur + 1
  /\ con' = PutAll(con, <<ch>> \o Piece(buf', cur', len') \o Backs(len' - cur'))
  /\ widest' = Max({widest, len'})

(* The command prints, and hands back to shell_main *)
Emit(ch) == /\ at = "run" /\ con' = vga_putc(con, ch)
            /\ shown < MaxShown /\ shown' = shown + 1
            /\ UNCHANGED <<buf, len, cur, at, line, origin, widest>>
Return == /\ at = "run" /\ at' = "prompt"
          /\ UNCHANGED <<con, buf, len, cur, line, origin, widest, shown>>

RNext == Ask \/ KEY_ENTER \/ Scroll \/ KEY_LEFT \/ KEY_RIGHT \/ KEY_HOME \/ KEY_END
         \/ KEY_BACKSPACE \/ KEY_DELETE \/ (\E ch \in Letters : KEY_CHAR(ch))
         \/ (\E ch \in Output : Emit(ch)) \/ Return

RSpec == RInit /\ [][RNext]_rvars

-----------------------------------------------------------------------------
\* Type correctness of input_readline (src/kernel64/input.c): length and cursor stay within
\* buffer and terminator, buf[len] included.
RTypeOK ==
  /\ buf \in [0..(max_len - 1) -> Letters \cup {"?"}]
  /\ len \in 0..(max_len - 1) /\ cur \in 0..len /\ at \in {"prompt", "edit", "run"}
  /\ line \in Seq(Letters) /\ Len(line) < max_len
  /\ con.row \in 0..(Rows - 1) /\ con.col \in 0..(Cols - 1) /\ con.off \in 0..con.count

Editor == INSTANCE LineEditor WITH Room <- max_len - 1,
            left <- Piece(buf, 0, cur), right <- Piece(buf, cur, len)

(* The buffer and its two indices edit a line as an editor of the text     *)
(* left and right of the cursor does, and Enter hands over what was typed. *)
ImplementsEditor == Editor!ESpec

(* As long as the line has stayed clear of the last column, the row shows  *)
(* it from where the prompt left off, with the cursor on the edit point    *)
(* and nothing of what was deleted behind it.  The indices stay within the *)
(* buffer (RTypeOK).                                                        *)
EchoInSync ==
  RTypeOK /\ (at = "edit" /\ origin + widest < Cols =>
    /\ con.col = origin + cur
    /\ \A k \in 0..(widest - 1) :
         con.cells[con.row][origin + k] = IF k < len THEN buf[k] ELSE " ")

(* "Always snap back to live view before showing the next prompt"          *)
(* (shell.c:58): while a line is edited at live view, the screen shows the *)
(* window with the hardware cursor where the next character goes, whatever *)
(* the last command left undrawn or printed below the view.                *)
EditedLineOnScreen ==
  at = "edit" /\ con.off = 0 => con.vram = con.cells /\ con.hw = <<con.row, con.col>>

(* "then move cursor back by (len - i)" (input.c:139): wherever the line   *)
(* reaches, the cursor is on the edit point.                               *)
CursorOnEditPoint == at = "edit" => con.col = (origin + cur) % Cols
=============================================================================
