------------------------------ MODULE Console -------------------------------
(***************************************************************************)
(* The console under any output and any use of the scrollback keys: what   *)
(* the ring keeps, and what the screen shows of it.                        *)
(***************************************************************************)
EXTENDS ConsoleOps

VARIABLE past   \* history: the last Cap rows scrolled off, oldest first

vars == <<con, past>>

Init == con = console_init /\ past = << >>

(* Whether writing ch scrolls the window *)
Scrolls(ch) == con.row = Rows - 1 /\ (ch = "nl" \/ (ch \in Printable /\ con.col = Cols - 1))

(* The row that scrolls off, with the character just written into it *)
TopRow(ch) == IF ch \in Printable /\ con.row = 0
              THEN [con.cells[0] EXCEPT ![con.col] = ch] ELSE con.cells[0]

Latest(s) == IF Len(s) > Cap THEN SubSeq(s, Len(s) - Cap + 1, Len(s)) ELSE s

console_putc(ch) ==
  /\ con' = vga_putc(con, ch)
  /\ past' = IF Scrolls(ch) THEN Latest(Append(past, TopRow(ch))) ELSE past

console_clear == con' = vga_clear(con) /\ past' = << >>

PageUp == con' = console_page_up(con) /\ UNCHANGED past
PageDown == con' = console_page_down(con) /\ UNCHANGED past
PageHome == con' = console_page_home(con) /\ UNCHANGED past
PageEnd == con' = console_page_end(con) /\ UNCHANGED past
View == PageUp \/ PageDown \/ PageHome \/ PageEnd

Next == (\E ch \in Chars : console_putc(ch)) \/ console_clear
        \/ PageUp \/ PageDown \/ PageHome \/ PageEnd

Spec == Init /\ [][Next]_vars

-----------------------------------------------------------------------------
Row == [0..(Cols - 1) -> Printable \cup {" "}]

\* Type correctness of the console state of src/kernel64/console.c: the cursor, ring head, history
\* count and view offset stay inside the arrays they index, whatever is printed or paged.
TypeOK ==
  /\ con.cells \in [0..(Rows - 1) -> Row] /\ con.vram \in [0..(Rows - 1) -> Row]
  /\ con.ring \in [0..(Cap - 1) -> Row]
  /\ con.row \in 0..(Rows - 1) /\ con.col \in 0..(Cols - 1)
  /\ con.hw \in (0..(Rows - 1)) \X (0..(Cols - 1))
  /\ con.head \in 0..(Cap - 1) /\ con.count \in 0..Cap /\ con.off \in 0..con.count

History == [k \in 1..con.count |-> con.ring[(con.head - con.count + k - 1 + Cap) % Cap]]

(* The ring, read from its oldest row on, is the last rows that left the   *)
(* window, in order, also after it has wrapped, and the cursor and the     *)
(* offset never leave the window and the ring (TypeOK).                    *)
RingIsHistory == TypeOK /\ History = past

(* Everything there is to see of console c, and the screenful that starts  *)
(* off rows above the window.                                              *)
Text(c, p) == p \o [k \in 1..Rows |-> c.cells[k - 1]]
Window(c, p, off) == [r \in 0..(Rows - 1) |-> Text(c, p)[Len(p) - off + r + 1]]

(* A scrollback key redraws the screenful its offset stands for, at least  *)
(* as far back as one screen (render_view).                                *)
ViewShowsWindow ==
  [][View /\ con'.off <= Rows => con'.vram = Window(con', past', con'.off)]_vars

(* The rows of history on the screen stay there while output is written    *)
(* and scrolls the window, until the ring drops them or the view is more   *)
(* than a screenful back (vga_scroll_up, vga_putc, render_view).           *)
ViewPinned ==
  [][\A ch \in Chars :
       console_putc(ch) /\ con.off \in 1..(Cap - 1) /\ con'.off <= Rows =>
         \A r \in 0..(con.off - 1) : con'.vram[r] = con.vram[r]]_vars

(* "If user is viewing history, keep the viewport pinned to the same       *)
(* content ... as new lines arrive" (console.c:141), however far back.     *)
PinnedFarBack ==
  [][\A ch \in Chars : console_putc(ch) /\ con.off \in 1..(Cap - 1) =>
       \A r \in 0..(Min({con.off, Rows}) - 1) : con'.vram[r] = con.vram[r]]_vars

(* "When not at live view, or on scroll, reflush full viewport"            *)
(* (console.c:173): at live view the screen shows the window.              *)
LiveScreenCurrent == con.off = 0 => con.vram = con.cells

(* "jump to oldest available" (console.h:39): the Home key shows the       *)
(* oldest row the ring holds.                                              *)
HomeShowsOldest == [][PageHome => con'.vram = Window(con', past', con'.count)]_vars

(* "Hide hardware cursor when not at live view" (console.c:95): while      *)
(* history is in view the cursor stays parked on the last line.            *)
CursorParked == con.off # 0 => con.hw = <<Rows - 1, 0>>
=============================================================================
