----------------------------- MODULE ConsoleOps -----------------------------
(***************************************************************************)
(* The text console of src/kernel64/console.c, as functions of a console   *)
(* record: the window of cells, the cursor, a ring of rows scrolled off    *)
(* the window, how far the view is scrolled back, the screen (vram), which *)
(* is only as current as the last flush, and the hardware cursor.  Colours *)
(* are left out.                                                           *)
(***************************************************************************)
EXTENDS Integers, Sequences, FiniteSetsExt

CONSTANTS Cols, Rows,
          Cap,         \* CONSOLE_SCROLLBACK_ROWS
          Chars        \* characters written, printable and control

VARIABLE con   \* the active console

ASSUME ConsoleAssumption == Cols \in Nat \ {0} /\ Rows \in Nat \ {0} /\ Cap \in Nat \ {0}

Printable == Chars \ {"nl", "cr", "bs"}

BlankRow == [x \in 0..(Cols - 1) |-> " "]
BlankWindow == [r \in 0..(Rows - 1) |-> BlankRow]

(* Draw `off' rows of history and the window's first rows below them.      *)
(* Past one screen of history the newest screenful is drawn.               *)
render_view_OneOff(c) ==
  LET off == Min({c.off, c.count})
      shown == Min({off, Rows})
  IN  [c EXCEPT !.vram = [r \in 0..(Rows - 1) |->
         IF r < shown THEN c.ring[(c.head - shown + r + 1 + Cap) % Cap] ELSE c.cells[r - shown]]]
render_view(c) ==
  LET off == Min({c.off, c.count})
      shown == Min({off, Rows})
      idx(r) == (c.head - shown + r + Rows * Cap) % Cap
  IN  [c EXCEPT !.vram = [r \in 0..(Rows - 1) |->
         IF r < shown THEN c.ring[idx(r)] ELSE c.cells[r - shown]],
                !.hw = IF c.off # 0 THEN <<Rows - 1, 0>> ELSE <<c.row, c.col>>]

vga_flush(c) == IF c.off # 0 THEN render_view(c) ELSE [c EXCEPT !.vram = c.cells, !.hw = <<c.row, c.col>>]

vga_clear(c) ==
  vga_flush([c EXCEPT !.cells = BlankWindow, !.row = 0, !.col = 0,
                      !.head = 0, !.count = 0, !.off = 0])

(* The top row goes into the ring, and a view of history moves with it.    *)
Scrolled_Saturates(c, off) ==
  [c EXCEPT !.ring[c.head] = c.cells[0],
            !.head = Min({c.head + 1, Cap - 1}),
            !.count = Min({@ + 1, Cap}),
            !.off = off,
            !.cells = [r \in 0..(Rows - 1) |-> IF r < Rows - 1 THEN c.cells[r + 1] ELSE BlankRow]]
Scrolled(c, off) ==
  [c EXCEPT !.ring[c.head] = c.cells[0],
            !.head = (@ + 1) % Cap,
            !.count = Min({@ + 1, Cap}),
            !.off = off,
            !.cells = [r \in 0..(Rows - 1) |-> IF r < Rows - 1 THEN c.cells[r + 1] ELSE BlankRow]]
vga_scroll_up_NotPinned(c) == Scrolled(c, c.off)
vga_scroll_up(c) ==
  Scrolled(c, IF c.off > 0 /\ c.off < Min({c.count + 1, Cap}) THEN c.off + 1 ELSE c.off)

(* To the next row, scrolling at the last one. *)
LineFeed(c) ==
  IF c.row + 1 >= Rows THEN [vga_scroll_up(c) EXCEPT !.row = Rows - 1]
  ELSE [c EXCEPT !.row = @ + 1]

(* A printable character flushes when it scrolled or history is in view,   *)
(* and else draws its own cell.  A newline draws nothing.                  *)
Put(c, ch) ==
  IF ch = "nl" THEN LineFeed([c EXCEPT !.col = 0])
  ELSE IF ch = "cr" THEN [c EXCEPT !.col = 0]
  ELSE IF ch = "bs" THEN [c EXCEPT !.col = Max({@ - 1, 0})]
  ELSE LET put == [c EXCEPT !.cells[c.row][c.col] = ch]
           wraps == c.col + 1 >= Cols
           moved == IF wraps THEN LineFeed([put EXCEPT !.col = 0]) ELSE [put EXCEPT !.col = @ + 1]
       IN  IF (wraps /\ c.row + 1 >= Rows) \/ moved.off # 0 THEN vga_flush(moved)
           ELSE [moved EXCEPT !.vram[c.row][c.col] = ch]

vga_putc(c, ch) == LET d == Put(c, ch) IN [d EXCEPT !.hw = <<d.row, d.col>>]

page == Max({Rows - 1, 1})
console_page_up(c) == render_view([c EXCEPT !.off = Min({@ + page, c.count})])
console_page_down(c) == render_view([c EXCEPT !.off = Max({@ - page, 0})])
console_page_home(c) == render_view([c EXCEPT !.off = c.count])
console_page_end(c) == render_view([c EXCEPT !.off = 0])

(* The console after console_init and the console_clear of kmain64.c:140.  *)
(* console_init alone clears before the console is active and leaves the   *)
(* loader's text on the screen; between the two only a self test prints.   *)
console_init == [cells |-> BlankWindow, row |-> 0, col |-> 0,
                 ring |-> [k \in 0..(Cap - 1) |-> BlankRow], head |-> 0, count |-> 0,
                 off |-> 0, vram |-> BlankWindow, hw |-> <<0, 0>>]
=============================================================================
