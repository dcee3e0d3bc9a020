---------------------------- MODULE ConsoleProofs ---------------------------
(***************************************************************************)
(* Proofs about the console and the prompt loop on it.  The console: for   *)
(* every size of the window and of the ring and every sequence of output   *)
(* and paging keys, the ring is the rows that left the window, a paging    *)
(* key draws what its offset stands for, and output leaves the rows of     *)
(* history on the screen where they are.  The prompt loop: for every buffer size, prompt and      *)
(* sequence of keys, input_readline is a line editor, the screen is        *)
(* current while a line is edited, and the row shows the line.             *)
(***************************************************************************)
EXTENDS Console, Readline, WellFoundedInduction, TLAPS

Lines == 0..(Rows - 1)
Columns == 0..(Cols - 1)
Places == 0..(Cap - 1)
Screens == [Lines -> Row]

Consoles == [cells : Screens, row : Lines, col : Columns, ring : [Places -> Row],
             head : Places, count : 0..Cap, off : Nat, vram : Screens, hw : Lines \X Columns]

(* What scrolling does to the ring, and everything else leaves alone. *)
SameRing(c, d) == d.ring = c.ring /\ d.head = c.head /\ d.count = c.count /\ d.off = c.off
Grown(n) == IF n < Cap THEN n + 1 ELSE Cap
Pushed(c, d, top) ==
  /\ d.ring = [c.ring EXCEPT ![c.head] = top] /\ d.head = (c.head + 1) % Cap
  /\ d.count = Grown(c.count)
  /\ d.off = IF c.off > 0 /\ c.off < Grown(c.count) THEN c.off + 1 ELSE c.off

-----------------------------------------------------------------------------
(* Numbers *)

\* The smaller and the larger of two numbers.
LEMMA OfTwo ==
  ASSUME NEW x \in Int, NEW y \in Int
  PROVE  /\ Min({x, y}) = IF x <= y THEN x ELSE y
         /\ Max({x, y}) = IF x >= y THEN x ELSE y
<1>1. \E z \in {x, y} : \A w \in {x, y} : z <= w
  OBVIOUS
<1>2. \E z \in {x, y} : \A w \in {x, y} : z >= w
  OBVIOUS
<1>3. Min({x, y}) \in {x, y} /\ \A w \in {x, y} : Min({x, y}) <= w
  BY <1>1 DEF Min
<1>4. Max({x, y}) \in {x, y} /\ \A w \in {x, y} : Max({x, y}) >= w
  BY <1>2 DEF Max
<1>. QED
  BY <1>3, <1>4

\* A remainder is a place of the ring.
LEMMA InRing ==
  ASSUME NEW x \in Int
  PROVE  x % Cap \in Places
BY ConsoleAssumption DEF Places

\* Remainders of numbers below two rounds of the ring.
LEMMA Wrapped ==
  ASSUME NEW x \in Nat, x < Cap + Cap
  PROVE  x % Cap = IF x < Cap THEN x ELSE x - Cap
BY ConsoleAssumption

\* Whole rounds of the ring do not matter.
LEMMA Rounds ==
  ASSUME NEW x \in Nat, NEW m \in Nat
  PROVE  (x + m * Cap) % Cap = x % Cap
<1>1. Cap \in Nat /\ Cap > 0 /\ m * Cap \in Nat
  BY ConsoleAssumption
<1> DEFINE q == x \div Cap
           s == x % Cap
<1>2. q \in Nat /\ s \in Nat /\ s < Cap /\ x = q * Cap + s
  BY <1>1
<1> HIDE DEF q, s
<1>3. (q + m) * Cap = q * Cap + m * Cap /\ q + m \in Nat /\ q * Cap \in Nat
  BY <1>1, <1>2
<1>4. x + m * Cap = (q + m) * Cap + s
  BY <1>1, <1>2, <1>3
<1>5. ((q + m) * Cap + s) % Cap = s
  BY <1>1, <1>2, <1>3
<1>. QED
  BY <1>4, <1>5 DEF s

-----------------------------------------------------------------------------
(* The operations on a console *)

\* Blank rows are rows.
LEMMA Blanks == BlankRow \in Row /\ BlankWindow \in Screens
BY DEF BlankRow, BlankWindow, Row, Screens, Lines

\* render_view changes the screen and the hardware cursor.
LEMMA Rendered ==
  ASSUME NEW c \in Consoles
  PROVE  /\ render_view(c) \in Consoles /\ SameRing(c, render_view(c))
         /\ render_view(c).cells = c.cells
<1> DEFINE off == Min({c.off, c.count})
           rows == Min({off, Rows})
           idx(r) == (c.head - rows + r + Rows * Cap) % Cap
           vram == [r \in Lines |-> IF r < rows THEN c.ring[idx(r)] ELSE c.cells[r - rows]]
           hw == IF c.off # 0 THEN <<Rows - 1, 0>> ELSE <<c.row, c.col>>
<1>1. render_view(c) = [c EXCEPT !.vram = vram, !.hw = hw]
  BY DEF render_view, Lines
<1>2. Rows \in Nat /\ Rows > 0 /\ Cols \in Nat /\ Cols > 0 /\ Rows * Cap \in Nat
  BY ConsoleAssumption
<1>3. c.off \in Nat /\ c.count \in Nat /\ c.head \in Int /\ c.row \in Lines /\ c.col \in Columns
      /\ c.ring \in [Places -> Row] /\ c.cells \in Screens
  BY ConsoleAssumption DEF Consoles, Places
<1>4. off \in Nat
  BY <1>3, OfTwo
<1> HIDE DEF off
<1>5. rows \in Nat /\ rows <= Rows
  BY <1>2, <1>4, OfTwo
<1> HIDE DEF rows
<1>6. ASSUME NEW r \in Lines
      PROVE  (IF r < rows THEN c.ring[idx(r)] ELSE c.cells[r - rows]) \in Row
  <2>1. r \in Int /\ c.head - rows + r + Rows * Cap \in Int
    BY <1>2, <1>3, <1>5 DEF Lines
  <2>2. idx(r) \in Places
    BY <2>1, InRing
  <2>3. ~(r < rows) => r - rows \in Lines
    BY <1>2, <1>5 DEF Lines
  <2>. QED
    BY <1>3, <2>2, <2>3 DEF Screens
<1>7. vram \in Screens
  BY <1>6 DEF Screens
<1>8. hw \in Lines \X Columns
  BY <1>2, <1>3 DEF Lines, Columns
<1> HIDE DEF vram, hw
<1>. QED
  BY <1>1, <1>7, <1>8, Zenon DEF Consoles, SameRing

\* So does vga_flush.
LEMMA Flushed ==
  ASSUME NEW c \in Consoles
  PROVE  /\ vga_flush(c) \in Consoles /\ SameRing(c, vga_flush(c))
         /\ vga_flush(c).cells = c.cells
<1>1. CASE c.off # 0
  BY <1>1, Rendered DEF vga_flush
<1>2. CASE c.off = 0
  <2>1. vga_flush(c) = [c EXCEPT !.vram = c.cells, !.hw = <<c.row, c.col>>]
    BY <1>2 DEF vga_flush
  <2> DEFINE v == c.cells
             w == <<c.row, c.col>>
  <2>2. v \in Screens /\ w \in Lines \X Columns
    BY DEF Consoles
  <2>3. vga_flush(c) = [c EXCEPT !.vram = v, !.hw = w]
    BY <2>1
  <2> HIDE DEF v, w
  <2>. QED
    BY <2>2, <2>3, Zenon DEF Consoles, SameRing
<1>. QED
  BY <1>1, <1>2

\* vga_scroll_up puts the top row into the ring.
LEMMA ScrolledUp ==
  ASSUME NEW c \in Consoles
  PROVE  /\ vga_scroll_up(c) \in Consoles /\ Pushed(c, vga_scroll_up(c), c.cells[0])
         /\ vga_scroll_up(c).row = c.row /\ vga_scroll_up(c).col = c.col
<1> DEFINE off == IF c.off > 0 /\ c.off < Grown(c.count) THEN c.off + 1 ELSE c.off
           ring == [c.ring EXCEPT ![c.head] = c.cells[0]]
           head == (c.head + 1) % Cap
           cells == [r \in Lines |-> IF r < Rows - 1 THEN c.cells[r + 1] ELSE BlankRow]
<1>1. /\ Rows \in Nat /\ Rows > 0 /\ Cap \in Nat /\ Cap > 0
      /\ c.off \in Nat /\ c.count \in 0..Cap /\ c.head \in Places
      /\ c.ring \in [Places -> Row] /\ c.cells \in [Lines -> Row]
  BY ConsoleAssumption DEF Consoles, Screens
<1>2. Min({c.count + 1, Cap}) = Grown(c.count) /\ Grown(c.count) \in 0..Cap
  BY <1>1, OfTwo DEF Grown
<1>3. vga_scroll_up(c) = [c EXCEPT !.ring = ring, !.head = head, !.count = Grown(c.count),
                                   !.off = off, !.cells = cells]
  BY <1>2, Zenon DEF vga_scroll_up, Scrolled, Lines
<1>4. off \in Nat
  BY <1>1
<1>5. head \in Places
  BY <1>1, InRing DEF Places
<1>6. ring \in [Places -> Row]
  <2>1. 0 \in Lines
    BY <1>1 DEF Lines
  <2>. QED
    BY <1>1, <2>1
<1>7. cells \in Screens
  <2>1. \A r \in Lines : r < Rows - 1 => r + 1 \in Lines
    BY <1>1 DEF Lines
  <2>. QED
    BY <1>1, <2>1, Blanks DEF Screens
<1> DEFINE count == Grown(c.count)
<1>8. off = (IF c.off > 0 /\ c.off < Grown(c.count) THEN c.off + 1 ELSE c.off)
      /\ ring = [c.ring EXCEPT ![c.head] = c.cells[0]] /\ head = (c.head + 1) % Cap
      /\ count = Grown(c.count) /\ count \in 0..Cap
  BY <1>2
<1>9. vga_scroll_up(c) = [c EXCEPT !.ring = ring, !.head = head, !.count = count,
                                   !.off = off, !.cells = cells]
  BY <1>3
<1> HIDE DEF off, ring, head, cells, count
<1>. QED
  BY <1>4, <1>5, <1>6, <1>7, <1>8, <1>9, ZenonT(30) DEF Consoles, Pushed

\* To the next row: scrolling at the last one.
LEMMA NextLine ==
  ASSUME NEW c \in Consoles
  PROVE  /\ LineFeed(c) \in Consoles
         /\ c.row = Rows - 1 => Pushed(c, LineFeed(c), c.cells[0])
         /\ c.row # Rows - 1 => SameRing(c, LineFeed(c))
<1>1. c.row \in Lines /\ Rows \in Nat /\ Rows > 0
  BY ConsoleAssumption DEF Consoles
<1>2. CASE c.row = Rows - 1
  <2> DEFINE d == vga_scroll_up(c)
  <2>1. LineFeed(c) = [d EXCEPT !.row = Rows - 1] /\ d \in Consoles /\ Pushed(c, d, c.cells[0])
    BY <1>1, <1>2, ScrolledUp DEF LineFeed
  <2>2. Rows - 1 \in Lines
    BY <1>1 DEF Lines
  <2> HIDE DEF d
  <2>. QED
    BY <1>2, <2>1, <2>2 DEF Consoles, Pushed
<1>3. CASE c.row # Rows - 1
  <2>1. ~(c.row + 1 >= Rows) /\ c.row + 1 \in Lines
    BY <1>1, <1>3 DEF Lines
  <2>2. LineFeed(c) = [c EXCEPT !.row = c.row + 1]
    BY <2>1 DEF LineFeed
  <2>. QED
    BY <1>3, <2>1, <2>2 DEF Consoles, SameRing
<1>. QED
  BY <1>2, <1>3

\* Changes around a scroll that leave the ring alone.
LEMMA RingChain ==
  ASSUME NEW c, NEW d, NEW e
  PROVE  /\ SameRing(c, d) /\ SameRing(d, e) => SameRing(c, e)
         /\ \A t : SameRing(c, d) /\ Pushed(d, e, t) => Pushed(c, e, t)
         /\ \A t : Pushed(c, d, t) /\ SameRing(d, e) => Pushed(c, e, t)
BY DEF SameRing, Pushed

Scrolling(c, ch) == c.row = Rows - 1 /\ (ch = "nl" \/ (ch \in Printable /\ c.col = Cols - 1))
Leaving(c, ch) == IF ch \in Printable /\ c.row = 0
                  THEN [c.cells[0] EXCEPT ![c.col] = ch] ELSE c.cells[0]

\* One character of output: the row that leaves goes into the ring, or the ring
\* stays as it is.
LEMMA Written ==
  ASSUME NEW c \in Consoles, NEW ch \in Chars
  PROVE  /\ vga_putc(c, ch) \in Consoles
         /\ Scrolling(c, ch) => Pushed(c, vga_putc(c, ch), Leaving(c, ch))
         /\ ~Scrolling(c, ch) => SameRing(c, vga_putc(c, ch))
<1> DEFINE d == Put(c, ch)
<1>1. /\ c.row \in Lines /\ c.col \in Columns /\ c.cells \in [Lines -> Row]
      /\ Rows \in Nat /\ Rows > 0 /\ Cols \in Nat /\ Cols > 0
  BY ConsoleAssumption DEF Consoles, Screens
<1>2. 0 \in Columns /\ 0 \in Lines
  BY <1>1 DEF Columns, Lines
<1>3. SUFFICES /\ d \in Consoles
               /\ Scrolling(c, ch) => Pushed(c, d, Leaving(c, ch))
               /\ ~Scrolling(c, ch) => SameRing(c, d)
  <2>1. vga_putc(c, ch) = [d EXCEPT !.hw = <<d.row, d.col>>]
    BY DEF vga_putc
  <2> HIDE DEF d
  <2>2. ASSUME d \in Consoles
        PROVE  vga_putc(c, ch) \in Consoles /\ SameRing(d, vga_putc(c, ch))
    BY <2>1, <2>2 DEF Consoles, SameRing
  <2>. QED
    BY <2>2, RingChain
<1>4. CASE ch = "nl"
  <2> DEFINE b == [c EXCEPT !.col = 0]
  <2>1. b \in Consoles /\ SameRing(c, b) /\ b.cells = c.cells /\ b.row = c.row
    BY <1>2 DEF Consoles, SameRing
  <2>2. d = LineFeed(b)
    BY <1>4 DEF Put
  <2>3. (Scrolling(c, ch) <=> c.row = Rows - 1) /\ Leaving(c, ch) = c.cells[0]
    BY <1>4 DEF Scrolling, Leaving, Printable
  <2> HIDE DEF b, d
  <2>4. /\ d \in Consoles
        /\ b.row = Rows - 1 => Pushed(b, d, b.cells[0])
        /\ b.row # Rows - 1 => SameRing(b, d)
    BY <2>1, <2>2, NextLine
  <2>. QED
    BY <2>1, <2>3, <2>4, RingChain
<1>5. CASE ch = "cr"
  <2>1. d = [c EXCEPT !.col = 0]
    BY <1>5 DEF Put
  <2>2. ~Scrolling(c, ch)
    BY <1>5 DEF Scrolling, Printable
  <2> HIDE DEF d
  <2>. QED
    BY <1>2, <2>1, <2>2 DEF Consoles, SameRing
<1>6. CASE ch = "bs"
  <2> DEFINE m == Max({c.col - 1, 0})
  <2>1. d = [c EXCEPT !.col = m]
    BY <1>6 DEF Put
  <2>2. ~Scrolling(c, ch)
    BY <1>6 DEF Scrolling, Printable
  <2>3. m \in Columns
    <3> DEFINE x == c.col - 1
    <3>1. x \in Int /\ 0 \in Int /\ x < Cols
      BY <1>1 DEF Columns
    <3> HIDE DEF x
    <3>2. Max({x, 0}) = IF x >= 0 THEN x ELSE 0
      BY <3>1, OfTwo
    <3>3. Max({x, 0}) \in Columns
      BY <1>1, <3>1, <3>2 DEF Columns
    <3>. QED
      BY <3>3 DEF x
  <2> HIDE DEF d, m
  <2>. QED
    BY <2>1, <2>2, <2>3 DEF Consoles, SameRing
<1>7. CASE ch \notin {"nl", "cr", "bs"}
  <2> DEFINE edited == [c.cells[c.row] EXCEPT ![c.col] = ch]
             cells == [c.cells EXCEPT ![c.row] = edited]
             put == [c EXCEPT !.cells = cells]
             wraps == c.col + 1 >= Cols
             turned == [put EXCEPT !.col = 0]
             moved == IF wraps THEN LineFeed(turned) ELSE [put EXCEPT !.col = c.col + 1]
             drawn == [moved EXCEPT !.vram[c.row][c.col] = ch]
  <2>1. ch \in Printable
    BY <1>7 DEF Printable
  <2>2. c.cells[c.row] \in Row /\ edited \in Row
    BY <1>1, <2>1 DEF Row, Columns
  <2>3. cells \in [Lines -> Row] /\ cells[0] = Leaving(c, ch)
    BY <1>1, <1>2, <2>1, <2>2 DEF Leaving
  <2>4. put \in Consoles /\ SameRing(c, put) /\ put.cells = cells /\ put.row = c.row /\ put.col = c.col
    BY <2>3 DEF Consoles, SameRing, Screens
  <2>5. wraps <=> c.col = Cols - 1
    BY <1>1 DEF Columns
  <2>6. Scrolling(c, ch) <=> c.row = Rows - 1 /\ wraps
    BY <1>7, <2>1, <2>5 DEF Scrolling
  <2>7. put = [c EXCEPT !.cells[c.row][c.col] = ch]
    BY DEF Consoles
  <2>8. d = IF (wraps /\ c.row + 1 >= Rows) \/ moved.off # 0 THEN vga_flush(moved) ELSE drawn
    <3>1. ch # "nl" /\ ch # "cr" /\ ch # "bs"
      BY <1>7
    <3>. QED
      BY <3>1, <2>4, <2>7 DEF Put
  <2> HIDE DEF put, cells, edited, d
  <2>9. turned \in Consoles /\ SameRing(put, turned) /\ turned.cells = cells /\ turned.row = c.row
    BY <1>2, <2>4 DEF Consoles, SameRing
  <2>10. /\ moved \in Consoles
         /\ Scrolling(c, ch) => Pushed(c, moved, Leaving(c, ch))
         /\ ~Scrolling(c, ch) => SameRing(c, moved)
    <3>1. CASE wraps
      <4>1. moved = LineFeed(turned)
        BY <3>1
      <4> HIDE DEF turned, moved
      <4>2. /\ moved \in Consoles
            /\ turned.row = Rows - 1 => Pushed(turned, moved, turned.cells[0])
            /\ turned.row # Rows - 1 => SameRing(turned, moved)
        BY <2>9, <4>1, NextLine
      <4>3. SameRing(c, turned)
        BY <2>4, <2>9, RingChain
      <4>. QED
        BY <2>3, <2>6, <2>9, <3>1, <4>2, <4>3, RingChain
    <3>2. CASE ~wraps
      <4>1. moved = [put EXCEPT !.col = c.col + 1]
        BY <3>2
      <4>2. c.col + 1 \in Columns
        BY <1>1, <3>2 DEF Columns
      <4> HIDE DEF moved
      <4>3. moved \in Consoles /\ SameRing(put, moved)
        BY <2>4, <4>1, <4>2 DEF Consoles, SameRing
      <4>. QED
        BY <2>4, <2>6, <3>2, <4>3, RingChain
    <3>. QED
      BY <3>1, <3>2
  <2> HIDE DEF moved, wraps, turned
  <2>11. drawn \in Consoles /\ SameRing(moved, drawn)
    <3> DEFINE vram == [moved.vram EXCEPT ![c.row] = [moved.vram[c.row] EXCEPT ![c.col] = ch]]
    <3>1. moved.vram \in [Lines -> Row]
      BY <2>10 DEF Consoles, Screens
    <3>2. moved.vram[c.row] \in Row
      BY <1>1, <3>1
    <3>3. [moved.vram[c.row] EXCEPT ![c.col] = ch] \in Row
      BY <1>1, <2>1, <3>2 DEF Row, Columns
    <3>4. vram \in Screens
      BY <1>1, <3>1, <3>3 DEF Screens
    <3>5. drawn = [moved EXCEPT !.vram = vram]
      BY <2>10 DEF Consoles
    <3> HIDE DEF vram, drawn
    <3>. QED
      BY <2>10, <3>4, <3>5 DEF Consoles, SameRing
  <2> HIDE DEF drawn
  <2>12. vga_flush(moved) \in Consoles /\ SameRing(moved, vga_flush(moved))
    BY <2>10, Flushed
  <2>. QED
    BY <2>8, <2>10, <2>11, <2>12, RingChain
<1>. QED
  BY <1>4, <1>5, <1>6, <1>7

-----------------------------------------------------------------------------
(* The ring as a sequence *)

At(h, n, k) == (h - n + k - 1 + Cap) % Cap

\* p is what a ring of n rows below head h holds, oldest first.
Holds(ring, h, n, p) ==
  /\ p \in Seq(Row) /\ Len(p) = n
  /\ \A k \in 1..n : p[k] = ring[At(h, n, k)]

\* Where the k-th row of history is.
LEMMA PlaceOf ==
  ASSUME NEW h \in Places, NEW n \in 0..Cap, NEW k \in 1..n
  PROVE  /\ At(h, n, k) \in Places
         /\ At(h, n, k) = IF h - n + k - 1 >= 0 THEN h - n + k - 1 ELSE h - n + k - 1 + Cap
<1> DEFINE x == h - n + k - 1 + Cap
<1>1. Cap \in Nat /\ Cap > 0 /\ h \in 0..(Cap - 1)
  BY ConsoleAssumption DEF Places
<1>2. x \in Nat /\ x < Cap + Cap
  BY <1>1
<1>3. At(h, n, k) = x % Cap
  BY DEF At
<1>4. x % Cap = IF x < Cap THEN x ELSE x - Cap
  BY <1>2, Wrapped
<1>. QED
  BY <1>1, <1>2, <1>3, <1>4 DEF Places

\* The last Cap rows of a history and one more.
LEMMA LatestOf ==
  ASSUME NEW p \in Seq(Row), Len(p) \in 0..Cap, NEW top \in Row
  PROVE  /\ Latest(Append(p, top)) \in Seq(Row)
         /\ Len(Latest(Append(p, top))) = Grown(Len(p))
         /\ Latest(Append(p, top))[Grown(Len(p))] = top
         /\ Len(p) < Cap => \A k \in 1..Len(p) : Latest(Append(p, top))[k] = p[k]
         /\ Len(p) = Cap => \A k \in 1..(Cap - 1) : Latest(Append(p, top))[k] = p[k + 1]
<1> DEFINE s == Append(p, top)
<1>1. /\ s \in Seq(Row) /\ Len(s) = Len(p) + 1 /\ s[Len(p) + 1] = top
      /\ \A k \in 1..Len(p) : s[k] = p[k]
  OBVIOUS
<1>2. Cap \in Nat /\ Cap > 0
  BY ConsoleAssumption
<1> HIDE DEF s
<1>3. CASE ~(Len(p) = Cap)
  <2>1. Latest(s) = s
    BY <1>1, <1>2, <1>3 DEF Latest
  <2>. QED
    BY <1>1, <1>2, <1>3, <2>1 DEF Grown, s
<1>4. CASE Len(p) = Cap
  <2>1. Latest(s) = SubSeq(s, 2, Cap + 1)
    BY <1>1, <1>2, <1>4 DEF Latest
  <2>2. /\ SubSeq(s, 2, Cap + 1) \in Seq(Row) /\ Len(SubSeq(s, 2, Cap + 1)) = Cap
        /\ \A k \in 1..Cap : SubSeq(s, 2, Cap + 1)[k] = s[k + 1]
    BY <1>1, <1>2, <1>4
  <2>3. \A k \in 1..(Cap - 1) : k \in 1..Cap /\ k + 1 \in 1..Len(p)
    BY <1>2, <1>4
  <2>. QED
    BY <1>1, <1>2, <1>4, <2>1, <2>2, <2>3 DEF Grown, s
<1>. QED
  BY <1>3, <1>4

\* Pushing a row appends it to the history, and drops the oldest one when full.
LEMMA PushHolds ==
  ASSUME NEW c \in Consoles, NEW d, NEW p, NEW top \in Row,
         Holds(c.ring, c.head, c.count, p), Pushed(c, d, top)
  PROVE  Holds(d.ring, d.head, d.count, Latest(Append(p, top)))
<1> DEFINE q == Latest(Append(p, top))
           h == c.head
           n == c.count
           g == d.head
           m == d.count
<1>1. /\ Cap \in Nat /\ Cap > 0 /\ h \in Places /\ n \in 0..Cap
      /\ c.ring \in [Places -> Row]
  BY ConsoleAssumption DEF Consoles
<1>2. p \in Seq(Row) /\ Len(p) = n /\ \A k \in 1..n : p[k] = c.ring[At(h, n, k)]
  BY DEF Holds
<1>3. d.ring = [c.ring EXCEPT ![h] = top] /\ g = (h + 1) % Cap /\ m = Grown(n)
  BY DEF Pushed
<1>4. /\ q \in Seq(Row) /\ Len(q) = m /\ q[m] = top
      /\ n < Cap => \A k \in 1..n : q[k] = p[k]
      /\ n = Cap => \A k \in 1..(Cap - 1) : q[k] = p[k + 1]
  BY <1>1, <1>2, <1>3, LatestOf
<1> HIDE DEF q, h, n, g, m
<1>5. g = IF h + 1 < Cap THEN h + 1 ELSE 0
  <2>1. h + 1 \in Nat /\ h + 1 < Cap + Cap /\ h + 1 <= Cap
    BY <1>1 DEF Places
  <2>. QED
    BY <1>1, <1>3, <2>1, Wrapped
<1>6. g \in Places /\ m \in 1..Cap
  BY <1>1, <1>3, <1>5 DEF Places, Grown
<1>7. ASSUME NEW k \in 1..m PROVE q[k] = d.ring[At(g, m, k)]
  <2>1. At(g, m, k) = IF g - m + k - 1 >= 0 THEN g - m + k - 1 ELSE g - m + k - 1 + Cap
    <3>1. m \in 0..Cap
      BY <1>6
    <3>. QED
      BY <1>6, <3>1, PlaceOf
  <2>2. CASE k = m
    <3>1. At(g, m, k) = h
      BY <1>1, <1>5, <1>6, <2>1, <2>2 DEF Places
    <3>. QED
      BY <1>1, <1>3, <1>4, <2>2, <3>1
  <2>3. CASE k # m /\ n < Cap
    <3>1. m = n + 1 /\ k \in 1..n
      BY <1>1, <1>3, <1>6, <2>3 DEF Grown
    <3>2. At(h, n, k) \in Places
          /\ At(h, n, k) = IF h - n + k - 1 >= 0 THEN h - n + k - 1 ELSE h - n + k - 1 + Cap
      BY <1>1, <3>1, PlaceOf
    <3>3. At(g, m, k) = At(h, n, k) /\ At(h, n, k) # h
      BY <1>1, <1>5, <2>1, <2>3, <3>1, <3>2 DEF Places
    <3>4. q[k] = c.ring[At(h, n, k)]
      BY <1>2, <1>4, <2>3, <3>1
    <3>. QED
      BY <1>1, <1>3, <3>2, <3>3, <3>4
  <2>4. CASE k # m /\ n = Cap
    <3>1. m = Cap /\ k \in 1..(Cap - 1) /\ k + 1 \in 1..n
      BY <1>1, <1>3, <1>6, <2>4 DEF Grown
    <3>2. At(h, n, k + 1) \in Places
          /\ At(h, n, k + 1) = IF h - n + (k + 1) - 1 >= 0 THEN h - n + (k + 1) - 1
                               ELSE h - n + (k + 1) - 1 + Cap
      BY <1>1, <3>1, PlaceOf, Zenon
    <3>3. At(g, m, k) = At(h, n, k + 1) /\ At(h, n, k + 1) # h
      BY <1>1, <1>5, <2>1, <2>4, <3>1, <3>2 DEF Places
    <3>4. q[k] = c.ring[At(h, n, k + 1)]
      BY <1>2, <1>4, <2>4, <3>1
    <3>. QED
      BY <1>1, <1>3, <3>2, <3>3, <3>4
  <2>. QED
    BY <1>1, <2>2, <2>3, <2>4
<1>. QED
  BY <1>4, <1>7 DEF Holds, q, g, m

-----------------------------------------------------------------------------
(* What the screen shows *)

\* The rows of the screenful that starts off rows above the window.
LEMMA WindowRow ==
  ASSUME NEW c \in Consoles, NEW p \in Seq(Row), NEW off \in 0..Len(p), NEW r \in Lines
  PROVE  Window(c, p, off)[r] = IF r < off THEN p[Len(p) - off + r + 1] ELSE c.cells[r - off]
<1> DEFINE s == [k \in 1..Rows |-> c.cells[k - 1]]
           j == Len(p) - off + r + 1
<1>1. Rows \in Nat /\ Rows > 0 /\ c.cells \in [Lines -> Row] /\ r \in 0..(Rows - 1) /\ Len(p) \in Nat
  BY ConsoleAssumption DEF Consoles, Screens, Lines
<1>2. \A k \in 1..Rows : k - 1 \in Lines
  BY <1>1 DEF Lines
<1>3. s \in Seq(Row) /\ Len(s) = Rows /\ \A k \in 1..Rows : s[k] = c.cells[k - 1]
  BY <1>1, <1>2
<1>4. Window(c, p, off)[r] = (p \o s)[j]
  BY Zenon DEF Window, Text, Lines
<1> HIDE DEF s
<1>5. CASE r < off
  <2>1. j \in 1..Len(p)
    BY <1>1, <1>5
  <2> HIDE DEF j
  <2>2. (p \o s)[j] = p[j]
    BY <1>3, <2>1
  <2>. QED
    BY <1>4, <1>5, <2>2 DEF j
<1>6. CASE ~(r < off)
  <2>1. j \in (Len(p) + 1)..(Len(p) + Rows) /\ j - Len(p) \in 1..Rows /\ j - Len(p) - 1 = r - off
    BY <1>1, <1>6
  <2> HIDE DEF j
  <2>2. (p \o s)[j] = s[j - Len(p)]
    BY <1>1, <1>3, <2>1
  <2>. QED
    BY <1>3, <1>4, <1>6, <2>1, <2>2
<1>. QED
  BY <1>5, <1>6

\* render_view draws that screenful, up to one screen back.
LEMMA RenderShows ==
  ASSUME NEW c \in Consoles, NEW p, Holds(c.ring, c.head, c.count, p),
         c.off <= c.count, c.off <= Rows
  PROVE  render_view(c).vram = Window(render_view(c), p, c.off)
<1> DEFINE off == c.off
           n == c.count
           h == c.head
           e == render_view(c)
<1>1. /\ Rows \in Nat /\ Rows > 0 /\ Cap \in Nat /\ Cap > 0 /\ off \in Nat /\ n \in 0..Cap
      /\ h \in Places /\ off <= n /\ off <= Rows
  BY ConsoleAssumption DEF Consoles
<1>2. p \in Seq(Row) /\ Len(p) = n /\ \A k \in 1..n : p[k] = c.ring[At(h, n, k)]
  BY DEF Holds
<1>3. Min({c.off, c.count}) = off /\ Min({off, Rows}) = off
  BY <1>1, OfTwo
<1>4. e.vram = [r \in Lines |-> IF r < off THEN c.ring[(h - off + r + Rows * Cap) % Cap]
                                ELSE c.cells[r - off]]
  BY <1>3, Zenon DEF render_view, Lines, Consoles
<1>5. e \in Consoles /\ e.cells = c.cells
  BY Rendered
<1>6. Window(e, p, off) = [r \in Lines |-> Window(e, p, off)[r]]
  BY DEF Window, Lines
<1> HIDE DEF e, off, n, h
<1>7. ASSUME NEW r \in Lines
      PROVE  Window(e, p, off)[r] = IF r < off THEN c.ring[(h - off + r + Rows * Cap) % Cap]
                                    ELSE c.cells[r - off]
  <2>1. Window(e, p, off)[r] = IF r < off THEN p[n - off + r + 1] ELSE c.cells[r - off]
    <3>1. off \in 0..Len(p)
      BY <1>1, <1>2
    <3>. QED
      BY <1>2, <1>5, <3>1, WindowRow
  <2>2. ASSUME r < off PROVE p[n - off + r + 1] = c.ring[(h - off + r + Rows * Cap) % Cap]
    <3>1. n - off + r + 1 \in 1..n /\ r \in Nat
      BY <1>1, <2>2 DEF Lines
    <3>2. p[n - off + r + 1] = c.ring[At(h, n, n - off + r + 1)]
      BY <1>2, <3>1
    <3> DEFINE x == h - off + r + Cap
    <3>3. h - n + (n - off + r + 1) - 1 + Cap = x
      BY <1>1, <3>1 DEF Places
    <3>4. At(h, n, n - off + r + 1) = x % Cap
      BY <3>3 DEF At
    <3>5. x \in Nat /\ Rows - 1 \in Nat /\ (Rows - 1) * Cap \in Nat /\ Rows * Cap = Cap + (Rows - 1) * Cap
      BY <1>1, <3>1 DEF Places
    <3>6. h - off + r + Rows * Cap = x + (Rows - 1) * Cap
      BY <1>1, <3>1, <3>5 DEF Places
    <3> HIDE DEF x
    <3>7. (x + (Rows - 1) * Cap) % Cap = x % Cap
      BY <3>5, Rounds
    <3>. QED
      BY <3>2, <3>4, <3>6, <3>7
  <2>. QED
    BY <2>1, <2>2
<1>8. e.vram = Window(e, p, off)
  BY <1>4, <1>6, <1>7
<1>. QED
  BY <1>8 DEF e, off

-----------------------------------------------------------------------------
(* The invariant *)

IInv == /\ con \in Consoles /\ con.off <= con.count
        /\ Holds(con.ring, con.head, con.count, past)

\* A console just set up.
LEMMA ConsoleInit == Init => IInv
<1> SUFFICES ASSUME Init PROVE IInv
  OBVIOUS
<1>1. /\ con = console_init /\ past = << >>
      /\ Rows \in Nat /\ Rows > 0 /\ Cols \in Nat /\ Cols > 0 /\ Cap \in Nat /\ Cap > 0
  BY ConsoleAssumption DEF Init
<1>2. 0 \in Lines /\ 0 \in Columns /\ 0 \in Places /\ 0 \in 0..Cap
  BY <1>1 DEF Lines, Columns, Places
<1>3. con \in Consoles /\ con.off = 0 /\ con.count = 0
  BY <1>1, <1>2, Blanks DEF console_init, Consoles, Places
<1>4. Holds(con.ring, con.head, con.count, past)
  BY <1>1, <1>3 DEF Holds
<1>. QED
  BY <1>3, <1>4 DEF IInv

\* Output keeps it.
LEMMA PutKeeps ==
  ASSUME IInv, NEW ch \in Chars, console_putc(ch)
  PROVE  /\ IInv'
         /\ \/ Scrolls(ch) /\ Pushed(con, con', TopRow(ch)) /\ TopRow(ch) \in Row
               /\ past' = Latest(Append(past, TopRow(ch)))
            \/ ~Scrolls(ch) /\ SameRing(con, con') /\ past' = past
<1>1. con \in Consoles /\ con' = vga_putc(con, ch) /\ con.off <= con.count
      /\ Holds(con.ring, con.head, con.count, past)
  BY DEF IInv, console_putc
<1>2. (Scrolls(ch) <=> Scrolling(con, ch)) /\ TopRow(ch) = Leaving(con, ch)
  BY DEF Scrolls, Scrolling, TopRow, Leaving
<1>3. /\ con' \in Consoles
      /\ Scrolls(ch) => Pushed(con, con', TopRow(ch))
      /\ ~Scrolls(ch) => SameRing(con, con')
  BY <1>1, <1>2, Written
<1>4. con'.off \in Nat /\ con.off \in Nat /\ con.count \in 0..Cap /\ Cap \in Nat
  BY <1>1, <1>3, ConsoleAssumption DEF Consoles
<1>5. CASE Scrolls(ch)
  <2>1. Pushed(con, con', TopRow(ch)) /\ past' = Latest(Append(past, TopRow(ch)))
    BY <1>3, <1>5 DEF console_putc
  <2>2. TopRow(ch) \in Row
    <3>1. con.cells \in [Lines -> Row] /\ 0 \in Lines /\ con.col \in Columns
      BY <1>1, ConsoleAssumption DEF Consoles, Screens, Lines
    <3>2. con.cells[0] \in Row
      BY <3>1
    <3>. QED
      BY <3>1, <3>2 DEF TopRow, Row, Columns
  <2>3. Holds(con'.ring, con'.head, con'.count, past')
    BY <1>1, <2>1, <2>2, PushHolds
  <2>4. con'.off <= con'.count
    BY <1>1, <1>4, <2>1 DEF Pushed, Grown
  <2>. QED
    BY <1>3, <1>5, <2>1, <2>2, <2>3, <2>4 DEF IInv
<1>6. CASE ~Scrolls(ch)
  <2>1. SameRing(con, con') /\ past' = past
    BY <1>3, <1>6 DEF console_putc
  <2>. QED
    BY <1>1, <1>3, <1>6, <2>1 DEF IInv, SameRing
<1>. QED
  BY <1>5, <1>6

\* vga_clear empties the ring.
LEMMA ClearKeeps == ASSUME IInv, console_clear PROVE IInv' /\ con'.off = 0
<1> DEFINE b == [con EXCEPT !.cells = BlankWindow, !.row = 0, !.col = 0,
                            !.head = 0, !.count = 0, !.off = 0]
<1>1. con' = vga_flush(b) /\ past' = << >> /\ con \in Consoles
  BY DEF IInv, console_clear, vga_clear
<1>2. 0 \in Lines /\ 0 \in Columns /\ 0 \in Places /\ 0 \in 0..Cap
  BY ConsoleAssumption DEF Lines, Columns, Places
<1>3. b \in Consoles /\ b.count = 0 /\ b.off = 0
  BY <1>1, <1>2, Blanks DEF Consoles
<1> HIDE DEF b
<1>4. con' \in Consoles /\ con'.count = 0 /\ con'.off = 0
  BY <1>1, <1>3, Flushed DEF SameRing
<1>5. Holds(con'.ring, con'.head, con'.count, past')
  BY <1>1, <1>4 DEF Holds
<1>. QED
  BY <1>4, <1>5 DEF IInv

\* A paging key redraws from an offset within the history.
LEMMA Paged ==
  ASSUME NEW c \in Consoles, c.off <= c.count,
         NEW d \in {console_page_up(c), console_page_down(c), console_page_home(c), console_page_end(c)}
  PROVE  \E x \in 0..c.count : d = render_view([c EXCEPT !.off = x])
<1>1. c.off \in Nat /\ c.count \in Nat
  BY ConsoleAssumption DEF Consoles
<1>2. page \in Nat
  <2>. DEFINE x == Rows - 1
  <2>1. x \in Int /\ 1 \in Int
    BY ConsoleAssumption
  <2>. HIDE DEF x
  <2>2. Max({x, 1}) = IF x >= 1 THEN x ELSE 1
    BY <2>1, OfTwo
  <2>. QED
    BY <2>1, <2>2 DEF page, x
<1>3. Min({c.off + page, c.count}) \in 0..c.count
  BY <1>1, <1>2, OfTwo
<1>4. Max({c.off - page, 0}) \in 0..c.count
  <2>. DEFINE x == c.off - page
  <2>1. x \in Int /\ 0 \in Int /\ x <= c.count
    BY <1>1, <1>2
  <2>. HIDE DEF x
  <2>2. Max({x, 0}) = IF x >= 0 THEN x ELSE 0
    BY <2>1, OfTwo
  <2>3. Max({x, 0}) \in 0..c.count
    BY <1>1, <2>1, <2>2
  <2>. QED
    BY <2>3 DEF x
<1>5. c.count \in 0..c.count /\ 0 \in 0..c.count
  BY <1>1
<1>6. \/ d = console_page_up(c) \/ d = console_page_down(c)
      \/ d = console_page_home(c) \/ d = console_page_end(c)
  OBVIOUS
<1>. QED
  BY <1>3, <1>4, <1>5, <1>6, Zenon
  DEF console_page_up, console_page_down, console_page_home, console_page_end

\* A paging key moves the offset within the history and draws.
LEMMA ViewKeeps ==
  ASSUME IInv, View
  PROVE  IInv' /\ (con'.off <= Rows => con'.vram = Window(con', past', con'.off))
<1>1. /\ con \in Consoles /\ con.off \in Nat /\ con.count \in Nat /\ con.off <= con.count
      /\ Holds(con.ring, con.head, con.count, past)
  BY ConsoleAssumption DEF IInv, Consoles
<1>2. /\ con' \in {console_page_up(con), console_page_down(con), console_page_home(con), console_page_end(con)}
      /\ past' = past
  BY DEF View, PageUp, PageDown, PageHome, PageEnd
<1>3. \E x \in 0..con.count : con' = render_view([con EXCEPT !.off = x])
  BY <1>1, <1>2, Paged, Zenon
<1>4. PICK x \in 0..con.count : con' = render_view([con EXCEPT !.off = x])
  BY <1>3
<1> DEFINE b == [con EXCEPT !.off = x]
<1>5. /\ b \in Consoles /\ b.off = x /\ b.count = con.count
      /\ b.ring = con.ring /\ b.head = con.head
  BY <1>1 DEF Consoles
<1>6. con' = render_view(b)
  BY <1>4
<1> HIDE DEF b
<1>7. con' \in Consoles /\ SameRing(b, con')
  BY <1>5, <1>6, Rendered
<1>8. con'.off = x /\ con'.count = con.count /\ con'.ring = con.ring /\ con'.head = con.head
  BY <1>5, <1>7 DEF SameRing
<1>9. IInv'
  BY <1>1, <1>2, <1>7, <1>8 DEF IInv
<1>10. ASSUME con'.off <= Rows PROVE con'.vram = Window(con', past', con'.off)
  <2>1. Holds(b.ring, b.head, b.count, past) /\ b.off <= b.count /\ b.off <= Rows
    BY <1>1, <1>5, <1>8, <1>10
  <2>2. render_view(b).vram = Window(render_view(b), past, b.off)
    BY <1>5, <2>1, RenderShows
  <2>. QED
    BY <1>2, <1>5, <1>6, <1>8, <2>2
<1>. QED
  BY <1>9, <1>10

\* Every step of console.c, a paging key or output, keeps the invariant.
LEMMA ConsoleStep == ASSUME IInv, [Next]_vars PROVE IInv'
<1>1. CASE UNCHANGED vars
  BY <1>1 DEF IInv, vars
<1>2. CASE \E ch \in Chars : console_putc(ch)
  BY <1>2, PutKeeps
<1>3. CASE console_clear
  BY <1>3, ClearKeeps
<1>4. CASE View
  BY <1>4, ViewKeeps
<1>. QED
  BY <1>1, <1>2, <1>3, <1>4 DEF Next, View

\* It holds in every reachable state.
LEMMA ConsoleInvariant == Spec => []IInv
<1>1. IInv /\ [Next]_vars => IInv'
  BY ConsoleStep
<1>. QED
  BY <1>1, ConsoleInit, PTL DEF Spec

-----------------------------------------------------------------------------
(* Rows in view *)

\* Scrolling moves the offset along with the history, until the ring drops the rows.
LEMMA RowsPinned ==
  ASSUME IInv, NEW ch \in Chars, console_putc(ch), con.off \in 1..(Cap - 1), NEW r \in Lines, r < con.off
  PROVE  Window(con', past', con'.off)[r] = Window(con, past, con.off)[r]
<1> DEFINE n == con.count
           off == con.off
<1>2. /\ IInv' /\ Cap \in Nat /\ Rows \in Nat /\ Rows > 0 /\ n \in 0..Cap /\ off \in 1..(Cap - 1) /\ off <= n
      /\ con \in Consoles /\ con' \in Consoles
      /\ past \in Seq(Row) /\ Len(past) = n
      /\ past' \in Seq(Row) /\ Len(past') = con'.count
  BY PutKeeps, ConsoleAssumption DEF IInv, Holds, Consoles
<1>3. r \in Lines /\ r < off /\ r \in Nat
  BY <1>2 DEF Lines
<1>4. \/ Pushed(con, con', TopRow(ch)) /\ TopRow(ch) \in Row
         /\ past' = Latest(Append(past, TopRow(ch)))
      \/ SameRing(con, con') /\ past' = past
  BY PutKeeps
<1> HIDE DEF n, off
<1>5. Window(con, past, off)[r] = past[n - off + r + 1]
  <2>1. off \in 0..Len(past)
    BY <1>2
  <2>. QED
    BY <1>2, <1>3, <2>1, WindowRow, Zenon
<1>6. CASE SameRing(con, con') /\ past' = past
  <2>1. con'.off = off /\ con'.count = n
    BY <1>6 DEF SameRing, n, off
  <2>2. Window(con', past', off)[r] = past[n - off + r + 1]
    <3>1. off \in 0..Len(past')
      BY <1>2, <2>1
    <3>. QED
      BY <1>2, <1>3, <1>6, <3>1, WindowRow
  <2>. QED
    BY <1>5, <2>1, <2>2 DEF off
<1>7. CASE /\ Pushed(con, con', TopRow(ch)) /\ TopRow(ch) \in Row
           /\ past' = Latest(Append(past, TopRow(ch)))
  <2>1. con'.count = Grown(n) /\ con'.off = IF off > 0 /\ off < Grown(n) THEN off + 1 ELSE off
    BY <1>7 DEF Pushed, n, off
  <2>2. con'.off = off + 1 /\ Grown(n) \in Nat /\ off + 1 <= Grown(n)
    BY <1>2, <2>1 DEF Grown
  <2>3. Window(con', past', off + 1)[r] = past'[Grown(n) - (off + 1) + r + 1]
    <3>1. off + 1 \in 0..Len(past') /\ r < off + 1
      BY <1>2, <1>3, <2>1, <2>2
    <3>2. past' \in Seq(Row) /\ con' \in Consoles /\ r \in Lines /\ Len(past') = Grown(n)
      BY <1>2, <1>3, <2>1
    <3> DEFINE v == off + 1
    <3>3. v \in 0..Len(past') /\ r < v
      BY <3>1
    <3> HIDE DEF v
    <3>4. Window(con', past', v)[r] = past'[Len(past') - v + r + 1]
      <4>1. Window(con', past', v)[r]
              = IF r < v THEN past'[Len(past') - v + r + 1] ELSE con'.cells[r - v]
        BY <3>2, <3>3, WindowRow, Zenon
      <4>. QED
        BY <3>3, <4>1, Zenon
    <3>. QED
      BY <3>2, <3>4 DEF v
  <2>4. /\ n < Cap => \A k \in 1..n : past'[k] = past[k]
        /\ n = Cap => \A k \in 1..(Cap - 1) : past'[k] = past[k + 1]
    BY <1>2, <1>7, LatestOf, ZenonT(30)
  <2>5. CASE n < Cap
    <3>1. Grown(n) - (off + 1) + r + 1 = n - off + r + 1 /\ n - off + r + 1 \in 1..n
      BY <1>2, <1>3, <2>5 DEF Grown
    <3>. QED
      BY <1>5, <2>2, <2>3, <2>4, <2>5, <3>1 DEF off
  <2>6. CASE n = Cap
    <3> DEFINE k == n - off + r
    <3>1. Grown(n) - (off + 1) + r + 1 = k /\ k \in 1..(Cap - 1) /\ n - off + r + 1 = k + 1
      BY <1>2, <1>3, <2>6 DEF Grown
    <3> HIDE DEF k
    <3>. QED
      BY <1>5, <2>2, <2>3, <2>4, <2>6, <3>1 DEF off
  <2>. QED
    BY <1>2, <2>5, <2>6
<1>. QED
  BY <1>4, <1>6, <1>7

\* A printable character redraws a view of history.
LEMMA PrintDraws ==
  ASSUME NEW c \in Consoles, c.off # 0, NEW ch \in Printable, NEW d, d = vga_putc(c, ch),
         NEW p, Holds(d.ring, d.head, d.count, p), d.off <= d.count, d.off <= Rows
  PROVE  d.vram = Window(d, p, d.off)
<1> DEFINE put == [c EXCEPT !.cells[c.row][c.col] = ch]
           wraps == c.col + 1 >= Cols
           moved == IF wraps THEN LineFeed([put EXCEPT !.col = 0]) ELSE [put EXCEPT !.col = @ + 1]
           e == Put(c, ch)
<1>1. ch # "nl" /\ ch # "cr" /\ ch # "bs" /\ ch \in Chars
  BY DEF Printable
<1>2. d \in Consoles
  BY <1>1, Written
<1>3. /\ c.row \in Lines /\ c.col \in Columns /\ c.cells \in [Lines -> Row] /\ c.off \in Nat
      /\ Cols \in Nat /\ Cols > 0
  BY ConsoleAssumption DEF Consoles, Screens
<1>4. put \in Consoles /\ put.off = c.off
  <2>1. [c.cells EXCEPT ![c.row] = [@ EXCEPT ![c.col] = ch]] \in Screens
    BY <1>3 DEF Row, Screens, Columns
  <2> DEFINE w == [c.cells EXCEPT ![c.row] = [@ EXCEPT ![c.col] = ch]]
  <2>2. put = [c EXCEPT !.cells = w]
    BY DEF Consoles
  <2> HIDE DEF w, put
  <2>. QED
    BY <2>1, <2>2 DEF Consoles, w
<1>5. e = IF (wraps /\ c.row + 1 >= Rows) \/ moved.off # 0 THEN vga_flush(moved)
          ELSE [moved EXCEPT !.vram[c.row][c.col] = ch]
  BY <1>1 DEF Put
<1>6. d = [e EXCEPT !.hw = <<e.row, e.col>>]
  BY DEF vga_putc
<1> HIDE DEF put, e
<1>7. moved \in Consoles /\ moved.off # 0
  <2>1. CASE wraps
    <3> DEFINE b == [put EXCEPT !.col = 0]
    <3>1. b \in Consoles /\ b.off = c.off
      BY <1>3, <1>4 DEF Consoles, Columns
    <3>2. moved = LineFeed(b)
      BY <2>1
    <3> HIDE DEF b, moved
    <3>3. moved \in Consoles /\ (Pushed(b, moved, b.cells[0]) \/ SameRing(b, moved))
      BY <3>1, <3>2, NextLine
    <3>. QED
      BY <1>3, <3>1, <3>3 DEF Pushed, SameRing
  <2>2. CASE ~wraps
    <3>1. c.col + 1 \in Columns
      BY <1>3, <2>2 DEF Columns
    <3>2. put.col = c.col
      BY DEF put, Consoles
    <3>3. moved = [put EXCEPT !.col = c.col + 1]
      BY <2>2, <3>2
    <3> HIDE DEF moved
    <3>. QED
      BY <1>4, <3>1, <3>3 DEF Consoles
  <2>. QED
    BY <2>1, <2>2
<1> HIDE DEF moved, wraps
<1>8. e = render_view(moved)
  BY <1>5, <1>7 DEF vga_flush
<1>9. e \in Consoles /\ SameRing(moved, e) /\ e.cells = moved.cells
  BY <1>7, <1>8, Rendered
<1>10. d.vram = e.vram /\ d.cells = e.cells /\ SameRing(e, d)
  BY <1>6, <1>9 DEF Consoles, SameRing
<1>11. SameRing(moved, d)
  BY <1>9, <1>10, RingChain
<1>12. e.vram = Window(e, p, moved.off)
  BY <1>7, <1>8, <1>11, RenderShows DEF SameRing
<1>13. Window(e, p, moved.off) = Window(d, p, d.off)
  BY <1>10, <1>11 DEF Window, Text, SameRing
<1>. QED
  BY <1>10, <1>12, <1>13

\* Newline, return and backspace draw nothing.
LEMMA ControlDrawsNothing ==
  ASSUME NEW c \in Consoles, NEW ch \in Chars \ Printable, NEW d, d = vga_putc(c, ch)
  PROVE  /\ d.vram = c.vram
         /\ d.cells = IF Scrolling(c, ch)
                      THEN [r \in Lines |-> IF r < Rows - 1 THEN c.cells[r + 1] ELSE BlankRow]
                      ELSE c.cells
<1> DEFINE e == Put(c, ch)
<1>1. d = [e EXCEPT !.hw = <<e.row, e.col>>]
  BY DEF vga_putc
<1>2. ch \in {"nl", "cr", "bs"} /\ Rows \in Nat /\ c.row \in Lines
  BY ConsoleAssumption DEF Printable, Consoles
<1>3. CASE ch = "nl" /\ c.row = Rows - 1
  <2>1. c.row + 1 >= Rows /\ Scrolling(c, ch)
    BY <1>2, <1>3 DEF Scrolling
  <2> DEFINE b == [c EXCEPT !.col = 0]
  <2>2. b.row = c.row /\ b.cells = c.cells /\ b.vram = c.vram
    BY DEF Consoles
  <2>3. e = [vga_scroll_up(b) EXCEPT !.row = Rows - 1]
    BY <1>3, <2>1, <2>2 DEF Put, LineFeed
  <2> HIDE DEF e
  <2>4. e.vram = c.vram /\ e.cells = [r \in Lines |-> IF r < Rows - 1 THEN c.cells[r + 1] ELSE BlankRow]
    BY <2>3 DEF vga_scroll_up, Scrolled, Consoles, Lines
  <2>. QED
    BY <1>1, <2>1, <2>4
<1>4. CASE ch = "nl" /\ c.row # Rows - 1
  <2>1. ~(c.row + 1 >= Rows) /\ ~Scrolling(c, ch)
    BY <1>2, <1>4 DEF Scrolling, Lines
  <2>2. e = [[c EXCEPT !.col = 0] EXCEPT !.row = c.row + 1]
    BY <1>4, <2>1 DEF Put, LineFeed, Consoles
  <2> HIDE DEF e
  <2>3. e.vram = c.vram /\ e.cells = c.cells
    BY <2>2 DEF Consoles
  <2>. QED
    BY <1>1, <2>1, <2>3
<1>5. CASE ch \in {"cr", "bs"}
  <2>1. ~Scrolling(c, ch)
    BY <1>5 DEF Scrolling, Printable
  <2>2. \E x : e = [c EXCEPT !.col = x]
    BY <1>5, Zenon DEF Put
  <2> HIDE DEF e
  <2>3. e.vram = c.vram /\ e.cells = c.cells
    BY <2>2 DEF Consoles
  <2>. QED
    BY <1>1, <2>1, <2>3
<1>. QED
  BY <1>2, <1>3, <1>4, <1>5

\* A control character may move the text up, and the screen shows the rows it showed.
LEMMA ControlPinned ==
  ASSUME IInv, NEW ch \in Chars \ Printable, console_putc(ch), con.off \in 1..(Cap - 1)
  PROVE  Window(con', past', con'.off) = Window(con, past, con.off)
<1> DEFINE n == con.count
           off == con.off
<1>1. /\ IInv' /\ Cap \in Nat /\ Rows \in Nat /\ Rows > 0 /\ n \in 0..Cap /\ off \in 1..(Cap - 1) /\ off <= n
      /\ con \in Consoles /\ con' \in Consoles /\ con' = vga_putc(con, ch)
      /\ past \in Seq(Row) /\ Len(past) = n
      /\ past' \in Seq(Row) /\ Len(past') = con'.count
  BY PutKeeps, ConsoleAssumption DEF IInv, Holds, Consoles, console_putc
<1>2. Scrolls(ch) <=> Scrolling(con, ch)
  BY DEF Scrolls, Scrolling
<1>3. \/ Scrolls(ch) /\ Pushed(con, con', TopRow(ch)) /\ TopRow(ch) \in Row
         /\ past' = Latest(Append(past, TopRow(ch)))
      \/ ~Scrolls(ch) /\ SameRing(con, con') /\ past' = past
  BY PutKeeps
<1>4. con'.cells = IF Scrolling(con, ch)
                   THEN [r \in Lines |-> IF r < Rows - 1 THEN con.cells[r + 1] ELSE BlankRow]
                   ELSE con.cells
  BY <1>1, ControlDrawsNothing
<1>5. ASSUME NEW r \in Lines PROVE Window(con', past', con'.off)[r] = Window(con, past, con.off)[r]
  <2>1. CASE r < off
    BY <2>1, RowsPinned
  <2>2. CASE ~(r < off) /\ ~Scrolls(ch)
    <3>1. con'.off = off /\ con'.cells = con.cells /\ past' = past
      BY <1>2, <1>3, <1>4, <2>2 DEF SameRing
    <3>. QED
      BY <3>1 DEF Window, Text
  <2>3. CASE ~(r < off) /\ Scrolls(ch)
    <3>1. /\ con'.count = Grown(n) /\ con'.off = off + 1 /\ off + 1 <= Grown(n) /\ Grown(n) \in Nat
      <4>1. con'.count = Grown(n) /\ con'.off = IF off > 0 /\ off < Grown(n) THEN off + 1 ELSE off
        BY <1>3, <2>3, Zenon DEF Pushed
      <4>2. Grown(n) \in Nat /\ off + 1 <= Grown(n) /\ off > 0 /\ off < Grown(n)
        BY <1>1 DEF Grown
      <4>. QED
        BY <4>1, <4>2, Zenon
    <3>2. /\ TopRow(ch) = con.cells[0] /\ past' = Latest(Append(past, TopRow(ch))) /\ TopRow(ch) \in Row
      BY <1>3, <2>3 DEF TopRow
    <3>3. con'.cells = [x \in Lines |-> IF x < Rows - 1 THEN con.cells[x + 1] ELSE BlankRow]
      BY <1>2, <1>4, <2>3
    <3> DEFINE v == con'.off
    <3> HIDE DEF n, off, v
    <3>4. off \in 0..Len(past) /\ v \in 0..Len(past') /\ v = off + 1 /\ Len(past') = Grown(n)
      BY <1>1, <3>1 DEF v
    <3>5. Window(con, past, off)[r] = con.cells[r - off]
      BY <1>1, <2>3, <3>4, WindowRow, ZenonT(40)
    <3>6. Window(con', past', v)[r] = IF r < v THEN past'[Len(past') - v + r + 1] ELSE con'.cells[r - v]
      BY <1>1, <3>4, WindowRow, ZenonT(40)
    <3>7. CASE r = off
      <4>1. r < v /\ Len(past') - v + r + 1 = Grown(n) /\ r - off = 0
        BY <1>1, <3>1, <3>4, <3>7
      <4>2. past'[Grown(n)] = con.cells[0]
        BY <1>1, <3>2, LatestOf, Zenon
      <4>. QED
        BY <3>5, <3>6, <4>1, <4>2 DEF v, off
    <3>8. CASE r # off
      <4>1. ~(r < v) /\ r - v \in Lines /\ r - v < Rows - 1 /\ r - v + 1 = r - off
        BY <1>1, <2>3, <3>4, <3>8 DEF Lines
      <4>2. con'.cells[r - v] = con.cells[r - off]
        BY <3>3, <4>1
      <4>. QED
        BY <3>5, <3>6, <4>1, <4>2 DEF v, off
    <3>. QED
      BY <3>7, <3>8
  <2>. QED
    BY <2>1, <2>2, <2>3
<1>. QED
  BY <1>5, Zenon DEF Window, Lines

\* While the view is at most a screenful back, the screen shows what it stands for.
InView == con.off \in 1..(Cap - 1) /\ con.off <= Rows => con.vram = Window(con, past, con.off)

\* Output keeps it so, and the rows of history stay where they are.
LEMMA PutInView ==
  ASSUME IInv, InView, NEW ch \in Chars, console_putc(ch)
  PROVE  /\ InView'
         /\ con.off \in 1..(Cap - 1) /\ con'.off <= Rows =>
              \A r \in 0..(con.off - 1) : con'.vram[r] = con.vram[r]
<1>1. /\ IInv' /\ Cap \in Nat /\ Rows \in Nat /\ con \in Consoles /\ con' \in Consoles
      /\ con.off \in Nat /\ con.count \in 0..Cap /\ con.off <= con.count /\ con' = vga_putc(con, ch)
  BY PutKeeps, ConsoleAssumption DEF IInv, Consoles, console_putc
<1>2. Pushed(con, con', TopRow(ch)) \/ SameRing(con, con')
  BY PutKeeps
<1>3. /\ con.off = 0 => con'.off = 0
      /\ con.off = Cap => con'.off = Cap
      /\ con.off <= con'.off
  BY <1>1, <1>2 DEF Pushed, SameRing, Grown
<1>4. CASE con.off \notin 1..(Cap - 1)
  BY <1>1, <1>3, <1>4 DEF InView
<1>5. CASE con.off \in 1..(Cap - 1) /\ ~(con'.off <= Rows)
  BY <1>5 DEF InView
<1>6. CASE con.off \in 1..(Cap - 1) /\ con'.off <= Rows
  <2>1. con.off <= Rows /\ con.vram = Window(con, past, con.off)
    <3>1. con'.off \in Nat
      BY <1>1 DEF Consoles
    <3>2. con.off <= Rows
      BY <1>1, <1>3, <1>6, <3>1
    <3>. QED
      BY <1>6, <3>2 DEF InView
  <2>2. con'.vram = Window(con', past', con'.off)
    <3>1. CASE ch \in Printable
      <4>1. Holds(con'.ring, con'.head, con'.count, past') /\ con'.off <= con'.count /\ con.off # 0
        BY <1>1, <1>6 DEF IInv
      <4>. QED
        BY <1>1, <1>6, <3>1, <4>1, PrintDraws, Zenon
    <3>2. CASE ch \notin Printable
      <4>1. con'.vram = con.vram
        BY <1>1, <3>2, ControlDrawsNothing
      <4>2. Window(con', past', con'.off) = Window(con, past, con.off)
        BY <1>6, <3>2, ControlPinned
      <4>. QED
        BY <2>1, <4>1, <4>2, Zenon
    <3>. QED
      BY <3>1, <3>2
  <2>3. ASSUME NEW r \in 0..(con.off - 1) PROVE con'.vram[r] = con.vram[r]
    <3>1. r \in Lines /\ r < con.off
      BY <1>1, <2>1 DEF Lines
    <3>. QED
      BY <1>6, <2>1, <2>2, <3>1, RowsPinned
  <2>. QED
    BY <2>2, <2>3 DEF InView
<1>. QED
  BY <1>4, <1>5, <1>6

\* Every step keeps the screen current for the view.
LEMMA InViewStep == ASSUME IInv, InView, [Next]_vars PROVE InView'
<1>1. CASE UNCHANGED vars
  BY <1>1, Zenon DEF InView, vars, Window, Text
<1>2. CASE \E ch \in Chars : console_putc(ch)
  BY <1>2, PutInView
<1>3. CASE console_clear
  <2>1. con'.off = 0 /\ 0 \notin 1..(Cap - 1)
    BY <1>3, ClearKeeps
  <2>. QED
    BY <2>1 DEF InView
<1>4. CASE View
  BY <1>4, ViewKeeps DEF InView
<1>. QED
  BY <1>1, <1>2, <1>3, <1>4 DEF Next, View

-----------------------------------------------------------------------------
(* The theorems *)

(* vga_scroll_up keeps the ring, read from its oldest row, equal to the    *)
(* last rows that left the window, and the indices inside their arrays.    *)
THEOREM ConsoleRingIsHistory == Spec => []RingIsHistory
<1>1. IInv => RingIsHistory
  <2>1. SUFFICES ASSUME IInv PROVE RingIsHistory
    OBVIOUS
  <2>2. con \in Consoles /\ con.off <= con.count /\ con.off \in Nat /\ con.count \in 0..Cap /\ Cap \in Nat
    BY <2>1, ConsoleAssumption DEF IInv, Consoles
  <2>3. TypeOK
    <3>1. con.off \in 0..con.count
      BY <2>2
    <3>. QED
      BY <2>2, <3>1 DEF TypeOK, Consoles, Screens, Lines, Columns, Places
  <2>4. /\ past \in Seq(Row) /\ Len(past) = con.count
        /\ \A k \in 1..con.count : past[k] = con.ring[At(con.head, con.count, k)]
    BY <2>1 DEF IInv, Holds
  <2>5. History = past
    BY <2>4 DEF History, At
  <2>. QED
    BY <2>3, <2>5 DEF RingIsHistory
<1>. QED
  BY <1>1, ConsoleInvariant, PTL

(* A paging key draws, with render_view, the screenful its offset stands   *)
(* for, up to one screen back.                                             *)
THEOREM ConsoleViewShowsWindow == Spec => ViewShowsWindow
<1>1. ASSUME IInv, [Next]_vars
      PROVE  [View /\ con'.off <= Rows => con'.vram = Window(con', past', con'.off)]_vars
  BY <1>1, ViewKeeps
<1>. QED
  BY <1>1, ConsoleInvariant, PTL DEF Spec, ViewShowsWindow

(* The rows of history vga_putc finds on the screen stay there, for a view *)
(* at most a screenful back: what scrolls in moves the offset along, and   *)
(* what is printed redraws the same rows (InView), until the ring drops    *)
(* them.                                                                   *)
THEOREM ConsoleViewPinned == Spec => ViewPinned
<1> DEFINE Pin == \A ch \in Chars :
                    console_putc(ch) /\ con.off \in 1..(Cap - 1) /\ con'.off <= Rows =>
                      \A r \in 0..(con.off - 1) : con'.vram[r] = con.vram[r]
<1>1. Init => InView
  <2>1. Init => con.off = 0 /\ 0 \notin 1..(Cap - 1)
    BY DEF Init, console_init
  <2>. QED
    BY <2>1 DEF InView
<1>2. IInv /\ InView /\ [Next]_vars => InView'
  BY InViewStep
<1>3. ASSUME IInv, InView, [Next]_vars PROVE [Pin]_vars
  BY <1>3, PutInView
<1>. QED
  BY <1>1, <1>2, <1>3, ConsoleInvariant, PTL DEF Spec, ViewPinned

-----------------------------------------------------------------------------
(* The prompt loop: a string of output *)

\* Sequences with the same elements are the same.
LEMMA SameSeq ==
  ASSUME NEW S, NEW s \in Seq(S), NEW t \in Seq(S),
         Len(s) = Len(t), \A i \in 1..Len(s) : s[i] = t[i]
  PROVE  s = t
<1>1. s = [i \in 1..Len(s) |-> s[i]] /\ t = [i \in 1..Len(t) |-> t[i]]
  OBVIOUS
<1>. QED
  BY <1>1, Zenon

\* One sequence after another.
LEMMA Joined ==
  ASSUME NEW S, NEW s \in Seq(S), NEW t \in Seq(S)
  PROVE  /\ s \o t \in Seq(S) /\ Len(s \o t) = Len(s) + Len(t)
         /\ \A i \in 1..(Len(s) + Len(t)) : (s \o t)[i] = IF i <= Len(s) THEN s[i] ELSE t[i - Len(s)]
OBVIOUS

\* A non-empty set of naturals has a least member.
LEMMA LeastNatural ==
  ASSUME NEW T \in SUBSET Nat, T # {}
  PROVE  \E x \in T : \A y \in T : x <= y
<1> DEFINE R == {ss \in Nat \X Nat : ss[1] < ss[2]}
<1>1. IsWellFoundedOn(R, Nat)
  BY NatLessThanWellFounded DEF OpToRel
<1> HIDE DEF R
<1>2. PICK x \in T : \A y \in T : ~ (<<y, x>> \in R)
  BY <1>1, WFMin, Zenon
<1>3. ASSUME NEW y \in T, y < x PROVE FALSE
  <2>1. <<y, x>> \in R
    BY <1>3 DEF R
  <2>. QED
    BY <2>1, <1>2
<1>. QED
  BY <1>3

\* What holds at 0 and is handed on by every step up to n holds up to n: otherwise there is a least
\* number where it fails.
LEMMA UpTo ==
  ASSUME NEW n \in Nat, NEW G, 0 \in G, \A k \in 0..(n - 1) : k \in G => k + 1 \in G
  PROVE  \A k \in 0..n : k \in G
<1>. DEFINE T == {k \in 0..n : k \notin G}
<1>1. SUFFICES ASSUME T # {} PROVE FALSE
  OBVIOUS
<1>2. T \in SUBSET Nat
  OBVIOUS
<1>3. PICK x \in T : \A y \in T : x <= y
  BY <1>1, <1>2, LeastNatural, Zenon
<1>4. x \in 0..n /\ x # 0
  BY <1>3
<1>5. x - 1 \in 0..(n - 1) /\ x - 1 \in 0..n /\ (x - 1) + 1 = x /\ ~(x <= x - 1)
  BY <1>4
<1>6. x - 1 \in G
  BY <1>3, <1>5
<1>. QED
  BY <1>3, <1>5, <1>6

(* f[k] is the console after k characters of s. *)
Trace(f, c, s, n) == f = [k \in 0..n |-> IF k = 0 THEN c ELSE vga_putc(f[k - 1], s[k])]

\* There is such a sequence of consoles.
LEMMA TraceExists ==
  ASSUME NEW c, NEW s, NEW n \in Nat
  PROVE  \E f : Trace(f, c, s, n)
<1>. DEFINE G == {k \in Nat : \E f : Trace(f, c, s, k)}
<1>1. 0 \in G
  <2>. DEFINE f == [k \in 0..0 |-> c]
  <2>1. Trace(f, c, s, 0)
    BY DEF Trace
  <2>. QED
    BY <2>1
<1>2. ASSUME NEW k \in 0..(n - 1), k \in G PROVE k + 1 \in G
  <2>1. PICK f : Trace(f, c, s, k)
    BY <1>2
  <2>. DEFINE e == vga_putc(f[k], s[k + 1])
              g == [j \in 0..(k + 1) |-> IF j = k + 1 THEN e ELSE f[j]]
  <2>2. k \in Nat /\ k + 1 # 0 /\ k + 1 \in Nat /\ (k + 1) - 1 = k
    OBVIOUS
  <2>3. ASSUME NEW j \in 0..(k + 1)
        PROVE  g[j] = IF j = 0 THEN c ELSE vga_putc(g[j - 1], s[j])
    <3>1. CASE j = k + 1
      <4>1. g[j] = e /\ j - 1 = k /\ g[k] = f[k] /\ j # 0
        BY <3>1, <2>2
      <4>. QED
        BY <4>1, <3>1, Zenon
    <3>2. CASE j # k + 1
      <4>1. j \in 0..k /\ g[j] = f[j] /\ (j # 0 => j - 1 \in 0..k /\ g[j - 1] = f[j - 1])
        BY <3>2, <2>2
      <4>2. f[j] = IF j = 0 THEN c ELSE vga_putc(f[j - 1], s[j])
        BY <4>1, <2>1, Zenon DEF Trace
      <4>. QED
        BY <4>1, <4>2, Zenon
    <3>. QED
      BY <3>1, <3>2
  <2>4. DOMAIN g = 0..(k + 1)
    OBVIOUS
  <2>5. g = [j \in 0..(k + 1) |-> g[j]]
    BY <2>4
  <2>. HIDE DEF g
  <2>6. g = [j \in 0..(k + 1) |-> IF j = 0 THEN c ELSE vga_putc(g[j - 1], s[j])]
    BY <2>3, <2>5, Zenon
  <2>7. Trace(g, c, s, k + 1)
    BY <2>6, Zenon DEF Trace
  <2>. QED
    BY <2>2, <2>7, Zenon
<1>. HIDE DEF G
<1>3. n \in G
  BY <1>1, <1>2, UpTo
<1>. QED
  BY <1>3, Zenon DEF G

Steps(f, c, s) ==
  /\ f[0] = c /\ PutAll(c, s) = f[Len(s)]
  /\ \A k \in 0..(Len(s) - 1) : f[k + 1] = vga_putc(f[k], s[k + 1])

\* PutAll writes character by character.
LEMMA Written1By1 ==
  ASSUME NEW c, NEW s, Len(s) \in Nat
  PROVE  \E f : Steps(f, c, s)
<1>. DEFINE n == Len(s)
            f == CHOOSE g : Trace(g, c, s, n)
<1>1. PutAll(c, s) = f[n]
  BY Zenon DEF PutAll, Trace
<1>2. Trace(f, c, s, n)
  <2>1. \E g : Trace(g, c, s, n)
    BY TraceExists
  <2>. QED
    BY <2>1, Zenon
<1>. HIDE DEF f
<1>3. 0 \in 0..n /\ \A k \in 0..(n - 1) : k + 1 \in 0..n /\ k + 1 # 0 /\ (k + 1) - 1 = k
  OBVIOUS
<1>. HIDE DEF n
<1>4. f[0] = c
  BY <1>2, <1>3, Zenon DEF Trace
<1>5. ASSUME NEW k \in 0..(n - 1) PROVE f[k + 1] = vga_putc(f[k], s[k + 1])
  BY <1>2, <1>3, Zenon DEF Trace
<1>. QED
  BY <1>1, <1>4, <1>5, Zenon DEF n, Steps

\* A string in two parts.
LEMMA PutBoth ==
  ASSUME NEW S, NEW c, NEW s \in Seq(S), NEW t \in Seq(S)
  PROVE  PutAll(c, s \o t) = PutAll(PutAll(c, s), t)
<1>. DEFINE n == Len(s)
            m == Len(t)
            u == s \o t
<1>1. n \in Nat /\ m \in Nat /\ u \in Seq(S) /\ Len(u) = n + m
      /\ (\A k \in 1..n : u[k] = s[k]) /\ \A k \in 1..m : u[n + k] = t[k]
  OBVIOUS
<1>. HIDE DEF u
<1>2. PICK f : Steps(f, c, u)
  <2>1. Len(u) \in Nat
    BY <1>1
  <2>. QED
    BY <2>1, Written1By1, Zenon
<1>3. PICK g : Steps(g, c, s)
  BY <1>1, Written1By1, Zenon
<1>4. PICK h : Steps(h, g[n], t)
  BY <1>1, Written1By1, Zenon
<1>5. /\ f[0] = c /\ PutAll(c, u) = f[n + m]
      /\ \A k \in 0..((n + m) - 1) : f[k + 1] = vga_putc(f[k], u[k + 1])
  BY <1>1, <1>2, Zenon DEF Steps
<1>6. /\ g[0] = c /\ PutAll(c, s) = g[n]
      /\ \A k \in 0..(n - 1) : g[k + 1] = vga_putc(g[k], s[k + 1])
  BY <1>3, Zenon DEF Steps
<1>7. /\ h[0] = g[n] /\ PutAll(g[n], t) = h[m]
      /\ \A k \in 0..(m - 1) : h[k + 1] = vga_putc(h[k], t[k + 1])
  BY <1>4, Zenon DEF Steps
<1>. HIDE DEF n, m
<1>8. f[n] = g[n]
  <2>. DEFINE G == {k \in Nat : f[k] = g[k]}
  <2>1. 0 \in G
    BY <1>5, <1>6
  <2>2. ASSUME NEW k \in 0..(n - 1), k \in G PROVE k + 1 \in G
    <3>1. k \in 0..((n + m) - 1) /\ k + 1 \in 1..n /\ k + 1 \in Nat
      BY <1>1
    <3>2. f[k + 1] = vga_putc(f[k], u[k + 1]) /\ g[k + 1] = vga_putc(g[k], s[k + 1]) /\ u[k + 1] = s[k + 1]
      BY <3>1, <1>1, <1>5, <1>6, Zenon
    <3>. QED
      BY <3>1, <3>2, <2>2, Zenon
  <2>. HIDE DEF G
  <2>3. n \in G
    <3>1. n \in 0..n
      BY <1>1
    <3>. QED
      BY <3>1, <2>1, <2>2, <1>1, UpTo, Zenon
  <2>. QED
    BY <2>3 DEF G
<1>9. f[n + m] = h[m]
  <2>. DEFINE G == {k \in Nat : f[n + k] = h[k]}
  <2>1. 0 \in G
    <3>1. n + 0 = n
      BY <1>1
    <3>. QED
      BY <3>1, <1>7, <1>8
  <2>2. ASSUME NEW k \in 0..(m - 1), k \in G PROVE k + 1 \in G
    <3>1. n + k \in 0..((n + m) - 1) /\ k + 1 \in 1..m /\ k + 1 \in Nat /\ n + (k + 1) = (n + k) + 1
      BY <1>1
    <3>2. f[(n + k) + 1] = vga_putc(f[n + k], u[(n + k) + 1])
      BY <3>1, <1>5, Zenon
    <3>3. h[k + 1] = vga_putc(h[k], t[k + 1]) /\ u[n + (k + 1)] = t[k + 1]
      BY <3>1, <1>1, <1>7, Zenon
    <3>. QED
      BY <3>1, <3>2, <3>3, <2>2, Zenon
  <2>. HIDE DEF G
  <2>3. m \in G
    <3>1. m \in 0..m
      BY <1>1
    <3>. QED
      BY <3>1, <2>1, <2>2, <1>1, UpTo, Zenon
  <2>. QED
    BY <2>3 DEF G
<1>. QED
  BY <1>5, <1>6, <1>7, <1>9, Zenon DEF u

(* At live view the screen shows the window and the hardware cursor is in place. *)
Shown(c) == c.off = 0 => c.vram = c.cells /\ c.hw = <<c.row, c.col>>

\* A redraw moves no cursor.
LEMMA FlushPlace ==
  ASSUME NEW c \in Consoles
  PROVE  vga_flush(c).row = c.row /\ vga_flush(c).col = c.col
         /\ (c.off = 0 => vga_flush(c).vram = c.cells)
BY DEF vga_flush, render_view, Consoles

\* Backspace moves the cursor, and nothing else.
LEMMA PutBack ==
  ASSUME NEW c \in Consoles, "bs" \in Chars
  PROVE  LET d == vga_putc(c, "bs")
         IN  /\ d \in Consoles /\ SameRing(c, d) /\ d.row = c.row /\ d.cells = c.cells /\ d.vram = c.vram
             /\ d.hw = <<d.row, d.col>> /\ (c.col > 0 => d.col = c.col - 1)
<1>. DEFINE m == Max({c.col - 1, 0})
            b == [c EXCEPT !.col = m]
<1>1. Put(c, "bs") = b
  BY DEF Put
<1>2. c.col \in Columns /\ Cols \in Nat
  BY ConsoleAssumption DEF Consoles
<1>3. m \in Columns /\ (c.col > 0 => m = c.col - 1)
  <2>. DEFINE x == c.col - 1
  <2>1. x \in Int /\ 0 \in Int /\ x < Cols /\ (c.col > 0 => x >= 0)
    BY <1>2 DEF Columns
  <2>. HIDE DEF x
  <2>2. Max({x, 0}) = IF x >= 0 THEN x ELSE 0
    BY <2>1, OfTwo
  <2>3. Max({x, 0}) \in Columns /\ (c.col > 0 => Max({x, 0}) = x)
    BY <1>2, <2>1, <2>2 DEF Columns
  <2>. QED
    BY <2>3 DEF x
<1>. HIDE DEF m
<1>4. vga_putc(c, "bs") = [b EXCEPT !.hw = <<b.row, b.col>>]
  BY <1>1, Zenon DEF vga_putc
<1>5. b \in Consoles /\ SameRing(c, b) /\ b.row = c.row /\ b.cells = c.cells /\ b.vram = c.vram /\ b.col = m
  BY <1>3 DEF Consoles, SameRing
<1>. HIDE DEF b
<1>. QED
  BY <1>3, <1>4, <1>5 DEF Consoles, SameRing

\* A printable character: the cell at the cursor, and the screen with it at live view.
LEMMA PutChar ==
  ASSUME NEW c \in Consoles, NEW ch \in Printable
  PROVE  LET d == vga_putc(c, ch)
         IN  /\ d \in Consoles /\ d.hw = <<d.row, d.col>>
             /\ Shown(c) => Shown(d)
             /\ c.col + 1 < Cols =>
                  /\ SameRing(c, d) /\ d.row = c.row /\ d.col = c.col + 1
                  /\ d.cells = [c.cells EXCEPT ![c.row] = [@ EXCEPT ![c.col] = ch]]
<1>. DEFINE edited == [c.cells[c.row] EXCEPT ![c.col] = ch]
            cells == [c.cells EXCEPT ![c.row] = edited]
            put == [c EXCEPT !.cells = cells]
            wraps == c.col + 1 >= Cols
            turned == [put EXCEPT !.col = 0]
            right == [put EXCEPT !.col = c.col + 1]
            moved == IF wraps THEN LineFeed(turned) ELSE right
            drawn == [moved EXCEPT !.vram[c.row][c.col] = ch]
            e == Put(c, ch)
            d == vga_putc(c, ch)
<1>1. /\ c.row \in Lines /\ c.col \in Columns /\ c.cells \in [Lines -> Row] /\ c.vram \in [Lines -> Row]
      /\ Rows \in Nat /\ Rows > 0 /\ Cols \in Nat /\ Cols > 0 /\ 0 \in Columns
  BY ConsoleAssumption DEF Consoles, Screens, Columns
<1>2. c.cells[c.row] \in Row /\ edited \in Row
  BY <1>1 DEF Row, Columns
<1>3. cells \in [Lines -> Row]
  BY <1>1, <1>2
<1>4. put = [c EXCEPT !.cells[c.row][c.col] = ch]
  BY DEF Consoles
<1>5. put \in Consoles /\ SameRing(c, put) /\ put.cells = cells /\ put.row = c.row /\ put.col = c.col
      /\ put.vram = c.vram
  BY <1>3 DEF Consoles, SameRing, Screens
<1>6. e = IF (wraps /\ c.row + 1 >= Rows) \/ moved.off # 0 THEN vga_flush(moved) ELSE drawn
  <2>1. ch # "nl" /\ ch # "cr" /\ ch # "bs"
    BY DEF Printable
  <2>. QED
    BY <2>1, <1>4, <1>5 DEF Put
<1>7. d = [e EXCEPT !.hw = <<e.row, e.col>>] /\ d \in Consoles
  <2>1. ch \in Chars
    BY DEF Printable
  <2>2. d \in Consoles
    BY <2>1, Written
  <2>. QED
    BY <2>2 DEF vga_putc
<1>. HIDE DEF put, d, e
<1>8. turned \in Consoles /\ SameRing(c, turned) /\ turned.cells = cells /\ turned.row = c.row
      /\ turned.vram = c.vram
  BY <1>1, <1>5 DEF Consoles, SameRing
<1>9. ~wraps => /\ right \in Consoles /\ SameRing(c, right) /\ right.cells = cells /\ right.row = c.row
                /\ right.vram = c.vram /\ right.col = c.col + 1
  <2>1. ~wraps => c.col + 1 \in Columns
    BY <1>1 DEF Columns
  <2>. QED
    BY <2>1, <1>5 DEF Consoles, SameRing
<1>. HIDE DEF turned, right
<1>10. moved \in Consoles
  BY <1>8, <1>9, NextLine
<1>11. ~(wraps /\ c.row + 1 >= Rows) =>
         moved.off = c.off /\ moved.cells = cells /\ moved.vram = c.vram
  <2>1. CASE wraps /\ ~(c.row + 1 >= Rows)
    <3>1. moved = [turned EXCEPT !.row = turned.row + 1]
      BY <2>1, <1>8 DEF LineFeed
    <3>. QED
      BY <3>1, <2>1, <1>8 DEF SameRing, Consoles
  <2>2. CASE ~wraps
    BY <2>2, <1>9 DEF SameRing
  <2>. QED
    BY <2>1, <2>2
<1>12. ~wraps => moved = right
  OBVIOUS
<1>. HIDE DEF moved
<1>13. e.off = moved.off /\ e.row = moved.row /\ e.col = moved.col /\ e.cells = moved.cells
       /\ SameRing(moved, e)
  BY <1>6, <1>10, Flushed, FlushPlace DEF SameRing, Consoles
<1>14. d.row = e.row /\ d.col = e.col /\ d.cells = e.cells /\ d.vram = e.vram /\ d.off = e.off
       /\ SameRing(e, d) /\ d.hw = <<e.row, e.col>>
  <2>1. e \in [cells : Screens, row : Lines, col : Columns, ring : [Places -> Row],
               head : Places, count : 0..Cap, off : Nat, vram : Screens, hw : Lines \X Columns]
    <3>1. CASE (wraps /\ c.row + 1 >= Rows) \/ moved.off # 0
      BY <3>1, <1>6, <1>10, Flushed DEF Consoles
    <3>2. CASE ~((wraps /\ c.row + 1 >= Rows) \/ moved.off # 0)
      <4>1. moved.vram = c.vram /\ e = drawn
        BY <3>2, <1>6, <1>11
      <4>. DEFINE w == [c.vram EXCEPT ![c.row] = [@ EXCEPT ![c.col] = ch]]
      <4>2. w \in Screens
        BY <1>1 DEF Screens, Row, Columns
      <4>3. drawn = [moved EXCEPT !.vram = w]
        BY <4>1
      <4>. HIDE DEF w, drawn
      <4>. QED
        BY <4>1, <4>2, <4>3, <1>10 DEF Consoles
    <3>. QED
      BY <3>1, <3>2
  <2>. QED
    BY <2>1, <1>7 DEF SameRing
<1>15. ASSUME Shown(c), d.off = 0 PROVE d.vram = d.cells
  <2>1. moved.off = 0
    BY <1>13, <1>14, <1>15
  <2>2. CASE wraps /\ c.row + 1 >= Rows
    <3>1. e = vga_flush(moved)
      BY <2>2, <1>6
    <3>. QED
      BY <3>1, <2>1, <1>10, <1>13, <1>14, FlushPlace
  <2>3. CASE ~(wraps /\ c.row + 1 >= Rows)
    <3>1. e = drawn /\ c.off = 0 /\ moved.cells = cells /\ moved.vram = c.vram
      BY <2>1, <2>3, <1>6, <1>11
    <3>2. c.vram = c.cells
      BY <3>1, <1>15 DEF Shown
    <3>3. drawn.vram = [c.vram EXCEPT ![c.row] = [@ EXCEPT ![c.col] = ch]]
      BY <3>1, <1>10 DEF Consoles
    <3>. QED
      BY <3>1, <3>2, <3>3, <1>13, <1>14
  <2>. QED
    BY <2>2, <2>3
<1>16. ASSUME c.col + 1 < Cols
       PROVE  /\ SameRing(c, d) /\ d.row = c.row /\ d.col = c.col + 1 /\ d.cells = cells
  <2>1. ~wraps
    BY <1>1, <1>16 DEF Columns
  <2>2. moved = right /\ SameRing(c, right) /\ right.cells = cells /\ right.row = c.row
        /\ right.col = c.col + 1
    BY <2>1, <1>9, <1>12
  <2>3. SameRing(c, e)
    BY <2>2, <1>13, RingChain
  <2>. QED
    BY <2>2, <2>3, <1>13, <1>14, RingChain
<1>. QED
  BY <1>7, <1>14, <1>15, <1>16 DEF d, Shown

\* The view stays within the history.
LEMMA OffKept ==
  ASSUME NEW c \in Consoles, c.off <= c.count, NEW d \in Consoles, NEW t, SameRing(c, d) \/ Pushed(c, d, t)
  PROVE  d.off <= d.count
<1>1. c.off \in Nat /\ c.count \in 0..Cap /\ Cap \in Nat
  BY ConsoleAssumption DEF Consoles
<1>. QED
  BY <1>1 DEF SameRing, Pushed, Grown

Echo == Printable \cup {"bs"}

\* What input_readline echoes keeps the screen current.
LEMMA PutEcho ==
  ASSUME NEW c \in Consoles, c.off <= c.count, NEW s \in Seq(Echo)
  PROVE  LET d == PutAll(c, s)
         IN  d \in Consoles /\ d.off <= d.count /\ (Shown(c) => Shown(d))
<1>. DEFINE n == Len(s)
<1>1. n \in Nat /\ \A k \in 1..n : s[k] \in Echo
  OBVIOUS
<1>2. PICK f : Steps(f, c, s)
  BY <1>1, Written1By1, Zenon
<1>3. f[0] = c /\ PutAll(c, s) = f[n] /\ \A k \in 0..(n - 1) : f[k + 1] = vga_putc(f[k], s[k + 1])
  BY <1>2, Zenon DEF Steps
<1>. HIDE DEF n
<1>. DEFINE Fine(d) == d \in Consoles /\ d.off <= d.count /\ (Shown(c) => Shown(d))
            G == {k \in Nat : Fine(f[k])}
<1>4. 0 \in G
  BY <1>3
<1>5. ASSUME NEW k \in 0..(n - 1), k \in G PROVE k + 1 \in G
  <2>. DEFINE b == f[k]
              d == f[k + 1]
  <2>1. k + 1 \in 1..n /\ k + 1 \in Nat
    BY <1>1
  <2>2. d = vga_putc(b, s[k + 1]) /\ s[k + 1] \in Echo /\ Fine(b)
    BY <2>1, <1>1, <1>3, <1>5, Zenon
  <2>3. "bs" \in Chars /\ s[k + 1] \in Chars
    BY <2>2, ReadlineAssumption DEF Echo, Printable
  <2>. HIDE DEF b, d
  <2>4. d \in Consoles /\ \E t : SameRing(b, d) \/ Pushed(b, d, t)
    BY <2>2, <2>3, Written, Zenon
  <2>5. d.off <= d.count
    BY <2>2, <2>4, OffKept, Zenon
  <2>6. Shown(b) => Shown(d)
    <3>1. CASE s[k + 1] = "bs"
      <4>1. SameRing(b, d) /\ d.cells = b.cells /\ d.vram = b.vram /\ d.hw = <<d.row, d.col>>
        BY <3>1, <2>2, <2>3, PutBack, Zenon
      <4>. QED
        BY <4>1 DEF Shown, SameRing
    <3>2. CASE s[k + 1] \in Printable
      BY <3>2, <2>2, PutChar, Zenon
    <3>. QED
      BY <3>1, <3>2, <2>2 DEF Echo
  <2>7. Fine(d)
    BY <2>2, <2>4, <2>5, <2>6, Zenon
  <2>. QED
    BY <2>1, <2>7, Zenon DEF d
<1>. HIDE DEF G
<1>6. n \in G
  <2>1. n \in 0..n
    BY <1>1
  <2>. QED
    BY <2>1, <1>1, <1>4, <1>5, UpTo, Zenon
<1>. QED
  BY <1>3, <1>6, Zenon DEF G

(* Row r of console d is row r of c with s written from column x on. *)
TextFrom(c, d, x, s, n) ==
  \A y \in Columns : d.cells[c.row][y] = IF x <= y /\ y < x + n THEN s[y - x + 1] ELSE c.cells[c.row][y]

\* Text that stays clear of the last column.
LEMMA PutText ==
  ASSUME NEW c \in Consoles, NEW s \in Seq(Printable), c.col + Len(s) < Cols
  PROVE  LET d == PutAll(c, s)
         IN  /\ d \in Consoles /\ SameRing(c, d) /\ d.row = c.row /\ d.col = c.col + Len(s)
             /\ TextFrom(c, d, c.col, s, Len(s))
<1>. DEFINE n == Len(s)
            x == c.col
            r == c.row
<1>1. n \in Nat /\ (\A k \in 1..n : s[k] \in Printable)
  OBVIOUS
<1>2. x \in Columns /\ x \in Nat /\ r \in Lines /\ Cols \in Nat /\ x + n < Cols
  BY ConsoleAssumption DEF Consoles, Columns
<1>3. PICK f : Steps(f, c, s)
  BY <1>1, Written1By1, Zenon
<1>4. f[0] = c /\ PutAll(c, s) = f[n] /\ \A k \in 0..(n - 1) : f[k + 1] = vga_putc(f[k], s[k + 1])
  BY <1>3, Zenon DEF Steps
<1>. HIDE DEF n, x
<1>. DEFINE Fine(d, k) == /\ d \in Consoles /\ SameRing(c, d) /\ d.row = c.row /\ d.col = x + k
                          /\ TextFrom(c, d, x, s, k)
            G == {k \in Nat : Fine(f[k], k)}
<1>5. 0 \in G
  <2>1. SameRing(c, c) /\ x + 0 = x /\ TextFrom(c, c, x, s, 0)
    BY <1>2 DEF SameRing, TextFrom, Columns
  <2>. QED
    BY <2>1, <1>4 DEF x
<1>6. ASSUME NEW k \in 0..(n - 1), k \in G PROVE k + 1 \in G
  <2>. DEFINE b == f[k]
              d == f[k + 1]
              ch == s[k + 1]
  <2>1. k + 1 \in 1..n /\ k + 1 \in Nat
    BY <1>1
  <2>2. d = vga_putc(b, ch) /\ ch \in Printable /\ Fine(b, k)
    BY <2>1, <1>1, <1>4, <1>6, Zenon
  <2>. HIDE DEF b, d, ch
  <2>3. b.col + 1 < Cols /\ b.col = x + k /\ b.row = r
    BY <2>1, <2>2, <1>1, <1>2
  <2>4. /\ d \in Consoles /\ SameRing(b, d) /\ d.row = b.row /\ d.col = b.col + 1
        /\ d.cells = [b.cells EXCEPT ![b.row] = [@ EXCEPT ![b.col] = ch]]
    BY <2>2, <2>3, PutChar, Zenon
  <2>5. SameRing(c, d) /\ d.col = x + (k + 1) /\ d.row = c.row
    BY <2>2, <2>3, <2>4, <2>1, <1>2, RingChain
  <2>6. b.cells \in [Lines -> Row] /\ b.cells[r] \in [Columns -> Printable \cup {" "}]
    BY <2>2, <1>2 DEF Consoles, Screens, Row, Columns
  <2>7. ASSUME NEW y \in Columns
        PROVE  d.cells[r][y] = IF x <= y /\ y < x + (k + 1) THEN s[y - x + 1] ELSE c.cells[r][y]
    <3>1. d.cells[r][y] = IF y = x + k THEN ch ELSE b.cells[r][y]
      <4>. DEFINE old == b.cells[r]
      <4>1. d.cells[r] = [old EXCEPT ![x + k] = ch]
        BY <2>3, <2>4, <2>6, <1>2
      <4>2. old \in [Columns -> Printable \cup {" "}]
        BY <2>6
      <4>. HIDE DEF old
      <4>3. [old EXCEPT ![x + k] = ch][y] = IF y = x + k THEN ch ELSE old[y]
        BY <4>2, Zenon
      <4>. QED
        BY <4>1, <4>3, Zenon DEF old
    <3>2. b.cells[r][y] = IF x <= y /\ y < x + k THEN s[y - x + 1] ELSE c.cells[r][y]
      BY <2>2 DEF TextFrom
    <3>3. y \in Nat /\ k \in Nat
      BY <1>2 DEF Columns
    <3>4. CASE y = x + k
      <4>1. x <= y /\ y < x + (k + 1) /\ y - x + 1 = k + 1
        BY <3>3, <3>4, <1>2
      <4>. QED
        BY <3>1, <3>4, <4>1, Zenon DEF ch
    <3>5. CASE y # x + k
      <4>1. (x <= y /\ y < x + (k + 1)) <=> (x <= y /\ y < x + k)
        BY <3>3, <3>5, <1>2
      <4>. QED
        BY <3>1, <3>2, <3>5, <4>1, Zenon
    <3>. QED
      BY <3>4, <3>5
  <2>8. Fine(d, k + 1)
    BY <2>4, <2>5, <2>7 DEF TextFrom
  <2>. QED
    BY <2>1, <2>8, Zenon DEF d
<1>. HIDE DEF G
<1>7. n \in G
  <2>1. n \in 0..n
    BY <1>1
  <2>. QED
    BY <2>1, <1>1, <1>5, <1>6, UpTo, Zenon
<1>. QED
  BY <1>4, <1>7, Zenon DEF G, n, x

\* As many backspaces as there are columns to the left, or fewer.
LEMMA PutBacks ==
  ASSUME NEW c \in Consoles, NEW n \in Nat, n <= c.col
  PROVE  LET d == PutAll(c, Backs(n))
         IN  d \in Consoles /\ SameRing(c, d) /\ d.row = c.row /\ d.cells = c.cells /\ d.col = c.col - n
<1>. DEFINE s == Backs(n)
            x == c.col
<1>1. Len(s) = n /\ \A k \in 1..n : s[k] = "bs"
  BY DEF Backs
<1>2. PICK f : Steps(f, c, s)
  BY <1>1, Written1By1, Zenon
<1>3. f[0] = c /\ PutAll(c, s) = f[n] /\ \A k \in 0..(n - 1) : f[k + 1] = vga_putc(f[k], s[k + 1])
  BY <1>1, <1>2, Zenon DEF Steps
<1>4. x \in Nat /\ n <= x
  BY ConsoleAssumption DEF Consoles, Columns
<1>. HIDE DEF s, x
<1>. DEFINE Fine(d, k) == d \in Consoles /\ SameRing(c, d) /\ d.row = c.row /\ d.cells = c.cells /\ d.col = x - k
            G == {k \in Nat : Fine(f[k], k)}
<1>5. 0 \in G
  <2>1. SameRing(c, c) /\ x - 0 = x
    BY <1>4 DEF SameRing
  <2>. QED
    BY <2>1, <1>3 DEF x
<1>6. ASSUME NEW k \in 0..(n - 1), k \in G PROVE k + 1 \in G
  <2>. DEFINE b == f[k]
              d == f[k + 1]
  <2>1. k + 1 \in 1..n /\ k + 1 \in Nat /\ x - k > 0 /\ (x - k) - 1 = x - (k + 1)
    BY <1>4
  <2>2. d = vga_putc(b, "bs") /\ Fine(b, k) /\ "bs" \in Chars
    <3>1. "bs" \in Chars
      BY ReadlineAssumption
    <3>. QED
      BY <3>1, <2>1, <1>1, <1>3, <1>6, Zenon
  <2>. HIDE DEF b, d
  <2>3. d \in Consoles /\ SameRing(b, d) /\ d.row = b.row /\ d.cells = b.cells /\ d.col = b.col - 1
    BY <2>1, <2>2, PutBack, Zenon
  <2>4. Fine(d, k + 1)
    <3>1. d.col = x - (k + 1)
      BY <2>1, <2>2, <2>3, Zenon
    <3>2. SameRing(c, d)
      BY <2>2, <2>3, RingChain, Zenon
    <3>. QED
      BY <3>1, <3>2, <2>2, <2>3, Zenon
  <2>. QED
    BY <2>1, <2>4, Zenon DEF d
<1>. HIDE DEF G
<1>7. n \in G
  <2>1. n \in 0..n
    OBVIOUS
  <2>. QED
    BY <2>1, <1>5, <1>6, UpTo, Zenon
<1>. QED
  BY <1>3, <1>7, Zenon DEF G, s, x

-----------------------------------------------------------------------------
(* The line *)

Buffers == [0..(max_len - 1) -> Letters \cup {"?"}]

(* Places i to j - 1 of b hold members of S, and s is that piece. *)
Holding(S, b, i, j) == i <= j /\ \A k \in i..(j - 1) : b[k] \in S
IsPiece(S, s, b, i, j) ==
  s \in Seq(S) /\ Len(s) = j - i /\ \A k \in 1..(j - i) : s[k] = b[i + k - 1]

\* A piece of the buffer.
LEMMA Pieces ==
  ASSUME NEW S, NEW b, NEW i \in Nat, NEW j \in Nat, Holding(S, b, i, j)
  PROVE  IsPiece(S, Piece(b, i, j), b, i, j)
<1>1. j - i \in Nat /\ \A k \in 1..(j - i) : i + k - 1 \in i..(j - 1)
  BY DEF Holding
<1>2. \A k \in 1..(j - i) : b[i + k - 1] \in S
  BY <1>1 DEF Holding
<1>. QED
  BY <1>1, <1>2 DEF Piece, IsPiece

\* Backspaces are characters of the echo.
LEMMA BacksEcho ==
  ASSUME NEW n \in Nat
  PROVE  Backs(n) \in Seq(Echo) /\ Len(Backs(n)) = n
BY DEF Backs, Echo

Cut(S, b, i, j, m) == i \in Nat /\ j \in Nat /\ m \in Nat /\ i <= j /\ j <= m /\ Holding(S, b, i, m)

\* Two adjoining pieces make one.
LEMMA PieceBoth ==
  ASSUME NEW S, NEW b, NEW i, NEW j, NEW m, Cut(S, b, i, j, m)
  PROVE  Piece(b, i, j) \o Piece(b, j, m) = Piece(b, i, m)
<1>. DEFINE s == Piece(b, i, j)
            t == Piece(b, j, m)
            u == Piece(b, i, m)
<1>0. i \in Nat /\ j \in Nat /\ m \in Nat /\ i <= j /\ j <= m /\ Holding(S, b, i, m)
  BY DEF Cut
<1>1. Holding(S, b, i, j) /\ Holding(S, b, j, m)
  BY <1>0 DEF Holding
<1>2. IsPiece(S, s, b, i, j) /\ IsPiece(S, t, b, j, m) /\ IsPiece(S, u, b, i, m)
  BY <1>0, <1>1, Pieces, Zenon
<1>. HIDE DEF s, t, u
<1>3. s \in Seq(S) /\ t \in Seq(S) /\ u \in Seq(S) /\ Len(s) = j - i /\ Len(t) = m - j /\ Len(u) = m - i
  BY <1>2 DEF IsPiece
<1>4. /\ s \o t \in Seq(S) /\ Len(s \o t) = m - i
      /\ \A k \in 1..(m - i) : (s \o t)[k] = IF k <= j - i THEN s[k] ELSE t[k - (j - i)]
  <2>1. /\ s \o t \in Seq(S) /\ Len(s \o t) = Len(s) + Len(t)
        /\ \A k \in 1..(Len(s) + Len(t)) : (s \o t)[k] = IF k <= Len(s) THEN s[k] ELSE t[k - Len(s)]
    BY <1>3, Joined, Zenon
  <2>2. Len(s) + Len(t) = m - i
    BY <1>0, <1>3
  <2>. QED
    BY <2>1, <2>2, <1>3, Zenon
<1>5. ASSUME NEW k \in 1..(m - i) PROVE (s \o t)[k] = u[k]
  <2>1. u[k] = b[i + k - 1]
    BY <1>2 DEF IsPiece
  <2>2. CASE k <= j - i
    <3>1. k \in 1..(j - i)
      BY <1>0, <2>2
    <3>2. s[k] = b[i + k - 1]
      BY <3>1, <1>2, Zenon DEF IsPiece
    <3>. QED
      BY <2>1, <2>2, <3>2, <1>4, Zenon
  <2>3. CASE ~(k <= j - i)
    <3>1. k - (j - i) \in 1..(m - j) /\ j + (k - (j - i)) - 1 = i + k - 1
      BY <1>0, <2>3
    <3>2. t[k - (j - i)] = b[j + (k - (j - i)) - 1]
      BY <3>1, <1>2, Zenon DEF IsPiece
    <3>. QED
      BY <2>1, <2>3, <3>1, <3>2, <1>4, Zenon
  <2>. QED
    BY <2>2, <2>3, Zenon
<1>6. s \o t = u
  BY <1>3, <1>4, <1>5, SameSeq, Zenon
<1>. QED
  BY <1>6 DEF s, t, u

Alike(b, i, a, p, n) == \A k \in Nat : k < n => b[i + k] = a[p + k]

\* Pieces with the same characters are the same.
LEMMA SamePiece ==
  ASSUME NEW a, NEW b, NEW i \in Nat, NEW j \in Nat, NEW p \in Nat, NEW q \in Nat, NEW n,
         j - i = n, q - p = n, Alike(b, i, a, p, n)
  PROVE  Piece(b, i, j) = Piece(a, p, q)
<1>1. ASSUME NEW k \in 1..(j - i) PROVE b[i + k - 1] = a[p + k - 1]
  <2>1. k - 1 \in Nat /\ k - 1 < j - i /\ i + (k - 1) = i + k - 1 /\ p + (k - 1) = p + k - 1
    OBVIOUS
  <2>2. b[i + (k - 1)] = a[p + (k - 1)]
    BY <2>1, Zenon DEF Alike
  <2>. QED
    BY <2>1, <2>2, Zenon
<1>. QED
  BY <1>1, Zenon DEF Piece

\* The buffer has room for the terminator at least.
LEMMA Room == max_len \in Nat /\ max_len >= 1
<1>1. max_len \in Nat \ {0}
  BY ReadlineAssumption, Zenon
<1>. QED
  BY <1>1

(* The line buffer: characters typed up to len, the cursor among them. *)
LineInv ==
  /\ buf \in Buffers /\ len \in 0..(max_len - 1) /\ cur \in 0..len /\ at \in {"prompt", "edit", "run"}
  /\ Holding(Letters, buf, 0, len)
  /\ line \in Seq(Letters) /\ Len(line) < max_len

Left == Piece(buf, 0, cur)
Right == Piece(buf, cur, len)

\* Where the cursor can be.
LEMMA LineBounds == LineInv => cur \in Nat /\ len \in Nat /\ cur <= len /\ len < max_len
<1>1. LineInv => len \in 0..(max_len - 1) /\ cur \in 0..len
  BY Zenon DEF LineInv
<1>. QED
  BY <1>1, Room

\* The line is what is left and right of the cursor.
LEMMA LeftRight ==
  ASSUME LineInv
  PROVE  /\ Left \in Seq(Letters) /\ Right \in Seq(Letters) /\ Len(Left) = cur /\ Len(Right) = len - cur
         /\ Left \o Right = Piece(buf, 0, len) /\ cur \in Nat /\ len \in Nat /\ cur <= len /\ len < max_len
         /\ Piece(buf, 0, len) \in Seq(Letters) /\ Len(Piece(buf, 0, len)) = len
<1>1. /\ cur \in Nat /\ len \in Nat /\ 0 \in Nat /\ cur <= len /\ 0 <= cur /\ max_len \in Nat /\ len < max_len
      /\ Holding(Letters, buf, 0, len)
  BY Room DEF LineInv
<1>2. Holding(Letters, buf, 0, cur) /\ Holding(Letters, buf, cur, len)
  BY <1>1 DEF Holding
<1>3. /\ IsPiece(Letters, Left, buf, 0, cur) /\ IsPiece(Letters, Right, buf, cur, len)
      /\ IsPiece(Letters, Piece(buf, 0, len), buf, 0, len)
  BY <1>1, <1>2, Pieces, Zenon DEF Left, Right
<1>4. Left \o Right = Piece(buf, 0, len)
  <2>1. Cut(Letters, buf, 0, cur, len)
    BY <1>1 DEF Cut
  <2>. DEFINE z == 0
              b == buf
              c == cur
              l == len
              S == Letters
  <2>2. Cut(S, b, z, c, l)
    BY <2>1
  <2>. HIDE DEF z, b, c, l, S
  <2>3. Piece(b, z, c) \o Piece(b, c, l) = Piece(b, z, l)
    BY <2>2, PieceBoth
  <2>. QED
    BY <2>3 DEF Left, Right, z, b, c, l
<1>5. Len(Left) = cur - 0 /\ Len(Right) = len - cur /\ Len(Piece(buf, 0, len)) = len - 0
  BY <1>3, Zenon DEF IsPiece
<1>6. cur - 0 = cur /\ len - 0 = len
  BY <1>1
<1>. QED
  BY <1>1, <1>3, <1>4, <1>5, <1>6, Zenon DEF IsPiece

\* Backspace and Delete close the gap: what follows moves up by one.
LEMMA GapClosed ==
  ASSUME LineInv, NEW i \in 0..(len - 1)
  PROVE  LET b == CloseGap(i)
         IN  /\ b \in Buffers /\ Holding(Letters, b, 0, len - 1)
             /\ Piece(b, 0, i) = Piece(buf, 0, i) /\ Piece(b, i, len - 1) = Piece(buf, i + 1, len)
             /\ \A k \in 0..(len - 2) : b[k] = IF k < i THEN buf[k] ELSE buf[k + 1]
<1>. DEFINE b == CloseGap(i)
<1>1. /\ len \in Nat /\ max_len \in Nat /\ len < max_len /\ i \in Nat /\ i < len /\ len - 1 \in Nat
      /\ buf \in [0..(max_len - 1) -> Letters \cup {"?"}] /\ \A k \in 0..(len - 1) : buf[k] \in Letters
  BY Room DEF LineInv, Buffers, Holding
<1>2. \A k \in 0..(max_len - 1) : b[k] = IF k \in i..(len - 2) THEN buf[k + 1] ELSE buf[k]
  BY Zenon DEF CloseGap
<1>3. b \in Buffers
  <2>1. \A k \in i..(len - 2) : k + 1 \in 0..(max_len - 1)
    BY <1>1
  <2>2. \A k \in 0..(max_len - 1) :
          (IF k \in i..(len - 2) THEN buf[k + 1] ELSE buf[k]) \in Letters \cup {"?"}
    BY <1>1, <2>1
  <2>. QED
    BY <2>2 DEF CloseGap, Buffers
<1>. HIDE DEF b
<1>4. \A k \in 0..(len - 2) : b[k] = IF k < i THEN buf[k] ELSE buf[k + 1]
  <2>1. \A k \in 0..(len - 2) : k \in 0..(max_len - 1) /\ (k \in i..(len - 2) <=> ~(k < i))
    BY <1>1
  <2>. QED
    BY <2>1, <1>2
<1>5. Holding(Letters, b, 0, len - 1)
  <2>1. ASSUME NEW k \in 0..((len - 1) - 1) PROVE b[k] \in Letters
    <3>1. k \in 0..(len - 2) /\ k \in 0..(len - 1) /\ k + 1 \in 0..(len - 1)
      BY <1>1
    <3>. QED
      BY <3>1, <1>1, <1>4
  <2>2. 0 <= len - 1
    BY <1>1
  <2>. QED
    BY <2>1, <2>2 DEF Holding
<1>6. Piece(b, 0, i) = Piece(buf, 0, i)
  <2>1. ASSUME NEW k \in Nat, k < i - 0 PROVE b[0 + k] = buf[0 + k]
    <3>1. 0 + k = k /\ k \in 0..(len - 2) /\ k < i
      BY <2>1, <1>1
    <3>. QED
      BY <3>1, <1>4, Zenon
  <2>2. 0 \in Nat /\ i - 0 = i - 0
    OBVIOUS
  <2>3. Alike(b, 0, buf, 0, i - 0)
    BY <2>1, Zenon DEF Alike
  <2>. DEFINE z == 0
              n == i - 0
  <2>4. z \in Nat /\ i \in Nat /\ i - z = n /\ Alike(b, z, buf, z, n)
    BY <2>3
  <2>. HIDE DEF z, n
  <2>5. Piece(b, z, i) = Piece(buf, z, i)
    BY <2>4, SamePiece
  <2>. QED
    BY <2>5 DEF z
<1>7. Piece(b, i, len - 1) = Piece(buf, i + 1, len)
  <2>1. ASSUME NEW k \in Nat, k < (len - 1) - i PROVE b[i + k] = buf[(i + 1) + k]
    <3>1. (i + k) + 1 = (i + 1) + k /\ i + k \in 0..(len - 2) /\ ~(i + k < i)
      BY <2>1, <1>1
    <3>. QED
      BY <3>1, <1>4, Zenon
  <2>2. i + 1 \in Nat /\ (len - 1) - i = len - (i + 1)
    BY <1>1
  <2>3. Alike(b, i, buf, i + 1, (len - 1) - i)
    BY <2>1 DEF Alike
  <2>. DEFINE l == len - 1
              h == i + 1
              n == l - i
  <2>4. i \in Nat /\ l \in Nat /\ h \in Nat /\ len \in Nat /\ l - i = n /\ len - h = n
        /\ Alike(b, i, buf, h, n)
    BY <2>2, <2>3, <1>1
  <2>. HIDE DEF l, h, n
  <2>5. Piece(b, i, l) = Piece(buf, h, len)
    BY <2>4, SamePiece
  <2>. QED
    BY <2>5 DEF l, h
<1>. QED
  BY <1>3, <1>4, <1>5, <1>6, <1>7 DEF b

\* A character opens a gap for itself: what follows moves down by one.
LEMMA GapOpened ==
  ASSUME LineInv, NEW ch \in Letters, Fits
  PROVE  LET b == OpenGap(ch)
         IN  /\ b \in Buffers /\ Holding(Letters, b, 0, len + 1)
             /\ Piece(b, 0, cur + 1) = Append(Left, ch) /\ Piece(b, cur + 1, len + 1) = Right
             /\ \A k \in 0..len : b[k] = IF k < cur THEN buf[k] ELSE IF k = cur THEN ch ELSE buf[k - 1]
<1>. DEFINE b == OpenGap(ch)
<1>1. /\ len \in Nat /\ max_len \in Nat /\ len + 1 < max_len /\ cur \in Nat /\ cur <= len
      /\ buf \in [0..(max_len - 1) -> Letters \cup {"?"}] /\ \A k \in 0..(len - 1) : buf[k] \in Letters
  BY Room DEF LineInv, Buffers, Holding, Fits
<1>2. \A k \in 0..(max_len - 1) :
        b[k] = IF k = cur THEN ch ELSE IF k \in (cur + 1)..len THEN buf[k - 1] ELSE buf[k]
  BY Zenon DEF OpenGap
<1>3. b \in Buffers
  <2>1. \A k \in (cur + 1)..len : k - 1 \in 0..(max_len - 1)
    BY <1>1
  <2>2. \A k \in 0..(max_len - 1) :
          (IF k = cur THEN ch ELSE IF k \in (cur + 1)..len THEN buf[k - 1] ELSE buf[k]) \in Letters \cup {"?"}
    BY <1>1, <2>1
  <2>. QED
    BY <2>2 DEF OpenGap, Buffers
<1>. HIDE DEF b
<1>4. \A k \in 0..len : b[k] = IF k < cur THEN buf[k] ELSE IF k = cur THEN ch ELSE buf[k - 1]
  <2>1. \A k \in 0..len : k \in 0..(max_len - 1) /\ (k \in (cur + 1)..len <=> ~(k < cur) /\ k # cur)
    BY <1>1
  <2>2. \A k \in 0..len : ~(k < cur /\ k = cur)
    BY <1>1
  <2>. QED
    BY <2>1, <2>2, <1>2
<1>5. Holding(Letters, b, 0, len + 1)
  <2>1. ASSUME NEW k \in 0..((len + 1) - 1) PROVE b[k] \in Letters
    <3>1. k \in 0..len /\ (k < cur => k \in 0..(len - 1)) /\ (~(k < cur) /\ k # cur => k - 1 \in 0..(len - 1))
      BY <1>1
    <3>. QED
      BY <3>1, <1>1, <1>4
  <2>2. 0 <= len + 1
    BY <1>1
  <2>. QED
    BY <2>1, <2>2 DEF Holding
<1>6. Piece(b, cur + 1, len + 1) = Right
  <2>1. ASSUME NEW k \in Nat, k < (len + 1) - (cur + 1) PROVE b[(cur + 1) + k] = buf[cur + k]
    <3>1. ((cur + 1) + k) - 1 = cur + k /\ (cur + 1) + k \in 0..len /\ ~((cur + 1) + k < cur)
          /\ (cur + 1) + k # cur
      BY <2>1, <1>1
    <3>. QED
      BY <3>1, <1>4, Zenon
  <2>2. cur + 1 \in Nat /\ len + 1 \in Nat /\ (len + 1) - (cur + 1) = len - cur
    BY <1>1
  <2>3. Alike(b, cur + 1, buf, cur, (len + 1) - (cur + 1))
    BY <2>1 DEF Alike
  <2>. DEFINE l == len + 1
              h == cur + 1
              n == len - cur
  <2>4. cur \in Nat /\ l \in Nat /\ h \in Nat /\ len \in Nat /\ l - h = n /\ len - cur = n
        /\ Alike(b, h, buf, cur, n)
    BY <2>2, <2>3, <1>1
  <2>. HIDE DEF l, h, n
  <2>5. Piece(b, h, l) = Piece(buf, cur, len)
    BY <2>4, SamePiece
  <2>. QED
    BY <2>5 DEF l, h, Right
<1>7. Piece(b, 0, cur + 1) = Append(Left, ch)
  <2>. DEFINE s == Piece(b, 0, cur + 1)
  <2>1. Holding(Letters, b, 0, cur + 1) /\ cur + 1 \in Nat /\ 0 \in Nat
    BY <1>1, <1>5 DEF Holding
  <2>2. IsPiece(Letters, s, b, 0, cur + 1)
    BY <2>1, Pieces, Zenon
  <2>3. IsPiece(Letters, Left, buf, 0, cur)
    <3>1. Holding(Letters, buf, 0, cur)
      BY <1>1 DEF Holding
    <3>. QED
      BY <3>1, <2>1, <1>1, Pieces, Zenon DEF Left
  <2>. HIDE DEF s
  <2>4. s \in Seq(Letters) /\ Left \in Seq(Letters) /\ Len(s) = cur + 1 /\ Len(Left) = cur
    BY <2>2, <2>3, <1>1 DEF IsPiece
  <2>5. Append(Left, ch) \in Seq(Letters) /\ Len(Append(Left, ch)) = cur + 1
    BY <2>4
  <2>6. ASSUME NEW k \in 1..(cur + 1) PROVE s[k] = Append(Left, ch)[k]
    <3>1. 0 + k - 1 = k - 1 /\ k - 1 \in 0..len /\ (cur + 1) - 0 = cur + 1 /\ cur - 0 = cur
      BY <1>1
    <3>2. s[k] = b[k - 1]
      BY <2>2, <3>1, Zenon DEF IsPiece
    <3>3. CASE k = cur + 1
      <4>1. k - 1 = cur /\ ~(cur < cur)
        BY <3>3, <1>1
      <4>2. Append(Left, ch)[k] = ch
        BY <3>3, <2>4
      <4>. QED
        BY <3>1, <3>2, <4>1, <4>2, <1>4, Zenon
    <3>4. CASE k # cur + 1
      <4>1. k \in 1..cur /\ k - 1 < cur
        BY <3>4, <1>1
      <4>2. Left[k] = buf[k - 1]
        BY <4>1, <2>3, <3>1, Zenon DEF IsPiece
      <4>3. Append(Left, ch)[k] = Left[k]
        BY <4>1, <2>4
      <4>. QED
        BY <3>1, <3>2, <4>1, <4>2, <4>3, <1>4, Zenon
    <3>. QED
      BY <3>3, <3>4, Zenon
  <2>7. s = Append(Left, ch)
    BY <2>4, <2>5, <2>6, SameSeq
  <2>. QED
    BY <2>7 DEF s
<1>. QED
  BY <1>3, <1>4, <1>5, <1>6, <1>7 DEF b

-----------------------------------------------------------------------------
(* The line editor *)

\* An empty piece.
LEMMA NoPiece ==
  ASSUME NEW b, NEW i \in Nat
  PROVE  Piece(b, i, i) = << >>
<1>1. i - i = 0
  OBVIOUS
<1>2. Piece(b, i, i) = [k \in 1..0 |-> b[i + k - 1]]
  BY <1>1, Zenon DEF Piece
<1>. QED
  BY <1>2

\* A prompt starts an empty line.
LEMMA AskLine ==
  ASSUME LineInv, Ask
  PROVE  LineInv' /\ Editor!NextLine
<1>1. /\ at' = "edit" /\ len' = 0 /\ cur' = 0 /\ buf' = buf /\ line' = line /\ 0 \in Nat
  BY DEF Ask
<1>2. LineInv'
  <2>1. 0 \in 0..(max_len - 1) /\ 0 \in 0..0 /\ Holding(Letters, buf, 0, 0)
    BY Room DEF Holding
  <2>. QED
    BY <2>1, <1>1 DEF LineInv
<1>3. Left' = << >> /\ Right' = << >>
  BY <1>1, NoPiece, Zenon DEF Left, Right
<1>. QED
  BY <1>1, <1>2, <1>3 DEF Editor!NextLine, Left, Right

\* Enter hands over what is left and right of the cursor.
LEMMA EnterLine ==
  ASSUME LineInv, KEY_ENTER
  PROVE  LineInv' /\ Editor!Enter
<1>1. /\ at' = "run" /\ len' = len /\ cur' = cur /\ buf' = buf /\ line' = Piece(buf, 0, len)
  BY DEF KEY_ENTER
<1>2. Left \o Right = Piece(buf, 0, len) /\ line' \in Seq(Letters) /\ Len(line') < max_len
  BY <1>1, LeftRight
<1>3. LineInv'
  BY <1>1, <1>2 DEF LineInv
<1>4. Left' = Left /\ Right' = Right
  BY <1>1 DEF Left, Right
<1>. QED
  BY <1>1, <1>2, <1>3, <1>4 DEF Editor!Enter, Left, Right

\* The cursor keys leave the text as it is.
LEMMA MoveLine ==
  ASSUME LineInv, at' = at, len' = len, buf' = buf, line' = line, cur' \in 0..len
  PROVE  LineInv' /\ Editor!Move
<1>1. LineInv'
  BY DEF LineInv
<1>2. Left' \o Right' = Piece(buf', 0, len') /\ Left \o Right = Piece(buf, 0, len)
  <2>1. Left \o Right = Piece(buf, 0, len)
    BY LeftRight, Zenon
  <2>2. (Left \o Right = Piece(buf, 0, len))'
    BY <1>1, LeftRight, PTL
  <2>. QED
    BY <2>1, <2>2
<1>. QED
  BY <1>1, <1>2, Zenon DEF Editor!Move, Left, Right

\* Backspace takes the last character left of the cursor.
LEMMA BackspaceLine ==
  ASSUME LineInv, KEY_BACKSPACE
  PROVE  LineInv' /\ Editor!Backspace
<1>1. /\ at' = at /\ line' = line /\ cur > 0 /\ buf' = CloseGap(cur - 1) /\ len' = len - 1 /\ cur' = cur - 1
  BY DEF KEY_BACKSPACE, Editing
<1>2. /\ Left \in Seq(Letters) /\ Len(Left) = cur /\ cur \in Nat /\ len \in Nat /\ cur <= len /\ len < max_len
      /\ max_len \in Nat
  BY LeftRight, Room, Zenon
<1>3. cur - 1 \in 0..(len - 1) /\ (cur - 1) + 1 = cur /\ cur - 1 \in Nat
  BY <1>1, <1>2
<1>4. /\ buf' \in Buffers /\ Holding(Letters, buf', 0, len - 1)
      /\ Piece(buf', 0, cur - 1) = Piece(buf, 0, cur - 1)
      /\ Piece(buf', cur - 1, len - 1) = Piece(buf, (cur - 1) + 1, len)
  BY <1>1, <1>3, GapClosed, Zenon
<1>5. LineInv'
  <2>1. len - 1 \in 0..(max_len - 1)
    BY <1>1, <1>2
  <2>. QED
    BY <2>1, <1>1, <1>3, <1>4 DEF LineInv
<1>6. Right' = Right
  BY <1>1, <1>3, <1>4, Zenon DEF Right
<1>7. Left' = SubSeq(Left, 1, Len(Left) - 1)
  <2>. DEFINE s == Piece(buf, 0, cur - 1)
              t == SubSeq(Left, 1, cur - 1)
  <2>1. Left' = s
    BY <1>1, <1>4 DEF Left
  <2>2. IsPiece(Letters, s, buf, 0, cur - 1) /\ IsPiece(Letters, Left, buf, 0, cur)
    <3>1. Holding(Letters, buf, 0, len) /\ 0 \in Nat
      BY DEF LineInv
    <3>2. Holding(Letters, buf, 0, cur - 1) /\ Holding(Letters, buf, 0, cur)
      BY <3>1, <1>2, <1>3 DEF Holding
    <3>. QED
      BY <3>1, <3>2, <1>2, <1>3, Pieces DEF Left
  <2>. HIDE DEF s
  <2>3. s \in Seq(Letters) /\ Len(s) = cur - 1 /\ \A k \in 1..(cur - 1) : s[k] = Left[k]
    BY <2>2, <1>2, <1>3 DEF IsPiece
  <2>4. t \in Seq(Letters) /\ Len(t) = cur - 1 /\ \A k \in 1..(cur - 1) : t[k] = Left[k]
    BY <1>2, <1>3
  <2>. HIDE DEF t
  <2>5. s = t
    BY <2>3, <2>4, SameSeq
  <2>. QED
    BY <2>1, <2>5, <1>2 DEF t
<1>8. Left # << >>
  BY <1>1, <1>2
<1>. QED
  BY <1>1, <1>5, <1>6, <1>7, <1>8 DEF Editor!Backspace, Left, Right

\* Delete takes the first character right of the cursor.
LEMMA DeleteLine ==
  ASSUME LineInv, KEY_DELETE
  PROVE  LineInv' /\ Editor!Delete
<1>1. /\ at' = at /\ line' = line /\ cur < len /\ buf' = CloseGap(cur) /\ len' = len - 1 /\ cur' = cur
  BY DEF KEY_DELETE, Editing
<1>2. /\ Right \in Seq(Letters) /\ Len(Right) = len - cur /\ cur \in Nat /\ len \in Nat /\ cur <= len
      /\ len < max_len /\ max_len \in Nat
  BY LeftRight, Room, Zenon
<1>3. cur \in 0..(len - 1) /\ cur + 1 \in Nat
  BY <1>1, <1>2
<1>4. /\ buf' \in Buffers /\ Holding(Letters, buf', 0, len - 1) /\ Piece(buf', 0, cur) = Piece(buf, 0, cur)
      /\ Piece(buf', cur, len - 1) = Piece(buf, cur + 1, len)
  BY <1>1, <1>3, GapClosed, Zenon
<1>5. LineInv'
  <2>1. len - 1 \in 0..(max_len - 1)
    BY <1>1, <1>2
  <2>. QED
    BY <2>1, <1>1, <1>3, <1>4 DEF LineInv
<1>6. Left' = Left
  BY <1>1, <1>4 DEF Left
<1>7. Right' = Tail(Right)
  <2>. DEFINE s == Piece(buf, cur + 1, len)
              t == Tail(Right)
              n == len - (cur + 1)
  <2>1. Right' = s
    BY <1>1, <1>4 DEF Right
  <2>2. IsPiece(Letters, s, buf, cur + 1, len) /\ IsPiece(Letters, Right, buf, cur, len)
    <3>1. Holding(Letters, buf, 0, len)
      BY DEF LineInv
    <3>2. Holding(Letters, buf, cur + 1, len) /\ Holding(Letters, buf, cur, len)
      BY <3>1, <1>1, <1>2, <1>3 DEF Holding
    <3>. QED
      BY <3>2, <1>2, <1>3, Pieces, Zenon DEF Right
  <2>. HIDE DEF s
  <2>3. s \in Seq(Letters) /\ Len(s) = n /\ \A k \in 1..n : s[k] = buf[(cur + 1) + k - 1]
    BY <2>2 DEF IsPiece
  <2>4. t \in Seq(Letters) /\ Len(t) = n /\ \A k \in 1..n : t[k] = Right[k + 1]
    BY <1>1, <1>2
  <2>5. ASSUME NEW k \in 1..n PROVE s[k] = t[k]
    <3>1. k + 1 \in 1..(len - cur) /\ cur + (k + 1) - 1 = (cur + 1) + k - 1
      BY <1>2
    <3>2. Right[k + 1] = buf[cur + (k + 1) - 1]
      BY <3>1, <2>2, Zenon DEF IsPiece
    <3>. QED
      BY <3>1, <3>2, <2>3, <2>4, Zenon
  <2>. HIDE DEF t, n
  <2>6. s = t
    BY <2>3, <2>4, <2>5, SameSeq
  <2>. QED
    BY <2>1, <2>6 DEF t
<1>8. Right # << >>
  BY <1>1, <1>2
<1>. QED
  BY <1>1, <1>5, <1>6, <1>7, <1>8 DEF Editor!Delete, Left, Right

\* A character goes in left of the cursor, while there is room.
LEMMA CharLine ==
  ASSUME LineInv, NEW ch \in Letters, KEY_CHAR(ch)
  PROVE  LineInv' /\ Editor!Insert(ch)
<1>1. /\ at' = at /\ line' = line /\ Fits /\ buf' = OpenGap(ch) /\ len' = len + 1 /\ cur' = cur + 1
  BY DEF KEY_CHAR, Editing
<1>2. /\ Len(Left) = cur /\ Len(Right) = len - cur /\ cur \in Nat /\ len \in Nat /\ cur <= len
      /\ max_len \in Nat /\ len + 1 < max_len
  BY <1>1, LeftRight, Room DEF Fits
<1>3. /\ buf' \in Buffers /\ Holding(Letters, buf', 0, len + 1)
      /\ Piece(buf', 0, cur + 1) = Append(Left, ch) /\ Piece(buf', cur + 1, len + 1) = Right
  BY <1>1, GapOpened, Zenon
<1>4. LineInv'
  <2>1. len + 1 \in 0..(max_len - 1) /\ cur + 1 \in 0..(len + 1)
    BY <1>2
  <2>. QED
    BY <2>1, <1>1, <1>3 DEF LineInv
<1>5. Left' = Append(Left, ch) /\ Right' = Right
  BY <1>1, <1>3 DEF Left, Right
<1>6. Len(Left) + Len(Right) < max_len - 1
  BY <1>2
<1>. QED
  BY <1>1, <1>4, <1>5, <1>6 DEF Editor!Insert, Left, Right

\* Before the first prompt.
LEMMA LineInit == RInit => LineInv /\ Editor!EInit
<1>. SUFFICES ASSUME RInit PROVE LineInv /\ Editor!EInit
  OBVIOUS
<1>1. /\ buf = [i \in 0..(max_len - 1) |-> "?"] /\ len = 0 /\ cur = 0 /\ at = "prompt" /\ line = << >>
      /\ 0 \in Nat
  BY DEF RInit
<1>2. LineInv
  <2>1. 0 \in 0..(max_len - 1) /\ 0 \in 0..0 /\ Holding(Letters, buf, 0, 0) /\ 0 < max_len
    BY Room DEF Holding
  <2>2. buf \in Buffers
    BY <1>1 DEF Buffers
  <2>3. line \in Seq(Letters) /\ Len(line) = 0
    BY <1>1
  <2>. QED
    BY <2>1, <2>2, <2>3, <1>1 DEF LineInv
<1>3. Left = << >> /\ Right = << >>
  BY <1>1, NoPiece, Zenon DEF Left, Right
<1>. QED
  BY <1>1, <1>2, <1>3 DEF Editor!EInit, Left, Right

\* Every key is a step of the editor, and all else leaves the line alone.
LEMMA LineStep == ASSUME LineInv, [RNext]_rvars PROVE LineInv' /\ [Editor!ENext]_(Editor!evars)
<1>1. CASE Ask
  BY <1>1, AskLine, Zenon DEF Editor!ENext
<1>2. CASE KEY_ENTER
  BY <1>2, EnterLine, Zenon DEF Editor!ENext
<1>3. CASE KEY_BACKSPACE
  BY <1>3, BackspaceLine, Zenon DEF Editor!ENext
<1>4. CASE KEY_DELETE
  BY <1>4, DeleteLine, Zenon DEF Editor!ENext
<1>5. CASE \E ch \in Letters : KEY_CHAR(ch)
  BY <1>5, CharLine, Zenon DEF Editor!ENext
<1>6. CASE Scroll \/ KEY_LEFT \/ KEY_RIGHT \/ KEY_HOME \/ KEY_END
  <2>1. at' = at /\ len' = len /\ buf' = buf /\ line' = line
    BY <1>6 DEF Scroll, KEY_LEFT, KEY_RIGHT, KEY_HOME, KEY_END, Keeps, Editing
  <2>2. cur \in Nat /\ len \in Nat /\ cur <= len
    BY LineBounds, Zenon
  <2>3. cur' \in 0..len
    BY <1>6, <2>2 DEF Scroll, KEY_LEFT, KEY_RIGHT, KEY_HOME, KEY_END
  <2>4. LineInv' /\ Editor!Move
    BY <2>1, <2>3, MoveLine
  <2>. QED
    BY <2>4, Zenon DEF Editor!ENext
<1>7. CASE (\E ch \in Output : Emit(ch)) \/ Return \/ UNCHANGED rvars
  <2>1. len' = len /\ cur' = cur /\ buf' = buf /\ line' = line /\ at' \in {"prompt", "edit", "run"}
    BY <1>7 DEF Emit, Return, rvars, LineInv
  <2>2. LineInv'
    BY <2>1 DEF LineInv
  <2>3. UNCHANGED Editor!evars
    BY <2>1 DEF Editor!evars
  <2>. QED
    BY <2>2, <2>3
<1>. QED
  BY <1>1, <1>2, <1>3, <1>4, <1>5, <1>6, <1>7, Zenon DEF RNext

(* input_readline edits the buffer in place with two indices, by moving    *)
(* its tail one to the left or to the right; for every buffer size and     *)
(* every sequence of keys that is an editor of the text on the two sides   *)
(* of a cursor, and Enter hands the command what was typed.                *)
THEOREM ReadlineImplementsEditor == RSpec => ImplementsEditor
<1>1. LineInv /\ [RNext]_rvars => LineInv' /\ [Editor!ENext]_(Editor!evars)
  BY LineStep
<1>. QED
  BY <1>1, LineInit, PTL DEF RSpec, ImplementsEditor, Editor!ESpec

-----------------------------------------------------------------------------
(* The screen while a line is edited *)

\* A view at an offset within the history: the window and the cursor stay, and at live
\* view the screen is the window.
LEMMA ViewShown ==
  ASSUME NEW c \in Consoles, NEW x \in 0..c.count
  PROVE  LET d == render_view([c EXCEPT !.off = x])
         IN  /\ d \in Consoles /\ d.off = x /\ d.off <= d.count /\ Shown(d)
             /\ d.cells = c.cells /\ d.row = c.row /\ d.col = c.col
<1>. DEFINE b == [c EXCEPT !.off = x]
            d == render_view(b)
<1>1. /\ b \in Consoles /\ b.off = x /\ b.count = c.count /\ b.cells = c.cells /\ b.row = c.row /\ b.col = c.col
      /\ x \in Nat /\ c.count \in Nat /\ x <= c.count
  BY ConsoleAssumption DEF Consoles
<1>. HIDE DEF b
<1>2. d \in Consoles /\ SameRing(b, d) /\ d.cells = b.cells
  BY <1>1, Rendered
<1>3. d.row = b.row /\ d.col = b.col
  BY <1>1 DEF render_view, Consoles
<1>4. d.off = x /\ d.off <= d.count
  BY <1>1, <1>2 DEF SameRing
<1>5. ASSUME x = 0 PROVE d.vram = b.cells /\ d.hw = <<b.row, b.col>>
  <2>. DEFINE off == Min({b.off, b.count})
              rows == Min({off, Rows})
              idx(r) == (b.head - rows + r + Rows * Cap) % Cap
              vram == [r \in Lines |-> IF r < rows THEN b.ring[idx(r)] ELSE b.cells[r - rows]]
  <2>1. off = 0
    BY <1>1, <1>5, OfTwo
  <2>2. Rows \in Nat /\ Rows > 0
    BY ConsoleAssumption
  <2>. HIDE DEF off
  <2>3. rows = 0
    BY <2>1, <2>2, OfTwo
  <2>4. d = [b EXCEPT !.vram = vram, !.hw = IF b.off # 0 THEN <<Rows - 1, 0>> ELSE <<b.row, b.col>>]
    BY DEF render_view, Lines, off
  <2>. HIDE DEF rows
  <2>5. \A r \in Lines : (IF r < rows THEN b.ring[idx(r)] ELSE b.cells[r - rows]) = b.cells[r]
    <3>1. \A r \in Lines : ~(r < rows) /\ r - rows = r
      BY <2>3 DEF Lines
    <3>. QED
      BY <3>1, Zenon
  <2>6. b.cells \in [Lines -> Row]
    BY <1>1 DEF Consoles, Screens
  <2>7. vram = b.cells
    BY <2>5, <2>6
  <2>. HIDE DEF vram
  <2>. QED
    BY <2>4, <2>7, <1>1, <1>5 DEF Consoles
<1>. HIDE DEF d
<1>6. Shown(d)
  BY <1>2, <1>3, <1>4, <1>5 DEF Shown
<1>. QED
  BY <1>1, <1>2, <1>3, <1>4, <1>6, Zenon DEF b, d

\* One character.
LEMMA PutOne ==
  ASSUME NEW c, NEW ch
  PROVE  PutAll(c, <<ch>>) = vga_putc(c, ch)
<1>. DEFINE s == <<ch>>
<1>1. Len(s) = 1 /\ s[1] = ch /\ 1 \in Nat /\ 0 \in 0..(1 - 1) /\ 0 + 1 = 1
  OBVIOUS
<1>. HIDE DEF s
<1>2. PICK f : Steps(f, c, s)
  BY <1>1, Written1By1, Zenon
<1>3. f[0] = c /\ PutAll(c, s) = f[1] /\ f[0 + 1] = vga_putc(f[0], s[0 + 1])
  BY <1>1, <1>2, Zenon DEF Steps
<1>. QED
  BY <1>1, <1>3, Zenon DEF s

\* Text and backspaces that stay clear of both ends of the row.
LEMMA PutAndBack ==
  ASSUME NEW c \in Consoles, NEW t \in Seq(Printable), NEW n \in Nat,
         c.col + Len(t) < Cols, n <= c.col + Len(t)
  PROVE  LET d == PutAll(c, t \o Backs(n))
         IN  /\ d.row = c.row /\ d.col = (c.col + Len(t)) - n /\ TextFrom(c, d, c.col, t, Len(t))
<1>. DEFINE b == PutAll(c, t)
            d == PutAll(b, Backs(n))
<1>1. b \in Consoles /\ b.row = c.row /\ b.col = c.col + Len(t) /\ TextFrom(c, b, c.col, t, Len(t))
  BY PutText, Zenon
<1>. HIDE DEF b
<1>2. n <= b.col
  BY <1>1
<1>3. d.row = b.row /\ d.cells = b.cells /\ d.col = b.col - n
  BY <1>1, <1>2, PutBacks, Zenon
<1>4. t \in Seq(Echo) /\ Backs(n) \in Seq(Echo)
  BY BacksEcho DEF Echo
<1>5. PutAll(c, t \o Backs(n)) = d
  <2>. DEFINE u == Backs(n)
  <2>1. u \in Seq(Echo)
    BY <1>4
  <2>. HIDE DEF u
  <2>2. PutAll(c, t \o u) = PutAll(PutAll(c, t), u)
    BY <2>1, <1>4, PutBoth
  <2>. QED
    BY <2>2 DEF b, u
<1>. HIDE DEF d
<1>6. d.row = c.row /\ d.col = (c.col + Len(t)) - n
  BY <1>1, <1>3
<1>7. TextFrom(c, d, c.col, t, Len(t))
  BY <1>1, <1>3, Zenon DEF TextFrom
<1>. QED
  BY <1>5, <1>6, <1>7, Zenon

(* The row shows the first l characters of b from column x on, blanks up   *)
(* to w, and the cursor is k further.                                      *)
Cell(b, l, j) == IF j < l THEN b[j] ELSE " "
Sync(c, b, l, k, x, w) ==
  c.col = x + k /\ \A j \in 0..(w - 1) : c.cells[c.row][x + j] = Cell(b, l, j)

(* Writing t, of length n, from place i of the line on turns the one line  *)
(* into the other.                                                         *)
Rewrites(t, i, n, b, l, w, b2, l2, w2) ==
  \A j \in 0..(w2 - 1) : IF i <= j /\ j < i + n THEN t[j - i + 1] = Cell(b2, l2, j)
                         ELSE j < w /\ Cell(b, l, j) = Cell(b2, l2, j)

\* What is rewritten is in sync again.
LEMMA Retyped ==
  ASSUME NEW c, NEW d, NEW t, NEW b, NEW b2, NEW l, NEW l2, NEW k, NEW k2,
         NEW x \in Nat, NEW i \in Nat, NEW n \in Nat, NEW w \in Nat, NEW w2 \in Nat,
         Sync(c, b, l, k, x, w), x + w2 <= Cols, d.row = c.row, d.col = x + k2,
         TextFrom(c, d, x + i, t, n), Rewrites(t, i, n, b, l, w, b2, l2, w2)
  PROVE  Sync(d, b2, l2, k2, x, w2)
<1>1. ASSUME NEW j \in 0..(w2 - 1) PROVE d.cells[d.row][x + j] = Cell(b2, l2, j)
  <2>. DEFINE y == x + j
              r == c.row
  <2>1. /\ y \in Columns /\ (x + i <= y /\ y < (x + i) + n <=> i <= j /\ j < i + n)
        /\ y - (x + i) + 1 = j - i + 1 /\ (j < w => j \in 0..(w - 1))
    BY ConsoleAssumption DEF Columns
  <2>. HIDE DEF y
  <2>2. d.cells[r][y] = IF x + i <= y /\ y < (x + i) + n THEN t[y - (x + i) + 1] ELSE c.cells[r][y]
    BY <2>1, Zenon DEF TextFrom
  <2>3. CASE i <= j /\ j < i + n
    <3>1. t[j - i + 1] = Cell(b2, l2, j)
      BY <2>3, Zenon DEF Rewrites
    <3>. QED
      BY <3>1, <2>1, <2>2, <2>3, Zenon DEF y
  <2>4. CASE ~(i <= j /\ j < i + n)
    <3>1. j < w /\ Cell(b, l, j) = Cell(b2, l2, j)
      BY <2>4, Zenon DEF Rewrites
    <3>2. c.cells[r][y] = Cell(b, l, j)
      BY <3>1, <2>1, Zenon DEF Sync, y
    <3>. QED
      BY <3>1, <3>2, <2>1, <2>2, <2>4, Zenon DEF y
  <2>. QED
    BY <2>3, <2>4, Zenon
<1>. QED
  BY <1>1, Zenon DEF Sync

\* A backspace within the line.
LEMMA SyncBack ==
  ASSUME NEW c \in Consoles, NEW b, NEW l, NEW k \in Nat, k > 0, NEW x \in Nat, NEW w \in Nat,
         Sync(c, b, l, k, x, w)
  PROVE  vga_putc(c, "bs") \in Consoles /\ Sync(vga_putc(c, "bs"), b, l, k - 1, x, w)
<1>. DEFINE d == vga_putc(c, "bs")
<1>1. c.col = x + k /\ c.col > 0
  BY DEF Sync
<1>2. "bs" \in Chars
  BY ReadlineAssumption
<1>3. d \in Consoles /\ d.row = c.row /\ d.cells = c.cells /\ d.col = c.col - 1
  BY <1>1, <1>2, PutBack, Zenon
<1>. HIDE DEF d
<1>4. d.col = x + (k - 1)
  BY <1>1, <1>3
<1>5. Sync(d, b, l, k - 1, x, w)
  BY <1>3, <1>4, Zenon DEF Sync
<1>. QED
  BY <1>3, <1>5, Zenon DEF d

\* A sequence over a part of a set.
LEMMA SeqUp ==
  ASSUME NEW S, NEW T, S \subseteq T, NEW s \in Seq(S)
  PROVE  s \in Seq(T)
<1>1. Len(s) \in Nat /\ s = [k \in 1..Len(s) |-> s[k]] /\ \A k \in 1..Len(s) : s[k] \in T
  OBVIOUS
<1>. QED
  BY <1>1

\* One character more.
LEMMA OneMore ==
  ASSUME NEW S, NEW s \in Seq(S), NEW a \in S
  PROVE  /\ s \o <<a>> \in Seq(S) /\ Len(s \o <<a>>) = Len(s) + 1 /\ (s \o <<a>>)[Len(s) + 1] = a
         /\ \A k \in 1..Len(s) : (s \o <<a>>)[k] = s[k]
OBVIOUS

\* What the keys print are characters of the console.
LEMMA Prints ==
  /\ " " \in Printable /\ Letters \subseteq Printable /\ Printable \subseteq Echo /\ "bs" \in Echo
  /\ "nl" \in Chars /\ Output \subseteq Chars /\ Prompt \in Seq(Echo)
<1>1. Prompt \in Seq(Printable)
  BY ReadlineAssumption, Zenon
<1>2. /\ " " \in Printable /\ Letters \subseteq Printable /\ Printable \subseteq Echo /\ "bs" \in Echo
      /\ "nl" \in Chars /\ Output \subseteq Chars
  BY ReadlineAssumption, Zenon DEF Echo
<1>. QED
  BY <1>1, <1>2, SeqUp, Zenon

(* Backspace and Delete: what is reprinted after the gap at i is closed. *)
Blanked(b, i, n) == Piece(b, i, n) \o <<" ">>
IsBlanked(t, b, i, n) ==
  /\ t \in Seq(Printable) /\ Len(t) = n - i + 1
  /\ \A k \in 1..(n - i) : t[k] = b[i + k - 1]
  /\ t[n - i + 1] = " " /\ Reprint(b, i, n) = t \o Backs(n - i + 1)

\* The reprinted text.
LEMMA BlankedText ==
  ASSUME NEW b, NEW i \in Nat, NEW n \in Nat, Holding(Letters, b, i, n)
  PROVE  IsBlanked(Blanked(b, i, n), b, i, n) /\ Reprint(b, i, n) \in Seq(Echo)
<1>. DEFINE s == Piece(b, i, n)
<1>1. i <= n
  BY DEF Holding
<1>2. IsPiece(Letters, s, b, i, n)
  BY Pieces
<1>. HIDE DEF s
<1>3. s \in Seq(Printable) /\ Len(s) = n - i /\ \A k \in 1..(n - i) : s[k] = b[i + k - 1]
  BY <1>2, Prints, SeqUp, Zenon DEF IsPiece
<1>. DEFINE u == s \o <<" ">>
<1>4. /\ u \in Seq(Printable) /\ Len(u) = n - i + 1 /\ u[n - i + 1] = " "
      /\ \A k \in 1..(n - i) : u[k] = b[i + k - 1]
  <2>. DEFINE a == " "
  <2>1. a \in Printable
    BY Prints
  <2>. HIDE DEF a
  <2>. DEFINE v == s \o <<a>>
  <2>2. v \in Seq(Printable) /\ Len(v) = Len(s) + 1 /\ v[Len(s) + 1] = a /\ \A k \in 1..Len(s) : v[k] = s[k]
    BY <2>1, <1>3, OneMore
  <2>3. u = v
    BY DEF a
  <2>. HIDE DEF u, v
  <2>. QED
    BY <2>2, <2>3, <1>3, Zenon DEF a
<1>5. u = Blanked(b, i, n) /\ Reprint(b, i, n) = u \o Backs(n - i + 1)
  BY Zenon DEF Blanked, Reprint, s
<1>. HIDE DEF u
<1>6. n - i + 1 \in Nat
  BY <1>1
<1>7. Reprint(b, i, n) \in Seq(Echo)
  <2>. DEFINE v == Backs(n - i + 1)
  <2>1. v \in Seq(Echo) /\ u \in Seq(Echo)
    BY <1>4, <1>6, BacksEcho, Prints, SeqUp, Zenon
  <2>. HIDE DEF v
  <2>2. u \o v \in Seq(Echo)
    BY <2>1
  <2>. QED
    BY <2>2, <1>5, Zenon DEF v
<1>. QED
  BY <1>4, <1>5, <1>7, Zenon DEF IsBlanked

\* Closing the gap at i with the cursor on it, and reprinting.
LEMMA Deleted ==
  ASSUME LineInv, NEW i \in 0..(len - 1), NEW c \in Consoles, NEW x \in Nat, NEW w \in Nat,
         len <= w, x + w < Cols, Sync(c, buf, len, i, x, w)
  PROVE  Sync(PutAll(c, Reprint(CloseGap(i), i, len - 1)), CloseGap(i), len - 1, i, x, w)
<1>. DEFINE b == CloseGap(i)
            l == len - 1
            t == Blanked(b, i, l)
            n == l - i + 1
            d == PutAll(c, t \o Backs(n))
<1>1. len \in Nat /\ len = l + 1 /\ i \in Nat /\ l \in Nat /\ i <= l /\ n \in Nat /\ i + n = len
  BY LineBounds
<1>2. Holding(Letters, b, 0, l) /\ \A k \in 0..(len - 2) : b[k] = IF k < i THEN buf[k] ELSE buf[k + 1]
  BY GapClosed, Zenon
<1>. HIDE DEF b, l
<1>3. /\ t \in Seq(Printable) /\ Len(t) = n /\ (\A k \in 1..(l - i) : t[k] = b[i + k - 1]) /\ t[n] = " "
      /\ Reprint(b, i, l) = t \o Backs(n)
  <2>0. i \in Nat /\ l \in Nat
    BY <1>1
  <2>1. Holding(Letters, b, i, l)
    BY <1>1, <1>2 DEF Holding
  <2>2. IsBlanked(t, b, i, l)
    BY <2>0, <2>1, BlankedText
  <2>. QED
    BY <2>2, Zenon DEF IsBlanked
<1>. HIDE DEF t, n
<1>4. c.col = x + i /\ c.col + Len(t) = x + len /\ c.col + Len(t) < Cols /\ n <= c.col + Len(t)
  <2>1. c.col = x + i /\ Cols \in Nat
    BY ConsoleAssumption DEF Sync
  <2>2. Len(t) = n
    BY <1>3
  <2>. QED
    BY <2>1, <2>2, <1>1
<1>5. d.row = c.row /\ d.col = (c.col + Len(t)) - n /\ TextFrom(c, d, c.col, t, Len(t))
  BY <1>1, <1>3, <1>4, PutAndBack, Zenon
<1>. HIDE DEF d
<1>6. d.col = x + i /\ TextFrom(c, d, x + i, t, n)
  <2>1. d.col = (x + len) - n /\ TextFrom(c, d, x + i, t, n)
    BY <1>3, <1>4, <1>5, Zenon
  <2>. QED
    BY <2>1, <1>1
<1>7. Rewrites(t, i, n, buf, len, w, b, l, w)
  <2>1. ASSUME NEW j \in 0..(w - 1), i <= j, j < i + n PROVE t[j - i + 1] = Cell(b, l, j)
    <3>1. CASE j = l
      <4>1. j - i + 1 = n /\ ~(j < l)
        BY <3>1, <1>1 DEF n
      <4>. QED
        BY <4>1, <1>3, Zenon DEF Cell
    <3>2. CASE j # l
      <4>1. j - i + 1 \in 1..(l - i) /\ i + (j - i + 1) - 1 = j /\ j < l
        BY <3>2, <2>1, <1>1
      <4>2. t[j - i + 1] = b[i + (j - i + 1) - 1]
        BY <4>1, <1>3, Zenon
      <4>. QED
        BY <4>1, <4>2, Zenon DEF Cell
    <3>. QED
      BY <3>1, <3>2
  <2>2. ASSUME NEW j \in 0..(w - 1), ~(i <= j /\ j < i + n) PROVE j < w /\ Cell(buf, len, j) = Cell(b, l, j)
    <3>1. j < w
      OBVIOUS
    <3>2. CASE j < i
      <4>1. j \in 0..(len - 2) /\ j < len /\ j < l
        BY <3>2, <1>1
      <4>2. b[j] = buf[j]
        BY <4>1, <3>2, <1>2, Zenon
      <4>. QED
        BY <3>1, <4>1, <4>2, Zenon DEF Cell
    <3>3. CASE ~(j < i)
      <4>1. ~(j < len) /\ ~(j < l)
        BY <3>3, <2>2, <1>1
      <4>. QED
        BY <3>1, <4>1, Zenon DEF Cell
    <3>. QED
      BY <3>2, <3>3
  <2>. QED
    BY <2>1, <2>2, Zenon DEF Rewrites
<1>8. x + w <= Cols
  BY ConsoleAssumption, SMTT(20)
<1>9. Sync(d, b, l, i, x, w)
  <2>. DEFINE a == buf
              m == len
  <2>1. Sync(c, a, m, i, x, w) /\ Rewrites(t, i, n, a, m, w, b, l, w)
    BY <1>7
  <2>. HIDE DEF a, m
  <2>. QED
    BY <2>1, <1>1, <1>5, <1>6, <1>8, Retyped
<1>10. d = PutAll(c, Reprint(b, i, l))
  BY <1>3, Zenon DEF d
<1>. QED
  BY <1>9, <1>10 DEF b, l

\* The echo of a character typed: itself, what follows it, and back.
LEMMA TypedEcho ==
  ASSUME LineInv, NEW ch \in Letters, Fits
  PROVE  <<ch>> \o Piece(OpenGap(ch), cur + 1, len + 1) \o Backs((len + 1) - (cur + 1)) \in Seq(Echo)
<1>. DEFINE p == Piece(OpenGap(ch), cur + 1, len + 1)
            v == Backs((len + 1) - (cur + 1))
<1>1. p = Right
  BY GapOpened, Zenon
<1>2. p \in Seq(Echo)
  BY <1>1, LeftRight, Prints, SeqUp, ZenonT(40)
<1>3. (len + 1) - (cur + 1) \in Nat
  <2>1. len \in Nat /\ cur \in Nat /\ cur <= len
    BY LeftRight, Zenon
  <2>. QED
    BY <2>1
<1>4. v \in Seq(Echo)
  BY <1>3, BacksEcho, Zenon
<1>5. ch \in Echo
  BY Prints
<1>. HIDE DEF p, v
<1>6. <<ch>> \o p \o v \in Seq(Echo)
  BY <1>2, <1>4, <1>5
<1>. QED
  BY <1>6 DEF p, v

\* Typing a character, which reprints what follows it.
LEMMA Typed ==
  ASSUME LineInv, NEW ch \in Letters, Fits, NEW c \in Consoles, NEW x \in Nat, NEW w \in Nat, NEW w2 \in Nat,
         len <= w, w2 = (IF w >= len + 1 THEN w ELSE len + 1), x + w2 < Cols, Sync(c, buf, len, cur, x, w)
  PROVE  LET b == OpenGap(ch)
             s == <<ch>> \o Piece(b, cur + 1, len + 1) \o Backs((len + 1) - (cur + 1))
         IN  Sync(PutAll(c, s), b, len + 1, cur + 1, x, w2)
<1>. DEFINE b == OpenGap(ch)
            l == len + 1
            h == cur + 1
            p == Piece(b, h, l)
            t == <<ch>> \o p
            n == l - cur
            m == l - h
            d == PutAll(c, t \o Backs(m))
<1>1. /\ len \in Nat /\ l \in Nat /\ cur \in Nat /\ h \in Nat /\ h <= l /\ n \in Nat /\ m \in Nat /\ n = m + 1
      /\ cur + n = l /\ m = l - h
  <2>1. len \in Nat /\ cur \in Nat /\ cur <= len
    BY LeftRight, Zenon
  <2>. QED
    BY <2>1
<1>2. /\ Holding(Letters, b, 0, l)
      /\ \A k \in 0..len : b[k] = IF k < cur THEN buf[k] ELSE IF k = cur THEN ch ELSE buf[k - 1]
  BY GapOpened, Zenon
<1>. HIDE DEF b
<1>3. p \in Seq(Printable) /\ Len(p) = m /\ \A k \in 1..m : p[k] = b[h + k - 1]
  <2>1. Holding(Letters, b, h, l)
    BY <1>1, <1>2 DEF Holding
  <2>. HIDE DEF h, l, m
  <2>2. IsPiece(Letters, p, b, h, l)
    BY <2>1, <1>1, Pieces, SMTT(20)
  <2>. QED
    BY <2>2, <1>1, Prints, SeqUp, Zenon DEF IsPiece
<1>. HIDE DEF p
<1>4. t \in Seq(Printable) /\ Len(t) = n /\ t[1] = ch /\ \A k \in 1..m : t[k + 1] = p[k]
  <2>1. ch \in Printable
    BY Prints
  <2>2. p \in Seq(Printable) /\ Len(p) = m /\ n = 1 + m
    BY <1>1, <1>3
  <2>. HIDE DEF m, n
  <2>3. t \in Seq(Printable) /\ Len(t) = 1 + m /\ t[1] = ch /\ \A k \in 1..m : t[k + 1] = p[k]
    BY <2>1, <2>2
  <2>. HIDE DEF t
  <2>. QED
    BY <2>2, <2>3, Zenon
<1>. HIDE DEF t
<1>6. c.col = x + cur /\ c.col + Len(t) = x + l /\ c.col + Len(t) < Cols /\ m <= c.col + Len(t)
  <2>1. c.col = x + cur /\ Cols \in Nat
    BY ConsoleAssumption DEF Sync
  <2>. QED
    BY <2>1, <1>1, <1>4
<1>. HIDE DEF m, n, h, l
<1>7. d.row = c.row /\ d.col = (c.col + Len(t)) - m /\ TextFrom(c, d, c.col, t, Len(t))
  BY <1>1, <1>4, <1>6, PutAndBack, Zenon
<1>. HIDE DEF d
<1>8. d.col = x + h /\ TextFrom(c, d, x + cur, t, n)
  <2>1. d.col = (x + l) - m /\ TextFrom(c, d, x + cur, t, n)
    BY <1>4, <1>6, <1>7, Zenon
  <2>. QED
    BY <2>1, <1>1
<1>9. Rewrites(t, cur, n, buf, len, w, b, l, w2)
  <2>1. ASSUME NEW j \in 0..(w2 - 1), cur <= j, j < cur + n PROVE t[j - cur + 1] = Cell(b, l, j)
    <3>0. j < l /\ j \in 0..len
      BY <2>1, <1>1 DEF l
    <3>1. CASE j = cur
      <4>1. j - cur + 1 = 1 /\ ~(j < cur)
        BY <3>1, <1>1
      <4>. QED
        BY <3>0, <3>1, <4>1, <1>2, <1>4, Zenon DEF Cell
    <3>2. CASE j # cur
      <4>. DEFINE k == j - cur
      <4>1. k \in 1..m /\ h + k - 1 = j
        BY <3>0, <3>2, <2>1, <1>1 DEF h, l
      <4>2. t[k + 1] = b[h + k - 1]
        BY <4>1, <1>3, <1>4, Zenon
      <4>. QED
        BY <3>0, <4>1, <4>2, Zenon DEF Cell
    <3>. QED
      BY <3>1, <3>2
  <2>2. ASSUME NEW j \in 0..(w2 - 1), ~(cur <= j /\ j < cur + n)
        PROVE  j < w /\ Cell(buf, len, j) = Cell(b, l, j)
    <3>1. CASE j < cur
      <4>1. j \in 0..len /\ j < len /\ j < l /\ j < w
        BY <3>1, <1>1, LeftRight DEF l
      <4>2. b[j] = buf[j]
        BY <4>1, <3>1, <1>2, Zenon
      <4>. QED
        BY <4>1, <4>2, Zenon DEF Cell
    <3>2. CASE ~(j < cur)
      <4>1. ~(j < len) /\ ~(j < l) /\ j < w
        BY <3>2, <2>2, <1>1 DEF l
      <4>. QED
        BY <4>1, Zenon DEF Cell
    <3>. QED
      BY <3>1, <3>2
  <2>. QED
    BY <2>1, <2>2, Zenon DEF Rewrites
<1>10. x + w2 <= Cols
  BY ConsoleAssumption
<1>11. Sync(d, b, l, h, x, w2)
  <2>. DEFINE a == buf
              q == len
              e == cur
  <2>1. Sync(c, a, q, e, x, w) /\ Rewrites(t, e, n, a, q, w, b, l, w2) /\ TextFrom(c, d, x + e, t, n) /\ e \in Nat
    BY <1>1, <1>8, <1>9
  <2>2. d.row = c.row /\ d.col = x + h /\ n \in Nat /\ x \in Nat /\ w \in Nat /\ w2 \in Nat
    BY <1>1, <1>7, <1>8
  <2>. HIDE DEF a, q, e, b, l, h, t
  <2>. QED
    BY <2>1, <2>2, <1>10, Retyped, ZenonT(40)
<1>. QED
  BY <1>11 DEF d, b, l, h, m, t, p

(* The console is sound; while a line is edited, the screen is current at  *)
(* live view, and a line clear of the last column is on its row.           *)
ScreenInv ==
  /\ con \in Consoles /\ con.off <= con.count /\ origin \in Columns /\ widest \in Nat
  /\ at = "edit" =>
       /\ len <= widest /\ Shown(con)
       /\ origin + widest < Cols => Sync(con, buf, len, cur, origin, widest)

\* A key that echoes s keeps it, if the line is in sync after it.
LEMMA Echoed ==
  ASSUME ScreenInv, at = "edit", NEW s \in Seq(Echo), con' = PutAll(con, s), origin' = origin,
         widest' \in Nat, len' <= widest',
         origin + widest' < Cols => Sync(con', buf', len', cur', origin, widest')
  PROVE  ScreenInv'
<1>1. con \in Consoles /\ con.off <= con.count /\ origin \in Columns /\ Shown(con)
  BY DEF ScreenInv
<1>2. con' \in Consoles /\ con'.off <= con'.count /\ Shown(con')
  BY <1>1, PutEcho, Zenon
<1>3. origin' \in Columns /\ Shown(con)' /\ (origin' + widest' < Cols => Sync(con', buf', len', cur', origin', widest'))
  BY <1>1, <1>2, Zenon DEF Shown
<1>. QED
  BY <1>2, <1>3, Zenon DEF ScreenInv

\* What the steps below use of the two invariants.
LEMMA Editable ==
  ASSUME LineInv, ScreenInv, at = "edit"
  PROVE  /\ con \in Consoles /\ origin \in Nat /\ widest \in Nat /\ len \in Nat /\ cur \in Nat /\ cur <= len
         /\ len <= widest /\ Cols \in Nat
         /\ origin + widest < Cols => Sync(con, buf, len, cur, origin, widest)
<1>1. len \in Nat /\ cur \in Nat /\ cur <= len
  BY LeftRight, Zenon
<1>2. origin \in Nat /\ Cols \in Nat
  BY ConsoleAssumption DEF ScreenInv, Columns
<1>. QED
  BY <1>1, <1>2, Zenon DEF ScreenInv

\* Left: one backspace.
LEMMA LeftScreen == ASSUME LineInv, ScreenInv, KEY_LEFT PROVE ScreenInv'
<1>1. /\ at = "edit" /\ origin' = origin /\ buf' = buf /\ len' = len /\ widest' = widest
      /\ cur > 0 /\ con' = vga_putc(con, "bs") /\ cur' = cur - 1
  BY DEF KEY_LEFT, Keeps, Editing
<1>2. <<"bs">> \in Seq(Echo)
  <2>1. "bs" \in Echo
    BY Prints
  <2>. QED
    BY <2>1
<1>3. con' = PutAll(con, <<"bs">>)
  BY <1>1, PutOne, Zenon
<1>4. ASSUME origin + widest < Cols PROVE Sync(con', buf, len, cur - 1, origin, widest)
  <2>. DEFINE c == con
              b == buf
              l == len
              k == cur
              x == origin
              w == widest
  <2>1. c \in Consoles /\ k \in Nat /\ k > 0 /\ x \in Nat /\ w \in Nat /\ Sync(c, b, l, k, x, w)
    BY <1>1, <1>4, Editable
  <2>. HIDE DEF c, b, l, k, x, w
  <2>2. Sync(vga_putc(c, "bs"), b, l, k - 1, x, w)
    BY <2>1, SyncBack
  <2>. QED
    BY <2>2, <1>1 DEF c, b, l, k, x, w
<1>. QED
  BY <1>1, <1>2, <1>3, <1>4, Editable, Echoed, Zenon

\* Home: a backspace for every character left of the cursor.
LEMMA HomeScreen == ASSUME LineInv, ScreenInv, KEY_HOME PROVE ScreenInv'
<1>1. /\ at = "edit" /\ origin' = origin /\ buf' = buf /\ len' = len /\ widest' = widest
      /\ con' = PutAll(con, Backs(cur)) /\ cur' = 0
  BY DEF KEY_HOME, Keeps, Editing
<1>2. Backs(cur) \in Seq(Echo)
  BY <1>1, Editable, BacksEcho, Zenon
<1>3. ASSUME origin + widest < Cols PROVE Sync(con', buf, len, 0, origin, widest)
  <2>1. con \in Consoles /\ cur \in Nat /\ con.col = origin + cur /\ origin \in Nat
    BY <1>1, <1>3, Editable DEF Sync
  <2>2. cur <= con.col
    BY <2>1
  <2>3. con'.row = con.row /\ con'.cells = con.cells /\ con'.col = con.col - cur
    BY <2>1, <2>2, <1>1, PutBacks, Zenon
  <2>4. con'.col = origin + 0
    BY <2>1, <2>3
  <2>. QED
    BY <2>3, <2>4, <1>1, <1>3, Editable, Zenon DEF Sync
<1>. QED
  BY <1>1, <1>2, <1>3, Editable, Echoed

\* Printing the line from the cursor up to place j again, Right and End.
LEMMA Reprinted ==
  ASSUME LineInv, ScreenInv, at = "edit", NEW j \in Nat, cur <= j, j <= len, origin + widest < Cols
  PROVE  Sync(PutAll(con, Piece(buf, cur, j)), buf, len, j, origin, widest)
<1>. DEFINE t == Piece(buf, cur, j)
            d == PutAll(con, t)
            n == j - cur
            x == origin
            w == widest
<1>1. /\ con \in Consoles /\ x \in Nat /\ w \in Nat /\ len \in Nat /\ cur \in Nat /\ len <= w /\ Cols \in Nat
      /\ Sync(con, buf, len, cur, x, w) /\ con.col = x + cur
  BY Editable DEF Sync
<1>2. IsPiece(Letters, t, buf, cur, j)
  <2>1. Holding(Letters, buf, cur, j)
    BY <1>1 DEF LineInv, Holding
  <2>. QED
    BY <2>1, <1>1, Pieces, Zenon
<1>. HIDE DEF t
<1>3. t \in Seq(Printable) /\ Len(t) = n /\ \A k \in 1..n : t[k] = buf[cur + k - 1]
  BY <1>2, Prints, SeqUp, Zenon DEF IsPiece
<1>4. n \in Nat /\ cur + n = j /\ con.col + Len(t) < Cols
  BY <1>1, <1>3
<1>5. d.row = con.row /\ d.col = con.col + Len(t) /\ TextFrom(con, d, con.col, t, Len(t))
  BY <1>1, <1>3, <1>4, PutText, Zenon
<1>. HIDE DEF d
<1>6. d.col = x + j /\ TextFrom(con, d, x + cur, t, n)
  <2>1. d.col = (x + cur) + n /\ TextFrom(con, d, x + cur, t, n)
    BY <1>1, <1>3, <1>5, Zenon
  <2>. QED
    BY <2>1, <1>1, <1>4
<1>7. Rewrites(t, cur, n, buf, len, w, buf, len, w)
  <2>1. ASSUME NEW k \in 0..(w - 1), cur <= k, k < cur + n PROVE t[k - cur + 1] = Cell(buf, len, k)
    <3>1. k - cur + 1 \in 1..n /\ cur + (k - cur + 1) - 1 = k /\ k < len
      BY <2>1, <1>1, <1>4
    <3>2. t[k - cur + 1] = buf[cur + (k - cur + 1) - 1]
      BY <3>1, <1>3, Zenon
    <3>. QED
      BY <3>1, <3>2, Zenon DEF Cell
  <2>2. \A k \in 0..(w - 1) : k < w
    BY <1>1
  <2>. QED
    BY <2>1, <2>2, Zenon DEF Rewrites
<1>. HIDE DEF n, x, w
<1>8. x + w <= Cols
  BY <1>1 DEF x, w
<1>9. Sync(d, buf, len, j, x, w)
  <2>. DEFINE a == buf
              q == len
              e == cur
              c == con
  <2>1. /\ Sync(c, a, q, e, x, w) /\ Rewrites(t, e, n, a, q, w, a, q, w) /\ TextFrom(c, d, x + e, t, n)
        /\ e \in Nat /\ d.row = c.row
    BY <1>1, <1>5, <1>6, <1>7, ZenonT(40)
  <2>. HIDE DEF a, q, e, c
  <2>2. Sync(d, a, q, j, x, w)
    BY <2>1, <1>1, <1>4, <1>6, <1>8, Retyped
  <2>. QED
    BY <2>2 DEF a, q
<1>. QED
  BY <1>9 DEF d, t, x, w

\* Right: the character under the cursor again.
LEMMA RightScreen == ASSUME LineInv, ScreenInv, KEY_RIGHT PROVE ScreenInv'
<1>1. /\ at = "edit" /\ origin' = origin /\ buf' = buf /\ len' = len /\ widest' = widest
      /\ cur < len /\ con' = vga_putc(con, buf[cur]) /\ cur' = cur + 1
  BY DEF KEY_RIGHT, Keeps, Editing
<1>. DEFINE s == Piece(buf, cur, cur + 1)
<1>2. cur \in Nat /\ len \in Nat /\ cur + 1 \in Nat /\ cur <= cur + 1 /\ cur + 1 <= len
  BY <1>1, Editable
<1>3. s = <<buf[cur]>>
  <2>1. (cur + 1) - cur = 1 /\ \A k \in 1..1 : cur + k - 1 = cur
    BY <1>2
  <2>2. s = [k \in 1..1 |-> buf[cur]]
    BY <2>1, ZenonT(40) DEF Piece
  <2>. QED
    BY <2>2
<1>4. s \in Seq(Echo)
  <2>1. Holding(Letters, buf, cur, cur + 1)
    BY <1>1, <1>2 DEF LineInv, Holding
  <2>2. s \in Seq(Letters)
    BY <2>1, <1>2, Pieces, Zenon DEF IsPiece
  <2>. QED
    BY <2>2, Prints, SeqUp, Zenon
<1>5. con' = PutAll(con, s)
  BY <1>1, <1>3, PutOne, Zenon
<1>. HIDE DEF s
<1>6. ASSUME origin + widest < Cols PROVE Sync(con', buf, len, cur + 1, origin, widest)
  BY <1>1, <1>2, <1>5, <1>6, Reprinted, Zenon DEF s
<1>. QED
  BY <1>1, <1>4, <1>5, <1>6, Editable, Echoed

\* End: the rest of the line again.
LEMMA EndScreen == ASSUME LineInv, ScreenInv, KEY_END PROVE ScreenInv'
<1>1. /\ at = "edit" /\ origin' = origin /\ buf' = buf /\ len' = len /\ widest' = widest
      /\ con' = PutAll(con, Piece(buf, cur, len)) /\ cur' = len
  BY DEF KEY_END, Keeps, Editing
<1>2. cur \in Nat /\ len \in Nat /\ cur <= len /\ len <= len
  BY <1>1, Editable
<1>3. Piece(buf, cur, len) \in Seq(Echo)
  BY LeftRight, Prints, SeqUp, Zenon DEF Right
<1>4. ASSUME origin + widest < Cols PROVE Sync(con', buf, len, len, origin, widest)
  BY <1>1, <1>2, <1>4, Reprinted, Zenon
<1>. QED
  BY <1>1, <1>3, <1>4, Editable, Echoed

\* Closing the gap at i, reprinted from a console in sync there.
LEMMA GapScreen ==
  ASSUME LineInv, NEW i \in 0..(len - 1)
  PROVE  Reprint(CloseGap(i), i, len - 1) \in Seq(Echo)
<1>1. i \in Nat /\ len - 1 \in Nat /\ i <= len - 1
  BY LineBounds
<1>2. Holding(Letters, CloseGap(i), 0, len - 1)
  BY GapClosed, Zenon
<1>3. Holding(Letters, CloseGap(i), i, len - 1)
  BY <1>1, <1>2 DEF Holding
<1>. QED
  BY <1>1, <1>3, BlankedText, Zenon

\* Delete.
LEMMA DeleteScreen == ASSUME LineInv, ScreenInv, KEY_DELETE PROVE ScreenInv'
<1>. DEFINE s == Reprint(CloseGap(cur), cur, len - 1)
<1>1. /\ at = "edit" /\ origin' = origin /\ buf' = CloseGap(cur) /\ len' = len - 1 /\ cur' = cur
      /\ widest' = widest /\ cur < len /\ con' = PutAll(con, s)
  BY DEF KEY_DELETE, Editing
<1>2. cur \in 0..(len - 1) /\ len \in Nat /\ widest \in Nat /\ len - 1 <= widest /\ len <= widest
  BY <1>1, Editable
<1>3. s \in Seq(Echo)
  BY <1>2, GapScreen, Zenon
<1>4. ASSUME origin + widest < Cols PROVE Sync(con', buf', len - 1, cur, origin, widest)
  BY <1>1, <1>2, <1>4, Editable, Deleted, Zenon
<1>. HIDE DEF s
<1>. QED
  BY <1>1, <1>2, <1>3, <1>4, Echoed

\* Backspace: one to the left, and then as Delete.
LEMMA BackspaceScreen == ASSUME LineInv, ScreenInv, KEY_BACKSPACE PROVE ScreenInv'
<1>. DEFINE i == cur - 1
            r == Reprint(CloseGap(i), i, len - 1)
            s == <<"bs">> \o r
            c == vga_putc(con, "bs")
<1>1. /\ at = "edit" /\ origin' = origin /\ buf' = CloseGap(i) /\ len' = len - 1 /\ cur' = i
      /\ widest' = widest /\ cur > 0 /\ con' = PutAll(con, s)
  BY DEF KEY_BACKSPACE, Editing
<1>2. /\ i \in 0..(len - 1) /\ len \in Nat /\ widest \in Nat /\ len - 1 <= widest /\ len <= widest
      /\ cur \in Nat /\ cur > 0 /\ con \in Consoles /\ origin \in Nat
  BY <1>1, Editable
<1>. HIDE DEF i
<1>3. r \in Seq(Echo)
  BY <1>2, GapScreen, Zenon
<1>. HIDE DEF r
<1>4. <<"bs">> \in Seq(Echo) /\ s \in Seq(Echo)
  <2>1. "bs" \in Echo
    BY Prints
  <2>. QED
    BY <2>1, <1>3
<1>5. con' = PutAll(c, r)
  <2>. DEFINE q == <<"bs">>
  <2>1. q \in Seq(Echo) /\ s = q \o r
    BY <1>4
  <2>. HIDE DEF q, s
  <2>2. PutAll(con, q \o r) = PutAll(PutAll(con, q), r)
    BY <2>1, <1>3, PutBoth
  <2>3. PutAll(con, q) = c
    BY PutOne, Zenon DEF q
  <2>. QED
    BY <2>1, <2>2, <2>3, <1>1, Zenon
<1>. HIDE DEF s
<1>6. ASSUME origin + widest < Cols PROVE Sync(con', buf', len - 1, i, origin, widest)
  <2>1. c \in Consoles /\ Sync(c, buf, len, i, origin, widest)
    <3>. DEFINE e == con
                b == buf
                l == len
                k == cur
                x == origin
                w == widest
    <3>1. e \in Consoles /\ k \in Nat /\ k > 0 /\ x \in Nat /\ w \in Nat /\ Sync(e, b, l, k, x, w)
      BY <1>1, <1>2, <1>6, Editable
    <3>. HIDE DEF e, b, l, k, x, w
    <3>2. vga_putc(e, "bs") \in Consoles /\ Sync(vga_putc(e, "bs"), b, l, k - 1, x, w)
      BY <3>1, SyncBack
    <3>. QED
      BY <3>2 DEF e, b, l, k, x, w, i
  <2>. HIDE DEF c
  <2>2. Sync(PutAll(c, r), CloseGap(i), len - 1, i, origin, widest)
    BY <2>1, <1>2, <1>6, Deleted, Zenon DEF r
  <2>. QED
    BY <2>2, <1>1, <1>5, Zenon
<1>. QED
  BY <1>1, <1>2, <1>4, <1>6, Echoed

\* A character.
LEMMA CharScreen == ASSUME LineInv, ScreenInv, NEW ch \in Letters, KEY_CHAR(ch) PROVE ScreenInv'
<1>. DEFINE b == OpenGap(ch)
            s == <<ch>> \o Piece(b, cur + 1, len + 1) \o Backs((len + 1) - (cur + 1))
            w == IF widest >= len + 1 THEN widest ELSE len + 1
<1>1. /\ at = "edit" /\ origin' = origin /\ buf' = b /\ len' = len + 1 /\ cur' = cur + 1 /\ Fits
      /\ widest' = Max({widest, len + 1}) /\ con' = PutAll(con, s)
  BY DEF KEY_CHAR, Editing
<1>2. /\ con \in Consoles /\ origin \in Nat /\ widest \in Nat /\ len \in Nat /\ len <= widest /\ Cols \in Nat
      /\ cur \in Nat /\ len + 1 \in Int
  BY <1>1, Editable
<1>3. widest' = w /\ w \in Nat /\ len + 1 <= w /\ widest <= w
  <2>1. widest' = w
    <3>. DEFINE m == len + 1
    <3>1. m \in Int /\ widest \in Int
      BY <1>2
    <3>. HIDE DEF m
    <3>2. Max({widest, m}) = IF widest >= m THEN widest ELSE m
      BY <3>1, OfTwo
    <3>. QED
      BY <3>2, <1>1 DEF m
  <2>. QED
    BY <2>1, <1>2
<1>. HIDE DEF b
<1>4. s \in Seq(Echo)
  BY <1>1, TypedEcho, Zenon DEF b
<1>5. ASSUME origin + w < Cols PROVE Sync(con', buf', len + 1, cur + 1, origin, w)
  <2>1. origin + widest < Cols
    BY <1>2, <1>3, <1>5
  <2>2. Sync(con, buf, len, cur, origin, widest)
    BY <2>1, <1>1, Editable, Zenon
  <2>. HIDE DEF s
  <2>3. Sync(PutAll(con, s), b, len + 1, cur + 1, origin, w)
    BY <2>2, <1>1, <1>2, <1>3, <1>5, Typed, Zenon DEF b, s
  <2>. QED
    BY <2>3, <1>1, Zenon
<1>. HIDE DEF s, w
<1>. QED
  BY <1>1, <1>3, <1>4, <1>5, Echoed, Zenon

\* Output while no line is edited: Enter's newline, and what the command prints.
LEMMA OutputScreen ==
  ASSUME ScreenInv, NEW ch \in Chars, con' = vga_putc(con, ch), at' = "run", origin' = origin, widest' = widest
  PROVE  ScreenInv'
<1>1. con \in Consoles /\ con.off <= con.count /\ origin \in Columns /\ widest \in Nat
  BY DEF ScreenInv
<1>2. con' \in Consoles /\ \E t : SameRing(con, con') \/ Pushed(con, con', t)
  BY <1>1, Written, Zenon
<1>3. con'.off <= con'.count
  BY <1>1, <1>2, OffKept, Zenon
<1>4. at' # "edit"
  OBVIOUS
<1>. QED
  BY <1>1, <1>2, <1>3, <1>4, Zenon DEF ScreenInv

\* Paging while a line is edited.
LEMMA ScrollScreen == ASSUME ScreenInv, Scroll PROVE ScreenInv'
<1>1. /\ at = "edit" /\ at' = at /\ origin' = origin /\ buf' = buf /\ len' = len /\ widest' = widest /\ cur' = cur
      /\ con' \in {console_page_up(con), console_page_down(con), console_page_home(con), console_page_end(con)}
  BY DEF Scroll, Keeps, Editing
<1>2. /\ con \in Consoles /\ con.off <= con.count /\ origin \in Columns /\ widest \in Nat /\ len <= widest
      /\ origin + widest < Cols => Sync(con, buf, len, cur, origin, widest)
  BY <1>1, Zenon DEF ScreenInv
<1>3. PICK x \in 0..con.count : con' = render_view([con EXCEPT !.off = x])
  BY <1>1, <1>2, Paged, Zenon
<1>4. /\ con' \in Consoles /\ con'.off <= con'.count /\ Shown(con')
      /\ con'.cells = con.cells /\ con'.row = con.row /\ con'.col = con.col
  BY <1>2, <1>3, ViewShown, Zenon
<1>5. origin + widest < Cols => Sync(con', buf, len, cur, origin, widest)
  BY <1>2, <1>4, Zenon DEF Sync
<1>6. Shown(con)' /\ origin' \in Columns /\ widest' \in Nat /\ len' <= widest'
      /\ (origin' + widest' < Cols => Sync(con', buf', len', cur', origin', widest'))
  BY <1>1, <1>2, <1>4, <1>5, Zenon DEF Shown
<1>. QED
  BY <1>4, <1>6, Zenon DEF ScreenInv

\* The prompt: back to live view first, so the screen is current whatever came before.
LEMMA AskScreen == ASSUME ScreenInv, Ask PROVE ScreenInv'
<1>. DEFINE c == console_page_end(con)
<1>1. /\ con' = PutAll(c, Prompt) /\ len' = 0 /\ cur' = 0 /\ origin' = con'.col /\ widest' = 0
  BY DEF Ask, shell_prompt
<1>2. con \in Consoles /\ 0 \in 0..con.count
  BY ConsoleAssumption DEF ScreenInv, Consoles
<1>3. c \in Consoles /\ c.off <= c.count /\ Shown(c)
  BY <1>2, ViewShown, Zenon DEF console_page_end
<1>. HIDE DEF c
<1>4. Prompt \in Seq(Echo)
  BY Prints, Zenon
<1>5. con' \in Consoles /\ con'.off <= con'.count /\ Shown(con')
  BY <1>1, <1>3, <1>4, PutEcho, Zenon
<1>6. con'.col \in Columns
  BY <1>5 DEF Consoles
<1>7. Sync(con', buf', 0, 0, con'.col, 0)
  BY <1>6, ConsoleAssumption DEF Sync, Columns
<1>8. /\ Shown(con)' /\ origin' \in Columns /\ widest' \in Nat /\ len' <= widest'
      /\ (origin' + widest' < Cols => Sync(con', buf', len', cur', origin', widest'))
  <2>1. Shown(con)'
    BY <1>5, Zenon DEF Shown
  <2>2. Sync(con', buf', len', cur', origin', widest') /\ origin' \in Columns
    BY <1>1, <1>6, <1>7, Zenon
  <2>3. widest' \in Nat /\ len' <= widest'
    BY <1>1
  <2>. QED
    BY <2>1, <2>2, <2>3, Zenon
<1>. QED
  BY <1>5, <1>8, Zenon DEF ScreenInv

\* Before the first prompt.
LEMMA ScreenInit == RInit => ScreenInv
<1>. SUFFICES ASSUME RInit PROVE ScreenInv
  OBVIOUS
<1>1. /\ con = console_init /\ origin = 0 /\ widest = 0 /\ at = "prompt"
      /\ Rows \in Nat /\ Rows > 0 /\ Cols \in Nat /\ Cols > 0 /\ Cap \in Nat /\ Cap > 0
  BY ConsoleAssumption DEF RInit
<1>2. 0 \in Lines /\ 0 \in Columns /\ 0 \in Places /\ 0 \in 0..Cap
  BY <1>1 DEF Lines, Columns, Places
<1>3. con \in Consoles /\ con.off = 0 /\ con.count = 0
  BY <1>1, <1>2, Blanks DEF console_init, Consoles, Places
<1>. QED
  BY <1>1, <1>2, <1>3 DEF ScreenInv

\* Every step of the prompt loop keeps it.
LEMMA ScreenStep == ASSUME LineInv, ScreenInv, [RNext]_rvars PROVE ScreenInv'
<1>1. CASE Ask
  BY <1>1, AskScreen
<1>2. CASE KEY_ENTER
  <2>1. con' = vga_putc(con, "nl") /\ at' = "run" /\ origin' = origin /\ widest' = widest /\ "nl" \in Chars
    BY <1>2, Prints DEF KEY_ENTER
  <2>. QED
    BY <2>1, OutputScreen
<1>3. CASE Scroll
  BY <1>3, ScrollScreen
<1>4. CASE KEY_LEFT \/ KEY_RIGHT \/ KEY_HOME \/ KEY_END
  BY <1>4, LeftScreen, RightScreen, HomeScreen, EndScreen, Zenon
<1>5. CASE KEY_BACKSPACE \/ KEY_DELETE
  BY <1>5, BackspaceScreen, DeleteScreen, Zenon
<1>6. CASE \E ch \in Letters : KEY_CHAR(ch)
  BY <1>6, CharScreen, Zenon
<1>7. CASE \E ch \in Output : Emit(ch)
  <2>1. PICK ch \in Output : Emit(ch)
    BY <1>7
  <2>2. con' = vga_putc(con, ch) /\ at' = "run" /\ origin' = origin /\ widest' = widest /\ ch \in Chars
    BY <2>1, Prints DEF Emit
  <2>. QED
    BY <2>2, OutputScreen
<1>8. CASE Return
  <2>1. at' # "edit" /\ con' = con /\ origin' = origin /\ widest' = widest
    BY <1>8 DEF Return
  <2>. QED
    BY <2>1 DEF ScreenInv
<1>9. CASE UNCHANGED rvars
  BY <1>9 DEF rvars, ScreenInv, Shown, Sync, Cell
<1>. QED
  BY <1>1, <1>2, <1>3, <1>4, <1>5, <1>6, <1>7, <1>8, <1>9, Zenon DEF RNext

\* Both invariants hold throughout.
LEMMA ReadlineInvariant == RSpec => [](LineInv /\ ScreenInv)
<1>1. RInit => LineInv /\ ScreenInv
  BY LineInit, ScreenInit
<1>2. (LineInv /\ ScreenInv) /\ [RNext]_rvars => (LineInv /\ ScreenInv)'
  BY LineStep, ScreenStep
<1>. QED
  BY <1>1, <1>2, PTL DEF RSpec

(* While a line is edited at live view the screen shows the window, with   *)
(* the hardware cursor where the next character goes.  console_page_end in *)
(* shell_prompt makes it so and every echo of input_readline keeps it, for *)
(* every window and ring, every prompt and whatever the command printed.   *)
THEOREM ReadlineEditedLineOnScreen == RSpec => []EditedLineOnScreen
<1>1. LineInv /\ ScreenInv => EditedLineOnScreen
  BY DEF ScreenInv, Shown, EditedLineOnScreen
<1>. QED
  BY <1>1, ReadlineInvariant, PTL

(* What input_readline echoes, a key's character, the reprinted tail, the  *)
(* blank over a deleted one and the backspaces, leaves on the row exactly  *)
(* the line in its buffer with the cursor on the edit point, as long as    *)
(* the line has stayed clear of the last column; and its indices stay      *)
(* within the buffer, for every buffer size and window.                    *)
THEOREM ReadlineEchoInSync == RSpec => []EchoInSync
<1>1. ASSUME LineInv, ScreenInv PROVE EchoInSync
  <2>1. /\ con \in Consoles /\ con.off <= con.count /\ con.off \in Nat /\ con.count \in 0..Cap /\ Cap \in Nat
        /\ con.row \in Lines /\ con.col \in Columns
    BY <1>1, ConsoleAssumption DEF ScreenInv, Consoles
  <2>2. con.off \in 0..con.count
    BY <2>1
  <2>3. RTypeOK
    BY <1>1, <2>1, <2>2, Zenon DEF RTypeOK, LineInv, Buffers, Lines, Columns
  <2>4. ASSUME at = "edit", origin + widest < Cols
        PROVE  /\ con.col = origin + cur
               /\ \A k \in 0..(widest - 1) :
                    con.cells[con.row][origin + k] = IF k < len THEN buf[k] ELSE " "
    <3>1. Sync(con, buf, len, cur, origin, widest)
      BY <1>1, <2>4, Zenon DEF ScreenInv
    <3>. QED
      BY <3>1, Zenon DEF Sync, Cell
  <2>. QED
    BY <2>3, <2>4, Zenon DEF EchoInSync
<1>. QED
  BY <1>1, ReadlineInvariant, PTL
=============================================================================
