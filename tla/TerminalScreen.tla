--------------------------- MODULE TerminalScreen ---------------------------
(***************************************************************************)
(* The screen of tt-toplike-app (bin/app.rs, Screen): the grid of cells    *)
(* that the escape sequences of the program in the window are applied to,  *)
(* one operator per sequence.  A screen is a record; colours and the other *)
(* attributes of a cell are left out, a glyph stands for what was drawn.   *)
(*                                                                         *)
(* Rows and columns count from 0 as in the code, the grid's sequences from *)
(* 1.  A sequence's parameter is a number that may be absent, which reads  *)
(* as 0.                                                                   *)
(***************************************************************************)
EXTENDS Naturals, Sequences, FiniteSetsExt

CONSTANT Blank

Least(a, b) == IF a < b THEN a ELSE b
\* saturating_sub
Less(a, b) == IF a > b THEN a - b ELSE 0
\* p1.max(1): an absent count is one
Count(n) == IF n = 0 THEN 1 ELSE n

BlankRow(cols) == [c \in 1..cols |-> Blank]

NewScreen(cols, rows) ==
  [cols |-> cols, rows |-> rows, cells |-> [r \in 1..rows |-> BlankRow(cols)],
   col |-> 0, row |-> 0, wrap |-> FALSE,
   saved |-> [col |-> 0, row |-> 0, wrap |-> FALSE]]

\* Every handler indexes the grid by the cursor; the reader thread would end
\* in the middle of one, with the lock held, if a cell were not there.
Whole(s) ==
  /\ Len(s.cells) = s.rows
  /\ \A r \in 1..s.rows : Len(s.cells[r]) = s.cols
  /\ s.row < s.rows /\ s.col < s.cols

\* Mistake: the rows that are kept keep their old width.
KeepWidths(s, cols, rows) ==
  [s EXCEPT !.cols = cols, !.rows = rows,
            !.cells = [r \in 1..rows |-> IF r <= s.rows THEN s.cells[r] ELSE BlankRow(cols)],
            !.col = Least(@, cols - 1), !.row = Least(@, rows - 1), !.wrap = FALSE]

\* Rows and columns are cut or added at the far end.
Resize(s, cols, rows) ==
  [s EXCEPT !.cols = cols, !.rows = rows,
            !.cells = [r \in 1..rows |-> [c \in 1..cols |->
                         IF r <= s.rows /\ c <= s.cols THEN s.cells[r][c] ELSE Blank]],
            !.col = Least(@, cols - 1), !.row = Least(@, rows - 1), !.wrap = FALSE]

-----------------------------------------------------------------------------
(* Lines. *)

\* n lines go at the cursor's row or the given one, the ones below move up.
DropLines(s, at, n) ==
  [s EXCEPT !.cells = [r \in 1..s.rows |->
     IF r <= at THEN s.cells[r] ELSE IF r + n <= s.rows THEN s.cells[r + n] ELSE BlankRow(s.cols)]]

ScrollUp(s, n) == DropLines(s, 0, Count(n))
DeleteLines(s, n) == DropLines(s, s.row, Count(n))

\* n blank lines at the cursor's row, the last ones leave the grid.
InsertLines(s, n) ==
  [s EXCEPT !.cells = [r \in 1..s.rows |->
     IF r <= s.row THEN s.cells[r]
     ELSE IF r <= s.row + Count(n) THEN BlankRow(s.cols) ELSE s.cells[r - Count(n)]]]

NextRow(s) ==
  IF s.row + 1 >= s.rows THEN [ScrollUp(s, 1) EXCEPT !.row = s.rows - 1]
                         ELSE [s EXCEPT !.row = @ + 1]

ReverseIndex(s) == IF s.row = 0 THEN InsertLines(s, 1) ELSE [s EXCEPT !.row = @ - 1]

-----------------------------------------------------------------------------
(* Characters and control characters. *)

\* Mistake: the wrap is not put off to the next character.
WrapAtOnce(s, glyph) ==
  LET t == [s EXCEPT !.cells[s.row + 1][s.col + 1] = glyph]
  IN IF t.col + 1 >= t.cols THEN NextRow([t EXCEPT !.col = 0])
                            ELSE [t EXCEPT !.col = @ + 1]

\* A character in the last column leaves the cursor there; the wrap is due
\* with the next character.
PutChar(s, glyph) ==
  LET t == IF s.wrap THEN NextRow([s EXCEPT !.wrap = FALSE, !.col = 0]) ELSE s
      u == [t EXCEPT !.cells[t.row + 1][t.col + 1] = glyph]
  IN IF u.col + 1 >= u.cols THEN [u EXCEPT !.wrap = TRUE] ELSE [u EXCEPT !.col = @ + 1]

CarriageReturn(s) == [s EXCEPT !.col = 0, !.wrap = FALSE]
LineFeed(s) == NextRow([s EXCEPT !.wrap = FALSE])
Backspace(s) == [s EXCEPT !.col = Less(@, 1), !.wrap = FALSE]

-----------------------------------------------------------------------------
(* The cursor. *)

CursorUp(s, n) == [s EXCEPT !.row = Less(@, Count(n)), !.wrap = FALSE]
CursorDown(s, n) == [s EXCEPT !.row = Least(@ + Count(n), s.rows - 1), !.wrap = FALSE]
CursorForward(s, n) == [s EXCEPT !.col = Least(@ + Count(n), s.cols - 1), !.wrap = FALSE]
CursorBack(s, n) == [s EXCEPT !.col = Less(@, Count(n)), !.wrap = FALSE]

\* CUP counts from 1 and stops at the last row and column.
CursorTo(s, n, m) ==
  [s EXCEPT !.row = Least(Less(n, 1), s.rows - 1), !.col = Least(Less(m, 1), s.cols - 1),
            !.wrap = FALSE]

SaveCursor(s) == [s EXCEPT !.saved = [col |-> s.col, row |-> s.row, wrap |-> s.wrap]]
RestoreCursor(s) ==
  [s EXCEPT !.col = Least(s.saved.col, s.cols - 1), !.row = Least(s.saved.row, s.rows - 1),
            !.wrap = s.saved.wrap]

-----------------------------------------------------------------------------
(* Erasing. *)

CellsOf(s) == (0..(s.rows - 1)) \X (0..(s.cols - 1))

Erase(s, places) ==
  [s EXCEPT !.cells = [r \in 1..s.rows |-> [c \in 1..s.cols |->
                         IF <<r - 1, c - 1>> \in places THEN Blank ELSE s.cells[r][c]]]]

EraseDisplay(s, n) ==
  Erase(s, {p \in CellsOf(s) :
              \/ n = 0 /\ (p[1] > s.row \/ (p[1] = s.row /\ p[2] >= s.col))
              \/ n = 1 /\ p[1] < s.row
              \/ n \in {2, 3}})

EraseLine(s, n) ==
  Erase(s, {p \in CellsOf(s) :
              /\ p[1] = s.row
              /\ \/ n = 0 /\ p[2] >= s.col
                 \/ n = 1 /\ p[2] <= s.col
                 \/ n = 2})
=============================================================================
