----------------------------- MODULE TermWindow -----------------------------
(***************************************************************************)
(* The window of tt-toplike-app (bin/app.rs, TermApp): a program in a      *)
(* pseudo terminal, the thread that reads what it writes and applies it to *)
(* the screen, and the window's thread, which resizes first the terminal   *)
(* and then the screen.  They meet at one lock, which the reader holds for *)
(* at least one escape sequence and the window while it resizes or paints. *)
(*                                                                         *)
(* The program (external) either writes lines of text and whatever else    *)
(* it likes, or draws the way the terminal interface does: after a change  *)
(* of the terminal's size it clears the screen and draws every cell, and   *)
(* then only cells that changed.                                           *)
(***************************************************************************)
EXTENDS TerminalScreen, SequencesExt

CONSTANTS
  Widths, Heights,\* columns and rows the window can have
  Param,          \* parameters of escape sequences
  MaxTyped,       \* characters of text that are remembered
  MaxWire,        \* what the pseudo terminal may hold when a frame is drawn
  Ink,            \* a character of a text
  Other           \* the text is not only text

ASSUME WindowAssumption ==
  /\ Widths \subseteq Nat \ {0} /\ Heights \subseteq Nat \ {0}
  /\ Param \subseteq Nat /\ MaxTyped \in Nat /\ MaxWire \in Nat
  /\ Blank # Ink

Size == Widths \X Heights
\* Rows and columns of a cell, from 0.
Place == UNION {(0..(z[2] - 1)) \X (0..(z[1] - 1)) : z \in Size}

VARIABLES
  \* the window's thread
  termSize,       \* the size of the pseudo terminal, which the program asks for
  \* shared under the lock
  screen,
  childExited,
  \* the program and the pseudo terminal
  program,        \* "talks", "draws" or "gone"
  wire,           \* what it has drawn and the reader has not read
  drawnFor,       \* the size it has drawn every cell for
  \* history
  typed,          \* what it has written, as long as that is text
  complete        \* the last full drawing was read at the size it was made for

windowVars == <<termSize, screen, childExited, program, wire, drawnFor, typed, complete>>

ScreenSize == <<screen.cols, screen.rows>>

WindowInit ==
  /\ termSize \in Size
  /\ screen = NewScreen(termSize[1], termSize[2])
  /\ childExited = FALSE
  /\ program \in {"talks", "draws"}
  /\ wire = <<>>
  /\ drawnFor = <<>>
  /\ typed = IF program = "talks" THEN <<>> ELSE Other
  /\ complete = FALSE

-----------------------------------------------------------------------------
(* The window's thread. *)

ResizeTerminal(z) ==
  /\ termSize = ScreenSize
  /\ z # termSize
  /\ termSize' = z
  /\ UNCHANGED <<screen, childExited, program, wire, drawnFor, typed, complete>>

ResizeScreen ==
  /\ termSize # ScreenSize
  /\ screen' = Resize(screen, termSize[1], termSize[2])
  /\ typed' = Other
  /\ complete' = FALSE
  /\ UNCHANGED <<termSize, childExited, program, wire, drawnFor>>

-----------------------------------------------------------------------------
(* A program that draws. *)

Move(r, c) == [op |-> "move", row |-> r, col |-> c]
Draw(r, c) == [op |-> "draw", row |-> r, col |-> c]
Run(r, c, d) == <<Move(r, c)>> \o [i \in 1..(d - c + 1) |-> Draw(r, c + i - 1)]

Redraw(z) ==
  <<[op |-> "clear", size |-> z]>>
    \o FlattenSeq([r \in 1..z[2] |-> Run(r - 1, 0, z[1] - 1)])

DrawAll ==
  /\ program = "draws"
  /\ drawnFor # termSize
  /\ Len(wire) <= MaxWire
  /\ wire' = wire \o Redraw(termSize)
  /\ drawnFor' = termSize
  /\ UNCHANGED <<termSize, screen, childExited, program, typed, complete>>

DrawSome ==
  /\ program = "draws"
  /\ drawnFor = termSize
  /\ wire = <<>>
  /\ \E r \in 0..(termSize[2] - 1), c, d \in 0..(termSize[1] - 1) :
       c <= d /\ wire' = Run(r, c, d)
  /\ UNCHANGED <<termSize, screen, childExited, program, drawnFor, typed, complete>>

ProgramEnds ==
  /\ program # "gone"
  /\ program' = "gone"
  /\ UNCHANGED <<termSize, screen, childExited, wire, drawnFor, typed, complete>>

-----------------------------------------------------------------------------
(* The reader. *)

Receives(item) ==
  /\ wire # <<>>
  /\ item = Head(wire)
  /\ wire' = Tail(wire)
  /\ UNCHANGED <<termSize, childExited, program, drawnFor, typed>>

ReadClear ==
  \E z \in Size :
    /\ Receives([op |-> "clear", size |-> z])
    /\ screen' = EraseDisplay(screen, 2)
    /\ complete' = (z = ScreenSize)

ReadMove ==
  \E p \in Place :
    /\ Receives(Move(p[1], p[2]))
    /\ screen' = CursorTo(screen, p[1] + 1, p[2] + 1)
    /\ UNCHANGED complete

ReadDraw ==
  \E p \in Place :
    /\ Receives(Draw(p[1], p[2]))
    /\ screen' = PutChar(screen, p)
    /\ UNCHANGED complete

\* read() returns nothing more.
ReadEnd ==
  /\ program = "gone" /\ wire = <<>>
  /\ ~childExited
  /\ childExited' = TRUE
  /\ UNCHANGED <<termSize, screen, program, wire, drawnFor, typed, complete>>

(* What a program that talks writes is read at once. *)

Writes(unit) ==
  /\ program = "talks"
  /\ typed' = IF typed = Other \/ unit = Other THEN Other
              ELSE IF Len(typed) = MaxTyped \/ (typed # <<>> /\ Last(typed) = "return" /\ unit # "feed")
                   THEN Other ELSE Append(typed, unit)
  /\ UNCHANGED <<termSize, childExited, program, wire, drawnFor, complete>>

WriteText ==
  \/ Writes("ink") /\ screen' = PutChar(screen, Ink)
  \/ Writes("return") /\ screen' = CarriageReturn(screen)
  \/ Writes(IF typed \notin {Other, <<>>} /\ Last(typed) = "return" THEN "feed" ELSE Other)
       /\ screen' = LineFeed(screen)

WriteSequence ==
  /\ Writes(Other)
  /\ \/ screen' \in {Backspace(screen), SaveCursor(screen), RestoreCursor(screen)}
     \/ screen' = ReverseIndex(screen)
     \/ \E n \in Param :
          \/ screen' \in {CursorUp(screen, n), CursorDown(screen, n),
                          CursorForward(screen, n), CursorBack(screen, n)}
          \/ \E m \in Param : screen' = CursorTo(screen, n, m)
          \/ screen' \in {EraseDisplay(screen, n), EraseLine(screen, n)}
          \/ screen' \in {InsertLines(screen, n), DeleteLines(screen, n), ScrollUp(screen, n)}

WindowNext ==
  \/ \E z \in Size : ResizeTerminal(z)
  \/ ResizeScreen
  \/ DrawAll \/ DrawSome \/ ProgramEnds
  \/ ReadClear \/ ReadMove \/ ReadDraw \/ ReadEnd
  \/ WriteText \/ WriteSequence

WindowSpec == WindowInit /\ [][WindowNext]_windowVars

-----------------------------------------------------------------------------
\* No sequence of escape sequences and resizes leaves the grid other than rows
\* by columns or the cursor outside it; the reader would panic holding the
\* lock, and the window would stay empty without saying that the program ended.
GridIsWhole == Whole(screen)

-----------------------------------------------------------------------------
(* What the screen should show. *)

\* The lengths of a text's lines.
LinesOf(text) ==
  LET upTo[n \in 0..Len(text)] ==
        IF n = 0 THEN <<0>>
        ELSE CASE text[n] = "ink" -> [upTo[n - 1] EXCEPT ![Len(upTo[n - 1])] = @ + 1]
               [] text[n] = "feed" -> Append(upTo[n - 1], 0)
               [] text[n] = "return" -> upTo[n - 1]
  IN upTo[Len(text)]

\* The lengths of the rows that a line of n characters takes, that all lines
\* take on a paper without end, and that the screen has room for.
RowsOf(n, cols) == [i \in 1..Max({1, (n + cols - 1) \div cols}) |-> Least(cols, n - (i - 1) * cols)]
Paper(text, cols) ==
  LET lines == LinesOf(text) IN FlattenSeq([i \in 1..Len(lines) |-> RowsOf(lines[i], cols)])
LastRows(paper, rows) ==
  LET above == Less(Len(paper), rows)
  IN [r \in 1..rows |-> IF above + r <= Len(paper) THEN paper[above + r] ELSE 0]

IsText == typed # Other /\ (typed = <<>> \/ Last(typed) # "return")

\* Text shows as its last rows, each line broken where the window ends and
\* nowhere else, although a line that fills its row is not wrapped before the
\* next character and may end there.  And once a program that draws has drawn
\* everything for the size that the window has, all of it is on the screen, the
\* last cell of the last row as well, whatever the screen held before.
DrawnIsShown ==
  /\ IsText =>
       LET shown == LastRows(Paper(typed, screen.cols), screen.rows)
       IN screen.cells = [r \in 1..screen.rows |-> [c \in 1..screen.cols |->
                            IF c <= shown[r] THEN Ink ELSE Blank]]
  /\ (complete /\ wire = <<>>) =>
       screen.cells = [r \in 1..screen.rows |-> [c \in 1..screen.cols |-> <<r - 1, c - 1>>]]
=============================================================================
