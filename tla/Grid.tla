-------------------------------- MODULE Grid --------------------------------
(***************************************************************************)
(* vt100-psmux, grid.rs, row.rs and cell.rs: one screen of the daemon's    *)
(* in-memory terminal, as operators on a grid record.                      *)
(*                                                                         *)
(* Rows and columns count from 0 as in the code; line r is lines[r + 1].   *)
(* Of a cell only what the cursor logic looks at is kept: whether it has   *)
(* contents, is the first half of a wide character, or its second half.    *)
(* Numbers are u16 and wrap, as in the release build.  Where the code      *)
(* unwraps a cell or a row that is not there, or uses an index of a Vec    *)
(* that is out of range, the grid becomes bad: the parser thread panics.   *)
(*                                                                         *)
(* The scrollback of a grid is left out: the daemon builds its parser with *)
(* a scrollback of 0 rows (session.rs:275).                                *)
(*                                                                         *)
(* A definition named Mistake... is a plausible wrong form of the one that *)
(* follows it; nothing uses it, the runs must tell the two apart.          *)
(***************************************************************************)
EXTENDS Integers, Sequences, SequencesExt

Kinds == {"blank", "narrow", "wide", "cont"}

Least(a, b) == IF a < b THEN a ELSE b
Most(a, b) == IF a < b THEN b ELSE a
Minus(a, b) == (a - b) % 65536
Monus(a, b) == Most(a - b, 0)

\* The argument of n equal steps of a fold.
Repeat(n, x) == [k \in 1..n |-> x]

-----------------------------------------------------------------------------
(* row.rs: a line is its cells and whether its text wraps into the next. *)

Blanks(n) == [i \in 1..n |-> "blank"]
NewRow(cols) == [c |-> Blanks(cols), w |-> FALSE]

\* Row::clear_wide: the other half of a wide character at i goes
MistakeClearWide(c, i) ==
    [j \in DOMAIN c |-> IF i \in DOMAIN c /\ j = i + 1 /\ c[i] = "wide"
                        THEN "blank" ELSE c[j]]
ClearWide(c, i) ==
    [j \in DOMAIN c |->
        IF i \in DOMAIN c /\ (\/ j = i + 1 /\ c[i] = "wide"
                              \/ j = i - 1 /\ c[i] = "cont")
        THEN "blank" ELSE c[j]]

EraseCell(l, i) ==
    [c |-> ReplaceAt(ClearWide(l.c, i), i, "blank"),
     w |-> l.w /\ i # Len(l.c) - (IF l.c[i] = "wide" THEN 1 ELSE 0)]

RemoveCell(l, i) == [c |-> RemoveAt(ClearWide(l.c, i), i), w |-> FALSE]

\* Row::truncate: a wide character that lost its second half goes
Truncate(c, n) ==
    [i \in 1..n |-> IF i = n /\ c[i] = "wide" THEN "blank" ELSE c[i]]

\* Row::resize does not look at what it cuts
ResizeRow(l, n) ==
    [c |-> [i \in 1..n |-> IF i <= Len(l.c) THEN l.c[i] ELSE "blank"],
     w |-> FALSE]

Halved(l) == l.c[Len(l.c)] = "wide"
Whole(l) == \A i \in DOMAIN l.c :
              /\ l.c[i] = "wide" => i < Len(l.c) /\ l.c[i + 1] = "cont"
              /\ l.c[i] = "cont" => i > 1 /\ l.c[i - 1] = "wide"

-----------------------------------------------------------------------------
(* grid.rs *)

NewGrid(size, allocated) ==
    [rows |-> size[1], cols |-> size[2], row |-> 0, col |-> 0,
     srow |-> 0, scol |-> 0, origin |-> FALSE, sorigin |-> FALSE,
     top |-> 0, bot |-> size[1] - 1, bad |-> FALSE,
     lines |-> IF allocated THEN [r \in 1..size[1] |-> NewRow(size[2])]
                            ELSE <<>>]

AllocateRows(g) ==
    IF g.lines = <<>>
    THEN [g EXCEPT !.lines = [r \in 1..g.rows |-> NewRow(g.cols)]] ELSE g

ClearGrid(g) ==
    [NewGrid(<<g.rows, g.cols>>, g.lines # <<>>) EXCEPT !.bad = g.bad]

Line(g) == g.lines[g.row + 1]
WithLine(g, l) == [g EXCEPT !.lines[g.row + 1] = l]

\* The last index of n, if i is beyond it.
MistakeWithin(i, n) == Least(i, n)
Within(i, n) == Least(i, n - 1)

ColClamp(g) == [g EXCEPT !.col = Within(@, g.cols)]

SetSize(g, size) ==
    LET rows == size[1]
        cols == size[2]
        bot1 == IF g.bot = g.rows - 1 THEN rows - 1 ELSE g.bot
        bot2 == Least(bot1, rows - 1)
    IN  [g EXCEPT !.rows = rows, !.cols = cols, !.bot = bot2,
                  !.top = IF bot2 < @ THEN 0 ELSE @,
                  !.row = Within(@, rows), !.col = Within(@, cols),
                  !.srow = Within(@, rows), !.scol = Within(@, cols),
                  !.lines = [r \in 1..rows |->
                               IF r <= Len(g.lines)
                               THEN ResizeRow(g.lines[r], cols)
                               ELSE NewRow(cols)]]

SetPos(g, row, col) ==
    LET lo == IF g.origin THEN g.top ELSE 0
        hi == IF g.origin THEN g.bot ELSE g.rows - 1
    IN  ColClamp([g EXCEPT !.row = Least(row + lo, hi), !.col = col])

Save(g) == [g EXCEPT !.srow = g.row, !.scol = g.col, !.sorigin = g.origin]
Restore(g) == [g EXCEPT !.row = g.srow, !.col = g.scol, !.origin = g.sorigin]

SetScrollRegion(g, top, bottom) ==
    LET bot == Least(bottom, g.rows - 1)
        ok  == top < bot
    IN  [g EXCEPT !.top = IF ok THEN top ELSE 0,
                  !.bot = IF ok THEN bot ELSE g.rows - 1,
                  !.row = IF ok THEN top ELSE 0,
                  !.col = 0]

SetOriginMode(g, on) == SetPos([g EXCEPT !.origin = on], 0, 0)

\* the four ways lines move: one line goes at row at, a new one comes below the
\* region; or the region's last goes and a new one comes
PulledUp(g, at) ==
    [g EXCEPT !.lines = RemoveAt(InsertAt(@, g.bot + 2, NewRow(g.cols)), at + 1)]
PushedDown(g, at) ==
    [g EXCEPT !.lines = [InsertAt(RemoveAt(@, g.bot + 1), at + 1, NewRow(g.cols))
                           EXCEPT ![g.bot + 1].w = FALSE]]

ScrollUp(g, n) == FoldLeft(PulledUp, g, Repeat(Least(n, g.rows - g.top), g.top))
DeleteLines(g, n) == FoldLeft(PulledUp, g, Repeat(Least(n, g.rows - g.row), g.row))
ScrollDown(g, n) == FoldLeft(PushedDown, g, Repeat(n, g.top))
InsertLines(g, n) == FoldLeft(PushedDown, g, Repeat(n, g.row))

InRegion(g) == g.row \in g.top..g.bot
Floor(g) == IF InRegion(g) THEN g.bot ELSE g.rows - 1
Ceiling(g) == IF InRegion(g) THEN g.top ELSE 0

RowIncClamp(g, n) == [g EXCEPT !.row = Least(@ + n, Floor(g))]
RowDecClamp(g, n) == [g EXCEPT !.row = Most(@ - n, Ceiling(g))]

\* lines by which row_inc_scroll(n) moves the region
MistakeScrolled(g, n) == IF InRegion(g) THEN n ELSE 0
Scrolled(g, n) == IF InRegion(g) THEN Monus(g.row + n, g.bot) ELSE 0

RowIncScroll(g, n) == ScrollUp(RowIncClamp(g, n), Scrolled(g, n))

\* the region moves also when the cursor is above it
RowDecScroll(g, n) ==
    LET above == Monus(Ceiling(g), Monus(g.row, n))
    IN  ScrollDown(RowDecClamp(g, n), above + Monus(n, g.row))

RowSet(g, row) == [g EXCEPT !.row = Within(row, g.rows)]
ColSet(g, col) == ColClamp([g EXCEPT !.col = col])
ColIncClamp(g, n) == ColSet(g, g.col + n)
ColDec(g, n) == [g EXCEPT !.col = Monus(@, n)]
ColTab(g) == ColSet(g, g.col - (g.col % 8) + 8)

\* Grid::col_wrap when the character does not fit: the line that was left is
\* found by its number after the scroll
ColWrap(g, filled) ==
    LET next == RowIncScroll([g EXCEPT !.col = 0], 1)
        left == Minus(g.row, Scrolled(g, 1))
    IN  IF left >= g.rows THEN [next EXCEPT !.bad = TRUE]
        ELSE [next EXCEPT !.lines[left + 1].w = filled /\ left + 1 = next.row]

-----------------------------------------------------------------------------
(* erasing and shifting cells of the current row *)

EraseCols(g, from, to) ==        \* columns from .. to - 1
    WithLine(g, FoldLeft(EraseCell, Line(g), [k \in 1..Monus(to, from) |-> from + k]))

EraseLines(g, from, to) ==       \* lines from .. to - 1
    [g EXCEPT !.lines = [r \in DOMAIN @ |-> IF r - 1 \in from..(to - 1)
                                            THEN NewRow(g.cols) ELSE @[r]]]

EraseRowForward(g) == EraseCols(g, g.col, g.cols)
EraseRowBackward(g) == EraseCols(g, 0, Least(g.col, g.cols - 1) + 1)
EraseRow(g) == EraseLines(g, g.row, g.row + 1)
EraseAll(g) == EraseLines(g, 0, g.rows)
EraseAllForward(g) == EraseRowForward(EraseLines(g, g.row + 1, g.rows))
EraseAllBackward(g) == EraseRowBackward(EraseLines(g, 0, g.row))
EraseCells(g, n) == EraseCols(g, g.col, Least(g.col + n, g.cols))

InsertCells(g, n) ==
    LET c    == Line(g).c
        wide == g.col < g.cols /\ c[g.col + 1] = "cont"
        new  == [i \in 1..n |-> IF i = 1 /\ wide THEN "cont" ELSE "blank"]
        rest == SubSeq(IF wide THEN ReplaceAt(c, g.col + 1, "blank") ELSE c,
                       g.col + 1, g.cols)
    IN  IF g.col > g.cols THEN [g EXCEPT !.bad = TRUE]
        ELSE WithLine(g, [c |-> Truncate(SubSeq(c, 1, g.col) \o new \o rest,
                                         g.cols), w |-> FALSE])

DeleteCells(g, n) ==
    LET count == Least(n, Minus(g.cols, g.col))
        left == FoldLeft(RemoveCell, Line(g), Repeat(count, g.col + 1))
    IN  IF g.col > g.cols THEN [g EXCEPT !.bad = TRUE]
        ELSE WithLine(g, ResizeRow(left, g.cols))

-----------------------------------------------------------------------------
(* Screen::text: a character of width 0, 1 or 2 at the cursor *)

\* a zero-width character joins the cell of the character before it
JoinCell(g, row, col) ==
    LET c  == g.lines[row + 1].c
        at == IF col < g.cols /\ c[col + 1] = "cont" THEN Minus(col, 1) ELSE col
    IN  IF at >= g.cols THEN [g EXCEPT !.bad = TRUE]
        ELSE [g EXCEPT !.lines[row + 1].c[at + 1] =
                          IF @ = "blank" THEN "narrow" ELSE @]

Combine(g) ==
    IF g.col > 0 THEN JoinCell(g, g.row, g.col - 1)
    ELSE IF g.row > 0 /\ g.lines[g.row].w THEN JoinCell(g, g.row - 1, g.cols - 1)
    ELSE g

\* the cells of a line after a character was put at column i - 1
PutCells(c, i, width) ==
    LET over == [j \in DOMAIN c |->
                   CASE j = i -> IF width = 2 THEN "wide" ELSE "narrow"
                     [] j = i - 1 /\ c[i] = "cont" -> "blank"
                     [] j = i + 1 /\ c[i] = "wide" -> "narrow"
                     [] OTHER -> c[j]]
    IN  [j \in DOMAIN c |->
           CASE width = 2 /\ j = i + 1 -> "cont"
             [] width = 2 /\ j = i + 2 /\ over[i + 1] = "wide" -> "blank"
             [] OTHER -> over[j]]

Put(g, width) ==
    LET i == g.col + 1
        l == Line(g)
        unwraps == /\ width = 2
                   /\ i + 2 = g.cols
                   /\ l.c[i] # "wide"
                   /\ l.c[i + 1] = "wide"
    IN  IF i > g.cols THEN g
        ELSE [WithLine(g, [c |-> PutCells(l.c, i, width),
                           w |-> l.w /\ ~unwraps]) EXCEPT !.col = @ + width]

Text(g, width) ==
    LET full == g.col > Minus(g.cols, width)
        g1   == IF full THEN ColWrap(g, Line(g).c[g.cols] # "blank") ELSE g
    IN  IF g1.bad THEN g1
        ELSE IF width = 0 THEN Combine(g1)
        ELSE Put(g1, width)
=============================================================================
