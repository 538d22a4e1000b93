------------------------------- MODULE Screen -------------------------------
(***************************************************************************)
(* The terminal the daemon keeps of a session: vt100::Screen (screen.rs)   *)
(* with its two grids, driven by the control sequences of the child        *)
(* (perform.rs), by resize_pty() of the session and by the frame that      *)
(* leaves the alternate screen when the child ends (session.rs).           *)
(*                                                                         *)
(* A behaviour is the parser thread and the resizes, which exclude each    *)
(* other by the mutex of the parser.  The alphabet a child uses is chosen  *)
(* once: it keeps the instances TLC explores small, and an instance may    *)
(* have every sequence.                                                    *)
(***************************************************************************)
EXTENDS Grid

CONSTANTS Instances,   \* records [ops, sizes]: the sequences a child uses and
                       \* the sizes the session may get, the first in sizes[1]
          MaxCount     \* bound: the parameters of a control sequence

\* A size's numbers are u16, and validate_resize() admits no 0.
Dimensions == 1 .. 65535

ASSUME ScreenAssumption ==
    /\ MaxCount \in Nat \ {0}
    /\ \A x \in Instances : /\ x.ops \subseteq STRING
                            /\ x.sizes \in Seq(Dimensions \X Dimensions) \ {<<>>}

VARIABLES
    instance,    \* the instance of this behaviour, never changed
    main,        \* Screen.grid
    alt,         \* Screen.alternate_grid
    altOn,       \* MODE_ALTERNATE_SCREEN
    cut,         \* history: a wide character was cut in two by a resize, or
                 \* written where it does not fit
    entry        \* history: the main grid when ?1049h left it, until a resize,
                 \* a reset or ?47l; <<>> otherwise

vars == <<instance, main, alt, altOn, cut, entry>>

Count == 1..MaxCount
Sizes == {instance.sizes[i] : i \in DOMAIN instance.sizes}
Allowed(op) == op \in instance.ops

\* Screen::grid()
Current == IF altOn THEN alt ELSE main
Panicked == main.bad \/ alt.bad

Init == /\ instance \in Instances
        /\ main = NewGrid(instance.sizes[1], TRUE)
        /\ alt = NewGrid(instance.sizes[1], FALSE)
        /\ altOn = FALSE
        /\ cut = FALSE
        /\ entry = <<>>

\* the parser thread is alive and the child may send op; grid_mut() becomes g
Ready(op) == Allowed(op) /\ ~Panicked
GridMut(g) == /\ main' = IF altOn THEN main ELSE g
              /\ alt' = IF altOn THEN g ELSE alt
Apply(op, g) == /\ Ready(op)
                /\ GridMut(g)
                /\ UNCHANGED <<instance, altOn, cut, entry>>

-----------------------------------------------------------------------------
(* Printable characters and control codes (perform.rs: print, execute) *)

Char(width) ==
    /\ Ready(CASE width = 0 -> "combining" [] width = 1 -> "narrow"
                                           [] width = 2 -> "wide")
    /\ GridMut(Text(Current, width))
    /\ cut' = (cut \/ width > Current.cols)
    /\ UNCHANGED <<instance, altOn, entry>>

Bs == Apply("move", ColDec(Current, 1))
Tab == Apply("move", ColTab(Current))
Lf == Apply("lines", RowIncScroll(Current, 1))
Cr == Apply("move", ColSet(Current, 0))

(* Escape codes *)

Decsc == Apply("save", Save(Current))
Decrc == Apply("save", Restore(Current))
Ri == Apply("lines", RowDecScroll(Current, 1))

Ris == /\ Ready("alt")
       /\ main' = NewGrid(<<main.rows, main.cols>>, TRUE)
       /\ alt' = NewGrid(<<main.rows, main.cols>>, FALSE)
       /\ altOn' = FALSE
       /\ cut' = FALSE
       /\ entry' = <<>>
       /\ UNCHANGED instance

(* CSI: the cursor *)

Cuu(n) == Apply("move", RowDecClamp(Current, n))
Cud(n) == Apply("move", RowIncClamp(Current, n))
Cuf(n) == Apply("move", ColIncClamp(Current, n))
Cub(n) == Apply("move", ColDec(Current, n))
Cnl(n) == Apply("move", RowIncClamp(ColSet(Current, 0), n))
Cpl(n) == Apply("move", RowDecClamp(ColSet(Current, 0), n))
Cha(col) == Apply("move", ColSet(Current, col - 1))
Vpa(row) == Apply("move", RowSet(Current, row - 1))
Cup(row, col) == Apply("cup", SetPos(Current, row - 1, col - 1))
Decstbm(top, bottom) ==
    Apply("region", SetScrollRegion(Current, top - 1, bottom - 1))
DecOrigin(on) == Apply("region", SetOriginMode(Current, on))

(* CSI: erasing and shifting *)

Ed(mode) == Apply("erase", CASE mode = 0 -> EraseAllForward(Current)
                             [] mode = 1 -> EraseAllBackward(Current)
                             [] mode = 2 -> EraseAll(Current))
El(mode) == Apply("erase", CASE mode = 0 -> EraseRowForward(Current)
                             [] mode = 1 -> EraseRowBackward(Current)
                             [] mode = 2 -> EraseRow(Current))
Ech(n) == Apply("erase", EraseCells(Current, n))
Ich(n) == Apply("shift", InsertCells(Current, n))
Dch(n) == Apply("shift", DeleteCells(Current, n))
Il(n) == Apply("lines", InsertLines(Current, n))
Dl(n) == Apply("lines", DeleteLines(Current, n))
Su(n) == Apply("lines", ScrollUp(Current, n))
Sd(n) == Apply("lines", ScrollDown(Current, n))

(* CSI ? h and l: the alternate screen *)

Enter(grid) == /\ alt' = AllocateRows(grid)
               /\ altOn' = TRUE
               /\ UNCHANGED <<instance, cut>>

\* ?47h
Enter47 == /\ Ready("alt")
           /\ Enter(alt)
           /\ UNCHANGED <<main, entry>>

\* ?1049h: save the cursor of the grid that is current, clear the other
MistakeSavedMain == main
SavedMain == IF altOn THEN main ELSE Save(main)

Enter1049 == /\ Ready("alt")
             /\ main' = SavedMain
             /\ Enter(ClearGrid(alt))
             /\ entry' = IF altOn THEN entry ELSE <<main>>

\* ?47l
Leave47 == /\ Ready("alt")
           /\ altOn' = FALSE
           /\ entry' = <<>>
           /\ UNCHANGED <<instance, main, alt, cut>>

\* ?1049l, from the child or from cleanup_alt_screen_frame() at its end
Leave1049 == /\ Ready("alt")
             /\ altOn' = FALSE
             /\ main' = Restore(main)
             /\ entry' = <<>>
             /\ UNCHANGED <<instance, alt, cut>>

(* Session::resize_pty() *)

Resize(size) ==
    /\ Ready("resize")
    /\ main' = SetSize(main, size)
    /\ alt' = SetSize(alt, size)
    /\ cut' = (cut \/ \E g \in {main', alt'} :
                        \E r \in DOMAIN g.lines : Halved(g.lines[r]))
    /\ entry' = <<>>
    /\ UNCHANGED <<instance, altOn>>

Next == \/ \E width \in 0..2 : Char(width)
        \/ Bs \/ Tab \/ Lf \/ Cr \/ Decsc \/ Decrc \/ Ri \/ Ris
        \/ \E n \in Count : \/ Cuu(n) \/ Cud(n) \/ Cuf(n) \/ Cub(n)
                            \/ Cnl(n) \/ Cpl(n) \/ Cha(n) \/ Vpa(n)
                            \/ Ech(n) \/ Ich(n) \/ Dch(n)
                            \/ Il(n) \/ Dl(n) \/ Su(n) \/ Sd(n)
        \/ \E m, n \in Count : Cup(m, n) \/ Decstbm(m, n)
        \/ \E on \in BOOLEAN : DecOrigin(on)
        \/ \E mode \in 0..2 : Ed(mode) \/ El(mode)
        \/ Enter47 \/ Enter1049 \/ Leave47 \/ Leave1049
        \/ \E size \in Sizes : Resize(size)

Spec == Init /\ [][Next]_vars

-----------------------------------------------------------------------------
Lines == {main.lines[r] : r \in DOMAIN main.lines}
           \cup {alt.lines[r] : r \in DOMAIN alt.lines}

\* What the unwrap() calls of grid.rs assume of a grid (grid.rs:125, :583,
\* :705): the cursor and the saved cursor are on a row, at most one column
\* past the end (two, where a wide character was written on a screen of one
\* column), the scroll region is made of rows, and there are exactly rows lines
\* of exactly cols cells.
Valid(g) ==
    /\ g.row < g.rows /\ g.col <= Most(g.cols, 2)
    /\ g.srow < g.rows /\ g.scol <= Most(g.cols, 2)
    /\ g.top <= g.bot /\ g.bot < g.rows
    /\ g.lines # <<>> => Len(g.lines) = g.rows
    /\ \A r \in DOMAIN g.lines : /\ Len(g.lines[r].c) = g.cols
                                 /\ \A i \in 1..g.cols :
                                       g.lines[r].c[i] \in Kinds

\* Both grids stay valid and of one size, whatever the child sends and
\* however the session is resized; the alternate grid has lines when in use.
GridsValid == /\ Valid(main) /\ Valid(alt)
              /\ main.lines # <<>> /\ (altOn => alt.lines # <<>>)
              /\ <<main.rows, main.cols>> = <<alt.rows, alt.cols>>

\* No overwrite, erase, insertion or deletion separates the halves of a wide
\* character: only a resize through one does, or a screen of one column.
PairsWhole == cut \/ \A l \in Lines : Whole(l)

\* On screens of two rows and more no index is out of range as long as no
\* wide character was cut.
IndexesInRange == cut \/ ~Panicked

\* A program that left the main screen with ?1049h finds its text and its
\* cursor again at ?1049l, whatever was done to the alternate screen.
LeavingRestoresMain ==
    [][altOn /\ ~altOn' /\ Leave1049 /\ entry # <<>> =>
         /\ main'.lines = entry[1].lines
         /\ <<main'.row, main'.col>> = <<entry[1].row, entry[1].col>>
         /\ main'.origin = entry[1].origin]_vars
=============================================================================
