------------------------------ MODULE Terminal ------------------------------
(***************************************************************************)
(* What passes between the parser of a session and the terminal of a       *)
(* client: the session's screen, the frames taken of it, the renderer that *)
(* draws a frame by its difference from the one before, and the status bar *)
(* on the terminal's last row.  Sizes are heights and a row is one value:  *)
(* Blank, a text's number, or what something else left there.  A frame     *)
(* that is wider than the terminal is left out.                            *)
(*                                                                         *)
(* A definition named Mistake... is a plausible wrong form of the one that *)
(* follows it; no action uses it, the runs must tell the two apart.        *)
(***************************************************************************)
EXTENDS Integers, Sequences, FiniteSetsExt, SequencesExt

CONSTANTS StatusBar,   \* ClientConfig.status_bar
          MinBarHeight \* STATUS_BAR_MIN_HEIGHT

ASSUME TerminalAssumption ==
    StatusBar \in BOOLEAN /\ MinBarHeight \in Nat \ {0, 1}

Blank == 0
Junk == -1
BarOf(items) == -1 - items
Blanks(h) == [r \in 1 .. h |-> Blank]
Least(a, b) == IF a < b THEN a ELSE b

-----------------------------------------------------------------------------
(* The output of a child: a text on a row, a control sequence, or one of   *)
(* the halves "shape1", "shape2" of a DECSCUSR sequence, which reads from  *)
(* the PTY may separate.                                                   *)

Text(row, n) == [k |-> "text", row |-> row, n |-> n]
Control(k) == [k |-> k, row |-> 0, n |-> 0]

SetsShape(data) ==
    \E i \in 1 .. Len(data) - 1 : data[i].k = "shape1" /\ data[i + 1].k = "shape2"
Leaves(data) == \E i \in DOMAIN data : data[i].k = "rmcup"

\* The batch's effect on Session.cursor_shape: scan_cursor_shape(), then
\* scan_rmcup(), each looking at this batch only.
ShapeAfter(data, shape) ==
    IF Leaves(data) THEN 0 ELSE IF SetsShape(data) THEN 1 ELSE shape

\* vt100::Parser::process() for one of them (Grid and Screen have the details).
Interpret(s, c) ==
    LET h == Len(s.main)
    IN  CASE c.k = "text" ->
               IF s.altOn THEN [s EXCEPT !.alt[Least(c.row, h)] = c.n]
                          ELSE [s EXCEPT !.main[Least(c.row, h)] = c.n]
          [] c.k = "smcup" -> [s EXCEPT !.altOn = TRUE, !.alt = Blanks(h)]
          [] c.k = "rmcup" -> [s EXCEPT !.altOn = FALSE]
          [] c.k \in {"mouse", "nomouse"} -> [s EXCEPT !.mouse = c.k = "mouse"]
          [] OTHER -> s

NewScreen(h) == [main |-> Blanks(h), alt |-> Blanks(h), altOn |-> FALSE, mouse |-> FALSE]

\* Screen::set_size(): rows are cut or added at the bottom.
SetHeight(s, h) ==
    LET Cut(rows) == [r \in 1 .. h |-> IF r <= Len(rows) THEN rows[r] ELSE Blank]
    IN  [s EXCEPT !.main = Cut(@), !.alt = Cut(@)]

Shown(s) == IF s.altOn THEN s.alt ELSE s.main

\* screen_frame_from_parser(), with last_row_has_content() in "alt".
ScreenFrame(s, shape) ==
    [rows |-> Shown(s), alt |-> s.altOn \/ Last(Shown(s)) # Blank,
     shape |-> shape, mouse |-> s.mouse]

NoFrame == [rows |-> <<>>, alt |-> FALSE, shape |-> 0, mouse |-> FALSE]

-----------------------------------------------------------------------------
(* The client's terminal, and FrameRenderer.                               *)

\* prepare_attach_terminal() clears it.
NewHost(h) == [rows |-> Blanks(h), mouse |-> FALSE, shape |-> 0]

\* Output bytes written as they are.
Raw(host, data) ==
    LET mice == {i \in DOMAIN data : data[i].k \in {"mouse", "nomouse"}}
    IN  [rows |-> [r \in DOMAIN host.rows |-> Junk],
         mouse |-> IF mice = {} THEN host.mouse ELSE data[Max(mice)].k = "mouse",
         shape |-> IF SetsShape(data) THEN 1 ELSE host.shape]

Cleared(host) == [host EXCEPT !.rows = Blanks(Len(host.rows))]
Covered(host) == Raw(host, <<>>)
ResizedTo(host, h) == [host EXCEPT !.rows = [r \in 1 .. h |-> Junk]]

MistakeForceFull(previous, frame) ==
    previous = NoFrame \/ previous.alt # frame.alt
ForceFull(previous, frame) ==
    \/ previous = NoFrame
    \/ Len(previous.rows) # Len(frame.rows)
    \/ previous.alt # frame.alt

\* render_screen_frame_with_previous(): rows below the terminal's last one are
\* drawn on the last one.
Painted(rows, frame, previous) ==
    LET full == ForceFull(previous, frame)
        Drawn(r) == {i \in DOMAIN frame.rows :
                       /\ Least(i, Len(rows)) = r
                       /\ full \/ i \notin DOMAIN previous.rows
                               \/ previous.rows[i] # frame.rows[i]}
    IN  [r \in DOMAIN rows |-> IF Drawn(r) # {} THEN frame.rows[Max(Drawn(r))]
                               ELSE IF full THEN Blank ELSE rows[r]]

\* FrameRenderer::render(): what it does to the terminal, then to itself.
Render(host, renderer, frame) ==
    LET previous == renderer.previous
    IN  IF previous = frame THEN host
        ELSE [rows |-> Painted(host.rows, frame, previous),
              mouse |-> IF renderer.mouse # frame.mouse THEN frame.mouse ELSE host.mouse,
              shape |-> IF previous = NoFrame \/ previous.shape # frame.shape
                          THEN frame.shape ELSE host.shape]
Rendered(frame) == [previous |-> frame, mouse |-> frame.mouse]

NewRenderer == [previous |-> NoFrame, mouse |-> FALSE]
Reset(renderer) == [renderer EXCEPT !.previous = NoFrame]

-----------------------------------------------------------------------------
(* The status bar.                                                         *)

BarActive(h) == StatusBar /\ h >= MinBarHeight

\* session_area_height()
AreaHeight(h) == IF BarActive(h) THEN h - 1 ELSE h

\* draw_status_bar(); no items, no bar.
DrawBar(host, items, h) ==
    IF BarActive(h) /\ items # 0
    THEN [host EXCEPT !.rows[Least(h, Len(host.rows))] = BarOf(items)]
    ELSE host
=============================================================================
