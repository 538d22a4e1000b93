------------------------------- MODULE Layout -------------------------------
(***************************************************************************)
(* What the client draws of its own (main.rs), to the column: the status   *)
(* bar on the last row of an attachment, whose items scroll so that the    *)
(* current session stays in view, and the session list overlay with its    *)
(* header, its window of rows and its status line.                         *)
(*                                                                         *)
(* The terminal changes its size, the daemon its sessions, and the user    *)
(* the selection and the status line, in any order; each redraws.  A text  *)
(* is a sequence of characters [of, at, w, more]: the at-th of a text      *)
(* known as of, of w columns by itself (UnicodeWidthChar, by which texts   *)
(* are cut), and w + more after those before it (UnicodeWidthStr, by which *)
(* they are measured).  An emoji that is joined to the one before it has   *)
(* two columns and two fewer, the selector that makes an emoji of a symbol *)
(* none and one more.  Colours are left out.                               *)
(*                                                                         *)
(* A definition named Mistake... is a plausible wrong form of the one that *)
(* follows it; no action uses it, the runs must tell the two apart.        *)
(***************************************************************************)
EXTENDS Integers, Sequences, FiniteSetsExt, SequencesExt

CONSTANTS Widths, Heights,  \* bound: the sizes of the terminal
          Bars,             \* bound: what a poll may bring, sequences of
                            \* [label, current]
          Lists,            \* bound: what a listing may bring, sequences of
                            \* [id, name, state, size, cwd]
          Statuses,         \* bound: status lines, sequences of texts
          Title, Hints, NoSessions, \* the fixed texts; Hints is a sequence
          Names             \* what texts are known as

\* Texts of such characters.  A directory and a status line, with what is typed into
\* the rename prompt, may have any; a translation wide ones, but none that is wider or
\* narrower for those before it; ids, names and sizes are ASCII.
TextOf(ws, mores) == Seq([of : Names, at : Nat, w : ws, more : mores])
AnyText == TextOf(0 .. 2, -2 .. 1)
PlainText == TextOf(0 .. 2, {0})
Ascii == TextOf({1}, {0})

\* The columns of a text's characters one by one, and of the text.
AddChar(n, ch) == n + ch.w
CharWidth(text) == FoldLeft(AddChar, 0, text)
AddWidth(n, ch) == n + ch.w + ch.more
Width(text) == FoldLeft(AddWidth, 0, text)

\* No two sessions of a bar have the same id; no text of a status line or of the
\* hints is made of combining characters only: the prompt's has a caret.
ASSUME LayoutAssumption ==
    /\ Widths \subseteq Nat \ {0} /\ Heights \subseteq Nat \ {0}
    /\ \A items \in Bars :
         /\ items \in Seq([label : Ascii, current : BOOLEAN])
         /\ \A j, k \in DOMAIN items : items[j].current /\ items[k].current => j = k
    /\ Lists \subseteq
         Seq([id : Ascii, name : Ascii, state : PlainText, size : Ascii, cwd : AnyText])
    /\ \A said \in Statuses \cup {Hints} :
         /\ said \in Seq(AnyText)
         /\ \A k \in DOMAIN said : said[k] = <<>> \/ Width(said[k]) > 0
    /\ Title \in PlainText /\ Hints \in Seq(PlainText) /\ NoSessions \in PlainText
    /\ {"space", "[qscn]"} \subseteq Names /\ "selector" \notin Names

VARIABLES
    mode,        \* "bar" while attached, "list" in the overlay
    cols, height,
    bar,         \* bar_items; <<>> in the list
    rows, selected, status \* the overlay's; <<>>, 0 and <<>> in the bar's mode

vars == <<mode, cols, height, bar, rows, selected, status>>

-----------------------------------------------------------------------------
(* Texts.                                                                  *)

Col(text, i) == CharWidth(SubSeq(text, 1, i - 1))
Spaces(n) == [i \in 1 .. Max({n, 0}) |-> [of |-> "space", at |-> 0, w |-> 1, more |-> 0]]

\* truncate_for_terminal(): as many characters as fit, one by one.
TakeChar(st, ch) ==
    [len |-> IF st.used + ch.w <= st.room THEN st.len + 1 ELSE st.len,
     used |-> st.used + ch.w, room |-> st.room]
Truncated(text, n) ==
    SubSeq(text, 1, FoldLeft(TakeChar, [len |-> 0, used |-> 0, room |-> n], text).len)

\* pad_end_to_width(), by columns.
MistakePadded(text, n) == text \o Spaces(n - Len(text))
Padded(text, n) == text \o Spaces(n - Width(text))

\* format!("{:<n}") of a text that is ASCII, cut to n first; and "{:>n}".
LeftIn(text, n) == LET t == Truncated(text, n) IN t \o Spaces(n - Len(t))
RightIn(text, n) == LET t == Truncated(text, n) IN Spaces(n - Len(t)) \o t

\* slice_columns(): the characters that are whole within the columns.
SliceColumns(text, skip, take) ==
    LET whole == {i \in 1 .. Len(text) : /\ Col(text, i) >= skip
                                         /\ Col(text, i) + text[i].w - skip <= take}
    IN  IF whole = {} THEN <<>> ELSE SubSeq(text, Min(whole), Max(whole))

\* Texts one after the other until one does not fit: write_status_segments(),
\* write_session_list_hint().  Of a text without a column left for it nothing is
\* drawn, its combining characters neither.
AddSegment(st, text) ==
    LET piece == Truncated(text, st.room - Width(st.out))
    IN  IF st.full \/ Width(st.out) >= st.room THEN st
        ELSE [out |-> IF Width(piece) > 0 THEN st.out \o piece ELSE st.out,
              full |-> Width(piece) < Width(text), room |-> st.room]
SegmentsIn(segments, n) ==
    FoldLeft(AddSegment, [out |-> <<>>, full |-> FALSE, room |-> n], segments).out

-----------------------------------------------------------------------------
(* The status bar.                                                         *)

Header == [i \in 1 .. 6 |-> [of |-> "[qscn]", at |-> i, w |-> 1, more |-> 0]]

\* build_status_bar_layout(): before each label a space; the current one's span
\* in columns, the end excluded, or <<>>.
Segments(items) == [k \in 1 .. 2 * Len(items) |->
                      IF k % 2 = 1 THEN Spaces(1) ELSE items[k \div 2].label]
Content(items) == FlattenSeq(Segments(items))
CurrentSpan(items) ==
    LET at == {k \in DOMAIN items : items[k].current}
        start == Width(Content(SubSeq(items, 1, Max(at) - 1))) + 1
    IN  IF at = {} THEN <<>> ELSE <<start, start + Width(items[Max(at)].label)>>

\* status_bar_scroll_offset()
MistakeScrollOffset(total, region, span) ==
    IF total <= region \/ span = <<>> THEN 0
    ELSE IF span[2] - span[1] >= region THEN span[1]
    ELSE IF span[2] - 1 > region THEN span[2] - 1 - region ELSE 0
ScrollOffset(total, region, span) ==
    IF region = 0 \/ total <= region \/ span = <<>> THEN 0
    ELSE IF span[2] - span[1] >= region THEN span[1]
    ELSE Min({IF span[2] > region THEN Min({span[1], span[2] - region}) ELSE 0,
              total - region})

\* draw_status_bar()
StatusBarMinHeight == 3
Drawn == mode = "bar" /\ height >= StatusBarMinHeight /\ bar # <<>>

\* render_status_bar(): st.pos is the column of a segment in the content, of which
\* the first st.offset columns are scrolled away.
EmitSegment(st, text) ==
    LET left == st.cols - Width(st.row)
        skip == Max({st.offset - st.pos, 0})
        piece == Truncated(SliceColumns(text, skip, Min({left, Width(text) - skip})), left)
    IN  IF left <= 0 THEN st
        ELSE [row |-> IF st.pos + Width(text) <= st.offset THEN st.row ELSE st.row \o piece,
              pos |-> st.pos + Width(text), offset |-> st.offset, cols |-> st.cols]
BarRow(items, n) ==
    LET header == Truncated(Header, n)
        offset == ScrollOffset(Width(Content(items)), n - Width(header), CurrentSpan(items))
        drawn == FoldLeft(EmitSegment,
                          [row |-> header, pos |-> 0, offset |-> offset, cols |-> n],
                          Segments(items)).row
    IN  drawn \o Spaces(n - Width(drawn))

-----------------------------------------------------------------------------
(* The session list.                                                       *)

RowPrefixWidth == 59

\* session_list_header_len(): decorations go before any row does.
HeaderLen(budget, body) ==
    Max({k \in 0 .. 3 : k = 0 \/ k + body <= budget})

\* session_list_viewport(): rows are counted from 0.
Viewport(budget, len, sel) ==
    LET visible == Min({budget, len})
        at == Min({sel, len - 1})
    IN  IF visible = 0 THEN [start |-> 0, len |-> 0]
        ELSE [start |-> Min({Max({at - (visible - 1), 0}), len - visible}),
              len |-> visible]

\* write_list_line(), after the text was cut.
ListLine(text, visible) == text \o Spaces(cols - Min({visible, cols}))
TextLine(text) ==
    LET t == Truncated(text, cols) IN ListLine(t, Width(t))

\* write_session_row(): in a narrow terminal the whole line is cut, else only
\* the directory, and the columns before it count as RowPrefixWidth.
RowLine(row, isSelected) ==
    LET selector == [of |-> IF isSelected THEN "selector" ELSE "space", at |-> 0,
                     w |-> 1, more |-> 0]
        start == <<selector>> \o Spaces(3) \o LeftIn(row.id, 4) \o Spaces(1)
                   \o LeftIn(row.name, 24) \o Spaces(1)
                   \o Padded(Truncated(row.state, 14), 14) \o Spaces(1)
                   \o RightIn(row.size, 8) \o Spaces(2)
        cwd == Truncated(row.cwd, cols - RowPrefixWidth)
    IN  IF cols <= RowPrefixWidth THEN TextLine(start \o row.cwd)
        ELSE ListLine(start \o cwd, RowPrefixWidth + Width(cwd))

\* render_session_list_with_status(): the lines from the top, and the last row.
Budget == height - 1
Body == Max({Len(rows), 1})
Head3 == HeaderLen(Budget, Body)
Window == Viewport(Max({Budget - Head3, 0}), Body, selected)

ListLines ==
    SubSeq(<<TextLine(Title), TextLine(SegmentsIn(Hints, cols)), TextLine(<<>>)>>, 1, Head3)
      \o IF rows = <<>>
         THEN [i \in 1 .. Window.len |-> TextLine(Spaces(2) \o NoSessions)]
         ELSE [i \in 1 .. Window.len |->
                 RowLine(rows[Window.start + i], Window.start + i - 1 = selected)]

StatusRow == LET t == SegmentsIn(status, cols) IN t \o Spaces(cols - Width(t))

-----------------------------------------------------------------------------
(* What changes.                                                           *)

\* Nothing polled yet, and no session to list.
Init == /\ mode \in {"bar", "list"}
        /\ cols \in Widths /\ height \in Heights
        /\ bar = <<>> /\ rows = <<>> /\ selected = 0
        /\ IF mode = "bar" THEN status = <<>> ELSE status \in Statuses

Resize == /\ cols' \in Widths /\ height' \in Heights
          /\ UNCHANGED <<mode, bar, rows, selected, status>>

Poll == /\ mode = "bar"
        /\ bar' \in Bars
        /\ UNCHANGED <<mode, cols, height, rows, selected, status>>

\* After a rename the selection stays with its session, after a kill, or if the
\* session is gone, in the list.
Listing == /\ mode = "list"
           /\ rows' \in Lists /\ status' \in Statuses
           /\ \/ selected' = Max({Min({selected, Len(rows') - 1}), 0})
              \/ /\ rows # <<>>
                 /\ \E k \in DOMAIN rows' :
                      rows'[k].id = rows[selected + 1].id /\ selected' = k - 1
           /\ UNCHANGED <<mode, cols, height, bar>>

Move == /\ mode = "list"
        /\ \/ selected > 0 /\ selected' = selected - 1
           \/ selected' = Max({Min({selected + 1, Len(rows) - 1}), 0})
        /\ UNCHANGED <<mode, cols, height, bar, rows, status>>

Next == Resize \/ Poll \/ Listing \/ Move

Spec == Init /\ [][Next]_vars

-----------------------------------------------------------------------------
(* What holds.                                                             *)

\* Some columns of content from one on, and spaces only after its end.
IsWindow(text, content, n) ==
    \E from \in 0 .. Len(content) :
        text = SubSeq(content, from + 1, Min({from + n, Len(content)}))
                 \o Spaces(Max({n - Len(content), 0}))

\* However narrow the terminal, however many sessions: the bar fills its row
\* exactly, it is the header and a window on the items that leaves no column
\* unused, and the window has the current session, or as much of its beginning
\* as there is room for.
CurrentIsShown ==
    Drawn =>
      LET row == BarRow(bar, cols)
          region == Max({cols - 6, 0})
          items == SubSeq(row, cols - region + 1, Len(row))
          label(k) == bar[k].label
      IN  /\ Width(row) = cols
          /\ SubSeq(row, 1, cols - region) = SubSeq(Header, 1, cols - region)
          /\ IsWindow(items, Content(bar), region)
          /\ \A k \in DOMAIN bar : bar[k].current /\ region > 0 =>
               IF Len(label(k)) > region
               THEN items = SubSeq(label(k), 1, region)
               ELSE \E from \in 0 .. region - Len(label(k)) :
                      SubSeq(items, from + 1, from + Len(label(k))) = label(k)

\* No character makes the text wider than its own columns.
Fair(text) == \A k \in DOMAIN text : text[k].more <= 0

\* A line leaves no column of its n unused and, if it is such a text, has no more.
Fills(line, n) == /\ Width(line) >= n
                  /\ Fair(line) => Width(line) = n

\* However small the terminal, whatever characters the texts have: the list never
\* reaches the status line's row, no decoration takes a row's place, the selected
\* row is drawn and marked if there is room for any, and each line and the status
\* line fill their rows, exactly unless a text is wider than its characters (it is
\* cut by those, so that a symbol that a selector makes an emoji can overflow the row).
\* Where the two measures agree, the status line is a beginning of what it should say
\* that leaves no column unused.
ListFits ==
    mode = "list" =>
      LET lines == ListLines
          marked == {i \in DOMAIN lines : lines[i][1].of = "selector"}
          said == FlattenSeq(status)
          shown == SegmentsIn(status, cols)
      IN  /\ Len(lines) <= height - 1
          /\ Head3 > 0 => Window.len = Body
          /\ rows # <<>> /\ height > 1 =>
               \E i \in 1 .. Window.len :
                  /\ marked = {Head3 + i}
                  /\ Window.start + i - 1 = selected
          /\ \A i \in DOMAIN lines : Fills(lines[i], cols)
          /\ Fills(StatusRow, cols)
          /\ status \in Seq(PlainText) =>
               /\ IsPrefix(shown, said)
               /\ \A m \in 0 .. Len(said) : Width(SubSeq(said, 1, m)) <= cols =>
                                              Width(SubSeq(said, 1, m)) <= Width(shown)

=============================================================================
