----------------------------- MODULE View_proofs -----------------------------
(***************************************************************************)
(* Proofs about View, for every child, every plan and every capacity: the  *)
(* terminal is in step with the renderer, keys stay in order, and daemon   *)
(* and client agree on the size.                                           *)
(***************************************************************************)
EXTENDS View, SequenceTheorems, TLAPS

Interpreting == INSTANCE FoldTheorems WITH Op <- Interpret
Draining == INSTANCE FoldTheorems WITH Op <- Drained

Rows == Seq(Int) \ {<<>>}
Shapes == {0, 1}
Screens == [main : Rows, alt : Rows, altOn : BOOLEAN, mouse : BOOLEAN]
Frames == [rows : Rows, alt : BOOLEAN, shape : Shapes, mouse : BOOLEAN]
Drawable == Frames \cup {NoFrame}
Hosts == [rows : Rows, mouse : BOOLEAN, shape : Shapes]
Renderers == [previous : Drawable, mouse : BOOLEAN]
Events == {ExitEvent} \cup [k : {"frame"}, frame : Frames]
Answers == {"ok", "error", "exit"}
Messages == {m \in [k : Answers \cup {"frame", "output"}, data : Seq(Sequence), frame : Drawable] :
                m.k = "frame" => m.frame \in Frames}
Commands == {"detach", "help", "list", "switch"}
Requests == {m \in [k : Commands \cup {"input", "focus", "resize"}, n : Nat] :
                m.k = "resize" => m.n \in Height}

-----------------------------------------------------------------------------
(* What the operators yield.                                               *)

\* Replacing a row, whether it is there or not.
LEMMA RowReplaced ==
    ASSUME NEW rows \in Rows, NEW i, NEW n \in Int
    PROVE  [rows EXCEPT ![i] = n] \in Rows /\ Len([rows EXCEPT ![i] = n]) = Len(rows)
<1> DEFINE new == [rows EXCEPT ![i] = n]
<1>1. Len(rows) \in Nat \ {0} /\ rows \in [1 .. Len(rows) -> Int]
  BY EmptySeq, LenProperties DEF Rows
<1>2. new \in [1 .. Len(rows) -> Int]
  BY <1>1
<1> HIDE DEF new
<1>3. new \in Seq(Int) /\ Len(new) = Len(rows)
  BY <1>1, <1>2
<1>4. new # <<>>
  BY <1>1, <1>3, EmptySeq
<1> QED
  BY <1>3, <1>4 DEF Rows, new

\* As many rows as wanted, whatever they show.
LEMMA RowsOf ==
    ASSUME NEW h \in Height, NEW rows \in [1 .. h -> Int]
    PROVE  rows \in Rows /\ Len(rows) = h /\ DOMAIN rows = 1 .. h
<1>1. rows \in Seq(Int) /\ Len(rows) = h
  BY DEF Height
<1>2. rows # <<>>
  BY <1>1, EmptySeq DEF Height
<1> QED
  BY <1>1, <1>2 DEF Rows

\* A screen's heights.
LEMMA HeightOfRows ==
    ASSUME NEW rows \in Rows
    PROVE  Len(rows) \in Height /\ DOMAIN rows = 1 .. Len(rows)
           /\ rows \in [1 .. Len(rows) -> Int]
  BY EmptySeq, LenProperties DEF Rows, Height

\* A control sequence changes neither the kind nor the height of a screen.
LEMMA InterpretKeeps ==
    ASSUME NEW s \in Screens, NEW c \in Sequence
    PROVE  Interpret(s, c) \in Screens /\ Len(Interpret(s, c).main) = Len(s.main)
<1> DEFINE row == Least(c.row, Len(s.main))
<1>1. /\ [s.main EXCEPT ![row] = c.n] \in Rows
      /\ Len([s.main EXCEPT ![row] = c.n]) = Len(s.main)
      /\ [s.alt EXCEPT ![row] = c.n] \in Rows
  BY RowReplaced DEF Screens, Sequence
<1>2. Blanks(Len(s.main)) \in Rows
  <2>1. Len(s.main) \in Height
    BY HeightOfRows DEF Screens
  <2> QED
    BY <2>1, RowsOf DEF Blanks, Blank
<1> HIDE DEF row
<1> QED
  BY <1>1, <1>2 DEF Interpret, Screens, row

\* So does a batch.
LEMMA BatchKeeps ==
    ASSUME NEW s \in Screens, NEW batches \in Seq(Sequence)
    PROVE  /\ FoldLeft(Interpret, s, batches) \in Screens
           /\ Len(FoldLeft(Interpret, s, batches).main) = Len(s.main)
<1> DEFINE Same == {t \in Screens : Len(t.main) = Len(s.main)}
           Holds == [k \in 0 .. Len(batches) |-> Same]
<1>1. Len(batches) \in Nat /\ DOMAIN batches = 1 .. Len(batches) /\ s \in Holds[0]
  BY LenProperties
<1>2. ASSUME NEW k \in 1 .. Len(batches), NEW t \in Holds[k - 1]
      PROVE  Interpret(t, batches[k]) \in Holds[k]
  <2>1. t \in Same /\ batches[k] \in Sequence
    BY <1>1, ElementOfSeq
  <2>2. Interpret(t, batches[k]) \in Same
    BY <2>1, InterpretKeeps
  <2> QED
    BY <1>1, <2>2
<1> HIDE DEF Holds
<1>3. Interpreting!Folded(s, batches) \in Holds[Len(batches)]
  BY <1>1, <1>2, Interpreting!FoldInvariant
<1>4. Interpreting!Folded(s, batches) = FoldLeft(Interpret, s, batches)
  BY DEF Interpreting!Folded, Interpreting!FoldLeft, Interpreting!MapThenFoldSet,
         Interpreting!Max, FoldLeft, MapThenFoldSet, Max
<1> QED
  BY <1>1, <1>3, <1>4 DEF Holds

\* What a frame's drain keeps: of the messages after the frame, the newest frame
\* and all others, in particular an error.
LEMMA DrainKeeps ==
    ASSUME NEW S, NEW head \in S, head.k = "frame", NEW more \in Seq(S)
    PROVE  /\ Drain(head, more).newest \in S /\ Drain(head, more).newest.k = "frame"
           /\ Drain(head, more).pending \in Seq(S)
           /\ \A i \in DOMAIN more : more[i].k = "error" =>
                \E j \in DOMAIN Drain(head, more).pending :
                   Drain(head, more).pending[j].k = "error"
<1> DEFINE Start == [newest |-> head, pending |-> <<>>]
           Failed(n) == \E i \in 1 .. n : more[i].k = "error"
           Good(d, n) == /\ d.newest \in S /\ d.newest.k = "frame" /\ d.pending \in Seq(S)
                         /\ Failed(n) => \E j \in DOMAIN d.pending : d.pending[j].k = "error"
           Holds == [n \in 0 .. Len(more) |->
                       {d \in [newest : S, pending : Seq(S)] : Good(d, n)}]
<1>1. Len(more) \in Nat /\ DOMAIN more = 1 .. Len(more)
  BY LenProperties
<1>2. Start \in Holds[0]
  <2>1. Start \in [newest : S, pending : Seq(S)] /\ ~Failed(0)
    BY EmptySeq
  <2> HIDE DEF Failed
  <2>2. Good(Start, 0)
    BY <2>1
  <2>3. 0 \in 0 .. Len(more)
    BY <1>1
  <2> QED
    BY <2>1, <2>2, <2>3
<1>3. ASSUME NEW n \in 1 .. Len(more), NEW d \in Holds[n - 1]
      PROVE  Drained(d, more[n]) \in Holds[n]
  <2>1. n - 1 \in 0 .. Len(more) /\ n \in 0 .. Len(more)
    BY <1>1
  <2>2. d \in [newest : S, pending : Seq(S)] /\ Good(d, n - 1) /\ more[n] \in S
    BY <2>1, ElementOfSeq
  <2>3. Failed(n) => Failed(n - 1) \/ more[n].k = "error"
    BY <1>1
  <2> HIDE DEF Failed
  <2>4. CASE more[n].k = "frame"
    <3> DEFINE e == [newest |-> more[n], pending |-> d.pending]
    <3>1. e \in [newest : S, pending : Seq(S)] /\ Good(e, n)
      BY <2>2, <2>3, <2>4
    <3> QED
      BY <2>1, <2>4, <3>1 DEF Drained
  <2>5. CASE more[n].k # "frame"
    <3> DEFINE p == Append(d.pending, more[n])
               e == [newest |-> d.newest, pending |-> p]
    <3>1. /\ p \in Seq(S) /\ Len(p) = Len(d.pending) + 1 /\ p[Len(p)] = more[n]
          /\ \A j \in 1 .. Len(d.pending) : p[j] = d.pending[j]
          /\ Len(d.pending) \in Nat /\ DOMAIN p = 1 .. Len(p)
          /\ DOMAIN d.pending = 1 .. Len(d.pending)
      BY <2>2, AppendProperties, LenProperties
    <3> HIDE DEF p
    <3>2. ASSUME Failed(n) PROVE \E j \in DOMAIN p : p[j].k = "error"
      <4>1. CASE more[n].k = "error"
        <5>1. Len(p) \in DOMAIN p
          BY <3>1
        <5> QED
          BY <3>1, <4>1, <5>1
      <4>2. CASE Failed(n - 1)
        <5>1. PICK j \in DOMAIN d.pending : d.pending[j].k = "error"
          BY <2>2, <4>2
        <5>2. j \in DOMAIN p /\ p[j] = d.pending[j]
          BY <3>1
        <5> QED
          BY <5>1, <5>2
      <4> QED
        BY <2>3, <3>2, <4>1, <4>2
    <3>3. e \in [newest : S, pending : Seq(S)] /\ Good(e, n)
      BY <2>2, <3>1, <3>2
    <3> QED
      BY <2>1, <2>5, <3>3 DEF Drained, p
  <2> QED
    BY <2>4, <2>5
<1> HIDE DEF Holds, Start
<1>4. Draining!Folded(Start, more) \in Holds[Len(more)]
  BY <1>1, <1>2, <1>3, Draining!FoldInvariant
<1>5. Draining!Folded(Start, more) = Drain(head, more)
  BY DEF Drain, Draining!Folded, Draining!FoldLeft, Draining!MapThenFoldSet, Draining!Max,
         FoldLeft, MapThenFoldSet, Max, Start
<1>6. Good(Drain(head, more), Len(more))
  BY <1>1, <1>4, <1>5 DEF Holds
<1> QED
  BY <1>1, <1>6

\* A frame is taken of a screen, and is not NoFrame.
LEMMA FrameOf ==
    /\ \A s \in Screens, shp \in Shapes : ScreenFrame(s, shp) \in Frames
    /\ NoFrame \notin Frames
  BY DEF ScreenFrame, Shown, Frames, Screens, NoFrame, Rows

\* The height of the session's area is one.
LEMMA AreaIsHeight == \A h \in Height : AreaHeight(h) \in Height
  BY TerminalAssumption DEF AreaHeight, BarActive, Height

\* Resizing a screen.
LEMMA SetHeightSets ==
    ASSUME NEW s \in Screens, NEW h \in Height
    PROVE  SetHeight(s, h) \in Screens /\ Len(SetHeight(s, h).main) = h
<1> DEFINE Cut(rows) == [r \in 1 .. h |-> IF r <= Len(rows) THEN rows[r] ELSE Blank]
<1>1. ASSUME NEW rows \in Rows PROVE Cut(rows) \in [1 .. h -> Int]
  BY HeightOfRows DEF Height, Blank
<1>2. \A rows \in Rows : Cut(rows) \in Rows /\ Len(Cut(rows)) = h
  BY <1>1, RowsOf
<1>3. SetHeight(s, h) = [s EXCEPT !.main = Cut(@), !.alt = Cut(@)]
  BY DEF SetHeight
<1> HIDE DEF Cut
<1> QED
  BY <1>2, <1>3 DEF Screens

\* Output bytes leave the terminal's size alone, and its mouse mode unless they
\* say something of it.
LEMMA RawKeeps ==
    ASSUME NEW t \in Hosts, NEW data
    PROVE  /\ Raw(t, data) \in Hosts /\ Len(Raw(t, data).rows) = Len(t.rows)
           /\ (\A i \in DOMAIN data : data[i].k \notin {"mouse", "nomouse"})
                 => Raw(t, data).mouse = t.mouse
<1> DEFINE mice == {i \in DOMAIN data : data[i].k \in {"mouse", "nomouse"}}
           rows == [r \in DOMAIN t.rows |-> Junk]
           mouse == IF mice = {} THEN t.mouse ELSE data[Max(mice)].k = "mouse"
           shp == IF SetsShape(data) THEN 1 ELSE t.shape
<1>1. rows \in Rows /\ Len(rows) = Len(t.rows)
  <2>1. Len(t.rows) \in Height /\ rows \in [1 .. Len(t.rows) -> Int]
    BY HeightOfRows DEF Hosts, Junk
  <2> QED
    BY <2>1, RowsOf
<1>2. mouse \in BOOLEAN /\ shp \in Shapes
  BY DEF Hosts, Shapes
<1>3. (\A i \in DOMAIN data : data[i].k \notin {"mouse", "nomouse"}) => mouse = t.mouse
  OBVIOUS
<1>4. Raw(t, data) = [rows |-> rows, mouse |-> mouse, shape |-> shp]
  BY DEF Raw
<1> HIDE DEF mouse, rows, shp
<1> QED
  BY <1>1, <1>2, <1>3, <1>4 DEF Hosts

\* The bar is drawn on one row.
LEMMA BarDrawn ==
    ASSUME NEW t \in Hosts, NEW items \in Nat, NEW h \in Height
    PROVE  /\ DrawBar(t, items, h) \in Hosts
           /\ Len(DrawBar(t, items, h).rows) = Len(t.rows)
           /\ DrawBar(t, items, h).mouse = t.mouse /\ DrawBar(t, items, h).shape = t.shape
           /\ h = Len(t.rows) =>
                /\ \A r \in 1 .. AreaHeight(h) : DrawBar(t, items, h).rows[r] = t.rows[r]
                /\ BarActive(h) /\ items # 0 => DrawBar(t, items, h).rows[h] = BarOf(items)
<1> DEFINE row == Least(h, Len(t.rows))
           rows == [t.rows EXCEPT ![row] = BarOf(items)]
<1>1. t.rows \in Rows /\ BarOf(items) \in Int
  BY DEF Hosts, BarOf
<1>2. rows \in Rows /\ Len(rows) = Len(t.rows) /\ Len(t.rows) \in Height
      /\ DOMAIN t.rows = 1 .. Len(t.rows)
  BY <1>1, RowReplaced, HeightOfRows
<1>3. /\ row \in 1 .. Len(t.rows)
      /\ h <= Len(t.rows) => row = h
      /\ h > Len(t.rows) => row = Len(t.rows)
  BY <1>2 DEF Least, Height
<1>4. \A r \in 1 .. Len(t.rows) : rows[r] = IF r = row THEN BarOf(items) ELSE t.rows[r]
  BY <1>2
<1>5. DrawBar(t, items, h) = IF BarActive(h) /\ items # 0 THEN [t EXCEPT !.rows = rows] ELSE t
  BY DEF DrawBar
<1> HIDE DEF row, rows
<1> QED
  BY <1>1, <1>2, <1>3, <1>4, <1>5 DEF Hosts, Height, AreaHeight

\* The terminal shows a frame as far as it fits.
Shows(t, f) ==
    /\ \A r \in 1 .. AreaHeight(Len(t.rows)) :
         r < Len(t.rows) \/ Len(f.rows) <= Len(t.rows) =>
            t.rows[r] = IF r <= Len(f.rows) THEN f.rows[r] ELSE Blank
    /\ t.shape = f.shape

\* Rows painted by their difference from a frame that was shown show the new one.
LEMMA PaintedRows ==
    ASSUME NEW t \in Hosts, NEW p \in Drawable, NEW f \in Frames
    PROVE  /\ Painted(t.rows, f, p) \in Rows
           /\ Len(Painted(t.rows, f, p)) = Len(t.rows)
           /\ (p # NoFrame => Shows(t, p)) =>
                \A r \in 1 .. AreaHeight(Len(t.rows)) :
                  r < Len(t.rows) \/ Len(f.rows) <= Len(t.rows) =>
                    Painted(t.rows, f, p)[r] = IF r <= Len(f.rows) THEN f.rows[r] ELSE Blank
<1> DEFINE full == ForceFull(p, f)
           H == Len(t.rows)
           New(i) == full \/ i \notin DOMAIN p.rows \/ p.rows[i] # f.rows[i]
           Drawn(r) == {i \in DOMAIN f.rows : Least(i, H) = r /\ New(i)}
           Row(r) == IF Drawn(r) # {} THEN f.rows[Max(Drawn(r))]
                     ELSE IF full THEN Blank ELSE t.rows[r]
           rows == [r \in DOMAIN t.rows |-> Row(r)]
<1>1. /\ H \in Height /\ DOMAIN t.rows = 1 .. H /\ t.rows \in [1 .. H -> Int]
      /\ Len(f.rows) \in Height /\ DOMAIN f.rows = 1 .. Len(f.rows)
      /\ f.rows \in [1 .. Len(f.rows) -> Int]
  BY HeightOfRows DEF Hosts, Frames
<1>2. Painted(t.rows, f, p) = rows
  BY DEF Painted
<1>3. rows \in [1 .. H -> Int]
  <2> SUFFICES ASSUME NEW r \in 1 .. H PROVE Row(r) \in Int
    BY <1>1
  <2>1. CASE Drawn(r) # {}
    <3>1. Drawn(r) \in SUBSET (1 .. Len(f.rows)) /\ Len(f.rows) \in Nat
      BY <1>1 DEF Height
    <3>2. Max(Drawn(r)) \in Drawn(r)
      <4> HIDE DEF Drawn
      <4> QED
        BY <2>1, <3>1, Interpreting!MaxIn DEF Interpreting!Max, Max
    <3>3. f.rows[Max(Drawn(r))] \in Int
      BY <1>1, <3>2
    <3> QED
      BY <2>1, <3>3
  <2>2. CASE Drawn(r) = {}
    BY <1>1, <2>2 DEF Blank
  <2> QED
    BY <2>1, <2>2
<1>4. rows \in Rows /\ Len(rows) = H
  BY <1>1, <1>3, RowsOf
<1>5. ASSUME p # NoFrame => Shows(t, p), NEW r \in 1 .. AreaHeight(H),
             r < H \/ Len(f.rows) <= H
      PROVE  rows[r] = IF r <= Len(f.rows) THEN f.rows[r] ELSE Blank
  <2>1. r \in 1 .. H /\ rows[r] = Row(r)
    BY <1>1 DEF AreaHeight, Height
  <2>2. Drawn(r) \subseteq {r}
    BY <1>1, <1>5, <2>1 DEF Least, Height
  <2>3. CASE r \in Drawn(r)
    <3>1. Drawn(r) = {r} /\ r <= Len(f.rows)
      BY <1>1, <2>2, <2>3 DEF Height
    <3>2. Max({r}) = r
      BY <2>1 DEF Max
    <3> HIDE DEF Drawn
    <3> QED
      BY <2>1, <2>3, <3>1, <3>2
  <2>4. CASE r \notin Drawn(r)
    <3>1. Drawn(r) = {}
      BY <2>2, <2>4
    <3>2. rows[r] = IF full THEN Blank ELSE t.rows[r]
      BY <2>1, <3>1
    <3>3. r <= Len(f.rows) => ~New(r)
      BY <1>1, <2>1, <2>4, <1>5 DEF Least, Height
    <3>4. CASE full
      BY <3>2, <3>3, <3>4, <1>1, <2>1 DEF Height
    <3>5. CASE ~full
      <4>1. p # NoFrame /\ Len(p.rows) = Len(f.rows)
        BY <3>5 DEF ForceFull
      <4>2. t.rows[r] = IF r <= Len(f.rows) THEN p.rows[r] ELSE Blank
        BY <4>1, <1>5 DEF Shows
      <4>3. r <= Len(f.rows) => p.rows[r] = f.rows[r]
        BY <3>3
      <4> QED
        BY <3>2, <3>5, <4>2, <4>3
    <3> QED
      BY <3>4, <3>5
  <2> QED
    BY <2>3, <2>4
<1> HIDE DEF rows
<1> QED
  BY <1>2, <1>4, <1>5

\* So does the terminal after the renderer has drawn a frame, and its mouse mode is
\* the frame's if the renderer knew the one before.
LEMMA Renders ==
    ASSUME NEW t \in Hosts, NEW d \in Renderers, NEW f \in Frames
    PROVE  /\ Render(t, d, f) \in Hosts /\ Len(Render(t, d, f).rows) = Len(t.rows)
           /\ (d.previous # NoFrame => Shows(t, d.previous)) => Shows(Render(t, d, f), f)
           /\ d.mouse = t.mouse /\ (d.previous # NoFrame => d.mouse = d.previous.mouse)
                => Render(t, d, f).mouse = f.mouse
<1> DEFINE p == d.previous
           rows == Painted(t.rows, f, p)
           new == [rows |-> rows,
                   mouse |-> IF d.mouse # f.mouse THEN f.mouse ELSE t.mouse,
                   shape |-> IF p = NoFrame \/ p.shape # f.shape THEN f.shape ELSE t.shape]
<1>1. /\ rows \in Rows /\ Len(rows) = Len(t.rows)
      /\ (p # NoFrame => Shows(t, p)) =>
            \A r \in 1 .. AreaHeight(Len(t.rows)) :
              r < Len(t.rows) \/ Len(f.rows) <= Len(t.rows) =>
                rows[r] = IF r <= Len(f.rows) THEN f.rows[r] ELSE Blank
  BY PaintedRows DEF Renderers
<1>2. f # NoFrame
  BY FrameOf
<1>3. CASE p = f
  <2>1. Render(t, d, f) = t
    BY <1>3 DEF Render
  <2> QED
    BY <2>1, <1>2, <1>3
<1>4. CASE p # f
  <2>1. Render(t, d, f) = new
    BY <1>4 DEF Render
  <2> HIDE DEF rows
  <2>2. new \in Hosts /\ Len(new.rows) = Len(t.rows)
    BY <1>1 DEF Hosts, Frames
  <2>3. ASSUME p # NoFrame => Shows(t, p) PROVE Shows(new, f)
    BY <1>1, <2>3 DEF Shows
  <2>4. d.mouse = t.mouse => new.mouse = f.mouse
    OBVIOUS
  <2> HIDE DEF new
  <2> QED
    BY <2>1, <2>2, <2>3, <2>4
<1> QED
  BY <1>3, <1>4

-----------------------------------------------------------------------------
(* Queues of requests: the size they end with, and the keys in them.       *)

NoSize(q) == \A i \in DOMAIN q : q[i].k # "resize"
EndsAt(q, h) == \E i \in DOMAIN q : /\ q[i].k = "resize" /\ q[i].n = h
                                    /\ \A j \in DOMAIN q : j > i => q[j].k # "resize"

\* When all of q is worked through, the size is h; it is now at present.
Settles(q, now, h) == IF NoSize(q) THEN now = h ELSE EndsAt(q, h)

KeysOf(q) == {q[i].n : i \in {j \in DOMAIN q : IsKey(q[j])}}
Increasing(q) == \A i, j \in DOMAIN q : i < j /\ IsKey(q[i]) /\ IsKey(q[j]) => q[i].n < q[j].n
Below(A, B) == \A x \in A, y \in B : x < y

\* The first request is taken.
LEMMA HeadTaken ==
    ASSUME NEW q \in Seq(Requests), q # <<>>
    PROVE  /\ Head(q) \in Requests /\ Tail(q) \in Seq(Requests) /\ Len(Tail(q)) = Len(q) - 1
           /\ \A i \in DOMAIN Tail(q) : i + 1 \in DOMAIN q /\ Tail(q)[i] = q[i + 1]
           /\ \A i \in DOMAIN q : i = 1 \/ (i - 1 \in DOMAIN Tail(q) /\ q[i] = Tail(q)[i - 1])
           /\ 1 \in DOMAIN q /\ Head(q) = q[1] /\ DOMAIN q = 1 .. Len(q) /\ Len(q) \in Nat
           /\ DOMAIN Tail(q) = 1 .. (Len(q) - 1)
<1>1. /\ Head(q) \in Requests /\ Tail(q) \in Seq(Requests) /\ Len(Tail(q)) = Len(q) - 1
      /\ \A i \in 1 .. Len(Tail(q)) : Tail(q)[i] = q[i + 1]
      /\ Len(q) \in Nat \ {0} /\ DOMAIN q = 1 .. Len(q)
      /\ DOMAIN Tail(q) = 1 .. Len(Tail(q)) /\ Head(q) = q[1]
  BY HeadTailProperties, EmptySeq, LenProperties
<1> QED
  BY <1>1

\* What that does to the sizes, ...
LEMMA SizeTakenFrom ==
    ASSUME NEW q \in Seq(Requests), q # <<>>, NEW now, NEW h, Settles(q, now, h)
    PROVE  Settles(Tail(q), IF Head(q).k = "resize" THEN Head(q).n ELSE now, h)
<1>1. CASE NoSize(q)
  BY <1>1, HeadTaken DEF Settles, NoSize
<1>2. CASE ~NoSize(q)
  <2>1. PICK i \in DOMAIN q : /\ q[i].k = "resize" /\ q[i].n = h
                              /\ \A j \in DOMAIN q : j > i => q[j].k # "resize"
    BY <1>2 DEF Settles, EndsAt
  <2>2. CASE i = 1
    <3>1. NoSize(Tail(q))
      <4> SUFFICES ASSUME NEW j \in DOMAIN Tail(q) PROVE Tail(q)[j].k # "resize"
        BY DEF NoSize
      <4>1. j + 1 \in DOMAIN q /\ Tail(q)[j] = q[j + 1] /\ j + 1 > 1
        BY HeadTaken
      <4> QED
        BY <4>1, <2>1, <2>2
    <3> QED
      BY <3>1, <2>1, <2>2, HeadTaken DEF Settles
  <2>3. CASE i # 1
    <3>1. i - 1 \in DOMAIN Tail(q) /\ Tail(q)[i - 1] = q[i]
      BY <2>3, HeadTaken
    <3>2. ASSUME NEW j \in DOMAIN Tail(q), j > i - 1 PROVE Tail(q)[j].k # "resize"
      <4>1. j + 1 \in DOMAIN q /\ Tail(q)[j] = q[j + 1] /\ j + 1 > i
        BY <3>2, HeadTaken
      <4> QED
        BY <4>1, <2>1
    <3>3. EndsAt(Tail(q), h) /\ ~NoSize(Tail(q))
      BY <2>1, <3>1, <3>2 DEF EndsAt, NoSize
    <3> QED
      BY <3>3 DEF Settles
  <2> QED
    BY <2>2, <2>3
<1> QED
  BY <1>1, <1>2

\* If what is left holds none, only the first may have been one.
LEMMA NoSizeLeft ==
    ASSUME NEW q \in Seq(Requests), q # <<>>, Head(q).k # "resize", NoSize(Tail(q))
    PROVE  NoSize(q)
  BY HeadTaken DEF NoSize

\* ... and to the keys.
LEMMA KeyTaken ==
    ASSUME NEW q \in Seq(Requests), q # <<>>, Increasing(q)
    PROVE  /\ Increasing(Tail(q))
           /\ ~IsKey(Head(q)) => KeysOf(Tail(q)) = KeysOf(q)
           /\ IsKey(Head(q)) => KeysOf(q) = {Head(q).n} \cup KeysOf(Tail(q))
           /\ IsKey(Head(q)) => Below({Head(q).n}, KeysOf(Tail(q)))
<1>1. Increasing(Tail(q))
  BY HeadTaken DEF Increasing
<1>2. KeysOf(Tail(q)) \subseteq KeysOf(q)
  BY HeadTaken DEF KeysOf
<1>3. ASSUME NEW n \in KeysOf(q) PROVE n \in KeysOf(Tail(q)) \/ (IsKey(Head(q)) /\ n = Head(q).n)
  BY HeadTaken DEF KeysOf
<1>4. IsKey(Head(q)) => Head(q).n \in KeysOf(q)
  BY HeadTaken DEF KeysOf
<1>5. ASSUME IsKey(Head(q)), NEW n \in KeysOf(Tail(q)) PROVE Head(q).n < n
  <2>1. PICK i \in DOMAIN Tail(q) : IsKey(Tail(q)[i]) /\ n = Tail(q)[i].n
    BY DEF KeysOf
  <2>2. i + 1 \in DOMAIN q /\ q[i + 1] = Tail(q)[i] /\ 1 < i + 1
    BY HeadTaken
  <2> QED
    BY <1>5, <2>1, <2>2, HeadTaken DEF Increasing
<1> QED
  BY <1>1, <1>2, <1>3, <1>4, <1>5 DEF Below

\* Where the elements of two sequences are in both together.
LEMMA Joined ==
    ASSUME NEW S, NEW q \in Seq(S), NEW r \in Seq(S), NEW both, both = q \o r,
           NEW m, m = Len(q)
    PROVE  /\ both \in Seq(S) /\ m \in Nat
           /\ DOMAIN q = 1 .. m /\ DOMAIN r \in SUBSET Nat /\ DOMAIN both \in SUBSET Nat
           /\ \A i \in DOMAIN q : i \in DOMAIN both /\ both[i] = q[i]
           /\ \A i \in DOMAIN r : i + m \in DOMAIN both /\ both[i + m] = r[i]
           /\ \A i \in DOMAIN both :
                \/ i \in DOMAIN q /\ both[i] = q[i]
                \/ \E j \in DOMAIN r : i = j + m /\ both[i] = r[j]
<1> DEFINE n == Len(r)
<1>1. /\ both \in Seq(S) /\ DOMAIN both = 1 .. m + n
      /\ m \in Nat /\ n \in Nat /\ DOMAIN q = 1 .. m /\ DOMAIN r = 1 .. n
      /\ \A i \in 1 .. m + n : both[i] = IF i <= m THEN q[i] ELSE r[i - m]
  BY ConcatProperties, LenProperties
<1> HIDE DEF n
<1>2. \A i \in DOMAIN q : i \in DOMAIN both /\ both[i] = q[i]
  BY <1>1
<1>3. \A i \in DOMAIN r : i + m \in DOMAIN both /\ both[i + m] = r[i]
  BY <1>1
<1>4. ASSUME NEW i \in DOMAIN both
      PROVE  \/ i \in DOMAIN q /\ both[i] = q[i]
             \/ \E j \in DOMAIN r : i = j + m /\ both[i] = r[j]
  <2>1. i \in 1 .. m + n /\ both[i] = IF i <= m THEN q[i] ELSE r[i - m]
    BY <1>1
  <2>2. CASE i <= m
    BY <1>1, <2>1, <2>2
  <2>3. CASE ~(i <= m)
    <3>1. i - m \in 1 .. n
      BY <1>1, <2>1, <2>3
    <3> QED
      BY <1>1, <2>1, <2>3, <3>1
  <2> QED
    BY <2>2, <2>3
<1>5. DOMAIN r \in SUBSET Nat /\ DOMAIN both \in SUBSET Nat
  BY <1>1
<1> QED
  BY <1>1, <1>2, <1>3, <1>4, <1>5

\* Requests are appended: what that does to the keys ...
LEMMA KeysSent ==
    ASSUME NEW q \in Seq(Requests), NEW r \in Seq(Requests)
    PROVE  /\ q \o r \in Seq(Requests)
           /\ KeysOf(q \o r) = KeysOf(q) \cup KeysOf(r)
           /\ Increasing(q) /\ Increasing(r) /\ Below(KeysOf(q), KeysOf(r)) => Increasing(q \o r)
<1> DEFINE both == q \o r
           m == Len(q)
<1>0. both = q \o r /\ m = Len(q)
  OBVIOUS
<1> HIDE DEF both, m
<1>1. /\ both \in Seq(Requests) /\ m \in Nat
      /\ DOMAIN q = 1 .. m /\ DOMAIN r \in SUBSET Nat /\ DOMAIN both \in SUBSET Nat
  BY <1>0, Joined
<1>2. \A i \in DOMAIN q : i \in DOMAIN both /\ both[i] = q[i]
  BY <1>0, Joined
<1>3. \A i \in DOMAIN r : i + m \in DOMAIN both /\ both[i + m] = r[i]
  BY <1>0, Joined
<1>4. \A i \in DOMAIN both : \/ i \in DOMAIN q /\ both[i] = q[i]
                             \/ \E j \in DOMAIN r : i = j + m /\ both[i] = r[j]
  BY <1>0, Joined
<1>5. KeysOf(both) = KeysOf(q) \cup KeysOf(r)
  <2>1. KeysOf(q) \subseteq KeysOf(both)
    BY <1>2 DEF KeysOf
  <2>2. KeysOf(r) \subseteq KeysOf(both)
    BY <1>3 DEF KeysOf
  <2>3. KeysOf(both) \subseteq KeysOf(q) \cup KeysOf(r)
    BY <1>4 DEF KeysOf
  <2> QED
    BY <2>1, <2>2, <2>3
<1>6. ASSUME Increasing(q), Increasing(r), Below(KeysOf(q), KeysOf(r)) PROVE Increasing(both)
  <2> SUFFICES ASSUME NEW i \in DOMAIN both, NEW j \in DOMAIN both, i < j,
                      IsKey(both[i]), IsKey(both[j])
               PROVE  both[i].n < both[j].n
    BY DEF Increasing
  <2>1. CASE j \in DOMAIN q /\ both[j] = q[j]
    <3>1. i \in DOMAIN q /\ both[i] = q[i]
      BY <1>1, <2>1 DEF both
    <3> QED
      BY <2>1, <3>1, <1>6 DEF Increasing
  <2>2. CASE \E k \in DOMAIN r : i = k + m /\ both[i] = r[k]
    <3>1. PICK k \in DOMAIN r : i = k + m /\ both[i] = r[k]
      BY <2>2
    <3>2. j \notin DOMAIN q
      BY <1>1, <3>1
    <3>3. PICK l \in DOMAIN r : j = l + m /\ both[j] = r[l]
      BY <1>4, <3>2
    <3> QED
      BY <1>1, <3>1, <3>3, <1>6 DEF Increasing
  <2>3. CASE /\ i \in DOMAIN q /\ both[i] = q[i]
             /\ \E k \in DOMAIN r : j = k + m /\ both[j] = r[k]
    <3>1. both[i].n \in KeysOf(q) /\ both[j].n \in KeysOf(r)
      BY <2>3 DEF KeysOf
    <3> QED
      BY <3>1, <1>6 DEF Below
  <2> QED
    BY <1>4, <2>1, <2>2, <2>3
<1> QED
  BY <1>1, <1>5, <1>6 DEF both

\* ... and to the sizes.
LEMMA SizesSent ==
    ASSUME NEW q \in Seq(Requests), NEW r \in Seq(Requests), NEW now, NEW h
    PROVE  /\ NoSize(r) /\ Settles(q, now, h) => Settles(q \o r, now, h)
           /\ EndsAt(r, h) => Settles(q \o r, now, h)
           /\ NoSize(q \o r) => NoSize(q) /\ NoSize(r)
<1> DEFINE both == q \o r
           m == Len(q)
<1>0. both = q \o r /\ m = Len(q)
  OBVIOUS
<1> HIDE DEF both, m
<1>1. /\ both \in Seq(Requests) /\ m \in Nat
      /\ DOMAIN q = 1 .. m /\ DOMAIN r \in SUBSET Nat /\ DOMAIN both \in SUBSET Nat
  BY <1>0, Joined
<1>2. \A i \in DOMAIN q : i \in DOMAIN both /\ both[i] = q[i]
  BY <1>0, Joined
<1>3. \A i \in DOMAIN r : i + m \in DOMAIN both /\ both[i + m] = r[i]
  BY <1>0, Joined
<1>4. \A i \in DOMAIN both : \/ i \in DOMAIN q /\ both[i] = q[i]
                             \/ \E j \in DOMAIN r : i = j + m /\ both[i] = r[j]
  BY <1>0, Joined
<1>5. ASSUME NoSize(r), Settles(q, now, h) PROVE Settles(both, now, h)
  <2>1. CASE NoSize(q)
    <3>1. NoSize(both)
      BY <1>4, <1>5, <2>1 DEF NoSize
    <3> QED
      BY <2>1, <3>1, <1>5 DEF Settles
  <2>2. CASE ~NoSize(q)
    <3>1. PICK i \in DOMAIN q : /\ q[i].k = "resize" /\ q[i].n = h
                                /\ \A j \in DOMAIN q : j > i => q[j].k # "resize"
      BY <1>5, <2>2 DEF Settles, EndsAt
    <3>2. i \in DOMAIN both /\ both[i] = q[i]
      BY <1>2
    <3>3. \A j \in DOMAIN both : j > i => both[j].k # "resize"
      BY <1>1, <1>4, <1>5, <3>1 DEF NoSize
    <3>4. EndsAt(both, h) /\ ~NoSize(both)
      BY <3>1, <3>2, <3>3 DEF EndsAt, NoSize
    <3> QED
      BY <3>4 DEF Settles
  <2> QED
    BY <2>1, <2>2
<1>6. ASSUME EndsAt(r, h) PROVE Settles(both, now, h)
  <2>1. PICK i \in DOMAIN r : /\ r[i].k = "resize" /\ r[i].n = h
                              /\ \A j \in DOMAIN r : j > i => r[j].k # "resize"
    BY <1>6 DEF EndsAt
  <2>2. i + m \in DOMAIN both /\ both[i + m] = r[i]
    BY <1>3
  <2>3. ASSUME NEW j \in DOMAIN both, j > i + m PROVE both[j].k # "resize"
    <3>1. j \notin DOMAIN q
      BY <1>1, <2>1, <2>3
    <3>2. PICK k \in DOMAIN r : j = k + m /\ both[j] = r[k]
      BY <1>4, <3>1
    <3> QED
      BY <1>1, <2>1, <2>3, <3>2
  <2>4. EndsAt(both, h) /\ ~NoSize(both)
    BY <2>1, <2>2, <2>3 DEF EndsAt, NoSize
  <2> QED
    BY <2>4 DEF Settles
<1>7. NoSize(both) => NoSize(q) /\ NoSize(r)
  BY <1>2, <1>3 DEF NoSize
<1> QED
  BY <1>5, <1>6, <1>7 DEF both

\* One request.
LEMMA OneRequest ==
    ASSUME NEW m \in Requests
    PROVE  /\ <<m>> \in Seq(Requests)
           /\ KeysOf(<<m>>) = IF IsKey(m) THEN {m.n} ELSE {}
           /\ Increasing(<<m>>)
           /\ m.k # "resize" => NoSize(<<m>>)
           /\ m.k = "resize" => EndsAt(<<m>>, m.n)
           /\ Len(<<m>>) = 1 /\ \A i \in DOMAIN <<m>> : <<m>>[i] = m
  BY DEF KeysOf, Increasing, NoSize, EndsAt

\* None.
LEMMA NoRequest ==
    /\ <<>> \in Seq(Requests) /\ KeysOf(<<>>) = {} /\ Increasing(<<>>) /\ NoSize(<<>>)
  BY DEF KeysOf, Increasing, NoSize

-----------------------------------------------------------------------------
(* The inductive invariant.                                                *)

ReaderTypes ==
    /\ script \in Seq(Sequence) /\ staging \in Seq(Sequence)
    /\ batch \in Seq(Sequence) /\ scrollback \in Seq(Sequence)
    /\ screen \in Screens /\ shape \in Shapes
    /\ cleanup \in Drawable /\ (parser = "ending" => cleanup \in Frames)
    /\ queue \in Seq(Events) /\ registered \in BOOLEAN

LoopTypes ==
    /\ host \in Hosts /\ screenH \in Height /\ bar \in Nat
    /\ renderer \in Renderers /\ lastFrame \in Drawable
    /\ wire \in Seq(Messages) /\ pending \in Seq(Messages)
    /\ requests \in Seq(Requests) /\ actions \in Seq(Requests)
    /\ prefix \in Seq(Nat) /\ Len(prefix) <= 1 /\ typed \in Nat /\ plain \in SUBSET Nat

\* Once attached, there is a first frame, and the session's client has a size.
ConnTypes ==
    /\ initial \in Drawable /\ (conn \in {"replay", "initial"} => initial \in Frames)
    /\ clientH \in Nat /\ (conn # "none" => clientH \in Height)
    /\ delivered \in Seq(Nat) /\ plan \in Plans
    /\ conn = "none" => requests = <<>> /\ ~active
    /\ conn \in {"none", "replay"} => ~modesReplayed

\* As long as the attachment lasts and the session does, the client is in the map.
Registered == conn \in {"replay", "initial", "open"} /\ ~drained => registered

\* The reader stops at a command; an overlay opens when all it read is done.
CommandLast ==
    \A i \in DOMAIN actions :
       actions[i].k \in Commands => i = Len(actions) /\ ~reading
Covers == overlay # "none" => actions = <<>> /\ ~reading

\* The loop knows the terminal's size, or will from what the reader read.
SizeRead == /\ appRows = AreaHeight(screenH)
            /\ Running /\ ~winch => Settles(actions, screenH, Len(host.rows))

\* The daemon knows the area's, or will from the requests on their way, unless it
\* has refused one.
Failing(q) == \E i \in DOMAIN q : q[i].k = "error"
SizeSent ==
    conn \in {"replay", "initial", "open"} /\ registered /\ outcome = "none"
      /\ ~Failing(pending) /\ ~Failing(wire) => Settles(requests, clientH, appRows)

\* Only the active client resizes the session.
SizeTaken == active => Len(screen.main) = clientH

\* The renderer knows the terminal's mouse mode, unless the replay has set it.
Quiet == {m \in Messages : \A i \in DOMAIN m.data : m.data[i].k \notin {"mouse", "nomouse"}}
MouseKnown == /\ ~modesReplayed => renderer.mouse = host.mouse
              /\ renderer.previous # NoFrame => renderer.mouse = renderer.previous.mouse
ReplayQuiet == ~modesReplayed => wire \in Seq(Quiet) /\ pending \in Seq(Quiet)

\* Keys are on their way in the order typed; a prefix that is held back is the
\* newest, and not known to be plain.
Held == {prefix[i] : i \in DOMAIN prefix}
Ordered(d, q, a, h) ==
    /\ Increasing(d) /\ Increasing(q) /\ Increasing(a)
    /\ Below(KeysOf(d), KeysOf(q) \cup KeysOf(a) \cup h)
    /\ Below(KeysOf(q), KeysOf(a) \cup h)
    /\ Below(KeysOf(a), h)
OnTheirWay == KeysOf(Passed) \cup KeysOf(requests) \cup KeysOf(actions)
Lossless ==
    outcome \in {"none", "Detached"} /\ conn \notin {"done", "closed"} /\ ~drained
KeyInv ==
    /\ Ordered(Passed, requests, actions, Held)
    /\ \A n \in OnTheirWay \cup Held \cup plain : n <= typed
    /\ plain \cap Held = {}
    /\ Lossless => plain \subseteq OnTheirWay

IInv == /\ ReaderTypes /\ LoopTypes /\ ConnTypes /\ Registered /\ CommandLast /\ Covers
        /\ SizeRead /\ SizeSent /\ SizeTaken /\ MouseKnown /\ ReplayQuiet /\ HostInStep
        /\ KeyInv

-----------------------------------------------------------------------------
(* The session's threads.                                                  *)

Threads == \/ ReadPty \/ ReaderEnds \/ TakeBatch \/ ProcessBatch \/ LeaveAltScreen
           \/ BroadcastCleanup \/ EndOfOutput \/ ExitWaiter \/ ChildExits

\* They keep the screen's height, and only the exit waiter takes the client out.
LEMMA ThreadsKeep ==
    ASSUME ReaderTypes, Threads
    PROVE  /\ ReaderTypes' /\ Len(screen.main)' = Len(screen.main)
           /\ registered' => registered
           /\ ~drained' => ~drained /\ registered' = registered
<1> USE DEF ReaderTypes
<1>1. CASE ReadPty
  <2>1. Append(staging, Head(script)) \in Seq(Sequence) /\ Tail(script) \in Seq(Sequence)
    BY <1>1, HeadTailProperties, AppendProperties DEF ReadPty
  <2> QED
    BY <1>1, <2>1 DEF ReadPty, screenVars
<1>2. CASE ReaderEnds \/ ChildExits \/ EndOfOutput
  BY <1>2 DEF ReaderEnds, ChildExits, EndOfOutput, childVars, parserVars, screenVars
<1>3. CASE TakeBatch
  BY <1>3, EmptySeq DEF TakeBatch, childVars, screenVars
<1>4. ASSUME NEW f \in Frames, Broadcast(f) PROVE queue' \in Seq(Events)
  <2>1. FrameEvent(f) \in Events
    BY DEF FrameEvent, Events
  <2> QED
    BY <1>4, <2>1, AppendProperties DEF Broadcast
<1>5. CASE ProcessBatch
  <2>1. Kept(batch) \in Seq(Sequence)
    <3>1. scrollback \o batch \in Seq(Sequence)
      BY ConcatProperties
    <3> DEFINE all == scrollback \o batch
               low == Len(all) - ScrollbackLimit + 1
    <3>2. Len(all) > ScrollbackLimit => SubSeq(all, low, Len(all)) \in Seq(Sequence)
      <4> HIDE DEF all
      <4>1. all \in Seq(Sequence) /\ Len(all) \in Nat
        BY <3>1, LenProperties DEF all
      <4>2. Len(all) > ScrollbackLimit => \A i \in low .. Len(all) : all[i] \in Sequence
        BY <4>1, OutputAssumption, ElementOfSeq
      <4> QED
        BY <4>1, <4>2, OutputAssumption, SubSeqProperties
    <3> QED
      BY <3>1, <3>2 DEF Kept
  <2>2. screen' \in Screens /\ Len(screen'.main) = Len(screen.main)
    BY <1>5, BatchKeeps DEF ProcessBatch
  <2>3. shape' \in Shapes
    BY <1>5 DEF ProcessBatch, ShapeAfter, Shapes
  <2>4. queue' \in Seq(Events)
    BY <1>4, <1>5, <2>2, <2>3, FrameOf DEF ProcessBatch
  <2> QED
    BY <1>5, <2>1, <2>2, <2>3, <2>4, EmptySeq DEF ProcessBatch, childVars
<1>6. CASE LeaveAltScreen
  <2>1. screen' \in Screens /\ Len(screen'.main) = Len(screen.main)
    BY <1>6 DEF LeaveAltScreen, Screens
  <2>2. shape' \in Shapes /\ cleanup' \in Frames
    BY <1>6, <2>1, FrameOf DEF LeaveAltScreen, Shapes
  <2> QED
    BY <1>6, <2>1, <2>2 DEF LeaveAltScreen, childVars, Drawable
<1>7. CASE BroadcastCleanup
  <2>1. queue' \in Seq(Events)
    BY <1>4, <1>7 DEF BroadcastCleanup
  <2> QED
    BY <1>7, <2>1 DEF BroadcastCleanup, childVars, screenVars
<1>8. CASE ExitWaiter
  <2>1. queue' \in Seq(Events)
    <3>1. ExitEvent \in Events
      BY DEF Events
    <3>2. <<ExitEvent>> \in Seq(Events)
      BY <3>1
    <3> QED
      BY <1>8, <3>2 DEF ExitWaiter
  <2> QED
    BY <1>8, <2>1 DEF ExitWaiter, childVars, parserVars, screenVars
<1> QED
  BY <1>1, <1>2, <1>3, <1>5, <1>6, <1>7, <1>8 DEF Threads

\* So the invariant outlives their steps.
LEMMA ThreadsStep ==
    ASSUME IInv, Threads, UNCHANGED <<loopVars, connVars, plan>>
    PROVE  IInv'
<1> USE DEF loopVars, connVars, viewVars, inputVars
<1>1. /\ ReaderTypes' /\ Len(screen.main)' = Len(screen.main)
      /\ registered' => registered
      /\ ~drained' => ~drained /\ registered' = registered
  BY ThreadsKeep DEF IInv
<1>2. LoopTypes' /\ ConnTypes' /\ CommandLast' /\ Covers' /\ SizeRead'
  BY DEF IInv, LoopTypes, ConnTypes, CommandLast, Covers, SizeRead, Running
<1>3. Registered' /\ SizeSent' /\ SizeTaken'
  <2>1. Registered' /\ SizeTaken'
    BY <1>1 DEF IInv, Registered, SizeTaken
  <2>2. SizeSent'
    BY <1>1 DEF IInv, SizeSent
  <2> QED
    BY <2>1, <2>2
<1>4. MouseKnown' /\ ReplayQuiet' /\ HostInStep'
  BY DEF IInv, MouseKnown, ReplayQuiet, HostInStep, Running, SizesKnown
<1>5. KeyInv'
  <2>1. OnTheirWay' = OnTheirWay /\ Held' = Held /\ Passed' = Passed
    BY DEF OnTheirWay, Held, Passed
  <2> QED
    BY <1>1, <2>1 DEF IInv, KeyInv, Lossless
<1> QED
  BY <1>1, <1>2, <1>3, <1>4, <1>5 DEF IInv

-----------------------------------------------------------------------------
(* The connection.                                                         *)

\* The messages it sends.
LEMMA SentMessages ==
    /\ \A f \in Frames : Frame(f) \in Quiet
    /\ \A data \in Seq(Sequence) :
         /\ Output(data) \in Messages
         /\ (\A i \in DOMAIN data : data[i].k \notin {"mouse", "nomouse"})
              => Output(data) \in Quiet
    /\ \A k \in Answers : Answer(k) \in Quiet
    /\ Quiet \subseteq Messages
<1> DEFINE Loaded == [k : Answers \cup {"frame", "output"}, data : Seq(Sequence), frame : Drawable]
<1>1. <<>> \in Seq(Sequence) /\ DOMAIN <<>> = {} /\ NoFrame \in Drawable
  BY EmptySeq DEF Drawable
<1>2. ASSUME NEW f \in Frames PROVE Frame(f) \in Quiet
  <2> DEFINE m == Frame(f)
  <2>1. m \in Loaded /\ m.frame \in Frames /\ m.data = <<>>
    BY <1>1 DEF Frame, Drawable
  <2> HIDE DEF m
  <2>2. m \in Messages
    BY <2>1 DEF Messages
  <2> QED
    BY <1>1, <2>1, <2>2 DEF Quiet, m
<1>3. ASSUME NEW data \in Seq(Sequence) PROVE Output(data) \in Messages
  <2> DEFINE m == Output(data)
  <2>1. m \in Loaded /\ m.k # "frame"
    BY <1>1 DEF Output
  <2> HIDE DEF m
  <2> QED
    BY <2>1 DEF Messages, m
<1>4. ASSUME NEW k \in Answers PROVE Answer(k) \in Quiet
  BY <1>1 DEF Answer, Answers, Quiet, Messages
<1>5. ASSUME NEW data \in Seq(Sequence),
             \A i \in DOMAIN data : data[i].k \notin {"mouse", "nomouse"}
      PROVE  Output(data) \in Quiet
  BY <1>3, <1>5 DEF Output, Quiet
<1> QED
  BY <1>2, <1>3, <1>4, <1>5 DEF Quiet

\* What sending one does to the errors on their way, and to the quiet ones, ...
LEMMA MessageSent ==
    ASSUME NEW q \in Seq(Messages), NEW m \in Messages
    PROVE  /\ Append(q, m) \in Seq(Messages)
           /\ Failing(q) \/ m.k = "error" => Failing(Append(q, m))
           /\ q \in Seq(Quiet) /\ m \in Quiet => Append(q, m) \in Seq(Quiet)
<1> DEFINE new == Append(q, m)
<1>1. /\ new \in Seq(Messages) /\ Len(new) = Len(q) + 1 /\ Len(q) \in Nat
      /\ DOMAIN q = 1 .. Len(q) /\ DOMAIN new = 1 .. Len(new)
      /\ new[Len(q) + 1] = m /\ \A i \in 1 .. Len(q) : new[i] = q[i]
  BY AppendProperties, LenProperties
<1>2. q \in Seq(Quiet) /\ m \in Quiet => new \in Seq(Quiet)
  BY AppendProperties
<1> HIDE DEF new
<1>3. Len(q) + 1 \in DOMAIN new
  BY <1>1
<1>4. Failing(q) \/ m.k = "error" => Failing(new)
  BY <1>1, <1>3 DEF Failing
<1> QED
  BY <1>1, <1>2, <1>4 DEF new

\* ... and taking one.
LEMMA MessageTaken ==
    ASSUME NEW q \in Seq(Messages), q # <<>>
    PROVE  /\ Head(q) \in Messages /\ Tail(q) \in Seq(Messages)
           /\ Head(q).k # "error" /\ Failing(q) => Failing(Tail(q))
           /\ q \in Seq(Quiet) => Head(q) \in Quiet /\ Tail(q) \in Seq(Quiet)
<1>1. /\ Len(q) \in Nat /\ DOMAIN q = 1 .. Len(q) /\ Len(Tail(q)) = Len(q) - 1
      /\ DOMAIN Tail(q) = 1 .. Len(Tail(q)) /\ Head(q) = q[1]
      /\ \A i \in 1 .. Len(Tail(q)) : Tail(q)[i] = q[i + 1]
  BY HeadTailProperties, LenProperties
<1>2. ASSUME Head(q).k # "error", Failing(q) PROVE Failing(Tail(q))
  <2>1. PICK i \in DOMAIN q : q[i].k = "error"
    BY <1>2 DEF Failing
  <2>2. i - 1 \in DOMAIN Tail(q) /\ Tail(q)[i - 1] = q[i]
    BY <1>1, <1>2, <2>1
  <2> QED
    BY <2>1, <2>2 DEF Failing
<1>3. Head(q) \in Messages /\ Tail(q) \in Seq(Messages)
  BY HeadTailProperties
<1>4. q \in Seq(Quiet) => Head(q) \in Quiet /\ Tail(q) \in Seq(Quiet)
  BY HeadTailProperties
<1> QED
  BY <1>2, <1>3, <1>4

\* The client is told of the session and has its size.
LEMMA AttachStep ==
    ASSUME IInv, Attach
    PROVE  IInv'
<1> USE DEF Attach, OutsideIdle
<1>1. /\ clientH' \in Height /\ clientH' = appRows /\ screen' \in Screens
      /\ Len(screen'.main) = clientH' /\ initial' \in Frames
  <2>1. clientH' \in Height /\ clientH' = appRows
    BY AreaIsHeight DEF IInv, LoopTypes, SizeRead
  <2>2. screen' \in Screens /\ Len(screen'.main) = clientH'
    BY <2>1, SetHeightSets DEF IInv, ReaderTypes
  <2>3. initial' \in Frames
    BY <2>2, FrameOf DEF IInv, ReaderTypes
  <2> QED
    BY <2>1, <2>2, <2>3
<1>2. /\ UNCHANGED <<ReaderRest, scrollback, shape, queue, loopVars, delivered, modesReplayed, plan>>
      /\ conn = "none" /\ conn' = "replay" /\ active' = TRUE /\ registered' = TRUE
  OBVIOUS
<1> USE DEF ReaderRest, childVars, parserVars, loopVars, viewVars, inputVars
<1> HIDE DEF Attach
<1>3. ReaderTypes'
  BY <1>1, <1>2 DEF IInv, ReaderTypes
<1>4. LoopTypes' /\ CommandLast' /\ Covers' /\ SizeRead'
  BY <1>2 DEF IInv, LoopTypes, CommandLast, Covers, SizeRead, Running
<1>5. ConnTypes'
  BY <1>1, <1>2 DEF IInv, ConnTypes, Drawable, Height
<1>6. Registered' /\ SizeTaken'
  BY <1>1, <1>2 DEF Registered, SizeTaken
<1>7. SizeSent'
  BY <1>1, <1>2 DEF IInv, ConnTypes, SizeSent, Settles, NoSize
<1>8. MouseKnown' /\ ReplayQuiet' /\ HostInStep'
  BY <1>2 DEF IInv, MouseKnown, ReplayQuiet, HostInStep, Running, SizesKnown
<1>9. KeyInv'
  <2>1. OnTheirWay' = OnTheirWay /\ Held' = Held /\ Passed' = Passed
    BY <1>2 DEF OnTheirWay, Held, Passed
  <2> QED
    BY <1>2, <2>1 DEF IInv, KeyInv, Lossless
<1> QED
  BY <1>3, <1>4, <1>5, <1>6, <1>7, <1>8, <1>9 DEF IInv

\* A step of the connection that tells the loop at most something quiet.
LEMMA LoopUndisturbed ==
    ASSUME IInv,
           UNCHANGED <<viewVars, pending, actions, inputVars, overlay, outcome, modesReplayed>>,
           wire' \in Seq(Messages), wire \in Seq(Quiet) => wire' \in Seq(Quiet),
           requests' \in Seq(Requests)
    PROVE  /\ LoopTypes' /\ CommandLast' /\ Covers' /\ SizeRead' /\ MouseKnown'
           /\ ReplayQuiet' /\ HostInStep'
<1> USE DEF viewVars, inputVars
<1>1. LoopTypes' /\ CommandLast' /\ Covers' /\ SizeRead'
  BY DEF IInv, LoopTypes, CommandLast, Covers, SizeRead, Running
<1>2. MouseKnown' /\ ReplayQuiet' /\ HostInStep'
  BY DEF IInv, MouseKnown, ReplayQuiet, HostInStep, Running, SizesKnown
<1> QED
  BY <1>1, <1>2

\* A step that leaves the keys alone.
LEMMA KeysUndisturbed ==
    ASSUME IInv, UNCHANGED <<delivered, requests, actions, prefix, typed, plain>>,
           Lossless' => Lossless
    PROVE  KeyInv'
<1>1. OnTheirWay' = OnTheirWay /\ Held' = Held /\ Passed' = Passed
  BY DEF OnTheirWay, Held, Passed
<1> QED
  BY <1>1 DEF IInv, KeyInv

\* The replay is raw output: it may set the terminal's mouse mode.
LEMMA ReplayStep ==
    ASSUME IInv, Replay
    PROVE  IInv'
<1> USE DEF IInv
<1>1. /\ UNCHANGED <<readerVars, viewVars, pending, requests, actions, inputVars, overlay,
                     outcome, initial, clientH, active, delivered, plan>>
      /\ conn = "replay" /\ conn' = "initial"
      /\ modesReplayed' = \E i \in DOMAIN scrollback : scrollback[i].k \in {"mouse", "nomouse"}
      /\ wire' = IF scrollback = <<>> THEN wire ELSE Append(wire, Output(scrollback))
  BY DEF Replay, OutsideIdle
<1> USE DEF readerVars, childVars, parserVars, screenVars, viewVars, inputVars
<1>2. /\ wire' \in Seq(Messages) /\ (Failing(wire) => Failing(wire'))
      /\ ~modesReplayed' => wire' \in Seq(Quiet)
  <2>1. wire \in Seq(Messages) /\ wire \in Seq(Quiet) /\ scrollback \in Seq(Sequence)
    BY <1>1 DEF LoopTypes, ReaderTypes, ConnTypes, ReplayQuiet
  <2>2. Output(scrollback) \in Messages /\ (~modesReplayed' => Output(scrollback) \in Quiet)
    BY <1>1, <2>1, SentMessages
  <2> QED
    BY <1>1, <2>1, <2>2, MessageSent
<1>3. ReaderTypes' /\ ConnTypes' /\ Registered' /\ SizeTaken'
  BY <1>1 DEF ReaderTypes, ConnTypes, Registered, SizeTaken
<1>4. LoopTypes' /\ CommandLast' /\ Covers' /\ SizeRead'
  BY <1>1, <1>2 DEF LoopTypes, CommandLast, Covers, SizeRead, Running
<1>5. SizeSent'
  BY <1>1, <1>2 DEF SizeSent
<1>6. MouseKnown' /\ ReplayQuiet' /\ HostInStep'
  <2>1. ~modesReplayed
    BY <1>1 DEF ConnTypes
  <2> QED
    BY <1>1, <1>2, <2>1 DEF MouseKnown, ReplayQuiet, HostInStep, Running, SizesKnown
<1>7. KeyInv'
  BY <1>1, KeysUndisturbed DEF Lossless
<1> QED
  BY <1>3, <1>4, <1>5, <1>6, <1>7

\* The first frame, and those of the queue.
LEMMA SendInitialStep ==
    ASSUME IInv, SendInitial
    PROVE  IInv'
<1> USE DEF IInv
<1>1. /\ UNCHANGED <<readerVars, viewVars, pending, requests, actions, inputVars, overlay,
                     outcome, initial, clientH, active, delivered, modesReplayed, plan>>
      /\ conn = "initial" /\ conn' = "open"
      /\ wire' = Append(wire, Frame(initial))
  BY DEF SendInitial, OutsideIdle
<1>2. /\ wire' \in Seq(Messages) /\ (Failing(wire) => Failing(wire'))
      /\ wire \in Seq(Quiet) => wire' \in Seq(Quiet)
  <2>1. Frame(initial) \in Quiet /\ Frame(initial) \in Messages
    BY <1>1, SentMessages DEF ConnTypes
  <2> QED
    BY <1>1, <2>1, MessageSent DEF LoopTypes
<1> USE DEF readerVars, childVars, parserVars, screenVars, viewVars, inputVars
<1>3. ReaderTypes' /\ ConnTypes' /\ Registered' /\ SizeTaken'
  BY <1>1 DEF ReaderTypes, ConnTypes, Registered, SizeTaken
<1>4. /\ LoopTypes' /\ CommandLast' /\ Covers' /\ SizeRead' /\ MouseKnown'
      /\ ReplayQuiet' /\ HostInStep'
  BY <1>1, <1>2, LoopUndisturbed DEF LoopTypes
<1>5. SizeSent'
  BY <1>1, <1>2 DEF SizeSent
<1>6. KeyInv'
  BY <1>1, KeysUndisturbed DEF Lossless
<1> QED
  BY <1>3, <1>4, <1>5, <1>6

\* The writer task writes the head of the queue, and is done after an exit.
LEMMA WriteEventStep ==
    ASSUME IInv, WriteEvent
    PROVE  IInv'
<1> USE DEF IInv
<1> DEFINE e == Head(queue)
           m == IF e = ExitEvent THEN Answer("exit") ELSE Frame(e.frame)
<1>1. /\ UNCHANGED <<ReaderRest, screenVars, registered, viewVars, pending, requests,
                     actions, inputVars, overlay, outcome, initial, clientH, active,
                     delivered, modesReplayed, plan>>
      /\ conn = "open" /\ conn' \in {"open", "done"} /\ queue # <<>>
      /\ queue' = Tail(queue) /\ wire' = Append(wire, m)
  BY DEF WriteEvent, OutsideIdle
<1>2. e \in Events /\ queue' \in Seq(Events)
  BY <1>1, HeadTailProperties DEF ReaderTypes
<1>3. m \in Quiet /\ m \in Messages
  <2>1. CASE e = ExitEvent
    BY <2>1, SentMessages DEF Answers
  <2>2. CASE e # ExitEvent
    <3>1. e.frame \in Frames
      BY <1>2, <2>2 DEF Events
    <3> QED
      BY <2>2, <3>1, SentMessages
  <2> QED
    BY <2>1, <2>2
<1> HIDE DEF m
<1>4. /\ wire' \in Seq(Messages) /\ (Failing(wire) => Failing(wire'))
      /\ wire \in Seq(Quiet) => wire' \in Seq(Quiet)
  BY <1>1, <1>3, MessageSent DEF LoopTypes
<1> USE DEF ReaderRest, childVars, parserVars, screenVars, viewVars, inputVars
<1>5. ReaderTypes' /\ ConnTypes' /\ Registered' /\ SizeTaken'
  BY <1>1, <1>2 DEF ReaderTypes, ConnTypes, Registered, SizeTaken
<1>6. /\ LoopTypes' /\ CommandLast' /\ Covers' /\ SizeRead' /\ MouseKnown'
      /\ ReplayQuiet' /\ HostInStep'
  BY <1>1, <1>4, LoopUndisturbed DEF LoopTypes
<1>7. SizeSent'
  BY <1>1, <1>4 DEF SizeSent
<1>8. KeyInv'
  BY <1>1, KeysUndisturbed DEF Lossless
<1> QED
  BY <1>5, <1>6, <1>7, <1>8

\* The keys that were written to the PTY, as requests.
LEMMA KeyPassed ==
    ASSUME NEW d \in Seq(Nat), NEW n \in Nat
    PROVE  LET P(s) == [i \in DOMAIN s |-> Request("input", s[i])]
           IN  P(d) \in Seq(Requests) /\ P(Append(d, n)) = P(d) \o <<Request("input", n)>>
<1> DEFINE P(s) == [i \in DOMAIN s |-> Request("input", s[i])]
           new == Append(d, n)
           both == P(d) \o <<Request("input", n)>>
<1>1. \A k \in Nat : Request("input", k) \in Requests
  BY DEF Request, Requests
<1>2. ASSUME NEW s \in Seq(Nat) PROVE P(s) \in Seq(Requests) /\ Len(P(s)) = Len(s)
  <2>1. Len(s) \in Nat /\ DOMAIN s = 1 .. Len(s) /\ \A i \in 1 .. Len(s) : s[i] \in Nat
    BY LenProperties, ElementOfSeq
  <2> QED
    BY <1>1, <2>1
<1>3. /\ new \in Seq(Nat) /\ Len(new) = Len(d) + 1 /\ new[Len(d) + 1] = n
      /\ \A i \in 1 .. Len(d) : new[i] = d[i]
      /\ DOMAIN new = 1 .. Len(d) + 1 /\ DOMAIN d = 1 .. Len(d) /\ Len(d) \in Nat
  BY AppendProperties, LenProperties
<1> DEFINE last == Request("input", n)
<1>4. <<last>> \in Seq(Requests) /\ Len(<<last>>) = 1 /\ <<last>>[1] = last
  <2>1. last \in Requests
    BY <1>1
  <2> HIDE DEF last
  <2> QED
    BY <2>1
<1> HIDE DEF new
<1>5. /\ both \in Seq(Requests) /\ Len(both) = Len(d) + 1
      /\ \A i \in 1 .. Len(d) + 1 : both[i] = IF i <= Len(d) THEN P(d)[i] ELSE last
  <2>1. P(d) \in Seq(Requests) /\ Len(P(d)) = Len(d)
    BY <1>2
  <2> DEFINE q == P(d)
             r == <<last>>
  <2> HIDE DEF q, r
  <2>2. q \in Seq(Requests) /\ Len(q) = Len(d) /\ r \in Seq(Requests) /\ Len(r) = 1 /\ r[1] = last
    BY <1>4, <2>1 DEF q, r
  <2>3. /\ q \o r \in Seq(Requests) /\ Len(q \o r) = Len(d) + 1
        /\ \A i \in 1 .. Len(d) + 1 : (q \o r)[i] = IF i <= Len(d) THEN q[i] ELSE r[i - Len(d)]
    <3>1. /\ q \o r \in Seq(Requests) /\ Len(q \o r) = Len(q) + Len(r)
          /\ \A i \in 1 .. Len(q) + Len(r) :
               (q \o r)[i] = IF i <= Len(q) THEN q[i] ELSE r[i - Len(q)]
      BY <2>2, ConcatProperties
    <3> QED
      BY <2>2, <3>1
  <2>4. \A i \in 1 .. Len(d) + 1 : ~(i <= Len(d)) => i - Len(d) = 1
    BY <1>3
  <2> QED
    BY <2>2, <2>3, <2>4 DEF q, r
<1>6. P(new) \in Seq(Requests) /\ Len(P(new)) = Len(d) + 1
  BY <1>2, <1>3
<1>7. ASSUME NEW i \in 1 .. Len(d) + 1 PROVE P(new)[i] = both[i]
  <2>1. CASE i <= Len(d)
    <3>1. i \in 1 .. Len(d)
      BY <1>3, <2>1
    <3>2. P(new)[i] = Request("input", d[i]) /\ P(d)[i] = Request("input", d[i])
      BY <1>3, <3>1
    <3> QED
      BY <1>5, <2>1, <3>2
  <2>2. CASE ~(i <= Len(d))
    <3>1. i = Len(d) + 1
      BY <1>3, <2>2
    <3>2. P(new)[i] = last
      BY <1>3, <3>1
    <3> QED
      BY <1>5, <2>2, <3>2
  <2> QED
    BY <2>1, <2>2
<1> HIDE DEF both, P
<1>8. P(new) = both
  BY <1>3, <1>5, <1>6, <1>7, SeqEqual
<1>9. P(d) \in Seq(Requests)
  BY <1>2
<1> QED
  BY <1>8, <1>9 DEF both, new, P

\* A key that is handled is the oldest on its way; it is written to the PTY or, when
\* the session is over, dropped.
LEMMA KeyHandled ==
    ASSUME IInv, requests # <<>>, requests' = Tail(requests),
           UNCHANGED <<actions, prefix, typed, plain>>,
           Lossless' => Lossless,
           \/ /\ IsKey(Head(requests)) /\ delivered' = Append(delivered, Head(requests).n)
           \/ delivered' = delivered /\ (Lossless' => ~IsKey(Head(requests)))
    PROVE  KeyInv'
<1> USE DEF IInv, LoopTypes, ConnTypes, KeyInv, Ordered
<1> DEFINE m == Head(requests)
<1>1. m \in Requests /\ Increasing(Tail(requests)) /\ m.n \in Nat
  BY HeadTaken, KeyTaken DEF Requests
<1>2. Held' = Held
  BY DEF Held
<1>3. CASE IsKey(m) /\ delivered' = Append(delivered, m.n)
  <2>1. m = Request("input", m.n)
    BY <1>1, <1>3 DEF Request, Requests, IsKey
  <2>2. Passed \in Seq(Requests) /\ Passed' = Passed \o <<m>>
    BY <1>1, <1>3, <2>1, KeyPassed DEF Passed
  <2>3. /\ KeysOf(requests) = {m.n} \cup KeysOf(Tail(requests))
        /\ Below({m.n}, KeysOf(Tail(requests)))
    BY <1>3, KeyTaken
  <2>4. <<m>> \in Seq(Requests) /\ KeysOf(<<m>>) = {m.n} /\ Increasing(<<m>>)
    BY <1>1, <1>3, OneRequest
  <2> HIDE DEF m
  <2>5. KeysOf(Passed') = KeysOf(Passed) \cup {m.n} /\ Increasing(Passed')
    BY <2>2, <2>3, <2>4, KeysSent DEF Below
  <2>6. OnTheirWay' = OnTheirWay
    BY <2>3, <2>5 DEF OnTheirWay
  <2>7. Ordered(Passed, requests, actions, Held)'
    BY <1>1, <1>2, <2>3, <2>5 DEF Below
  <2> QED
    BY <1>2, <2>6, <2>7
<1>4. CASE delivered' = delivered /\ (Lossless' => ~IsKey(m))
  <2>1. Passed' = Passed
    BY <1>4 DEF Passed
  <2>2. KeysOf(requests') \subseteq KeysOf(requests)
        /\ (~IsKey(m) => KeysOf(requests') = KeysOf(requests))
    BY KeyTaken
  <2>3. Ordered(Passed, requests, actions, Held)'
    BY <1>1, <1>2, <2>1, <2>2 DEF Below
  <2>4. OnTheirWay' \subseteq OnTheirWay /\ (Lossless' => OnTheirWay' = OnTheirWay)
    BY <1>4, <2>1, <2>2 DEF OnTheirWay
  <2> QED
    BY <1>2, <2>3, <2>4
<1> QED
  BY <1>3, <1>4

\* A request is taken and answered.
LEMMA RequestAnswered ==
    ASSUME IInv, NEW k \in {"ok", "error"}, Answered(k),
           requests # <<>>, requests' = Tail(requests),
           UNCHANGED <<viewVars, pending, actions, inputVars, overlay, outcome, modesReplayed>>
    PROVE  /\ LoopTypes' /\ CommandLast' /\ Covers' /\ SizeRead' /\ MouseKnown'
           /\ ReplayQuiet' /\ HostInStep'
           /\ Failing(wire) \/ k = "error" => Failing(wire')
<1>1. wire' = Append(wire, Answer(k)) /\ wire \in Seq(Messages) /\ requests' \in Seq(Requests)
  BY HeadTaken DEF Answered, IInv, LoopTypes
<1>2. Answer(k) \in Quiet /\ Answer(k) \in Messages /\ Answer(k).k = k
  BY SentMessages DEF Answers, Answer
<1>3. /\ wire' \in Seq(Messages) /\ (Failing(wire) \/ k = "error" => Failing(wire'))
      /\ wire \in Seq(Quiet) => wire' \in Seq(Quiet)
  BY <1>1, <1>2, MessageSent
<1> QED
  BY <1>1, <1>3, LoopUndisturbed

\* A resize of the session by its active client.
LEMMA PtyResized ==
    ASSUME ReaderTypes, NEW h \in Height, ResizePty(h)
    PROVE  /\ screen' \in Screens /\ Len(screen'.main) = h
           /\ UNCHANGED <<scrollback, shape>>
  BY SetHeightSets DEF ReaderTypes, ResizePty

\* A key or a change of focus is handled.
LEMMA HandleInputStep ==
    ASSUME IInv, NEW command \in {"input", "focus"}, HandleInput(command)
    PROVE  IInv'
<1> USE DEF IInv
<1> DEFINE m == Head(requests)
<1>1. /\ conn \in {"open", "done"} /\ requests # <<>> /\ m.k = command
      /\ requests' = Tail(requests) /\ Answered("ok")
      /\ UNCHANGED <<ReaderRest, queue, viewVars, pending, actions, inputVars, overlay,
                     outcome, initial, modesReplayed, plan, conn, clientH, registered>>
  BY DEF HandleInput, Asked, HandleRest
<1>2. /\ LoopTypes' /\ CommandLast' /\ Covers' /\ SizeRead' /\ MouseKnown'
      /\ ReplayQuiet' /\ HostInStep' /\ (Failing(wire) => Failing(wire'))
  BY <1>1, RequestAnswered
<1>3. /\ clientH \in Height /\ m \in Requests /\ m.n \in Nat /\ delivered \in Seq(Nat)
      /\ IsKey(m) <=> command = "input"
  BY <1>1, HeadTaken DEF ConnTypes, LoopTypes, Requests, IsKey
<1> USE DEF ReaderRest, childVars, parserVars, viewVars, inputVars
<1>4. SizeSent'
  <2>1. Settles(requests, clientH, appRows) => Settles(requests', clientH, appRows)
    BY <1>1, SizeTakenFrom DEF LoopTypes
  <2> QED
    BY <1>1, <1>2, <2>1 DEF SizeSent
<1>5. CASE registered
  <2>1. /\ active' = TRUE /\ ResizePty(clientH)
        /\ delivered' = IF command = "input" THEN Append(delivered, m.n) ELSE delivered
    BY <1>5 DEF HandleInput
  <2>2. screen' \in Screens /\ Len(screen'.main) = clientH /\ UNCHANGED <<scrollback, shape>>
    BY <1>3, <2>1, PtyResized
  <2>3. delivered' \in Seq(Nat)
    BY <1>3, <2>1, AppendProperties
  <2>4. ReaderTypes' /\ ConnTypes' /\ Registered' /\ SizeTaken'
    BY <1>1, <2>1, <2>2, <2>3 DEF ReaderTypes, ConnTypes, Registered, SizeTaken
  <2>5. KeyInv'
    BY <1>1, <1>3, <2>1, KeyHandled DEF Lossless
  <2> QED
    BY <1>2, <1>4, <2>4, <2>5
<1>6. CASE ~registered
  <2>1. UNCHANGED <<active, screenVars, delivered>> /\ ~Lossless'
    BY <1>1, <1>6 DEF HandleInput, Registered, Lossless
  <2>2. ReaderTypes' /\ ConnTypes' /\ Registered' /\ SizeTaken'
    BY <1>1, <2>1 DEF ReaderTypes, ConnTypes, Registered, SizeTaken, screenVars
  <2>3. KeyInv'
    BY <1>1, <2>1, KeyHandled
  <2> QED
    BY <1>2, <1>4, <2>2, <2>3
<1> QED
  BY <1>5, <1>6

\* A resize is handled, or refused with an error.
LEMMA HandleResizeStep ==
    ASSUME IInv, HandleResize
    PROVE  IInv'
<1> USE DEF IInv
<1> DEFINE h == Head(requests).n
<1>1. /\ conn \in {"open", "done"} /\ requests # <<>> /\ Head(requests).k = "resize"
      /\ requests' = Tail(requests)
      /\ UNCHANGED <<ReaderRest, queue, viewVars, pending, actions, inputVars, overlay,
                     outcome, initial, modesReplayed, plan, conn, active, delivered,
                     registered>>
  BY DEF HandleResize, Asked, HandleRest
<1>2. h \in Height /\ IsKey(Head(requests)) = FALSE
  BY <1>1, HeadTaken DEF LoopTypes, Requests, IsKey
<1> USE DEF ReaderRest, childVars, parserVars, viewVars, inputVars
<1>3. KeyInv'
  BY <1>1, <1>2, KeyHandled DEF Lossless
<1>4. CASE ValidSize(h) /\ registered
  <2>1. /\ clientH' = h /\ Answered("ok")
        /\ IF active THEN ResizePty(h) ELSE UNCHANGED screenVars
    BY <1>4 DEF HandleResize
  <2>2. /\ LoopTypes' /\ CommandLast' /\ Covers' /\ SizeRead' /\ MouseKnown'
        /\ ReplayQuiet' /\ HostInStep' /\ (Failing(wire) => Failing(wire'))
    BY <1>1, <2>1, RequestAnswered
  <2>3. /\ screen' \in Screens /\ (active => Len(screen'.main) = h)
        /\ UNCHANGED <<scrollback, shape>>
    BY <1>2, <2>1, PtyResized DEF ReaderTypes, screenVars
  <2>4. ReaderTypes' /\ ConnTypes' /\ Registered' /\ SizeTaken'
    BY <1>1, <1>2, <2>1, <2>3 DEF ReaderTypes, ConnTypes, Registered, SizeTaken, Height
  <2>5. SizeSent'
    <3>1. Settles(requests, clientH, appRows) => Settles(requests', h, appRows)
      BY <1>1, SizeTakenFrom DEF LoopTypes
    <3> QED
      BY <1>1, <2>1, <2>2, <3>1 DEF SizeSent
  <2> QED
    BY <1>3, <2>2, <2>4, <2>5
<1>5. CASE ~(ValidSize(h) /\ registered)
  <2>1. UNCHANGED <<clientH, screenVars>> /\ Answered("error")
    BY <1>5 DEF HandleResize
  <2>2. /\ LoopTypes' /\ CommandLast' /\ Covers' /\ SizeRead' /\ MouseKnown'
        /\ ReplayQuiet' /\ HostInStep' /\ Failing(wire')
    BY <1>1, <2>1, RequestAnswered
  <2>3. ReaderTypes' /\ ConnTypes' /\ Registered' /\ SizeTaken' /\ SizeSent'
    BY <1>1, <2>1, <2>2 DEF ReaderTypes, ConnTypes, Registered, SizeTaken, SizeSent, screenVars
  <2> QED
    BY <1>3, <2>2, <2>3
<1> QED
  BY <1>4, <1>5

\* The client detaches.
LEMMA HandleDetachStep ==
    ASSUME IInv, HandleDetach
    PROVE  IInv'
<1> USE DEF IInv
<1>1. /\ conn \in {"open", "done"} /\ requests # <<>> /\ Head(requests).k = "detach"
      /\ requests' = Tail(requests) /\ Answered("ok") /\ conn' = "closed"
      /\ registered' = FALSE /\ active' = FALSE
      /\ UNCHANGED <<ReaderRest, queue, viewVars, pending, actions, inputVars, overlay,
                     outcome, initial, modesReplayed, plan, screenVars, clientH, delivered>>
  BY DEF HandleDetach, Asked, HandleRest
<1> USE DEF ReaderRest, childVars, parserVars, screenVars, viewVars, inputVars
<1>2. /\ LoopTypes' /\ CommandLast' /\ Covers' /\ SizeRead' /\ MouseKnown'
      /\ ReplayQuiet' /\ HostInStep'
  BY <1>1, RequestAnswered
<1>3. ReaderTypes' /\ ConnTypes' /\ Registered' /\ SizeTaken' /\ SizeSent'
  BY <1>1 DEF ReaderTypes, ConnTypes, Registered, SizeTaken, SizeSent
<1>4. KeyInv'
  <2>1. ~Lossless' /\ ~IsKey(Head(requests))
    BY <1>1 DEF Lossless, IsKey
  <2> QED
    BY <1>1, <2>1, KeyHandled
<1> QED
  BY <1>2, <1>3, <1>4

\* The connection ends.
LEMMA ClosedStep ==
    ASSUME IInv, Disconnect \/ CutOff
    PROVE  IInv'
<1> USE DEF IInv
<1>1. /\ conn' = "closed" /\ registered' = FALSE /\ active' = FALSE
      /\ UNCHANGED <<ReaderRest, screenVars, queue, loopVars, initial, clientH, delivered,
                     modesReplayed, plan>>
      /\ conn # "none"
  BY DEF Disconnect, CutOff, OutsideIdle, Event, Attached
<1> USE DEF ReaderRest, childVars, parserVars, screenVars, loopVars, viewVars, inputVars
<1>2. /\ LoopTypes' /\ CommandLast' /\ Covers' /\ SizeRead' /\ MouseKnown'
      /\ ReplayQuiet' /\ HostInStep'
  BY <1>1, LoopUndisturbed DEF LoopTypes
<1>3. ReaderTypes' /\ ConnTypes' /\ Registered' /\ SizeTaken' /\ SizeSent'
  BY <1>1 DEF ReaderTypes, ConnTypes, Registered, SizeTaken, SizeSent
<1>4. KeyInv'
  BY <1>1, KeysUndisturbed DEF Lossless
<1> QED
  BY <1>2, <1>3, <1>4

\* Another client resizes the session.
LEMMA OtherClientStep ==
    ASSUME IInv, OtherClient
    PROVE  IInv'
<1> USE DEF IInv
<1>1. /\ active' = FALSE
      /\ UNCHANGED <<ReaderRest, registered, queue, loopVars, conn, initial, clientH,
                     delivered, modesReplayed, plan>>
  BY DEF OtherClient, Event
<1>2. PICK h \in plan.heights : ResizePty(h)
  BY DEF OtherClient
<1>3. h \in Height
  BY <1>2, ViewAssumption DEF ConnTypes
<1>4. screen' \in Screens /\ UNCHANGED <<scrollback, shape>>
  BY <1>2, <1>3, PtyResized
<1> USE DEF ReaderRest, childVars, parserVars, loopVars, viewVars, inputVars
<1>5. /\ LoopTypes' /\ CommandLast' /\ Covers' /\ SizeRead' /\ MouseKnown'
      /\ ReplayQuiet' /\ HostInStep'
  BY <1>1, LoopUndisturbed DEF LoopTypes
<1>6. ReaderTypes' /\ ConnTypes' /\ Registered' /\ SizeTaken' /\ SizeSent'
  BY <1>1, <1>4 DEF ReaderTypes, ConnTypes, Registered, SizeTaken, SizeSent
<1>7. KeyInv'
  BY <1>1, KeysUndisturbed DEF Lossless
<1> QED
  BY <1>5, <1>6, <1>7

-----------------------------------------------------------------------------
(* The client's side.                                                      *)

\* It leaves the daemon alone.
LEMMA DaemonUndisturbed ==
    ASSUME IInv, Attached, UNCHANGED <<readerVars, connVars, plan>>
    PROVE  ReaderTypes' /\ ConnTypes' /\ Registered' /\ SizeTaken'
  BY DEF IInv, Attached, readerVars, childVars, parserVars, screenVars, connVars,
         ReaderTypes, ConnTypes, Registered, SizeTaken

\* A step that draws nothing and does not make a size known.
LEMMA NothingDrawn ==
    ASSUME IInv, UNCHANGED <<host, bar, renderer, modesReplayed>>,
           Running' => Running, Running' /\ SizesKnown' => SizesKnown
    PROVE  HostInStep' /\ MouseKnown'
  BY DEF IInv, HostInStep, MouseKnown

\* The reader reads keys, or passes a prefix through: of what it sends and holds
\* back, everything was held back before or is new.
LEMMA KeysRead ==
    ASSUME IInv, NEW more \in Seq(Requests), actions' = actions \o more,
           UNCHANGED <<delivered, requests>>, Lossless' => Lossless,
           typed' \in Nat, typed <= typed',
           \A n \in KeysOf(more) \cup Held' : n \in Held \/ (n \in Nat /\ typed < n /\ n <= typed'),
           Increasing(more), Below(KeysOf(more), Held'), plain' \subseteq plain \cup KeysOf(more)
    PROVE  KeyInv'
<1> USE DEF IInv, LoopTypes, KeyInv, Ordered
<1>0. Passed' = Passed
  BY DEF Passed
<1>1. \A n \in Held \cup OnTheirWay : n \in Nat
  <2>1. \A n \in Held : n \in Nat
    BY ElementOfSeq DEF Held
  <2>2. Passed \in Seq(Requests)
    BY KeyPassed DEF Passed, ConnTypes
  <2>3. \A q \in Seq(Requests) : \A n \in KeysOf(q) : n \in Nat
    BY ElementOfSeq DEF KeysOf, Requests
  <2> QED
    BY <2>1, <2>2, <2>3 DEF OnTheirWay
<1>2. Below(KeysOf(actions), KeysOf(more))
  BY <1>1 DEF Below, OnTheirWay
<1>3. KeysOf(actions') = KeysOf(actions) \cup KeysOf(more) /\ Increasing(actions')
  BY <1>2, KeysSent
<1>4. OnTheirWay' = OnTheirWay \cup KeysOf(more)
  BY <1>0, <1>3 DEF OnTheirWay
<1>5. Ordered(Passed, requests, actions, Held)'
  <2>1. \A m \in KeysOf(Passed), n \in KeysOf(more) \cup Held' : m < n
    BY <1>1 DEF Below, OnTheirWay
  <2>2. \A m \in KeysOf(requests), n \in KeysOf(more) \cup Held' : m < n
    BY <1>1 DEF Below, OnTheirWay
  <2>3. \A m \in KeysOf(actions), n \in Held' : m < n
    BY <1>1 DEF Below, OnTheirWay
  <2> QED
    BY <1>0, <1>3, <2>1, <2>2, <2>3 DEF Below
<1>6. \A n \in OnTheirWay' \cup Held' \cup plain' : n <= typed'
  <2>1. ASSUME NEW n \in OnTheirWay \cup Held \cup plain PROVE n <= typed'
    <3>1. n \in Nat /\ n <= typed
      BY <1>1
    <3> QED
      BY <3>1
  <2> QED
    BY <1>1, <1>4, <2>1
<1>7. plain' \cap Held' = {}
  <2>1. \A n \in plain : n \notin Held'
    BY <1>1
  <2>2. \A n \in KeysOf(more) : n \notin Held'
    BY <1>1 DEF Below
  <2> QED
    BY <2>1, <2>2
<1>8. Lossless' => plain' \subseteq OnTheirWay'
  BY <1>4
<1> QED
  BY <1>5, <1>6, <1>7, <1>8

\* The reader sends at most one command, and that is the last it does.
LEMMA ActionsQueued ==
    ASSUME IInv, reading, NEW more \in Seq(Requests), actions' = actions \o more,
           \/ \A i \in DOMAIN more : more[i].k \notin Commands
           \/ ~reading' /\ Len(more) = 1
    PROVE  CommandLast'
<1> DEFINE m == Len(actions)
           new == actions'
<1>0. m = Len(actions) /\ new = actions \o more /\ actions \in Seq(Requests)
  BY DEF IInv, LoopTypes
<1> HIDE DEF m, new
<1>1. /\ new \in Seq(Requests) /\ m \in Nat /\ DOMAIN actions = 1 .. m
      /\ \A i \in DOMAIN new : \/ i \in DOMAIN actions /\ new[i] = actions[i]
                               \/ \E j \in DOMAIN more : i = j + m /\ new[i] = more[j]
  BY <1>0, Joined
<1>2. \A i \in DOMAIN actions : actions[i].k \notin Commands
  BY DEF IInv, CommandLast
<1>3. Len(new) = m + Len(more) /\ DOMAIN more = 1 .. Len(more)
  BY <1>0, ConcatProperties, LenProperties
<1>4. ASSUME NEW i \in DOMAIN new, new[i].k \in Commands
      PROVE  i = Len(new) /\ ~reading'
  <2>1. PICK j \in DOMAIN more : i = j + m /\ new[i] = more[j]
    BY <1>1, <1>2, <1>4
  <2>2. ~reading' /\ Len(more) = 1
    BY <1>4, <2>1
  <2> QED
    BY <1>1, <1>3, <2>1, <2>2
<1> QED
  BY <1>4 DEF CommandLast, new

\* What the reader sends is no resize: then the loop will know the size as before.
LEMMA ReaderSends ==
    ASSUME IInv, Attached, UNCHANGED <<readerVars, connVars, plan>>, reading, ReaderUnchanged,
           NEW more \in Seq(Requests), actions' = actions \o more, NoSize(more),
           \/ \A i \in DOMAIN more : more[i].k \notin Commands
           \/ ~reading' /\ Len(more) = 1,
           typed' \in Nat, typed <= typed',
           \A n \in KeysOf(more) \cup Held' : n \in Held \/ (n \in Nat /\ typed < n /\ n <= typed'),
           Increasing(more), Below(KeysOf(more), Held'), plain' \subseteq plain \cup KeysOf(more),
           prefix' \in Seq(Nat), Len(prefix') <= 1
    PROVE  IInv'
<1>1. /\ UNCHANGED <<viewVars, wire, pending, requests, overlay, outcome>>
      /\ actions \in Seq(Requests) /\ overlay = "none"
  BY DEF ReaderUnchanged, IInv, LoopTypes, Covers
<1>2. ReaderTypes' /\ ConnTypes' /\ Registered' /\ SizeTaken'
  BY DaemonUndisturbed
<1>3. CommandLast'
  BY ActionsQueued
<1>4. KeyInv'
  <2>1. (Lossless' => Lossless) /\ UNCHANGED <<delivered, requests>>
    BY <1>1 DEF Lossless, readerVars, connVars
  <2> QED
    BY <2>1, KeysRead
<1> USE DEF viewVars
<1>5. LoopTypes'
  <2>1. \A n \in KeysOf(more) : n \in Nat
    BY ElementOfSeq DEF KeysOf, Requests
  <2>2. actions' \in Seq(Requests)
    BY <1>1, KeysSent
  <2>3. plain' \in SUBSET Nat
    BY <2>1 DEF IInv, LoopTypes
  <2> QED
    BY <1>1, <2>2, <2>3 DEF IInv, LoopTypes
<1>6. Covers'
  BY <1>1 DEF Covers
<1>7. SizeRead'
  <2>1. Settles(actions, screenH, Len(host.rows)) => Settles(actions', screenH, Len(host.rows))
    BY <1>1, SizesSent
  <2> QED
    BY <1>1, <2>1 DEF IInv, SizeRead, Running
<1>8. SizeSent' /\ ReplayQuiet'
  BY <1>1 DEF IInv, SizeSent, ReplayQuiet, connVars, readerVars
<1>9. HostInStep' /\ MouseKnown'
  <2>1. NoSize(actions') => NoSize(actions)
    BY <1>1, SizesSent
  <2>2. SizesKnown' => SizesKnown
    BY <1>1, <2>1 DEF SizesKnown, NoSize
  <2> QED
    BY <1>1, <2>2, NothingDrawn DEF Running, connVars
<1> QED
  BY <1>2, <1>3, <1>4, <1>5, <1>6, <1>7, <1>8, <1>9 DEF IInv

\* A prefix that is passed through.
LEMMA PrefixKeys ==
    ASSUME IInv
    PROVE  /\ PrefixInput \in Seq(Requests) /\ \A i \in DOMAIN PrefixInput : IsKey(PrefixInput[i])
           /\ KeysOf(PrefixInput) = Held /\ Increasing(PrefixInput) /\ ToSet(prefix) = Held
           /\ \A n \in Held : n \in Nat /\ n <= typed
<1>1. /\ Len(prefix) \in Nat /\ DOMAIN prefix = 1 .. Len(prefix) /\ Len(prefix) <= 1
      /\ \A i \in DOMAIN prefix : prefix[i] \in Nat
  BY LenProperties, ElementOfSeq DEF IInv, LoopTypes
<1>2. \A i \in DOMAIN prefix : /\ Request("input", prefix[i]) \in Requests
                               /\ Request("input", prefix[i]).k = "input"
                               /\ Request("input", prefix[i]).n = prefix[i]
  BY <1>1 DEF Request, Requests
<1>3. PrefixInput \in Seq(Requests) /\ DOMAIN PrefixInput = 1 .. Len(prefix)
      /\ \A i \in DOMAIN prefix : /\ PrefixInput[i].k = "input" /\ PrefixInput[i].n = prefix[i]
  BY <1>1, <1>2 DEF PrefixInput
<1>4. \A n \in Held : n \in Nat /\ n <= typed
  BY <1>1 DEF IInv, KeyInv, Held
<1> QED
  BY <1>1, <1>3, <1>4 DEF KeysOf, Increasing, Held, ToSet, IsKey

\* Keys are neither sizes nor commands.
LEMMA KeysOnly ==
    ASSUME NEW q, \A i \in DOMAIN q : IsKey(q[i])
    PROVE  NoSize(q) /\ \A i \in DOMAIN q : q[i].k \notin Commands
  BY DEF NoSize, IsKey, Commands

\* A new key after the prefix.
LEMMA PrefixAndKey ==
    ASSUME IInv, NEW n \in Nat, typed < n, NEW both, both = PrefixInput \o <<Request("input", n)>>
    PROVE  /\ both \in Seq(Requests) /\ \A i \in DOMAIN both : IsKey(both[i])
           /\ KeysOf(both) = Held \cup {n} /\ Increasing(both)
<1> DEFINE last == Request("input", n)
           one == <<last>>
           m == Len(PrefixInput)
<1>1. last \in Requests /\ IsKey(last) /\ last.n = n
  BY DEF Request, Requests, IsKey
<1>2. /\ one \in Seq(Requests) /\ KeysOf(one) = {n} /\ Increasing(one)
      /\ \A i \in DOMAIN one : IsKey(one[i])
  <2> HIDE DEF last
  <2> QED
    BY <1>1, OneRequest
<1>3. Below(Held, {n})
  BY PrefixKeys DEF IInv, LoopTypes, Below
<1>4. both = PrefixInput \o one /\ m = Len(PrefixInput)
  OBVIOUS
<1> HIDE DEF one, m
<1>5. KeysOf(both) = Held \cup {n} /\ Increasing(both) /\ both \in Seq(Requests)
  BY <1>2, <1>3, <1>4, PrefixKeys, KeysSent
<1>6. \A i \in DOMAIN both : \/ i \in DOMAIN PrefixInput /\ both[i] = PrefixInput[i]
                             \/ \E j \in DOMAIN one : i = j + m /\ both[i] = one[j]
  BY <1>2, <1>4, PrefixKeys, Joined
<1>7. \A i \in DOMAIN both : IsKey(both[i])
  BY <1>2, <1>6, PrefixKeys
<1> QED
  BY <1>5, <1>7

\* Keys that are no command, a prefix that timed out, and the timeout.
LEMMA PlainKeyStep ==
    ASSUME IInv, Attached, UNCHANGED <<readerVars, connVars, plan>>,
           NEW silent \in BOOLEAN, PlainKey(silent)
    PROVE  IInv'
<1> DEFINE n == typed + 1
           more == PrefixInput \o KeyInput(silent)
<1>1. /\ reading /\ typed' = n /\ ReaderUnchanged /\ reading' = reading
      /\ actions' = actions \o more /\ prefix' = <<>>
      /\ plain' = plain \cup Known(silent)
  BY DEF PlainKey, ReadsKey, Send, ClearPrefix
<1>2. n \in Nat /\ typed < n /\ typed <= n /\ n <= n
  BY DEF IInv, LoopTypes
<1>3. /\ more \in Seq(Requests) /\ \A i \in DOMAIN more : IsKey(more[i])
      /\ KeysOf(more) = (IF silent THEN Held ELSE Held \cup {n}) /\ Increasing(more)
  <2>1. CASE silent
    <3>1. more = PrefixInput
      BY <2>1, PrefixKeys, ConcatEmptySeq DEF KeyInput
    <3> QED
      BY <2>1, <3>1, PrefixKeys
  <2>2. CASE ~silent
    <3>1. more = PrefixInput \o <<Request("input", n)>>
      BY <1>1, <2>2 DEF KeyInput
    <3> HIDE DEF more, n
    <3> QED
      BY <1>2, <2>2, <3>1, PrefixAndKey
  <2> QED
    BY <2>1, <2>2
<1>4. Held' = {} /\ prefix' \in Seq(Nat) /\ Len(prefix') <= 1
  BY <1>1, EmptySeq DEF Held
<1>5. plain' \subseteq plain \cup KeysOf(more)
  BY <1>1, <1>3, PrefixKeys DEF Known
<1> HIDE DEF more, n
<1>6. \A k \in KeysOf(more) \cup Held' : k \in Held \/ (k \in Nat /\ typed < k /\ k <= typed')
  BY <1>1, <1>2, <1>3, <1>4
<1>7. Below(KeysOf(more), Held')
  BY <1>4 DEF Below
<1>8. NoSize(more) /\ \A i \in DOMAIN more : more[i].k \notin Commands
  BY <1>3, KeysOnly
<1> QED
  BY <1>1, <1>2, <1>3, <1>4, <1>5, <1>6, <1>7, <1>8, ReaderSends

\* An idle tick passes a prefix through that waited too long.
LEMMA IdleTickStep ==
    ASSUME IInv, Attached, UNCHANGED <<readerVars, connVars, plan>>, IdleTick
    PROVE  IInv'
<1> DEFINE more == PrefixInput
<1>1. /\ reading /\ typed' = typed /\ ReaderUnchanged /\ reading' = reading
      /\ actions' = actions \o more /\ prefix' = <<>>
      /\ plain' = plain \cup ToSet(prefix)
  BY DEF IdleTick, Send, ClearPrefix
<1>2. typed' \in Nat /\ typed <= typed'
  BY <1>1 DEF IInv, LoopTypes
<1>3. /\ more \in Seq(Requests) /\ \A i \in DOMAIN more : IsKey(more[i])
      /\ KeysOf(more) = Held /\ Increasing(more) /\ plain' \subseteq plain \cup KeysOf(more)
  BY <1>1, PrefixKeys
<1>4. Held' = {} /\ prefix' \in Seq(Nat) /\ Len(prefix') <= 1
  BY <1>1, EmptySeq DEF Held
<1> HIDE DEF more
<1>5. \A k \in KeysOf(more) \cup Held' : k \in Held \/ (k \in Nat /\ typed < k /\ k <= typed')
  BY <1>3, <1>4
<1>6. Below(KeysOf(more), Held')
  BY <1>4 DEF Below
<1>7. NoSize(more) /\ \A i \in DOMAIN more : more[i].k \notin Commands
  BY <1>3, KeysOnly
<1> QED
  BY <1>1, <1>2, <1>3, <1>4, <1>5, <1>6, <1>7, ReaderSends

\* A prefix that waited too long is marked late, and nothing is sent.
LEMMA PrefixTimesOutStep ==
    ASSUME IInv, Attached, UNCHANGED <<readerVars, connVars, plan>>, PrefixTimesOut
    PROVE  IInv'
<1>1. /\ UNCHANGED <<viewVars, wire, pending, requests, overlay, outcome, actions, reading,
                     prefix, typed, plain>>
  BY DEF PrefixTimesOut, ReaderUnchanged
<1>2. ReaderTypes' /\ ConnTypes' /\ Registered' /\ SizeTaken'
  BY DaemonUndisturbed
<1>3. KeyInv'
  BY <1>1, KeysUndisturbed DEF Lossless, readerVars, connVars
<1> USE DEF viewVars
<1>4. LoopTypes' /\ CommandLast' /\ Covers' /\ SizeRead'
  BY <1>1 DEF IInv, LoopTypes, CommandLast, Covers, SizeRead, Running
<1>5. SizeSent' /\ ReplayQuiet'
  BY <1>1 DEF IInv, SizeSent, ReplayQuiet, connVars, readerVars
<1>6. HostInStep' /\ MouseKnown'
  BY <1>1, NothingDrawn DEF Running, SizesKnown, connVars
<1> QED
  BY <1>2, <1>3, <1>4, <1>5, <1>6 DEF IInv

\* The prefix key is kept back; a second one is a key for the session.
LEMMA PrefixKeyStep ==
    ASSUME IInv, Attached, UNCHANGED <<readerVars, connVars, plan>>, PrefixKey
    PROVE  IInv'
<1> DEFINE n == typed + 1
<1>1. reading /\ typed' = n /\ ReaderUnchanged /\ reading' = reading
  BY DEF PrefixKey, ReadsKey
<1>2. n \in Nat /\ typed < n /\ typed <= n /\ n <= n
  BY DEF IInv, LoopTypes
<1>3. CASE Waiting
  <2> DEFINE more == PrefixInput \o <<Request("input", n)>>
  <2>1. /\ actions' = actions \o more /\ prefix' = <<>>
        /\ plain' = plain \cup ToSet(prefix) \cup {n}
    <3>1. Request("input", n) \in Requests
      BY <1>2 DEF Request, Requests
    <3>2. Append(PrefixInput, Request("input", n)) = more
      BY <3>1, PrefixKeys, AppendIsConcat
    <3> QED
      BY <1>1, <1>3, <3>2 DEF PrefixKey, Send, ClearPrefix
  <2> DEFINE both == more
  <2>2. /\ more \in Seq(Requests) /\ \A i \in DOMAIN more : IsKey(more[i])
        /\ KeysOf(more) = Held \cup {n} /\ Increasing(more)
    <3>1. both = PrefixInput \o <<Request("input", n)>>
      OBVIOUS
    <3> HIDE DEF both, n
    <3>2. /\ both \in Seq(Requests) /\ \A i \in DOMAIN both : IsKey(both[i])
          /\ KeysOf(both) = Held \cup {n} /\ Increasing(both)
      BY <1>2, <3>1, PrefixAndKey
    <3> QED
      BY <3>2 DEF both
  <2>3. Held' = {} /\ prefix' \in Seq(Nat) /\ Len(prefix') <= 1
    BY <2>1, EmptySeq DEF Held
  <2>4. plain' \subseteq plain \cup KeysOf(more)
    BY <2>1, <2>2, PrefixKeys
  <2> HIDE DEF more, n
  <2>5. \A k \in KeysOf(more) \cup Held' : k \in Held \/ (k \in Nat /\ typed < k /\ k <= typed')
    BY <1>1, <1>2, <2>2, <2>3
  <2>6. Below(KeysOf(more), Held')
    BY <2>3 DEF Below
  <2>7. NoSize(more) /\ \A i \in DOMAIN more : more[i].k \notin Commands
    BY <2>2, KeysOnly
  <2> QED
    BY <1>1, <1>2, <2>1, <2>2, <2>3, <2>4, <2>5, <2>6, <2>7, ReaderSends
<1>4. CASE ~Waiting
  <2> DEFINE more == PrefixInput
  <2>1. /\ actions' = actions \o more /\ prefix' = <<n>>
        /\ plain' = plain \cup ToSet(prefix)
    BY <1>1, <1>4 DEF PrefixKey, Send
  <2>2. /\ more \in Seq(Requests) /\ \A i \in DOMAIN more : IsKey(more[i])
        /\ KeysOf(more) = Held /\ Increasing(more) /\ plain' \subseteq plain \cup KeysOf(more)
    BY <2>1, PrefixKeys
  <2> HIDE DEF n, more
  <2>3. Held' = {n} /\ prefix' \in Seq(Nat) /\ Len(prefix') <= 1
    BY <1>2, <2>1 DEF Held
  <2>4. \A k \in KeysOf(more) \cup Held' : k \in Held \/ (k \in Nat /\ typed < k /\ k <= typed')
    BY <1>1, <1>2, <2>2, <2>3
  <2>5. Below(KeysOf(more), Held')
    <3>1. \A k \in Held : k \in Nat /\ k <= typed
      BY PrefixKeys
    <3>2. typed \in Nat
      BY DEF IInv, LoopTypes
    <3> QED
      BY <1>2, <2>2, <2>3, <3>1, <3>2 DEF Below
  <2>6. NoSize(more) /\ \A i \in DOMAIN more : more[i].k \notin Commands
    BY <2>2, KeysOnly
  <2> QED
    BY <1>1, <1>2, <2>1, <2>2, <2>3, <2>4, <2>5, <2>6, ReaderSends
<1> QED
  BY <1>3, <1>4

\* A command key: the prefix is gone, the command goes to the loop.
LEMMA CommandKeyStep ==
    ASSUME IInv, Attached, UNCHANGED <<readerVars, connVars, plan>>,
           NEW command \in Commands, CommandKey(command)
    PROVE  IInv'
<1> DEFINE m == Request(command, 0)
           more == <<m>>
<1>1. /\ reading /\ typed' = typed + 1 /\ ReaderUnchanged /\ reading' = FALSE
      /\ actions' = actions \o more /\ prefix' = <<>> /\ plain' = plain
  BY DEF CommandKey, ReadsKey, Send, ClearPrefix
<1>2. m \in Requests /\ m.k # "resize" /\ ~IsKey(m)
  BY DEF Request, Requests, Commands, IsKey
<1> HIDE DEF m
<1>3. /\ more \in Seq(Requests) /\ KeysOf(more) = {} /\ Increasing(more) /\ NoSize(more)
      /\ Len(more) = 1
  BY <1>2, OneRequest
<1>4. typed' \in Nat /\ typed <= typed'
  BY <1>1 DEF IInv, LoopTypes
<1>5. Held' = {} /\ prefix' \in Seq(Nat) /\ Len(prefix') <= 1
  BY <1>1, EmptySeq DEF Held
<1> HIDE DEF more
<1>6. Below(KeysOf(more), Held')
  BY <1>5 DEF Below
<1>7. \A k \in KeysOf(more) \cup Held' : k \in Held \/ (k \in Nat /\ typed < k /\ k <= typed')
  BY <1>3, <1>5
<1> QED
  BY <1>1, <1>3, <1>4, <1>5, <1>6, <1>7, ReaderSends

\* A focus report is queued behind what is there.
LEMMA ReadFocusStep ==
    ASSUME IInv, Attached, UNCHANGED <<readerVars, connVars, plan>>, ReadFocus
    PROVE  IInv'
<1> DEFINE m == Request("focus", 0)
           more == <<m>>
<1>1. /\ reading /\ ReaderUnchanged /\ actions' = actions \o more
      /\ UNCHANGED <<reading, prefix, typed, plain>>
  BY DEF ReadFocus, Send, inputVars
<1>2. m \in Requests /\ m.k # "resize" /\ m.k \notin Commands /\ ~IsKey(m)
  BY DEF Request, Requests, Commands, IsKey
<1> HIDE DEF m
<1>3. /\ more \in Seq(Requests) /\ KeysOf(more) = {} /\ Increasing(more) /\ NoSize(more)
      /\ \A i \in DOMAIN more : more[i].k \notin Commands
  BY <1>2, OneRequest
<1>4. typed' \in Nat /\ typed <= typed' /\ prefix' \in Seq(Nat) /\ Len(prefix') <= 1
  BY <1>1 DEF IInv, LoopTypes
<1>5. Held' = Held
  BY <1>1 DEF Held
<1> HIDE DEF more
<1>6. Below(KeysOf(more), Held')
  BY <1>3 DEF Below
<1>7. \A k \in KeysOf(more) \cup Held' : k \in Held \/ (k \in Nat /\ typed < k /\ k <= typed')
  BY <1>3, <1>5
<1> QED
  BY <1>1, <1>3, <1>4, <1>6, <1>7, ReaderSends

\* The reader reads a resize: the loop will learn the terminal's size.
LEMMA ReadResizeStep ==
    ASSUME IInv, Attached, UNCHANGED <<readerVars, connVars, plan>>, ReadResize
    PROVE  IInv'
<1> DEFINE H == Len(host.rows)
           m == Request("resize", H)
           more == <<m>>
<1>1. /\ reading /\ actions' = actions \o more
      /\ UNCHANGED <<host, screenH, appRows, bar, renderer, lastFrame, wire, pending,
                     requests, inputVars, overlay, outcome>>
  BY DEF ReadResize, Send
<1>2. H \in Height /\ actions \in Seq(Requests) /\ overlay = "none"
  BY <1>1, HeightOfRows DEF IInv, LoopTypes, Hosts, Covers
<1> HIDE DEF H
<1>3. m \in Requests /\ m.k = "resize" /\ m.k \notin Commands /\ ~IsKey(m) /\ m.n = H
  BY <1>2 DEF Request, Requests, Commands, IsKey, Height
<1> HIDE DEF m
<1>4. /\ more \in Seq(Requests) /\ KeysOf(more) = {} /\ Increasing(more) /\ EndsAt(more, H)
      /\ \A i \in DOMAIN more : more[i].k \notin Commands
  BY <1>3, OneRequest
<1> HIDE DEF more
<1>5. ReaderTypes' /\ ConnTypes' /\ Registered' /\ SizeTaken'
  BY DaemonUndisturbed
<1> USE DEF inputVars
<1>6. CommandLast'
  BY <1>1, <1>4, ActionsQueued
<1>7. KeyInv'
  <2>1. Held' = Held /\ typed' = typed /\ typed \in Nat /\ typed <= typed /\ plain' = plain
    BY <1>1 DEF Held, IInv, LoopTypes
  <2>2. (Lossless' => Lossless) /\ UNCHANGED <<delivered, requests>>
    BY <1>1 DEF Lossless, readerVars, connVars
  <2>3. Below(KeysOf(more), Held')
    BY <1>4 DEF Below
  <2> QED
    BY <1>1, <1>4, <2>1, <2>2, <2>3, KeysRead
<1>8. LoopTypes' /\ Covers'
  <2>1. actions' \in Seq(Requests)
    BY <1>1, <1>2, <1>4, KeysSent
  <2> QED
    BY <1>1, <1>2, <2>1 DEF IInv, LoopTypes, Covers
<1>9. SizeRead'
  <2>1. Settles(actions', screenH, H)
    BY <1>1, <1>2, <1>4, SizesSent
  <2> QED
    BY <1>1, <2>1 DEF IInv, SizeRead, H
<1>10. SizeSent' /\ ReplayQuiet'
  BY <1>1 DEF IInv, SizeSent, ReplayQuiet, connVars, readerVars
<1>11. HostInStep' /\ MouseKnown'
  <2>1. ~NoSize(more)
    BY <1>4 DEF EndsAt, NoSize
  <2>2. ~SizesKnown'
    BY <1>1, <1>2, <1>4, <2>1, SizesSent DEF SizesKnown, NoSize
  <2> QED
    BY <1>1, <2>2, NothingDrawn DEF Running, connVars
<1> QED
  BY <1>5, <1>6, <1>7, <1>8, <1>9, <1>10, <1>11 DEF IInv

\* The loop takes an action; if it is a command, it was the last.
LEMMA ActionTaken ==
    ASSUME IInv, actions # <<>>, actions' = Tail(actions),
           reading' = reading \/ Head(actions).k \in Commands
    PROVE  /\ CommandLast' /\ actions' \in Seq(Requests) /\ Head(actions) \in Requests
           /\ Head(actions).k \in Commands => actions' = <<>> /\ ~reading
<1>1. actions \in Seq(Requests)
  BY DEF IInv, LoopTypes
<1>2. CASE Head(actions).k \in Commands
  <2>1. Len(actions) = 1 /\ ~reading
    BY <1>1, <1>2, HeadTaken DEF IInv, CommandLast
  <2>2. actions' \in Seq(Requests) /\ Len(actions') = 0
    BY <1>1, <2>1, HeadTaken
  <2>3. actions' = <<>>
    BY <2>2, EmptySeq
  <2> QED
    BY <1>1, <2>1, <2>3, HeadTaken DEF CommandLast
<1>3. CASE Head(actions).k \notin Commands
  <2> DEFINE q == Tail(actions)
  <2>1. /\ q \in Seq(Requests) /\ Len(q) = Len(actions) - 1 /\ Len(actions) \in Nat
        /\ \A i \in DOMAIN q : i + 1 \in DOMAIN actions /\ q[i] = actions[i + 1]
        /\ DOMAIN q = 1 .. (Len(actions) - 1)
    BY <1>1, HeadTaken
  <2> HIDE DEF q
  <2>2. ASSUME NEW i \in DOMAIN q, q[i].k \in Commands PROVE i = Len(q) /\ ~reading'
    <3>1. i + 1 = Len(actions) /\ ~reading
      BY <2>1, <2>2 DEF IInv, CommandLast
    <3> QED
      BY <1>3, <2>1, <3>1
  <2> QED
    BY <1>1, <1>3, <2>1, <2>2, HeadTaken DEF CommandLast, q
<1> QED
  BY <1>2, <1>3

\* A key it passes on stays in its place.
LEMMA KeyForwarded ==
    ASSUME IInv, actions # <<>>, actions' = Tail(actions),
           NEW m \in Requests, requests' = Append(requests, m),
           IsKey(Head(actions)) <=> IsKey(m), IsKey(m) => m = Head(actions),
           UNCHANGED <<delivered, prefix, typed, plain>>, Lossless' => Lossless
    PROVE  KeyInv' /\ requests' \in Seq(Requests)
<1> USE DEF IInv, LoopTypes, KeyInv, Ordered
<1>1. Passed' = Passed /\ Held' = Held
  BY DEF Passed, Held
<1>2. requests' = requests \o <<m>>
  BY AppendIsConcat
<1>3. /\ <<m>> \in Seq(Requests) /\ Increasing(<<m>>)
      /\ KeysOf(<<m>>) = IF IsKey(m) THEN {m.n} ELSE {}
  BY OneRequest
<1>4. /\ Increasing(actions')
      /\ KeysOf(actions) = KeysOf(<<m>>) \cup KeysOf(actions')
      /\ Below(KeysOf(<<m>>), KeysOf(actions'))
  <2>1. /\ Increasing(Tail(actions))
        /\ ~IsKey(Head(actions)) => KeysOf(Tail(actions)) = KeysOf(actions)
        /\ IsKey(Head(actions)) => /\ KeysOf(actions) = {Head(actions).n} \cup KeysOf(Tail(actions))
                                   /\ Below({Head(actions).n}, KeysOf(Tail(actions)))
    BY KeyTaken
  <2>2. CASE IsKey(m)
    <3>1. KeysOf(<<m>>) = {Head(actions).n}
      BY <1>3, <2>2
    <3> QED
      BY <2>1, <2>2, <3>1
  <2>3. CASE ~IsKey(m)
    <3>1. KeysOf(<<m>>) = {}
      BY <1>3, <2>3
    <3> QED
      BY <2>1, <2>3, <3>1 DEF Below
  <2> QED
    BY <2>2, <2>3
<1> DEFINE one == <<m>>
<1> HIDE DEF one
<1>5. /\ KeysOf(requests') = KeysOf(requests) \cup KeysOf(one) /\ Increasing(requests')
      /\ requests' \in Seq(Requests)
  <2>1. Below(KeysOf(requests), KeysOf(one))
    BY <1>4 DEF Below, one
  <2> QED
    BY <1>2, <1>3, <2>1, KeysSent DEF one
<1>6. OnTheirWay' = OnTheirWay
  BY <1>1, <1>4, <1>5 DEF OnTheirWay, one
<1>7. Ordered(Passed, requests, actions, Held)'
  BY <1>1, <1>4, <1>5 DEF Below, one
<1> QED
  BY <1>1, <1>5, <1>6, <1>7

\* What is no key does not count.
LEMMA ActionDone ==
    ASSUME IInv, actions # <<>>, actions' = Tail(actions), ~IsKey(Head(actions)),
           UNCHANGED <<delivered, requests, prefix, typed, plain>>, Lossless' => Lossless
    PROVE  KeyInv'
<1> USE DEF IInv, LoopTypes, KeyInv, Ordered
<1>1. Passed' = Passed /\ Held' = Held
  BY DEF Passed, Held
<1>2. Increasing(actions') /\ KeysOf(actions') = KeysOf(actions)
  BY KeyTaken
<1>3. OnTheirWay' = OnTheirWay
  BY <1>1, <1>2 DEF OnTheirWay
<1> QED
  BY <1>1, <1>2, <1>3

\* Keys and changes of focus are passed on.
LEMMA PassOnStep ==
    ASSUME IInv, Attached, UNCHANGED <<readerVars, connVars, plan>>,
           NEW command \in {"input", "focus"}, PassOn(command)
    PROVE  IInv'
<1> DEFINE m == Head(actions)
<1>1. /\ Running /\ actions # <<>> /\ m.k = command /\ actions' = Tail(actions)
      /\ requests' = Append(requests, m)
      /\ UNCHANGED <<viewVars, wire, pending, inputVars, overlay, outcome>>
  BY DEF PassOn, Acts
<1> USE DEF viewVars, inputVars
<1>2. /\ CommandLast' /\ actions' \in Seq(Requests) /\ m \in Requests
  BY <1>1, ActionTaken
<1>3. ReaderTypes' /\ ConnTypes' /\ Registered' /\ SizeTaken'
  BY DaemonUndisturbed
<1>4. KeyInv' /\ requests' \in Seq(Requests)
  BY <1>1, <1>2, KeyForwarded DEF Lossless, readerVars, connVars
<1>5. LoopTypes' /\ Covers'
  BY <1>1, <1>2, <1>4 DEF IInv, LoopTypes, Covers, Running
<1>6. SizeRead'
  <2>1. Settles(actions, screenH, Len(host.rows)) => Settles(actions', screenH, Len(host.rows))
    BY <1>1, SizeTakenFrom DEF IInv, LoopTypes
  <2> QED
    BY <1>1, <2>1 DEF IInv, SizeRead, Running
<1>7. SizeSent' /\ ReplayQuiet'
  <2>1. Settles(requests, clientH, appRows) => Settles(requests', clientH, appRows)
    <3>1. requests \in Seq(Requests) /\ requests' = requests \o <<m>>
      BY <1>1, <1>2, AppendIsConcat DEF IInv, LoopTypes
    <3>2. <<m>> \in Seq(Requests) /\ NoSize(<<m>>)
      BY <1>1, <1>2, OneRequest
    <3> QED
      BY <3>1, <3>2, SizesSent
  <2> QED
    BY <1>1, <2>1 DEF IInv, SizeSent, ReplayQuiet, connVars, readerVars
<1>8. HostInStep' /\ MouseKnown'
  <2>1. NoSize(actions') => NoSize(actions)
    BY <1>1, NoSizeLeft DEF IInv, LoopTypes
  <2>2. SizesKnown' => SizesKnown
    BY <1>1, <2>1 DEF SizesKnown, NoSize
  <2> QED
    BY <1>1, <2>2, NothingDrawn DEF Running, connVars
<1> QED
  BY <1>2, <1>3, <1>4, <1>5, <1>6, <1>7, <1>8 DEF IInv

\* A resize: the daemon will learn the area's size.
LEMMA ResizeStep ==
    ASSUME IInv, Attached, UNCHANGED <<readerVars, connVars, plan>>, Resize
    PROVE  IInv'
<1> DEFINE h == Head(actions).n
           m == Request("resize", AreaHeight(h))
<1>1. /\ Running /\ actions # <<>> /\ Head(actions).k = "resize" /\ actions' = Tail(actions)
      /\ screenH' = h /\ appRows' = AreaHeight(h) /\ requests' = Append(requests, m)
      /\ host' = DrawBar(host, bar, h) /\ renderer' = Reset(renderer)
      /\ UNCHANGED <<winch, bar, lastFrame, wire, pending, inputVars, overlay, outcome>>
  BY DEF Resize, Acts
<1> USE DEF inputVars
<1>2. /\ CommandLast' /\ actions' \in Seq(Requests) /\ Head(actions) \in Requests
  BY <1>1, ActionTaken
<1>3. h \in Height /\ AreaHeight(h) \in Height
  BY <1>1, <1>2, AreaIsHeight DEF Requests
<1>4. m \in Requests /\ ~IsKey(m) /\ m.k = "resize" /\ m.n = AreaHeight(h)
  BY <1>3 DEF Requests, Request, IsKey, Height
<1>5. ReaderTypes' /\ ConnTypes' /\ Registered' /\ SizeTaken'
  BY DaemonUndisturbed
<1>6. KeyInv' /\ requests' \in Seq(Requests)
  <2>1. ~IsKey(Head(actions))
    BY <1>1 DEF IsKey
  <2> HIDE DEF m
  <2> QED
    BY <1>1, <1>2, <1>4, <2>1, KeyForwarded DEF Lossless, readerVars, connVars
<1>7. /\ host' \in Hosts /\ Len(host'.rows) = Len(host.rows) /\ host'.mouse = host.mouse
  BY <1>1, <1>3, BarDrawn DEF IInv, LoopTypes
<1>8. /\ renderer' \in Renderers /\ renderer'.mouse = renderer.mouse
      /\ renderer'.previous = NoFrame
  BY <1>1 DEF IInv, LoopTypes, Renderers, Reset, Drawable
<1>9. LoopTypes' /\ Covers'
  BY <1>1, <1>2, <1>3, <1>6, <1>7, <1>8 DEF IInv, LoopTypes, Covers, Running
<1>10. SizeRead'
  <2>1. Settles(actions, screenH, Len(host.rows)) => Settles(actions', h, Len(host.rows))
    BY <1>1, SizeTakenFrom DEF IInv, LoopTypes
  <2> QED
    BY <1>1, <1>7, <2>1 DEF IInv, SizeRead, Running
<1>11. SizeSent' /\ ReplayQuiet'
  <2>1. Settles(requests', clientH, AreaHeight(h))
    <3>1. requests \in Seq(Requests) /\ requests' = requests \o <<m>>
      BY <1>1, <1>4, AppendIsConcat DEF IInv, LoopTypes
    <3> HIDE DEF m
    <3>2. <<m>> \in Seq(Requests) /\ EndsAt(<<m>>, AreaHeight(h))
      BY <1>4, OneRequest
    <3> QED
      BY <3>1, <3>2, SizesSent
  <2> QED
    BY <1>1, <2>1 DEF IInv, SizeSent, ReplayQuiet, connVars, readerVars
<1>12. HostInStep' /\ MouseKnown'
  BY <1>7, <1>8 DEF IInv, HostInStep, MouseKnown, connVars
<1> QED
  BY <1>2, <1>5, <1>6, <1>9, <1>10, <1>11, <1>12 DEF IInv

\* The attachment ends: what is on its way no longer counts.
LEMMA EndedStep ==
    ASSUME IInv, Attached, UNCHANGED <<readerVars, connVars, plan>>,
           outcome' # "none", reading' = FALSE, UNCHANGED <<viewVars, prefix, late, typed, plain>>,
           wire' \in Seq(Messages), pending' \in Seq(Messages),
           wire \in Seq(Quiet) /\ pending \in Seq(Quiet)
             => wire' \in Seq(Quiet) /\ pending' \in Seq(Quiet),
           requests' \in Seq(Requests), actions' \in Seq(Requests),
           CommandLast', overlay' # "none" => actions' = <<>>, KeyInv'
    PROVE  IInv'
<1> USE DEF viewVars
<1>1. ReaderTypes' /\ ConnTypes' /\ Registered' /\ SizeTaken'
  BY DaemonUndisturbed
<1>2. LoopTypes' /\ Covers' /\ SizeRead' /\ SizeSent'
  BY DEF IInv, LoopTypes, Covers, SizeRead, SizeSent, Running
<1>3. HostInStep' /\ MouseKnown' /\ ReplayQuiet'
  BY DEF IInv, HostInStep, MouseKnown, ReplayQuiet, Running, connVars
<1> QED
  BY <1>1, <1>2, <1>3 DEF IInv

\* The next message, pending or from the wire.
LEMMA Popped ==
    ASSUME IInv, NEW k, Incoming(k)
    PROVE  /\ Head(pending \o wire) \in Messages /\ Head(pending \o wire).k = k
           /\ wire' \in Seq(Messages) /\ pending' \in Seq(Messages)
           /\ k # "error" /\ (Failing(pending) \/ Failing(wire)) => Failing(pending') \/ Failing(wire')
           /\ wire \in Seq(Quiet) /\ pending \in Seq(Quiet) =>
                /\ Head(pending \o wire) \in Quiet
                /\ wire' \in Seq(Quiet) /\ pending' \in Seq(Quiet)
<1>1. /\ pending \in Seq(Messages) /\ wire \in Seq(Messages) /\ pending \o wire # <<>>
      /\ Head(pending \o wire).k = k
      /\ IF pending # <<>> THEN pending' = Tail(pending) /\ wire' = wire
         ELSE wire' = Tail(wire) /\ pending' = pending
  BY DEF IInv, LoopTypes, Incoming, Pop
<1>2. CASE pending # <<>>
  <2> DEFINE both == pending \o wire
             m == Len(pending)
  <2>1. both = pending \o wire /\ m = Len(pending)
    OBVIOUS
  <2>2. 1 \in DOMAIN pending /\ Head(pending) = pending[1]
    BY <1>1, <1>2, EmptySeq, LenProperties
  <2> HIDE DEF both, m
  <2>3. Head(both) = both[1]
    <3>1. both \in Seq(Messages) /\ both # <<>>
      BY <1>1, <2>1, Joined
    <3> QED
      BY <3>1
  <2>4. both[1] = pending[1]
    BY <1>1, <2>1, <2>2, Joined
  <2>5. Head(pending \o wire) = Head(pending)
    BY <2>1, <2>2, <2>3, <2>4
  <2> QED
    BY <1>1, <1>2, <2>5, MessageTaken
<1>3. CASE pending = <<>>
  <2>1. pending \o wire = wire
    BY <1>1, <1>3, ConcatEmptySeq
  <2> QED
    BY <1>1, <1>3, <2>1, MessageTaken
<1> QED
  BY <1>2, <1>3

\* The loop ends on Exit and on Error.
LEMMA TakeEndStep ==
    ASSUME IInv, Attached, UNCHANGED <<readerVars, connVars, plan>>, TakeEnd
    PROVE  IInv'
<1>1. PICK k \in {"exit", "error"} : Incoming(k)
  BY DEF TakeEnd
<1>2. /\ outcome' = "Ended" /\ reading' = FALSE
      /\ UNCHANGED <<viewVars, requests, actions, prefix, late, overlay, typed, plain>>
  BY DEF TakeEnd, Ends, EndsWith
<1>3. CommandLast' /\ (overlay' # "none" => actions' = <<>>)
  BY <1>2 DEF IInv, CommandLast, Covers
<1>4. KeyInv'
  BY <1>2, KeysUndisturbed DEF Lossless, connVars
<1>5. requests' \in Seq(Requests) /\ actions' \in Seq(Requests) /\ outcome' # "none"
  BY <1>2 DEF IInv, LoopTypes
<1> QED
  BY <1>1, <1>2, <1>3, <1>4, <1>5, Popped, EndedStep

\* The loop ends when the connection does.
LEMMA StreamEndsStep ==
    ASSUME IInv, Attached, UNCHANGED <<readerVars, connVars, plan>>, StreamEnds(Closed)
    PROVE  IInv'
<1>1. /\ outcome' = "Ended" /\ reading' = FALSE
      /\ UNCHANGED <<viewVars, wire, pending, requests, actions, prefix, late, overlay, typed, plain>>
  BY DEF StreamEnds, Ends, EndsWith
<1>2. CommandLast' /\ (overlay' # "none" => actions' = <<>>)
  BY <1>1 DEF IInv, CommandLast, Covers
<1>3. KeyInv'
  BY <1>1, KeysUndisturbed DEF Lossless, connVars
<1>4. requests' \in Seq(Requests) /\ actions' \in Seq(Requests) /\ outcome' # "none"
      /\ wire' \in Seq(Messages) /\ pending' \in Seq(Messages)
  BY <1>1 DEF IInv, LoopTypes
<1> QED
  BY <1>1, <1>2, <1>3, <1>4, EndedStep

\* The loop sends Detach and ends.
LEMMA DetachStep ==
    ASSUME IInv, Attached, UNCHANGED <<readerVars, connVars, plan>>, Detach
    PROVE  IInv'
<1> DEFINE m == Request("detach", 0)
<1>1. /\ actions # <<>> /\ Head(actions).k = "detach" /\ actions' = Tail(actions)
      /\ requests' = Append(requests, m) /\ outcome = "none"
      /\ outcome' = "Detached" /\ reading' = FALSE /\ outcome' # "none"
      /\ UNCHANGED <<viewVars, wire, pending, prefix, late, typed, plain, overlay>>
  BY DEF Detach, Acts, EndsWith, Running
<1>2. m \in Requests /\ ~IsKey(m) /\ ~IsKey(Head(actions)) /\ Head(actions).k \in Commands
  BY <1>1 DEF Request, Requests, Commands, IsKey
<1> HIDE DEF m
<1>3. CommandLast' /\ actions' = <<>> /\ actions' \in Seq(Requests)
  BY <1>1, <1>2, ActionTaken
<1>4. KeyInv' /\ requests' \in Seq(Requests)
  BY <1>1, <1>2, KeyForwarded DEF Lossless, readerVars, connVars
<1>5. wire' \in Seq(Messages) /\ pending' \in Seq(Messages)
  BY <1>1 DEF IInv, LoopTypes
<1> QED
  BY <1>1, <1>3, <1>4, <1>5, EndedStep

\* A switch ends the loop when it finds another session, and repaints otherwise.
LEMMA SwitchSessionStep ==
    ASSUME IInv, Attached, UNCHANGED <<readerVars, connVars, plan>>,
           NEW found \in BOOLEAN, SwitchSession(found)
    PROVE  IInv'
<1>1. /\ Running /\ actions # <<>> /\ Head(actions).k = "switch" /\ actions' = Tail(actions)
      /\ UNCHANGED <<viewVars, wire, pending, requests, prefix, late, typed, plain, overlay>>
  BY DEF SwitchSession, Acts
<1>2. ~IsKey(Head(actions)) /\ Head(actions).k \in Commands /\ Head(actions).k # "resize"
  BY <1>1 DEF Commands, IsKey
<1>3. CommandLast' /\ actions' = <<>> /\ actions' \in Seq(Requests)
  BY <1>1, <1>2, ActionTaken
<1>4. Lossless' => Lossless
  BY <1>1 DEF Lossless, Running, readerVars, connVars
<1>5. KeyInv'
  BY <1>1, <1>2, <1>4, ActionDone DEF connVars
<1>6. /\ wire' \in Seq(Messages) /\ pending' \in Seq(Messages) /\ requests' \in Seq(Requests)
  BY <1>1 DEF IInv, LoopTypes
<1>7. CASE found
  <2>1. outcome' # "none" /\ reading' = FALSE
    BY <1>7 DEF SwitchSession, EndsWith
  <2> QED
    BY <1>1, <1>3, <1>5, <1>6, <2>1, EndedStep
<1>8. CASE ~found
  <2>1. outcome' = outcome /\ overlay = "none"
    BY <1>1, <1>8 DEF SwitchSession, Running
  <2> USE DEF viewVars
  <2>2. ReaderTypes' /\ ConnTypes' /\ Registered' /\ SizeTaken'
    BY DaemonUndisturbed
  <2>3. LoopTypes' /\ Covers' /\ SizeSent' /\ ReplayQuiet'
    BY <1>1, <1>3, <2>1 DEF IInv, LoopTypes, Covers, SizeSent, ReplayQuiet, connVars, readerVars
  <2>4. SizeRead'
    <3>1. Settles(actions, screenH, Len(host.rows)) => Settles(actions', screenH, Len(host.rows))
      BY <1>1, <1>2, SizeTakenFrom DEF IInv, LoopTypes
    <3> QED
      BY <1>1, <2>1, <3>1 DEF IInv, SizeRead, Running
  <2>5. HostInStep' /\ MouseKnown'
    <3>1. NoSize(actions') => NoSize(actions)
      BY <1>1, <1>2, NoSizeLeft DEF IInv, LoopTypes
    <3>2. SizesKnown' => SizesKnown
      BY <1>1, <3>1 DEF SizesKnown, NoSize
    <3> QED
      BY <1>1, <3>2, NothingDrawn DEF Running, connVars
  <2> QED
    BY <1>3, <1>5, <2>2, <2>3, <2>4, <2>5 DEF IInv
<1> QED
  BY <1>7, <1>8

-----------------------------------------------------------------------------
(* Overlays.                                                               *)

\* The list ends the loop when a session is chosen.
LEMMA LeaveOverlayStep ==
    ASSUME IInv, Attached, UNCHANGED <<readerVars, connVars, plan>>, LeaveOverlay
    PROVE  IInv'
<1>1. /\ outcome' = "SwitchTo" /\ reading' = FALSE /\ overlay' = "none"
      /\ UNCHANGED <<viewVars, wire, pending, requests, actions, prefix, late, typed, plain>>
  BY DEF LeaveOverlay, EndsWith
<1>2. CommandLast'
  BY <1>1 DEF IInv, CommandLast
<1>3. KeyInv'
  BY <1>1, KeysUndisturbed DEF Lossless, connVars
<1>4. requests' \in Seq(Requests) /\ actions' \in Seq(Requests) /\ outcome' # "none"
      /\ wire' \in Seq(Messages) /\ pending' \in Seq(Messages)
  BY <1>1 DEF IInv, LoopTypes
<1> QED
  BY <1>1, <1>2, <1>3, <1>4, EndedStep

\* An overlay covers the terminal; the loop rests until it closes.
LEMMA OpenOverlayStep ==
    ASSUME IInv, Attached, UNCHANGED <<readerVars, connVars, plan>>,
           NEW what \in {"help", "list"}, OpenOverlay(what)
    PROVE  IInv'
<1>1. /\ Running /\ actions # <<>> /\ Head(actions).k = what /\ actions' = Tail(actions)
      /\ overlay' = what /\ host' = Raw(host, <<>>)
      /\ UNCHANGED <<winch, screenH, appRows, bar, renderer, lastFrame, wire, pending,
                     requests, inputVars, outcome>>
  BY DEF OpenOverlay, Acts, Covered
<1> USE DEF inputVars
<1>2. ~IsKey(Head(actions)) /\ Head(actions).k \in Commands
  BY <1>1 DEF Commands, IsKey
<1>3. CommandLast' /\ actions' = <<>> /\ actions' \in Seq(Requests) /\ ~reading
  BY <1>1, <1>2, ActionTaken
<1>4. KeyInv'
  <2>1. Lossless' => Lossless
    BY <1>1 DEF Lossless, readerVars, connVars
  <2> QED
    BY <1>1, <1>2, <2>1, ActionDone DEF connVars
<1>5. ReaderTypes' /\ ConnTypes' /\ Registered' /\ SizeTaken'
  BY DaemonUndisturbed
<1>6. host' \in Hosts /\ Len(host'.rows) = Len(host.rows) /\ host'.mouse = host.mouse
  <2>1. DOMAIN <<>> = {}
    OBVIOUS
  <2> QED
    BY <1>1, <2>1, RawKeeps DEF IInv, LoopTypes
<1>7. LoopTypes' /\ Covers' /\ SizeSent' /\ ReplayQuiet'
  BY <1>1, <1>3, <1>6 DEF IInv, LoopTypes, Covers, SizeSent, ReplayQuiet, connVars, readerVars
<1>8. SizeRead' /\ HostInStep' /\ MouseKnown'
  BY <1>1, <1>6 DEF IInv, SizeRead, HostInStep, MouseKnown, Running, connVars
<1> QED
  BY <1>3, <1>4, <1>5, <1>7, <1>8 DEF IInv

\* An overlay reads a resize itself, and sends nothing of it before it closes.
LEMMA OverlayReadsResizeStep ==
    ASSUME IInv, Attached, UNCHANGED <<readerVars, connVars, plan>>, OverlayReadsResize
    PROVE  IInv'
<1>1. /\ overlay # "none"
      /\ UNCHANGED <<host, screenH, appRows, bar, renderer, lastFrame, wire, pending, requests,
                     actions, inputVars, overlay, outcome>>
  BY DEF OverlayReadsResize
<1> USE DEF inputVars
<1>2. ReaderTypes' /\ ConnTypes' /\ Registered' /\ SizeTaken'
  BY DaemonUndisturbed
<1>3. KeyInv'
  BY <1>1, KeysUndisturbed DEF Lossless, connVars, readerVars
<1>4. LoopTypes' /\ Covers' /\ CommandLast' /\ SizeSent' /\ ReplayQuiet'
  BY <1>1 DEF IInv, LoopTypes, Covers, CommandLast, SizeSent, ReplayQuiet, connVars, readerVars
<1>5. SizeRead' /\ HostInStep' /\ MouseKnown'
  BY <1>1 DEF IInv, SizeRead, HostInStep, MouseKnown, Running, connVars
<1> QED
  BY <1>2, <1>3, <1>4, <1>5 DEF IInv

\* The bar leaves a frame that is shown as it is.
LEMMA BarOverFrame ==
    ASSUME NEW t \in Hosts, NEW f, Shows(t, f), NEW items \in Nat, NEW h, h = Len(t.rows)
    PROVE  LET u == DrawBar(t, items, h)
           IN  /\ Shows(u, f)
               /\ BarActive(Len(u.rows)) /\ items # 0 => u.rows[Len(u.rows)] = BarOf(items)
<1> DEFINE u == DrawBar(t, items, h)
<1>1. h \in Height
  BY HeightOfRows DEF Hosts
<1>2. /\ Len(u.rows) = h /\ u.shape = t.shape
      /\ \A r \in 1 .. AreaHeight(h) : u.rows[r] = t.rows[r]
      /\ BarActive(h) /\ items # 0 => u.rows[h] = BarOf(items)
  BY <1>1, BarDrawn
<1> HIDE DEF u
<1> QED
  BY <1>2 DEF Shows, u

\* A frame is drawn, and the bar over it: the terminal is in step if it was, or if
\* the frame was drawn in full.
LEMMA FrameDrawn ==
    ASSUME LoopTypes, NEW r \in Renderers, NEW f \in Frames, NEW h \in Height,
           renderer' = Rendered(f), host' = DrawBar(Render(host, r, f), bar, h), bar' = bar,
           modesReplayed' = modesReplayed,
           ~modesReplayed => r.mouse = host.mouse,
           r.previous # NoFrame => r.mouse = r.previous.mouse,
           Running' /\ SizesKnown' =>
             h = Len(host.rows) /\ (r.previous # NoFrame => Shows(host, r.previous))
    PROVE  /\ host' \in Hosts /\ Len(host'.rows) = Len(host.rows) /\ renderer' \in Renderers
           /\ HostInStep' /\ MouseKnown'
<1> DEFINE t == Render(host, r, f)
<1>1. host \in Hosts /\ bar \in Nat
  BY DEF LoopTypes
<1>2. /\ t \in Hosts /\ Len(t.rows) = Len(host.rows)
      /\ (r.previous # NoFrame => Shows(host, r.previous)) => Shows(t, f)
      /\ ~modesReplayed => t.mouse = f.mouse
  BY <1>1, Renders
<1> HIDE DEF t
<1>3. host' = DrawBar(t, bar, h)
  BY DEF t
<1>4. host' \in Hosts /\ Len(host'.rows) = Len(t.rows) /\ host'.mouse = t.mouse
  BY <1>1, <1>2, <1>3, BarDrawn
<1>5. /\ renderer' \in Renderers /\ renderer'.previous = f /\ renderer'.mouse = f.mouse
      /\ f # NoFrame
  BY FrameOf DEF Rendered, Renderers, Drawable, Frames
<1>6. MouseKnown'
  BY <1>2, <1>4, <1>5 DEF MouseKnown
<1>7. ASSUME Running', SizesKnown'
      PROVE  /\ Shows(host', f)
             /\ BarActive(Len(host'.rows)) /\ bar # 0 => host'.rows[Len(host'.rows)] = BarOf(bar)
  <2>1. h = Len(t.rows) /\ Shows(t, f)
    BY <1>2, <1>7
  <2> QED
    BY <1>1, <1>2, <1>3, <2>1, BarOverFrame
<1>8. HostInStep'
  <2>1. ~modesReplayed => host'.mouse = f.mouse
    BY <1>2, <1>4
  <2>2. Running' /\ renderer'.previous # NoFrame /\ SizesKnown' =>
         /\ Shows(host', renderer'.previous)
         /\ BarActive(Len(host'.rows)) /\ bar' # 0 => host'.rows[Len(host'.rows)] = BarOf(bar')
         /\ ~modesReplayed' => host'.mouse = renderer'.previous.mouse
    BY <1>5, <1>7, <2>1
  <2> QED
    BY <2>2 DEF HostInStep, Shows
<1> QED
  BY <1>2, <1>4, <1>5, <1>6, <1>8

\* A closing overlay sends the size it found, and the view is drawn anew.
LEMMA CloseOverlayStep ==
    ASSUME IInv, Attached, UNCHANGED <<readerVars, connVars, plan>>, CloseOverlay
    PROVE  IInv'
<1> DEFINE H == Len(host.rows)
           m == Request("resize", AreaHeight(H))
<1>1. /\ overlay # "none" /\ overlay' = "none" /\ screenH' = H /\ appRows' = AreaHeight(H)
      /\ requests' = Append(requests, m)
      /\ UNCHANGED <<winch, bar, lastFrame, wire, pending, actions, prefix, late, typed, plain,
                     outcome>>
  BY DEF CloseOverlay
<1>2. /\ host \in Hosts /\ H \in Height /\ AreaHeight(H) \in Height /\ bar \in Nat
      /\ renderer \in Renderers
  BY HeightOfRows, AreaIsHeight DEF IInv, LoopTypes, Hosts
<1>3. actions = <<>>
  BY <1>1 DEF IInv, Covers
<1>4. /\ host' \in Hosts /\ Len(host'.rows) = H /\ renderer' \in Renderers
      /\ HostInStep' /\ MouseKnown'
  <2> DEFINE r == Reset(renderer)
  <2>1. r \in Renderers /\ r.previous = NoFrame /\ r.mouse = renderer.mouse
    BY <1>2 DEF Reset, Renderers, Drawable
  <2>2. UNCHANGED modesReplayed /\ (~modesReplayed => renderer.mouse = host.mouse)
    BY DEF IInv, MouseKnown, connVars
  <2> HIDE DEF r
  <2>3. CASE lastFrame = NoFrame
    <3> DEFINE t == Cleared(host)
    <3>1. renderer' = r /\ host' = DrawBar(t, bar, H)
      BY <1>1, <2>3 DEF CloseOverlay, r
    <3>2. t \in Hosts /\ Len(t.rows) = H /\ t.mouse = host.mouse
      <4>1. Blanks(H) \in Rows /\ Len(Blanks(H)) = H
        BY <1>2, RowsOf DEF Blanks, Blank
      <4> QED
        BY <1>2, <4>1 DEF Cleared, Hosts
    <3> HIDE DEF t
    <3>3. host' \in Hosts /\ Len(host'.rows) = H /\ host'.mouse = host.mouse
      BY <1>2, <3>1, <3>2, BarDrawn
    <3>4. HostInStep' /\ MouseKnown'
      BY <2>1, <2>2, <3>1, <3>3 DEF HostInStep, MouseKnown
    <3> QED
      BY <2>1, <3>1, <3>3, <3>4
  <2>4. CASE lastFrame # NoFrame
    <3>1. lastFrame \in Frames
      BY <2>4 DEF IInv, LoopTypes, Drawable
    <3>2. renderer' = Rendered(lastFrame) /\ host' = DrawBar(Render(host, r, lastFrame), bar, H)
      BY <1>1, <2>4 DEF CloseOverlay, r
    <3> QED
      BY <1>1, <1>2, <2>1, <2>2, <3>1, <3>2, FrameDrawn DEF IInv
  <2> QED
    BY <2>3, <2>4
<1> HIDE DEF H
<1>5. m \in Requests /\ m.k = "resize" /\ m.n = AreaHeight(H) /\ ~IsKey(m)
  BY <1>2 DEF Request, Requests, IsKey, Height
<1> HIDE DEF m
<1>6. /\ requests \in Seq(Requests) /\ <<m>> \in Seq(Requests) /\ requests' = requests \o <<m>>
      /\ KeysOf(<<m>>) = {} /\ Increasing(<<m>>) /\ EndsAt(<<m>>, AreaHeight(H))
  <2>1. requests \in Seq(Requests)
    BY DEF IInv, LoopTypes
  <2> QED
    BY <1>1, <1>5, <2>1, AppendIsConcat, OneRequest
<1> DEFINE one == <<m>>
<1> HIDE DEF one
<1>7. /\ requests' \in Seq(Requests) /\ KeysOf(requests') = KeysOf(requests)
      /\ Increasing(requests) => Increasing(requests')
      /\ Settles(requests', clientH, AreaHeight(H))
  <2>1. Below(KeysOf(requests), KeysOf(one))
    BY <1>6 DEF Below, one
  <2>2. /\ requests \in Seq(Requests) /\ one \in Seq(Requests) /\ requests' = requests \o one
        /\ KeysOf(one) = {} /\ Increasing(one) /\ EndsAt(one, AreaHeight(H))
    BY <1>6 DEF one
  <2>3. /\ requests' \in Seq(Requests) /\ KeysOf(requests') = KeysOf(requests) \cup {}
        /\ Increasing(requests) => Increasing(requests')
    BY <2>1, <2>2, KeysSent
  <2>4. Settles(requests', clientH, AreaHeight(H))
    BY <2>2, SizesSent
  <2> QED
    BY <2>3, <2>4
<1>8. KeyInv'
  <2>1. Passed' = Passed /\ Held' = Held /\ (Lossless' => Lossless)
    BY <1>1 DEF Passed, Held, Lossless, readerVars, connVars
  <2>2. OnTheirWay' = OnTheirWay
    BY <1>1, <1>7, <2>1 DEF OnTheirWay
  <2> QED
    BY <1>1, <1>7, <2>1, <2>2 DEF IInv, KeyInv, Ordered
<1>9. ReaderTypes' /\ ConnTypes' /\ Registered' /\ SizeTaken'
  BY DaemonUndisturbed
<1>10. LoopTypes' /\ Covers' /\ ReplayQuiet'
  BY <1>1, <1>2, <1>4, <1>7 DEF IInv, LoopTypes, Covers, ReplayQuiet, connVars
<1>11. CommandLast' /\ SizeRead'
  <2>1. CommandLast'
    BY <1>1, <1>3 DEF CommandLast
  <2>2. NoSize(actions')
    BY <1>1, <1>3 DEF NoSize
  <2> QED
    BY <1>1, <1>4, <2>1, <2>2 DEF SizeRead, Settles
<1>12. SizeSent'
  BY <1>1, <1>7 DEF SizeSent, connVars, readerVars
<1> QED
  BY <1>4, <1>8, <1>9, <1>10, <1>11, <1>12 DEF IInv

-----------------------------------------------------------------------------
(* What the loop draws.                                                    *)

\* A reply takes its place in the stream and shows nothing.
LEMMA TakeOkStep ==
    ASSUME IInv, Attached, UNCHANGED <<readerVars, connVars, plan>>, TakeOk
    PROVE  IInv'
<1>1. /\ Incoming("ok") /\ UNCHANGED <<viewVars, requests, actions, inputVars, overlay, outcome>>
  BY DEF TakeOk
<1>2. /\ wire' \in Seq(Messages) /\ pending' \in Seq(Messages)
      /\ Failing(pending) \/ Failing(wire) => Failing(pending') \/ Failing(wire')
      /\ wire \in Seq(Quiet) /\ pending \in Seq(Quiet) =>
            wire' \in Seq(Quiet) /\ pending' \in Seq(Quiet)
  BY <1>1, Popped
<1> USE DEF viewVars, inputVars
<1>3. ReaderTypes' /\ ConnTypes' /\ Registered' /\ SizeTaken'
  BY DaemonUndisturbed
<1>4. KeyInv'
  BY <1>1, KeysUndisturbed DEF Lossless, connVars, readerVars
<1>5. LoopTypes' /\ Covers' /\ CommandLast' /\ SizeRead'
  BY <1>1, <1>2 DEF IInv, LoopTypes, Covers, CommandLast, SizeRead, Running
<1>6. SizeSent' /\ ReplayQuiet'
  BY <1>1, <1>2 DEF IInv, SizeSent, ReplayQuiet, connVars, readerVars
<1>7. HostInStep' /\ MouseKnown'
  BY <1>1, NothingDrawn DEF Running, SizesKnown, connVars
<1> QED
  BY <1>3, <1>4, <1>5, <1>6, <1>7 DEF IInv

\* Raw output goes straight to the terminal, and the renderer forgets its frame.
LEMMA TakeOutputStep ==
    ASSUME IInv, Attached, UNCHANGED <<readerVars, connVars, plan>>, TakeOutput
    PROVE  IInv'
<1> DEFINE m == Head(pending \o wire)
<1>1. /\ Incoming("output") /\ renderer' = Reset(renderer) /\ host' = Raw(host, m.data)
      /\ UNCHANGED <<winch, screenH, appRows, bar, lastFrame, requests, actions, inputVars,
                     overlay, outcome>>
  BY DEF TakeOutput
<1>2. /\ m \in Messages /\ wire' \in Seq(Messages) /\ pending' \in Seq(Messages)
      /\ Failing(pending) \/ Failing(wire) => Failing(pending') \/ Failing(wire')
      /\ wire \in Seq(Quiet) /\ pending \in Seq(Quiet) =>
            m \in Quiet /\ wire' \in Seq(Quiet) /\ pending' \in Seq(Quiet)
  <2>1. Incoming("output") /\ "output" # "error"
    BY <1>1
  <2>2. m \in Messages /\ wire' \in Seq(Messages) /\ pending' \in Seq(Messages)
    BY <2>1, Popped
  <2>3. Failing(pending) \/ Failing(wire) => Failing(pending') \/ Failing(wire')
    BY <2>1, Popped
  <2>4. wire \in Seq(Quiet) /\ pending \in Seq(Quiet) =>
            m \in Quiet /\ wire' \in Seq(Quiet) /\ pending' \in Seq(Quiet)
    BY <2>1, Popped
  <2> QED
    BY <2>2, <2>3, <2>4
<1> HIDE DEF m
<1> USE DEF inputVars
<1>3. ReaderTypes' /\ ConnTypes' /\ Registered' /\ SizeTaken'
  BY DaemonUndisturbed
<1>4. KeyInv'
  BY <1>1, KeysUndisturbed DEF Lossless, connVars, readerVars
<1>5. /\ host' \in Hosts /\ Len(host'.rows) = Len(host.rows)
      /\ ~modesReplayed => host'.mouse = host.mouse
  <2>1. host \in Hosts
    BY DEF IInv, LoopTypes
  <2>2. ~modesReplayed => \A i \in DOMAIN m.data : m.data[i].k \notin {"mouse", "nomouse"}
    BY <1>2 DEF IInv, ReplayQuiet, Quiet
  <2> QED
    BY <1>1, <2>1, <2>2, RawKeeps
<1>6. /\ renderer' \in Renderers /\ renderer'.mouse = renderer.mouse
      /\ renderer'.previous = NoFrame
  BY <1>1 DEF IInv, LoopTypes, Renderers, Reset, Drawable
<1>7. LoopTypes' /\ Covers' /\ CommandLast' /\ SizeRead'
  BY <1>1, <1>2, <1>5, <1>6 DEF IInv, LoopTypes, Covers, CommandLast, SizeRead, Running
<1>8. SizeSent' /\ ReplayQuiet'
  BY <1>1, <1>2 DEF IInv, SizeSent, ReplayQuiet, connVars, readerVars
<1>9. HostInStep' /\ MouseKnown'
  BY <1>5, <1>6 DEF IInv, HostInStep, MouseKnown, connVars
<1> QED
  BY <1>3, <1>4, <1>7, <1>8, <1>9 DEF IInv

\* m is one of q's.
Among(m, q) == \E j \in DOMAIN q : q[j] = m

\* What a frame, what is read along with it and what is left make up is the wire.
LEMMA WireSplit ==
    ASSUME NEW S, NEW q \in Seq(S), q # <<>>, NEW b \in 1 .. Len(q), NEW a \in 1 .. b + 1
    PROVE  /\ SubSeq(q, 2, b) \in Seq(S) /\ SubSeq(q, a, Len(q)) \in Seq(S) /\ Head(q) \in S
           /\ \A i \in DOMAIN q : \/ q[i] = Head(q)
                                   \/ Among(q[i], SubSeq(q, 2, b))
                                   \/ Among(q[i], SubSeq(q, a, Len(q)))
<1> DEFINE L == Len(q)
<1>1. /\ L \in Nat \ {0} /\ DOMAIN q = 1 .. L /\ \A i \in 1 .. L : q[i] \in S
      /\ Head(q) = q[1] /\ Head(q) \in S
  BY EmptySeq, LenProperties, ElementOfSeq, HeadTailProperties
<1>2. b \in 1 .. L /\ a \in 1 .. b + 1
  OBVIOUS
<1> HIDE DEF L
<1>3. ASSUME NEW m \in Int, NEW n \in Int, 1 <= m, n <= L
      PROVE  SubSeq(q, m, n) \in Seq(S) /\ \A i \in m .. n : Among(q[i], SubSeq(q, m, n))
  <2> DEFINE new == SubSeq(q, m, n)
  <2>1. \A i \in m .. n : q[i] \in S
    BY <1>1, <1>3
  <2>2. /\ new \in Seq(S) /\ Len(new) = (IF m <= n THEN n - m + 1 ELSE 0)
        /\ \A i \in 1 .. n - m + 1 : new[i] = q[m + i - 1]
    BY <2>1, SubSeqProperties
  <2> HIDE DEF new
  <2>3. DOMAIN new = 1 .. Len(new)
    BY <2>2, LenProperties
  <2>4. ASSUME NEW i \in m .. n PROVE Among(q[i], new)
    <3>1. (i - m) + 1 \in 1 .. n - m + 1 /\ m + ((i - m) + 1) - 1 = i /\ m <= n
      BY <2>4
    <3>2. new[(i - m) + 1] = q[i] /\ (i - m) + 1 \in DOMAIN new
      BY <2>2, <2>3, <3>1
    <3> QED
      BY <3>2 DEF Among
  <2> QED
    BY <2>2, <2>4 DEF new
<1>4. SubSeq(q, 2, b) \in Seq(S) /\ \A i \in 2 .. b : Among(q[i], SubSeq(q, 2, b))
  BY <1>1, <1>2, <1>3
<1>5. SubSeq(q, a, L) \in Seq(S) /\ \A i \in a .. L : Among(q[i], SubSeq(q, a, L))
  BY <1>1, <1>2, <1>3
<1>6. ASSUME NEW i \in DOMAIN q
      PROVE  q[i] = Head(q) \/ Among(q[i], SubSeq(q, 2, b)) \/ Among(q[i], SubSeq(q, a, L))
  <2>1. i = 1 \/ i \in 2 .. b \/ i \in a .. L
    BY <1>1, <1>2
  <2> QED
    BY <1>1, <1>4, <1>5, <2>1
<1> QED
  BY <1>1, <1>4, <1>5, <1>6 DEF L

\* A drain loses no error.
LEMMA WireDrained ==
    ASSUME NEW S, NEW q \in Seq(S), q # <<>>, Head(q).k = "frame",
           NEW b \in 1 .. Len(q), NEW a \in 1 .. b + 1
    PROVE  LET d == Drain(Head(q), SubSeq(q, 2, b))
               rest == SubSeq(q, a, Len(q))
           IN  /\ rest \in Seq(S)
               /\ d.newest \in S /\ d.newest.k = "frame" /\ d.pending \in Seq(S)
               /\ Failing(q) => Failing(d.pending) \/ Failing(rest)
<1> DEFINE more == SubSeq(q, 2, b)
           rest == SubSeq(q, a, Len(q))
           d == Drain(Head(q), more)
<1>1. /\ more \in Seq(S) /\ rest \in Seq(S) /\ Head(q) \in S
      /\ \A i \in DOMAIN q : q[i] = Head(q) \/ Among(q[i], more) \/ Among(q[i], rest)
  BY WireSplit
<1> HIDE DEF more, rest
<1>2. /\ d.newest \in S /\ d.newest.k = "frame" /\ d.pending \in Seq(S)
      /\ \A i \in DOMAIN more : more[i].k = "error" => Failing(d.pending)
  BY <1>1, DrainKeeps DEF Failing
<1> HIDE DEF d
<1>3. ASSUME Failing(q) PROVE Failing(d.pending) \/ Failing(rest)
  <2>1. PICK i \in DOMAIN q : q[i].k = "error"
    BY <1>3 DEF Failing
  <2>2. q[i] # Head(q)
    BY <2>1
  <2> QED
    BY <1>1, <1>2, <2>1, <2>2 DEF Failing, Among
<1> QED
  BY <1>1, <1>2, <1>3 DEF d, more, rest

\* A frame, and what came with it.
LEMMA TakeFrameStep ==
    ASSUME IInv, Attached, UNCHANGED <<readerVars, connVars, plan>>,
           NEW over \in BOOLEAN, NEW k \in 0 .. Len(wire) - 1, TakeFrame(k, over)
    PROVE  IInv'
<1> DEFINE rest == SubSeq(wire, k + 2, Len(wire))
           drained_ == Drain(Head(wire), SubSeq(wire, 2, k + 1))
<1>1. /\ Running /\ pending = <<>> /\ wire # <<>> /\ Head(wire).k = "frame"
      /\ wire \in Seq(Messages)
  BY DEF TakeFrame, IInv, LoopTypes
<1>2. CASE Ends /\ wire' = <<>> /\ UNCHANGED pending
  <2>1. /\ outcome' = "Ended" /\ reading' = FALSE /\ outcome' # "none"
        /\ UNCHANGED <<viewVars, requests, actions, prefix, late, overlay, typed, plain>>
    BY <1>2 DEF Ends, EndsWith
  <2>2. CommandLast' /\ (overlay' # "none" => actions' = <<>>)
    BY <2>1 DEF IInv, CommandLast, Covers
  <2>3. KeyInv'
    BY <2>1, KeysUndisturbed DEF Lossless, connVars
  <2>4. /\ requests' \in Seq(Requests) /\ actions' \in Seq(Requests)
        /\ wire' \in Seq(Messages) /\ pending' \in Seq(Messages)
        /\ wire' \in Seq(Quiet) /\ pending' \in Seq(Quiet)
    BY <1>1, <1>2, <2>1, EmptySeq DEF IInv, LoopTypes
  <2> QED
    BY <2>1, <2>2, <2>3, <2>4, EndedStep
<1>3. CASE /\ DrawFrame(drained_.newest.frame) /\ pending' = drained_.pending /\ wire' = rest
           /\ UNCHANGED <<winch, screenH, appRows, bar, requests, actions, inputVars, overlay,
                          outcome>>
  <2> DEFINE f == drained_.newest.frame
  <2>1. ASSUME NEW S, wire \in Seq(S)
        PROVE  /\ rest \in Seq(S) /\ drained_.newest \in S /\ drained_.newest.k = "frame"
               /\ drained_.pending \in Seq(S)
               /\ Failing(wire) => Failing(drained_.pending) \/ Failing(rest)
    <3> DEFINE b == k + 1
               a == k + 2
    <3>1. b \in 1 .. Len(wire) /\ a \in 1 .. b + 1
      BY <1>1, LenProperties
    <3>2. drained_ = Drain(Head(wire), SubSeq(wire, 2, b)) /\ rest = SubSeq(wire, a, Len(wire))
      OBVIOUS
    <3> HIDE DEF a, b, drained_, rest
    <3> QED
      BY <1>1, <2>1, <3>1, <3>2, WireDrained
  <2> HIDE DEF rest, drained_
  <2>2. /\ wire' \in Seq(Messages) /\ pending' \in Seq(Messages) /\ f \in Frames
        /\ Failing(pending) \/ Failing(wire) => Failing(pending') \/ Failing(wire')
        /\ wire \in Seq(Quiet) /\ pending \in Seq(Quiet) =>
              wire' \in Seq(Quiet) /\ pending' \in Seq(Quiet)
    <3>1. drained_.newest \in Messages /\ drained_.newest.k = "frame"
      BY <1>1, <2>1
    <3>2. f \in Frames
      BY <3>1 DEF Messages
    <3>3. ~Failing(pending)
      BY <1>1 DEF Failing
    <3> QED
      BY <1>1, <1>3, <2>1, <3>2, <3>3
  <2> HIDE DEF f
  <2>3. renderer' = Rendered(f) /\ host' = DrawBar(Render(host, renderer, f), bar, screenH)
        /\ lastFrame' = f
    BY <1>3 DEF DrawFrame, f
  <2>4. /\ host' \in Hosts /\ Len(host'.rows) = Len(host.rows) /\ renderer' \in Renderers
        /\ HostInStep' /\ MouseKnown'
    <3>1. Running' /\ SizesKnown' =>
             /\ screenH = Len(host.rows)
             /\ renderer.previous # NoFrame => Shows(host, renderer.previous)
      <4>1. Running' = Running /\ SizesKnown' = SizesKnown
        BY <1>3 DEF Running, SizesKnown
      <4>2. Running /\ SizesKnown => screenH = Len(host.rows)
        BY DEF IInv, SizeRead, Settles, SizesKnown, NoSize
      <4>3. Running /\ SizesKnown =>
              (renderer.previous # NoFrame => Shows(host, renderer.previous))
        BY DEF IInv, HostInStep, Shows
      <4> QED
        BY <4>1, <4>2, <4>3
    <3>2. /\ renderer \in Renderers /\ screenH \in Height /\ bar' = bar /\ LoopTypes
          /\ modesReplayed' = modesReplayed
          /\ ~modesReplayed => renderer.mouse = host.mouse
          /\ renderer.previous # NoFrame => renderer.mouse = renderer.previous.mouse
      BY <1>3 DEF IInv, LoopTypes, MouseKnown, connVars
    <3> QED
      BY <2>2, <2>3, <3>1, <3>2, FrameDrawn
  <2> USE DEF inputVars
  <2>5. ReaderTypes' /\ ConnTypes' /\ Registered' /\ SizeTaken'
    BY DaemonUndisturbed
  <2>6. KeyInv'
    BY <1>3, KeysUndisturbed DEF Lossless, connVars, readerVars
  <2>7. LoopTypes' /\ Covers' /\ CommandLast' /\ SizeRead'
    BY <1>3, <2>2, <2>3, <2>4 DEF IInv, LoopTypes, Covers, CommandLast, SizeRead, Running, Drawable
  <2>8. SizeSent' /\ ReplayQuiet'
    BY <1>3, <2>2 DEF IInv, SizeSent, ReplayQuiet, connVars, readerVars
  <2> QED
    BY <2>4, <2>5, <2>6, <2>7, <2>8 DEF IInv
<1> QED
  BY <1>2, <1>3 DEF TakeFrame

\* The bar's poll.
LEMMA BarPollStep ==
    ASSUME IInv, Attached, UNCHANGED <<readerVars, connVars, plan>>,
           NEW items \in 0 .. 1, BarPoll(items)
    PROVE  IInv'
<1>1. /\ Running /\ bar' = items /\ host' = DrawBar(host, items, screenH) /\ items \in Nat
      /\ UNCHANGED <<winch, screenH, appRows, renderer, lastFrame, wire, pending, requests,
                     actions, inputVars, overlay, outcome>>
  BY DEF BarPoll
<1>2. host \in Hosts /\ screenH \in Height
  BY DEF IInv, LoopTypes
<1>3. host' \in Hosts /\ Len(host'.rows) = Len(host.rows) /\ host'.mouse = host.mouse
  BY <1>1, <1>2, BarDrawn
<1> USE DEF inputVars
<1>4. ReaderTypes' /\ ConnTypes' /\ Registered' /\ SizeTaken'
  BY DaemonUndisturbed
<1>5. KeyInv'
  BY <1>1, KeysUndisturbed DEF Lossless, connVars, readerVars
<1>6. LoopTypes' /\ Covers' /\ CommandLast' /\ SizeRead'
  BY <1>1, <1>3 DEF IInv, LoopTypes, Covers, CommandLast, SizeRead, Running
<1>7. SizeSent' /\ ReplayQuiet' /\ MouseKnown'
  BY <1>1, <1>3 DEF IInv, SizeSent, ReplayQuiet, MouseKnown, connVars, readerVars
<1>8. HostInStep'
  <2> DEFINE f == renderer.previous
  <2>1. ASSUME Running', SizesKnown', f # NoFrame
        PROVE  /\ Shows(host', f)
               /\ BarActive(Len(host'.rows)) /\ items # 0 => host'.rows[Len(host'.rows)] = BarOf(items)
               /\ ~modesReplayed => host'.mouse = f.mouse
    <3>1. Running /\ SizesKnown
      BY <1>1, <2>1 DEF SizesKnown
    <3>2. screenH = Len(host.rows)
      BY <3>1 DEF IInv, SizeRead, Settles, SizesKnown, NoSize
    <3>3. Shows(host, f) /\ (~modesReplayed => host.mouse = f.mouse)
      BY <2>1, <3>1 DEF IInv, HostInStep, Shows
    <3> QED
      BY <1>1, <1>2, <1>3, <3>2, <3>3, BarOverFrame
  <2>2. renderer' = renderer /\ modesReplayed' = modesReplayed
    BY <1>1 DEF connVars
  <2> QED
    BY <1>1, <2>1, <2>2 DEF HostInStep, Shows
<1> QED
  BY <1>4, <1>5, <1>6, <1>7, <1>8 DEF IInv

\* The terminal is resized: what it shows is junk until somebody reads of it.
LEMMA ResizesTerminalStep ==
    ASSUME IInv, ResizesTerminal
    PROVE  IInv'
<1>1. /\ Attached /\ winch' = TRUE /\ UNCHANGED plan
      /\ UNCHANGED <<readerVars, connVars, screenH, appRows, bar, renderer, lastFrame, wire,
                     pending, requests, actions, inputVars, overlay, outcome>>
  BY DEF ResizesTerminal, Event
<1>2. PICK h \in plan.heights : host' = ResizedTo(host, h)
  BY DEF ResizesTerminal
<1>3. h \in Height /\ host \in Hosts
  BY <1>2, ViewAssumption DEF IInv, ConnTypes, LoopTypes
<1>4. host' \in Hosts /\ host'.mouse = host.mouse
  <2>1. [r \in 1 .. h |-> Junk] \in Rows
    BY <1>3, RowsOf DEF Junk
  <2> QED
    BY <1>2, <1>3, <2>1 DEF ResizedTo, Hosts
<1> USE DEF inputVars
<1>5. ReaderTypes' /\ ConnTypes' /\ Registered' /\ SizeTaken'
  BY <1>1, DaemonUndisturbed
<1>6. KeyInv'
  BY <1>1, KeysUndisturbed DEF Lossless, connVars, readerVars
<1>7. LoopTypes' /\ Covers' /\ CommandLast' /\ SizeRead'
  BY <1>1, <1>4 DEF IInv, LoopTypes, Covers, CommandLast, SizeRead, Running
<1>8. SizeSent' /\ ReplayQuiet' /\ MouseKnown' /\ HostInStep'
  BY <1>1, <1>4 DEF IInv, SizeSent, ReplayQuiet, MouseKnown, HostInStep, SizesKnown, connVars,
                    readerVars
<1> QED
  BY <1>5, <1>6, <1>7, <1>8 DEF IInv

-----------------------------------------------------------------------------
(* Every step, and the beginning.                                          *)

\* It holds when nobody is attached yet.
LEMMA InitIInv == Init => IInv
<1> SUFFICES ASSUME Init PROVE IInv
  OBVIOUS
<1>a. PICK p \in Plans : \E h \in p.heights :
        /\ OutputInit(p.script, MaxRows) /\ LoopInit(h) /\ plan = p
        /\ conn = "none" /\ initial = NoFrame /\ clientH = 0 /\ active = FALSE
        /\ delivered = <<>> /\ modesReplayed = FALSE
  BY DEF Init
<1>1. PICK h \in p.heights :
        /\ OutputInit(p.script, MaxRows) /\ LoopInit(h) /\ plan = p
        /\ conn = "none" /\ initial = NoFrame /\ clientH = 0 /\ active = FALSE
        /\ delivered = <<>> /\ modesReplayed = FALSE
  BY <1>a
<1>2. p.script \in Seq(Sequence) /\ h \in Height /\ MaxRows \in Height
  BY ViewAssumption
<1>3. \A n \in Height : Blanks(n) \in Rows /\ Len(Blanks(n)) = n
  BY RowsOf DEF Blanks, Blank
<1>4. ReaderTypes
  <2>1. screen \in Screens
    <3>1. Blanks(MaxRows) \in Rows
      BY <1>2, <1>3
    <3> QED
      BY <1>1, <3>1 DEF OutputInit, NewScreen, Screens
  <2> QED
    BY <1>1, <1>2, <2>1, EmptySeq DEF OutputInit, ReaderTypes, Shapes, Drawable
<1>5. /\ host = NewHost(h) /\ winch = FALSE /\ screenH = h /\ appRows = AreaHeight(h)
      /\ bar = 0 /\ renderer = NewRenderer /\ lastFrame = NoFrame
      /\ wire = <<>> /\ pending = <<>> /\ requests = <<>> /\ actions = <<>>
      /\ reading = TRUE /\ prefix = <<>> /\ late = FALSE
      /\ overlay = "none" /\ outcome = "none" /\ typed = 0 /\ plain = {}
  BY <1>1 DEF LoopInit
<1>6. host \in Hosts /\ Len(host.rows) = h /\ host.mouse = FALSE
  BY <1>2, <1>3, <1>5 DEF NewHost, Hosts, Shapes
<1>7. renderer \in Renderers /\ renderer.previous = NoFrame /\ renderer.mouse = FALSE
  BY <1>5 DEF NewRenderer, Renderers, Drawable
<1>8. LoopTypes
  <2>1. Len(prefix) <= 1
    BY <1>5
  <2> QED
    BY <1>2, <1>5, <1>6, <1>7, <2>1, EmptySeq DEF LoopTypes, Drawable
<1>9. ConnTypes /\ Registered /\ SizeTaken
  BY <1>1, <1>5, EmptySeq DEF ConnTypes, Registered, SizeTaken, Drawable
<1>10. CommandLast /\ Covers /\ SizeRead /\ SizeSent
  <2>1. Settles(actions, screenH, Len(host.rows))
    BY <1>5, <1>6, NoRequest DEF Settles
  <2> QED
    BY <1>1, <1>5, <2>1 DEF CommandLast, Covers, SizeRead, SizeSent
<1>11. MouseKnown /\ ReplayQuiet /\ HostInStep
  BY <1>5, <1>6, <1>7, EmptySeq DEF MouseKnown, ReplayQuiet, HostInStep
<1>12. KeyInv
  <2>1. KeysOf(Passed) = {} /\ Increasing(Passed) /\ Held = {}
    BY <1>1, <1>5 DEF Passed, KeysOf, Increasing, Held
  <2>2. OnTheirWay = {}
    BY <1>5, <2>1, NoRequest DEF OnTheirWay
  <2>3. Ordered(Passed, requests, actions, Held)
    BY <1>5, <2>1, NoRequest DEF Ordered, Below
  <2> QED
    BY <1>5, <2>1, <2>2, <2>3 DEF KeyInv
<1> QED
  BY <1>4, <1>8, <1>9, <1>10, <1>11, <1>12 DEF IInv

\* The daemon's steps keep it, ...
LEMMA DaemonStep == IInv /\ Daemon => IInv'
<1> SUFFICES ASSUME IInv, Daemon PROVE IInv'
  OBVIOUS
<1>1. CASE \/ Reads \/ EndsReading \/ Takes \/ Processes
           \/ LeavesAlt \/ CleansUp \/ EndsOutput \/ Waiter
  <2>1. Threads /\ UNCHANGED <<loopVars, connVars, plan>>
    BY <1>1 DEF Threads, Reads, EndsReading, Takes, Processes, LeavesAlt, CleansUp, EndsOutput,
                Waiter, Undisturbed
  <2> QED
    BY <2>1, ThreadsStep
<1>2. CASE HandleInput("input") \/ HandleInput("focus")
  BY <1>2, HandleInputStep
<1> QED
  BY <1>1, <1>2, AttachStep, ReplayStep, SendInitialStep, WriteEventStep, HandleResizeStep,
     HandleDetachStep, ClosedStep DEF Daemon

\* ... the loop's, ...
LEMMA LoopStep == IInv /\ Loop => IInv'
<1> SUFFICES ASSUME IInv, Loop PROVE IInv'
  OBVIOUS
<1>1. Attached /\ UNCHANGED <<readerVars, connVars, plan>>
  BY DEF Loop, ShowsOutput, ShowsFrame, SeesEnd, SeesOk, SeesStreamEnd, Ticks, ReadsResize,
         PassesOn, Resizes, Detaches, Opens, OverlayResized, Switches, Alone
<1>2. CASE ShowsOutput \/ SeesEnd \/ SeesOk \/ SeesStreamEnd
  BY <1>1, <1>2, TakeOutputStep, TakeEndStep, TakeOkStep, StreamEndsStep
     DEF ShowsOutput, SeesEnd, SeesOk, SeesStreamEnd
<1>3. CASE ShowsFrame
  <2>1. PICK over \in BOOLEAN, k \in 0 .. Len(wire) - 1 : TakeFrame(k, over)
    BY <1>3 DEF ShowsFrame
  <2> QED
    BY <1>1, <2>1, TakeFrameStep
<1>4. CASE Ticks \/ ReadsResize \/ Resizes \/ Detaches \/ OverlayResized
  BY <1>1, <1>4, IdleTickStep, ReadResizeStep, ResizeStep, DetachStep, OverlayReadsResizeStep
     DEF Ticks, ReadsResize, Resizes, Detaches, OverlayResized
<1>5. CASE PassesOn \/ Opens
  BY <1>1, <1>5, PassOnStep, OpenOverlayStep DEF PassesOn, Opens
<1>6. CASE Switches
  BY <1>1, <1>6, SwitchSessionStep DEF Switches
<1> QED
  BY <1>2, <1>3, <1>4, <1>5, <1>6 DEF Loop

\* ... and what comes from outside.
LEMMA UserStep == IInv /\ User => IInv'
<1> SUFFICES ASSUME IInv, User PROVE IInv'
  OBVIOUS
<1>1. CASE TypesPlain \/ TypesPrefix
  <2>1. Attached /\ UNCHANGED <<readerVars, connVars, plan>>
    BY <1>1 DEF TypesPlain, TypesPrefix, Typing, Event
  <2> QED
    BY <1>1, <2>1, PlainKeyStep, PrefixKeyStep DEF TypesPlain, TypesPrefix
<1>2. CASE TypesCommand
  <2>1. /\ Attached /\ UNCHANGED <<readerVars, connVars, plan>>
        /\ \E c \in Commands : CommandKey(c)
    BY <1>2 DEF TypesCommand, Typing, Event, Commands
  <2> QED
    BY <2>1, CommandKeyStep
<1>3. CASE TimesOut \/ Closes \/ LeavesList
  BY <1>3, PrefixTimesOutStep, CloseOverlayStep, LeaveOverlayStep
     DEF TimesOut, Closes, LeavesList, Alone
<1>4. CASE Focuses
  BY <1>4, ReadFocusStep DEF Focuses, Event
<1>5. CASE Polls
  BY <1>5, BarPollStep DEF Polls, Event
<1>6. CASE Exits
  <2>1. Threads /\ UNCHANGED <<loopVars, connVars, plan>>
    BY <1>6 DEF Threads, Exits, Event
  <2> QED
    BY <2>1, ThreadsStep
<1> QED
  BY <1>1, <1>2, <1>3, <1>4, <1>5, <1>6, ResizesTerminalStep, OtherClientStep, ClosedStep
     DEF User

\* Every step keeps it.
LEMMA NextIInv == IInv /\ [Next]_vars => IInv'
<1> SUFFICES ASSUME IInv, [Next]_vars PROVE IInv'
  OBVIOUS
<1>1. CASE UNCHANGED vars
  <2>1. UNCHANGED <<readerVars, loopVars, connVars, plan>>
    BY <1>1 DEF vars
  <2> USE DEF readerVars, childVars, parserVars, screenVars, loopVars, viewVars, inputVars, connVars
  <2>2. ReaderTypes' /\ ConnTypes' /\ Registered' /\ SizeTaken'
    BY <2>1 DEF IInv, ReaderTypes, ConnTypes, Registered, SizeTaken
  <2>3. KeyInv'
    BY <2>1, KeysUndisturbed DEF Lossless
  <2>4. LoopTypes' /\ CommandLast' /\ Covers' /\ SizeRead'
    BY <2>1 DEF IInv, LoopTypes, CommandLast, Covers, SizeRead, Running
  <2>5. SizeSent' /\ ReplayQuiet'
    BY <2>1 DEF IInv, SizeSent, ReplayQuiet
  <2>6. HostInStep' /\ MouseKnown'
    BY <2>1, NothingDrawn DEF Running, SizesKnown
  <2> QED
    BY <2>2, <2>3, <2>4, <2>5, <2>6 DEF IInv
<1> QED
  BY <1>1, DaemonStep, LoopStep, UserStep DEF Next

\* The invariant holds in every state a behaviour reaches.
THEOREM Invariance == Spec => []IInv
<1> QED
  BY InitIInv, NextIInv, PTL DEF Spec

\* Once the renderer holds a frame, the terminal shows it, its cursor shape, its mouse
\* mode and the bar (FrameRenderer::render(), draw_status_bar(), run_attach_loop()).
THEOREM TerminalInStep == Spec => []HostInStep
<1>1. IInv => HostInStep
  BY DEF IInv
<1> QED
  BY <1>1, Invariance, PTL

\* Once resizes are read, sent and handled, daemon and client agree on the size
\* (run_attach_loop(), resize_client()).
THEOREM SizesAgree == Spec => []SizeAgreed
<1>1. ASSUME IInv, Running, SizesKnown, conn = "open", registered,
             \A i \in DOMAIN requests : requests[i].k # "resize",
             \A i \in DOMAIN (pending \o wire) : (pending \o wire)[i].k # "error"
      PROVE  /\ clientH = appRows /\ appRows = AreaHeight(Len(host.rows))
             /\ active => Len(screen.main) = clientH
  <2> DEFINE both == pending \o wire
             m == Len(pending)
  <2>1. /\ pending \in Seq(Messages) /\ wire \in Seq(Messages) /\ both = pending \o wire
        /\ m = Len(pending) /\ \A i \in DOMAIN both : both[i].k # "error"
    BY <1>1 DEF IInv, LoopTypes
  <2> HIDE DEF both, m
  <2>2. /\ \A i \in DOMAIN pending : i \in DOMAIN both /\ both[i] = pending[i]
        /\ \A i \in DOMAIN wire : i + m \in DOMAIN both /\ both[i + m] = wire[i]
    BY <2>1, Joined
  <2>3. ~Failing(pending) /\ ~Failing(wire)
    BY <2>1, <2>2 DEF Failing
  <2>4. clientH = appRows
    BY <1>1, <2>3 DEF IInv, SizeSent, Settles, NoSize, Running
  <2>5. appRows = AreaHeight(Len(host.rows))
    BY <1>1 DEF IInv, SizeRead, Settles, NoSize, SizesKnown
  <2> QED
    BY <1>1, <2>4, <2>5 DEF IInv, SizeTaken
<1>2. IInv => SizeAgreed
  BY <1>1 DEF SizeAgreed
<1> QED
  BY <1>2, Invariance, PTL

\* Keys arrive in the order typed, none twice, and while the attachment lasts none
\* that belongs to no command is lost (spawn_attach_input_reader(), run_attach_loop(),
\* input_client()).
THEOREM KeysStayInOrder == Spec => []KeysInOrder
<1>1. ASSUME IInv
      PROVE  KeysOf(Keys) = OnTheirWay \cup Held /\ Increasing(Keys)
  <2> USE DEF IInv, LoopTypes, ConnTypes, KeyInv, Ordered
  <2>1. Passed \in Seq(Requests) /\ requests \in Seq(Requests) /\ actions \in Seq(Requests)
    BY <1>1, KeyPassed DEF Passed
  <2> DEFINE q == Passed \o requests
             r == q \o actions
  <2>2. q \in Seq(Requests) /\ KeysOf(q) = KeysOf(Passed) \cup KeysOf(requests) /\ Increasing(q)
    <3>1. Below(KeysOf(Passed), KeysOf(requests))
      BY <1>1 DEF Below
    <3> QED
      BY <1>1, <2>1, <3>1, KeysSent
  <2> HIDE DEF q
  <2>3. r \in Seq(Requests) /\ KeysOf(r) = OnTheirWay /\ Increasing(r)
    <3>1. Below(KeysOf(q), KeysOf(actions))
      BY <1>1, <2>2 DEF Below
    <3> QED
      BY <1>1, <2>1, <2>2, <3>1, KeysSent DEF OnTheirWay
  <2>4. Keys = r \o PrefixInput
    BY DEF Keys, q
  <2> HIDE DEF r
  <2>5. Below(KeysOf(r), Held)
    BY <1>1, <2>3 DEF Below, OnTheirWay
  <2>6. PrefixInput \in Seq(Requests) /\ KeysOf(PrefixInput) = Held /\ Increasing(PrefixInput)
    BY <1>1, PrefixKeys
  <2> QED
    BY <2>3, <2>4, <2>5, <2>6, KeysSent
<1>2. ASSUME IInv, Lossless, NEW n \in plain
      PROVE  \E i \in DOMAIN Keys : IsKey(Keys[i]) /\ Keys[i].n = n
  <2>1. n \in KeysOf(Keys)
    BY <1>1, <1>2 DEF IInv, KeyInv
  <2> QED
    BY <2>1 DEF KeysOf
<1>3. IInv => KeysInOrder
  BY <1>1, <1>2 DEF KeysInOrder, Increasing, Lossless
<1> QED
  BY <1>3, Invariance, PTL
=============================================================================
