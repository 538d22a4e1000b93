---------------------------- MODULE Screen_proofs ----------------------------
(***************************************************************************)
(* Proofs about Screen, for every alphabet, every size and every sequence  *)
(* of sizes: the two grids stay valid, wide characters whole, indexes in   *)
(* range, and the main screen comes back.                                  *)
(***************************************************************************)
EXTENDS Screen, SequenceTheorems, TLAPS

PullingUp == INSTANCE FoldTheorems WITH Op <- PulledUp
PushingDown == INSTANCE FoldTheorems WITH Op <- PushedDown
Erasing == INSTANCE FoldTheorems WITH Op <- EraseCell
Removing == INSTANCE FoldTheorems WITH Op <- RemoveCell

-----------------------------------------------------------------------------
(* Lines.  CellsOf(n, whole) are the cells a line of n columns may have; if  *)
(* whole is FALSE, a wide character may have lost one of its halves.         *)

Paired(c, n) == \A i \in 1 .. n : /\ c[i] = "wide" => i < n /\ c[i + 1] = "cont"
                                  /\ c[i] = "cont" => i > 1 /\ c[i - 1] = "wide"
CellsOf(n, whole) == {c \in [1 .. n -> Kinds] : whole => Paired(c, n)}
LinesOf(n, whole) == [c : CellsOf(n, whole), w : BOOLEAN]

\* A line's length is its number of columns.
LEMMA Columns ==
    ASSUME NEW n \in Nat, NEW c \in [1 .. n -> Kinds]
    PROVE  Len(c) = n /\ DOMAIN c = 1 .. n /\ c \in Seq(Kinds)
  OBVIOUS

\* A new line is whole.
LEMMA NewRowIsWhole ==
    ASSUME NEW n \in Nat, NEW whole \in BOOLEAN
    PROVE  NewRow(n) \in LinesOf(n, whole)
  BY DEF NewRow, Blanks, LinesOf, CellsOf, Paired, Kinds

\* Clearing the other half changes at most that one cell.
LEMMA Cleared ==
    ASSUME NEW n \in Nat, NEW c \in [1 .. n -> Kinds], NEW i \in 1 .. n
    PROVE  /\ ClearWide(c, i) \in [1 .. n -> Kinds]
           /\ \A j \in 1 .. n :
                ClearWide(c, i)[j] =
                  IF (j = i + 1 /\ c[i] = "wide") \/ (j = i - 1 /\ c[i] = "cont")
                  THEN "blank" ELSE c[j]
<1>1. DOMAIN c = 1 .. n /\ i \in DOMAIN c
  OBVIOUS
<1>2. ASSUME NEW j \in 1 .. n
      PROVE  ClearWide(c, i)[j] =
               IF (j = i + 1 /\ c[i] = "wide") \/ (j = i - 1 /\ c[i] = "cont")
               THEN "blank" ELSE c[j]
  BY <1>1 DEF ClearWide
<1>3. DOMAIN ClearWide(c, i) = 1 .. n
      /\ ClearWide(c, i) = [j \in 1 .. n |-> ClearWide(c, i)[j]]
  BY <1>1 DEF ClearWide
<1>4. "blank" \in Kinds
  BY DEF Kinds
<1> QED
  BY <1>2, <1>3, <1>4

\* Erasing a cell leaves no half behind.
LEMMA Erased ==
    ASSUME NEW n \in Nat, NEW whole \in BOOLEAN, NEW l \in LinesOf(n, whole), NEW i \in 1 .. n
    PROVE  EraseCell(l, i) \in LinesOf(n, whole)
<1> DEFINE c == l.c
           d == ClearWide(c, i)
           e == [d EXCEPT ![i] = "blank"]
<1>1. c \in [1 .. n -> Kinds] /\ (whole => Paired(c, n)) /\ l.w \in BOOLEAN
  BY DEF LinesOf, CellsOf
<1> HIDE DEF c
<1>2. /\ d \in [1 .. n -> Kinds]
      /\ \A j \in 1 .. n :
           d[j] = IF (j = i + 1 /\ c[i] = "wide") \/ (j = i - 1 /\ c[i] = "cont")
                  THEN "blank" ELSE c[j]
  BY <1>1, Cleared
<1> HIDE DEF d
<1>3. e \in [1 .. n -> Kinds] /\ \A j \in 1 .. n : e[j] = IF j = i THEN "blank" ELSE d[j]
  BY <1>2 DEF Kinds
<1> HIDE DEF e
<1>4. ASSUME whole, NEW j \in 1 .. n
      PROVE  /\ e[j] = "wide" => j < n /\ e[j + 1] = "cont"
             /\ e[j] = "cont" => j > 1 /\ e[j - 1] = "wide"
  <2>1. ASSUME e[j] = "wide" PROVE j < n /\ e[j + 1] = "cont"
    <3>1. j # i /\ c[j] = "wide"
      BY <2>1, <1>2, <1>3
    <3>2. j < n /\ c[j + 1] = "cont" /\ j + 1 \in 1 .. n
      BY <3>1, <1>1, <1>4 DEF Paired
    <3>3. j + 1 # i
      BY <2>1, <3>1, <3>2, <1>2, <1>3
    <3>4. ~(j + 1 = i + 1 /\ c[i] = "wide") /\ ~(j + 1 = i - 1 /\ c[i] = "cont")
      BY <3>1, <3>2, <1>1, <1>4 DEF Paired
    <3> QED
      BY <3>2, <3>3, <3>4, <1>2, <1>3
  <2>2. ASSUME e[j] = "cont" PROVE j > 1 /\ e[j - 1] = "wide"
    <3>1. j # i /\ c[j] = "cont"
      BY <2>2, <1>2, <1>3
    <3>2. j > 1 /\ c[j - 1] = "wide" /\ j - 1 \in 1 .. n
      BY <3>1, <1>1, <1>4 DEF Paired
    <3>3. j - 1 # i
      <4> SUFFICES ASSUME j = i + 1 PROVE FALSE
        BY <3>1
      <4>1. c[i] = "wide"
        BY <3>2
      <4>2. d[j] = "blank"
        BY <4>1, <1>2
      <4> QED
        BY <2>2, <3>1, <4>2, <1>3
    <3>4. ~(j - 1 = i + 1 /\ c[i] = "wide") /\ ~(j - 1 = i - 1 /\ c[i] = "cont")
      BY <3>1, <3>2, <1>1, <1>4 DEF Paired
    <3> QED
      BY <3>2, <3>3, <3>4, <1>2, <1>3
  <2> QED
    BY <2>1, <2>2
<1>5. EraseCell(l, i).c = e /\ EraseCell(l, i).w \in BOOLEAN
      /\ EraseCell(l, i) = [c |-> EraseCell(l, i).c, w |-> EraseCell(l, i).w]
  BY DEF EraseCell, ReplaceAt, c, d, e
<1> QED
  BY <1>3, <1>4, <1>5 DEF LinesOf, CellsOf, Paired

\* One element less, ...
LEMMA Removed ==
    ASSUME NEW S, NEW n \in Nat, NEW q \in [1 .. n -> S], NEW i \in 1 .. n
    PROVE  /\ RemoveAt(q, i) \in [1 .. n - 1 -> S]
           /\ \A j \in 1 .. n - 1 : RemoveAt(q, i)[j] = IF j < i THEN q[j] ELSE q[j + 1]
<1> DEFINE a == SubSeq(q, 1, i - 1)
           b == SubSeq(q, i + 1, n)
<1>1. q \in Seq(S) /\ Len(q) = n
  OBVIOUS
<1>2. /\ a \in Seq(S) /\ Len(a) = i - 1 /\ \A j \in 1 .. i - 1 : a[j] = q[j]
      /\ b \in Seq(S) /\ Len(b) = n - i /\ \A j \in 1 .. n - i : b[j] = q[j + i]
  BY <1>1
<1>3. RemoveAt(q, i) = a \o b
  BY <1>1 DEF RemoveAt
<1> HIDE DEF a, b
<1>4. /\ a \o b \in Seq(S) /\ Len(a \o b) = n - 1
      /\ \A j \in 1 .. n - 1 : (a \o b)[j] = IF j <= i - 1 THEN a[j] ELSE b[j - (i - 1)]
  BY <1>2, ConcatProperties
<1>5. a \o b \in [1 .. n - 1 -> S]
  BY <1>4, LenProperties
<1>6. ASSUME NEW j \in 1 .. n - 1 PROVE (a \o b)[j] = IF j < i THEN q[j] ELSE q[j + 1]
  <2>1. CASE j < i
    BY <2>1, <1>2, <1>4
  <2>2. CASE ~(j < i)
    <3>1. j - (i - 1) \in 1 .. n - i /\ j - (i - 1) + i = j + 1
      BY <2>2
    <3> QED
      BY <2>2, <3>1, <1>2, <1>4
  <2> QED
    BY <2>1, <2>2
<1> QED
  BY <1>3, <1>5, <1>6

\* ... and one more.
LEMMA Inserted ==
    ASSUME NEW S, NEW n \in Nat, NEW q \in [1 .. n -> S], NEW i \in 1 .. n + 1, NEW e \in S
    PROVE  InsertAt(q, i, e) \in [1 .. n + 1 -> S]
<1> DEFINE a == SubSeq(q, 1, i - 1)
           b == SubSeq(q, i, n)
<1>1. q \in Seq(S) /\ Len(q) = n
  OBVIOUS
<1>2. a \in Seq(S) /\ Len(a) = i - 1 /\ b \in Seq(S) /\ Len(b) = n + 1 - i
  BY <1>1
<1>3. InsertAt(q, i, e) = a \o <<e>> \o b
  BY <1>1 DEF InsertAt
<1> HIDE DEF a, b
<1>4. a \o <<e>> \in Seq(S) /\ Len(a \o <<e>>) = i
  BY <1>2
<1>5. a \o <<e>> \o b \in Seq(S) /\ Len(a \o <<e>> \o b) = n + 1
  BY <1>2, <1>4
<1> QED
  BY <1>3, <1>5, LenProperties

\* Removing a cell leaves no half behind.
LEMMA RemovedIsWhole ==
    ASSUME NEW n \in Nat, NEW whole \in BOOLEAN, NEW l \in LinesOf(n, whole), NEW i \in 1 .. n
    PROVE  RemoveCell(l, i) \in LinesOf(n - 1, whole)
<1> DEFINE c == l.c
           d == ClearWide(c, i)
           e == RemoveAt(d, i)
<1>1. c \in [1 .. n -> Kinds] /\ (whole => Paired(c, n))
  BY DEF LinesOf, CellsOf
<1>2. /\ d \in [1 .. n -> Kinds]
      /\ \A j \in 1 .. n :
           d[j] = IF (j = i + 1 /\ c[i] = "wide") \/ (j = i - 1 /\ c[i] = "cont")
                  THEN "blank" ELSE c[j]
  BY <1>1, Cleared
<1>3. RemoveCell(l, i) = [c |-> e, w |-> FALSE]
  BY DEF RemoveCell
<1> HIDE DEF c, d
<1>4. /\ e \in [1 .. n - 1 -> Kinds]
      /\ \A j \in 1 .. n - 1 : e[j] = IF j < i THEN d[j] ELSE d[j + 1]
  <2>1. d \in [1 .. n -> Kinds]
    BY <1>2
  <2>2. RemoveAt(d, i) \in [1 .. n - 1 -> Kinds]
    BY <2>1, Removed
  <2>3. \A j \in 1 .. n - 1 : RemoveAt(d, i)[j] = IF j < i THEN d[j] ELSE d[j + 1]
    BY <2>1, <2>2, Removed
  <2> QED
    BY <2>2, <2>3
<1> HIDE DEF e
<1>5. ASSUME whole, NEW j \in 1 .. n - 1
      PROVE  /\ e[j] = "wide" => j < n - 1 /\ e[j + 1] = "cont"
             /\ e[j] = "cont" => j > 1 /\ e[j - 1] = "wide"
  <2>1. CASE j < i - 1
    <3>1. e[j] = c[j] /\ e[j + 1] = d[j + 1]
      BY <1>2, <1>4, <2>1
    <3>2. j + 1 \in 1 .. n /\ (j + 1 < i - 1 => d[j + 1] = c[j + 1])
      BY <1>2, <2>1
    <3>3. j > 1 => e[j - 1] = c[j - 1]
      BY <1>2, <1>4, <2>1
    <3>4. c[j] = "wide" => c[j + 1] = "cont"
      BY <1>1, <1>5 DEF Paired
    <3>5. ~(c[j + 1] = "cont" /\ j + 1 = i - 1 /\ c[i] = "cont")
      BY <1>1, <1>5, <3>2 DEF Paired
    <3>6. c[j] = "wide" => e[j + 1] = "cont"
      BY <3>1, <3>2, <3>4, <3>5, <1>2, <2>1
    <3>7. c[j] = "cont" => j > 1 /\ c[j - 1] = "wide"
      BY <1>1, <1>5 DEF Paired
    <3> QED
      BY <3>1, <3>3, <3>6, <3>7, <2>1
  <2>2. CASE j = i - 1
    <3>2. /\ d[j] = IF c[i] = "cont" THEN "blank" ELSE c[j]
          /\ e[j] = d[j]
      BY <1>2, <1>4, <2>2
    <3>3. c[j] = "wide" => c[i] = "cont"
      BY <1>1, <1>5, <2>2 DEF Paired
    <3>4. j > 1 => e[j - 1] = c[j - 1]
      BY <1>2, <1>4, <2>2
    <3>5. c[j] = "cont" => j > 1 /\ c[j - 1] = "wide"
      BY <1>1, <1>5 DEF Paired
    <3> QED
      BY <3>2, <3>3, <3>4, <3>5
  <2>3. CASE j = i
    <3>1. e[j] = d[i + 1] /\ i + 1 \in 1 .. n
      BY <1>4, <2>3
    <3>2. d[i + 1] = IF c[i] = "wide" THEN "blank" ELSE c[i + 1]
      BY <1>2, <3>1
    <3>3. c[i + 1] = "cont" => c[i] = "wide"
      BY <1>1, <1>5, <3>1 DEF Paired
    <3>4. c[i + 1] = "wide" => i + 1 < n /\ c[i + 2] = "cont"
      BY <1>1, <1>5, <3>1 DEF Paired
    <3>5. i + 1 < n => e[j + 1] = d[i + 2] /\ d[i + 2] = c[i + 2]
      BY <1>2, <1>4, <2>3
    <3> QED
      BY <3>1, <3>2, <3>3, <3>4, <3>5, <2>3
  <2>4. CASE j > i
    <3>1. e[j] = d[j + 1] /\ d[j + 1] = c[j + 1] /\ j + 1 \in 1 .. n
      BY <1>2, <1>4, <2>4
    <3>2. c[j + 1] = "wide" => j + 1 < n /\ c[j + 2] = "cont"
      BY <1>1, <1>5, <3>1 DEF Paired
    <3>3. j + 1 < n => e[j + 1] = d[j + 2] /\ d[j + 2] = c[j + 2]
      BY <1>2, <1>4, <2>4
    <3>4. c[j + 1] = "cont" => c[j] = "wide"
      BY <1>1, <1>5, <3>1 DEF Paired
    <3>5. e[j - 1] = d[j] /\ (j = i + 1 => c[j] # "cont" \/ c[i] = "wide")
      BY <1>1, <1>4, <1>5, <2>4 DEF Paired
    <3>6. c[j] = "wide" => d[j] = "wide"
      <4>1. j = i + 1 /\ c[i] = "wide" => c[j] = "cont"
        BY <1>1, <1>5 DEF Paired
      <4> QED
        BY <4>1, <1>2, <2>4
    <3> QED
      BY <3>1, <3>2, <3>3, <3>4, <3>5, <3>6, <2>4
  <2> QED
    BY <2>1, <2>2, <2>3, <2>4
<1> QED
  BY <1>3, <1>4, <1>5 DEF LinesOf, CellsOf, Paired

\* Cutting a line after the cells are shifted: a wide character at the edge goes.
LEMMA Truncated ==
    ASSUME NEW m \in Nat, NEW n \in 1 .. m, NEW whole \in BOOLEAN,
           NEW c \in [1 .. m -> Kinds],
           whole => \A i \in 1 .. n : /\ c[i] = "wide" => i = n \/ c[i + 1] = "cont"
                                      /\ c[i] = "cont" => i > 1 /\ c[i - 1] = "wide"
    PROVE  Truncate(c, n) \in CellsOf(n, whole)
<1> DEFINE d == Truncate(c, n)
<1>1. ASSUME NEW i \in 1 .. n
      PROVE  d[i] = IF i = n /\ c[i] = "wide" THEN "blank" ELSE c[i]
  BY DEF Truncate
<1>2. d = [i \in 1 .. n |-> d[i]]
  BY DEF Truncate
<1> HIDE DEF d
<1>3. d \in [1 .. n -> Kinds]
  BY <1>1, <1>2 DEF Kinds
<1>4. ASSUME whole, NEW i \in 1 .. n
      PROVE  /\ d[i] = "wide" => i < n /\ d[i + 1] = "cont"
             /\ d[i] = "cont" => i > 1 /\ d[i - 1] = "wide"
  <2>1. ASSUME d[i] = "wide" PROVE i < n /\ d[i + 1] = "cont"
    <3>1. i < n /\ c[i + 1] = "cont" /\ i + 1 \in 1 .. n
      BY <1>1, <1>4, <2>1
    <3> QED
      BY <3>1, <1>1
  <2>2. ASSUME d[i] = "cont" PROVE i > 1 /\ d[i - 1] = "wide"
    <3>1. i > 1 /\ c[i - 1] = "wide" /\ i - 1 \in 1 .. n /\ i - 1 # n
      BY <1>1, <1>4, <2>2
    <3> QED
      BY <3>1, <1>1
  <2> QED
    BY <2>1, <2>2
<1> QED
  BY <1>3, <1>4 DEF CellsOf, Paired, d

\* A line that becomes longer stays whole; one that becomes shorter does, unless
\* a wide character is cut in two.
LEMMA Resized ==
    ASSUME NEW m \in Nat, NEW n \in Nat, NEW whole \in BOOLEAN, NEW l \in LinesOf(m, whole),
           whole => m <= n \/ n = 0 \/ l.c[n] # "wide"
    PROVE  ResizeRow(l, n) \in LinesOf(n, whole)
<1> DEFINE c == l.c
           d == [i \in 1 .. n |-> IF i <= m THEN c[i] ELSE "blank"]
<1>1. c \in [1 .. m -> Kinds] /\ (whole => Paired(c, m)) /\ Len(c) = m
  BY Columns DEF LinesOf, CellsOf
<1>2. ResizeRow(l, n) = [c |-> d, w |-> FALSE]
  BY <1>1 DEF ResizeRow
<1> HIDE DEF c
<1>3. d \in [1 .. n -> Kinds] /\ \A i \in 1 .. n : d[i] = IF i <= m THEN c[i] ELSE "blank"
  BY <1>1 DEF Kinds
<1> HIDE DEF d
<1>4. ASSUME whole, NEW i \in 1 .. n
      PROVE  /\ d[i] = "wide" => i < n /\ d[i + 1] = "cont"
             /\ d[i] = "cont" => i > 1 /\ d[i - 1] = "wide"
  <2>1. ASSUME d[i] = "wide" PROVE i < n /\ d[i + 1] = "cont"
    <3>1. i <= m /\ c[i] = "wide"
      BY <1>3, <2>1
    <3>2. i < m /\ c[i + 1] = "cont"
      BY <1>1, <1>4, <3>1 DEF Paired
    <3>3. i < n
      BY <1>4, <3>1, <3>2 DEF c
    <3> QED
      BY <3>2, <3>3, <1>3
  <2>2. ASSUME d[i] = "cont" PROVE i > 1 /\ d[i - 1] = "wide"
    <3>1. i <= m /\ c[i] = "cont"
      BY <1>3, <2>2
    <3>2. i > 1 /\ c[i - 1] = "wide"
      BY <1>1, <1>4, <3>1 DEF Paired
    <3> QED
      BY <3>1, <3>2, <1>3
  <2> QED
    BY <2>1, <2>2
<1> QED
  BY <1>2, <1>3, <1>4 DEF LinesOf, CellsOf, Paired

Pieces(x, a, b, d, k, n) ==
    \A i \in DOMAIN x :
       x[i] = IF i <= k THEN a[i] ELSE IF i <= k + n THEN b[i - k] ELSE d[i - k - n]

\* Three pieces of a line, one after the other.
LEMMA Pieced ==
    ASSUME NEW k \in Nat, NEW n \in Nat, NEW m \in Nat,
           NEW a \in [1 .. k -> Kinds], NEW b \in [1 .. n -> Kinds], NEW d \in [1 .. m -> Kinds]
    PROVE  /\ a \o b \o d \in [1 .. k + n + m -> Kinds]
           /\ Pieces(a \o b \o d, a, b, d, k, n)
<1>1. /\ a \in Seq(Kinds) /\ b \in Seq(Kinds) /\ d \in Seq(Kinds)
      /\ Len(a) = k /\ Len(b) = n /\ Len(d) = m
  BY Columns
<1> DEFINE ab == a \o b
           p == k + n
<1>2. /\ ab \in Seq(Kinds) /\ Len(ab) = p
      /\ \A i \in 1 .. p : ab[i] = IF i <= k THEN a[i] ELSE b[i - k]
  BY <1>1, ConcatProperties
<1>3. p \in Nat /\ \A i \in Int : i - p = i - k - n
  OBVIOUS
<1> HIDE DEF ab, p
<1>4. /\ ab \o d \in Seq(Kinds) /\ Len(ab \o d) = p + m
      /\ \A i \in 1 .. p + m : (ab \o d)[i] = IF i <= p THEN ab[i] ELSE d[i - p]
  BY <1>1, <1>2, <1>3, ConcatProperties
<1>5. ab \o d \in [1 .. p + m -> Kinds]
  BY <1>4, LenProperties
<1>6. ASSUME NEW i \in 1 .. p + m
      PROVE  (ab \o d)[i] = IF i <= k THEN a[i] ELSE IF i <= p THEN b[i - k] ELSE d[i - k - n]
  <2>1. CASE i <= p
    <3>1. i \in 1 .. p
      BY <1>3, <2>1
    <3>2. i <= k => i \in 1 .. p
      BY <1>3, <3>1
    <3> QED
      BY <1>2, <1>4, <2>1, <3>1 DEF p
  <2>2. CASE ~(i <= p)
    <3>1. ~(i <= k)
      BY <2>2 DEF p
    <3>2. i - p = i - k - n
      BY <1>3
    <3> QED
      BY <1>4, <2>2, <3>1, <3>2
  <2> QED
    BY <2>1, <2>2
<1> QED
  BY <1>5, <1>6 DEF ab, p, Pieces

InsertedCells(c, m, k, n, split) ==
    LET new == [i \in 1 .. n |-> IF i = 1 /\ split THEN "cont" ELSE "blank"]
        rest == SubSeq(IF split THEN ReplaceAt(c, k + 1, "blank") ELSE c, k + 1, m)
    IN  Truncate(SubSeq(c, 1, k) \o new \o rest, m)

\* Inserting cells after the first k leaves no half behind, at the edge either.
LEMMA Shifted ==
    ASSUME NEW m \in Nat \ {0}, NEW whole \in BOOLEAN, NEW c \in CellsOf(m, whole),
           NEW k \in 0 .. m, NEW n \in Nat \ {0}, NEW split \in BOOLEAN,
           split <=> k < m /\ c[k + 1] = "cont"
    PROVE  InsertedCells(c, m, k, n, split) \in CellsOf(m, whole)
<1> DEFINE d == IF split THEN ReplaceAt(c, k + 1, "blank") ELSE c
           new == [i \in 1 .. n |-> IF i = 1 /\ split THEN "cont" ELSE "blank"]
           start == SubSeq(c, 1, k)
           rest == SubSeq(d, k + 1, m)
           x == start \o new \o rest
<1>1. c \in [1 .. m -> Kinds] /\ (whole => Paired(c, m)) /\ c \in Seq(Kinds) /\ Len(c) = m
  BY Columns DEF CellsOf
<1>2. "blank" \in Kinds /\ "cont" \in Kinds
  BY DEF Kinds
<1>3. /\ d \in [1 .. m -> Kinds]
      /\ \A i \in 1 .. m : d[i] = IF split /\ i = k + 1 THEN "blank" ELSE c[i]
  BY <1>1, <1>2 DEF ReplaceAt
<1> HIDE DEF d
<1>4. d \in Seq(Kinds) /\ Len(d) = m
  BY <1>3, Columns
<1>5. /\ start \in Seq(Kinds) /\ Len(start) = k /\ \A i \in 1 .. k : start[i] = c[i]
      /\ rest \in Seq(Kinds) /\ Len(rest) = m - k /\ \A i \in 1 .. m - k : rest[i] = d[k + i]
  BY <1>1, <1>4
<1>6. /\ new \in [1 .. n -> Kinds]
      /\ \A i \in 1 .. n : new[i] = IF i = 1 /\ split THEN "cont" ELSE "blank"
  BY <1>2
<1> HIDE DEF start, new, rest
<1>7. start \in [1 .. k -> Kinds] /\ rest \in [1 .. m - k -> Kinds] /\ m - k \in Nat
  BY <1>5, LenProperties
<1>8. /\ x \in [1 .. m + n -> Kinds]
      /\ \A i \in 1 .. m + n :
           x[i] = IF i <= k THEN start[i] ELSE IF i <= k + n THEN new[i - k] ELSE rest[i - k - n]
  <2> DEFINE r == m - k
             t == k + n + r
  <2>1. t = m + n /\ r \in Nat /\ rest \in [1 .. r -> Kinds] /\ k \in Nat /\ n \in Nat
    BY <1>7
  <2> HIDE DEF r
  <2>2. x \in [1 .. k + n + r -> Kinds]
    BY <1>6, <1>7, <2>1, Pieced
  <2>3. Pieces(x, start, new, rest, k, n)
    BY <1>6, <1>7, <2>1, Pieced
  <2> QED
    BY <2>1, <2>2, <2>3 DEF Pieces
<1> HIDE DEF x
<1>9. ASSUME NEW i \in 1 .. m + n
      PROVE  x[i] = IF i <= k THEN c[i]
                    ELSE IF i <= k + n THEN (IF i = k + 1 /\ split THEN "cont" ELSE "blank")
                    ELSE d[i - n]
  <2>1. CASE i <= k
    BY <2>1, <1>5, <1>8
  <2>2. CASE i > k /\ i <= k + n
    <3>1. i - k \in 1 .. n /\ (i - k = 1 <=> i = k + 1)
      BY <2>2
    <3> QED
      BY <2>2, <3>1, <1>6, <1>8
  <2>3. CASE i > k + n
    <3> DEFINE j == i - k - n
    <3>1. j \in 1 .. m - k /\ k + j = i - n
      BY <2>3
    <3>2. x[i] = rest[i - k - n]
      <4>1. ~(i <= k) /\ ~(i <= k + n)
        BY <2>3
      <4>2. x[i] = IF i <= k THEN start[i] ELSE IF i <= k + n THEN new[i - k]
                                                ELSE rest[i - k - n]
        BY <1>8
      <4> QED
        BY <4>1, <4>2
    <3> HIDE DEF j
    <3>3. rest[j] = d[k + j]
      BY <3>1, <1>5
    <3> QED
      BY <2>3, <3>1, <3>2, <3>3 DEF j
  <2> QED
    BY <2>1, <2>2, <2>3
<1>10. ASSUME whole, NEW i \in 1 .. m
       PROVE  /\ x[i] = "wide" => i = m \/ x[i + 1] = "cont"
              /\ x[i] = "cont" => i > 1 /\ x[i - 1] = "wide"
  <2>1. CASE i <= k
    <3>1. x[i] = c[i] /\ (i > 1 => x[i - 1] = c[i - 1])
      BY <2>1, <1>9
    <3>2. c[i] = "cont" => i > 1 /\ c[i - 1] = "wide"
      BY <1>1, <1>10 DEF Paired
    <3>3. c[i] = "wide" => i < m /\ c[i + 1] = "cont"
      BY <1>1, <1>10 DEF Paired
    <3>4. c[i] = "wide" => x[i + 1] = "cont"
      <4>1. CASE i < k
        BY <4>1, <3>3, <1>9
      <4>2. CASE i = k
        <5>1. c[i] = "wide" => split
          BY <4>2, <3>3
        <5>2. k + 1 \in 1 .. m + n /\ k + 1 <= k + n /\ ~(k + 1 <= k)
          OBVIOUS
        <5>3. split => x[k + 1] = "cont"
          BY <5>2, <1>9
        <5> QED
          BY <4>2, <5>1, <5>3
      <4> QED
        BY <2>1, <4>1, <4>2
    <3> QED
      BY <3>1, <3>2, <3>3, <3>4
  <2>2. CASE i > k /\ i <= k + n
    <3>1. x[i] = IF i = k + 1 /\ split THEN "cont" ELSE "blank"
      BY <2>2, <1>9
    <3>2. ASSUME i = k + 1, split PROVE k >= 1 /\ x[k] = "wide"
      <4>1. k + 1 \in 1 .. m /\ c[k + 1] = "cont" /\ k + 1 - 1 = k
        BY <3>2
      <4>2. k + 1 > 1 /\ c[k + 1 - 1] = "wide"
        BY <4>1, <1>1, <1>10 DEF Paired
      <4>3. k >= 1 /\ c[k] = "wide"
        BY <4>1, <4>2
      <4> QED
        BY <4>3, <1>9
    <3> QED
      BY <3>1, <3>2
  <2>3. CASE i > k + n
    <3> DEFINE j == i - n
    <3>1. j \in k + 1 .. m /\ j < m /\ x[i] = d[j] /\ x[i + 1] = d[j + 1] /\ i + 1 - n = j + 1
      BY <2>3, <1>9
    <3> HIDE DEF j
    <3>2. ASSUME d[j] = "wide" PROVE d[j + 1] = "cont"
      <4>1. c[j] = "wide"
        BY <3>1, <3>2, <1>3
      <4>2. c[j + 1] = "cont"
        BY <3>1, <4>1, <1>1, <1>10 DEF Paired
      <4> QED
        BY <3>1, <4>2, <1>3
    <3>3. ASSUME d[j] = "cont" PROVE i > 1 /\ x[i - 1] = "wide"
      <4>1. c[j] = "cont" /\ j # k + 1
        <5>1. c[j] = "cont" /\ ~(split /\ j = k + 1)
          BY <3>1, <3>3, <1>3
        <5>2. j = k + 1 => split
          BY <3>1, <5>1
        <5> QED
          BY <5>1, <5>2
      <4>2. c[j - 1] = "wide" /\ j - 1 \in k + 1 .. m
        BY <3>1, <4>1, <1>1, <1>10 DEF Paired
      <4>3. d[j - 1] = "wide"
        <5>1. ~(split /\ j - 1 = k + 1)
          BY <4>2
        <5>2. j - 1 \in 1 .. m
          BY <4>2
        <5> QED
          BY <4>2, <5>1, <5>2, <1>3
      <4>4. x[i - 1] = d[j - 1]
        <5>1. i - 1 > k + n /\ i - 1 \in 1 .. m + n /\ i - 1 - n = j - 1
          BY <3>1, <4>1 DEF j
        <5> QED
          BY <5>1, <1>9
      <4> QED
        BY <2>3, <4>3, <4>4
    <3> QED
      BY <3>1, <3>2, <3>3
  <2> QED
    BY <2>1, <2>2, <2>3
<1>11. m \in 1 .. m + n /\ m + n \in Nat
  OBVIOUS
<1>12. Truncate(x, m) \in CellsOf(m, whole)
  BY <1>8, <1>10, <1>11, Truncated
<1> QED
  BY <1>12 DEF InsertedCells, x, start, new, rest, d

\* A character put over a line leaves no half behind: neither of what it covers nor
\* of itself, if it fits.
LEMMA PutIsWhole ==
    ASSUME NEW n \in Nat, NEW whole \in BOOLEAN, NEW c \in CellsOf(n, whole),
           NEW i \in 1 .. n, NEW width \in {1, 2}, whole /\ width = 2 => i < n
    PROVE  PutCells(c, i, width) \in CellsOf(n, whole)
<1> DEFINE over == [j \in DOMAIN c |->
                      CASE j = i -> IF width = 2 THEN "wide" ELSE "narrow"
                        [] j = i - 1 /\ c[i] = "cont" -> "blank"
                        [] j = i + 1 /\ c[i] = "wide" -> "narrow"
                        [] OTHER -> c[j]]
           p == PutCells(c, i, width)
<1>1. c \in [1 .. n -> Kinds] /\ (whole => Paired(c, n)) /\ DOMAIN c = 1 .. n
  BY DEF CellsOf
<1>2. ASSUME NEW j \in 1 .. n
      PROVE  /\ j = i => over[j] = IF width = 2 THEN "wide" ELSE "narrow"
             /\ j = i - 1 /\ c[i] = "cont" => over[j] = "blank"
             /\ j = i + 1 /\ c[i] = "wide" => over[j] = "narrow"
             /\ j # i /\ ~(j = i - 1 /\ c[i] = "cont") /\ ~(j = i + 1 /\ c[i] = "wide")
                  => over[j] = c[j]
  BY <1>1
<1>3. p = [j \in DOMAIN c |->
             CASE width = 2 /\ j = i + 1 -> "cont"
               [] width = 2 /\ j = i + 2 /\ over[i + 1] = "wide" -> "blank"
               [] OTHER -> over[j]]
  BY DEF PutCells
<1> HIDE DEF over
<1>4. ASSUME NEW j \in 1 .. n
      PROVE  /\ width = 2 /\ j = i + 1 => p[j] = "cont"
             /\ width = 2 /\ j = i + 2 /\ over[i + 1] = "wide" => p[j] = "blank"
             /\ ~(width = 2 /\ j = i + 1) /\ ~(width = 2 /\ j = i + 2 /\ over[i + 1] = "wide")
                  => p[j] = over[j]
  BY <1>1, <1>3
<1>5. p = [j \in 1 .. n |-> p[j]]
  BY <1>1, <1>3
<1> HIDE DEF p
<1>6. \A j \in 1 .. n : over[j] \in Kinds
  BY <1>1, <1>2 DEF Kinds
<1>7. p \in [1 .. n -> Kinds]
  <2>1. \A j \in 1 .. n : p[j] \in Kinds
    BY <1>4, <1>6 DEF Kinds
  <2> QED
    BY <1>5, <2>1
<1>8. ASSUME whole, NEW j \in 1 .. n
      PROVE  /\ p[j] = "wide" => j < n /\ p[j + 1] = "cont"
             /\ p[j] = "cont" => j > 1 /\ p[j - 1] = "wide"
  <2>0. ASSUME NEW k \in 1 .. n
        PROVE  /\ c[k] = "wide" => k < n /\ c[k + 1] = "cont"
               /\ c[k] = "cont" => k > 1 /\ c[k - 1] = "wide"
    BY <1>1, <1>8 DEF Paired
  <2>1. CASE j < i - 1
    <3>1. /\ j + 1 \in 1 .. n /\ p[j] = c[j] /\ (j > 1 => p[j - 1] = c[j - 1])
          /\ p[j + 1] = over[j + 1]
      BY <1>2, <1>4, <2>1
    <3>2. c[j] = "wide" => ~(j + 1 = i - 1 /\ c[i] = "cont")
      <4> SUFFICES ASSUME c[j] = "wide", j + 1 = i - 1, c[i] = "cont" PROVE FALSE
        OBVIOUS
      <4>1. c[j + 1] = "cont" /\ c[i - 1] = "wide"
        BY <2>0
      <4> QED
        BY <4>1
    <3>3. c[j] = "wide" => over[j + 1] = c[j + 1]
      BY <3>1, <3>2, <1>2, <2>1
    <3>4. c[j] = "wide" => c[j + 1] = "cont"
      BY <2>0
    <3>5. c[j] = "cont" => j > 1 /\ c[j - 1] = "wide"
      BY <2>0
    <3> QED
      BY <3>1, <3>3, <3>4, <3>5, <2>1
  <2>2. CASE j = i - 1
    <3>1. p[j] = over[j] /\ (j > 1 => p[j - 1] = c[j - 1])
      BY <1>2, <1>4, <2>2
    <3>2. c[j] = "wide" => c[i] = "cont"
      BY <2>0, <2>2
    <3>3. over[j] = IF c[i] = "cont" THEN "blank" ELSE c[j]
      BY <1>2, <2>2
    <3>4. c[j] = "cont" => j > 1 /\ c[j - 1] = "wide"
      BY <2>0
    <3> QED
      BY <3>1, <3>2, <3>3, <3>4
  <2>3. CASE j = i
    <3>1. p[j] = IF width = 2 THEN "wide" ELSE "narrow"
      BY <1>2, <1>4, <2>3
    <3>2. width = 2 => i < n /\ i + 1 \in 1 .. n
      BY <1>8
    <3>3. width = 2 => p[i + 1] = "cont"
      BY <3>2, <1>4
    <3> QED
      BY <3>1, <3>2, <3>3, <2>3
  <2>4. CASE j = i + 1 /\ width = 2
    <3>1. p[j] = "cont" /\ j > 1 /\ j - 1 = i /\ i \in 1 .. n
      BY <1>4, <2>4
    <3>2. p[i] = "wide"
      BY <1>2, <1>4, <2>4
    <3> QED
      BY <3>1, <3>2
  <2>5. CASE j = i + 1 /\ width # 2
    <3>1. p[j] = over[j] /\ (c[i] = "wide" => over[j] = "narrow")
          /\ (c[i] # "wide" => over[j] = c[j])
      BY <1>2, <1>4, <2>5
    <3>2. c[j] = "cont" => c[i] = "wide"
      BY <2>0, <2>5
    <3>3. c[j] = "wide" => j < n /\ c[j + 1] = "cont" /\ j + 1 \in 1 .. n
      BY <2>0
    <3>4. j + 1 \in 1 .. n => p[j + 1] = c[j + 1]
      BY <1>2, <1>4, <2>5
    <3> QED
      BY <3>1, <3>2, <3>3, <3>4
  <2>6. CASE j > i + 1
    <3>1. over[j] = c[j] /\ j - 1 \in 1 .. n
      BY <1>2, <2>6
    <3>2. j + 1 \in 1 .. n => p[j + 1] = c[j + 1]
      BY <1>2, <1>4, <2>6
    <3>3. p[j] = "wide" \/ p[j] = "cont" => p[j] = c[j]
      <4>1. j # i + 1
        BY <2>6
      <4>2. CASE width = 2 /\ j = i + 2 /\ over[i + 1] = "wide"
        BY <4>2, <1>4
      <4>3. CASE ~(width = 2 /\ j = i + 2 /\ over[i + 1] = "wide")
        BY <3>1, <4>1, <4>3, <1>4
      <4> QED
        BY <4>2, <4>3
    <3>4. p[j] = "wide" => j < n /\ p[j + 1] = "cont"
      BY <3>2, <3>3, <2>0
    <3>5. p[j] = "cont" => p[j - 1] = "wide"
      <4> SUFFICES ASSUME p[j] = "cont" PROVE p[j - 1] = "wide"
        OBVIOUS
      <4>1. c[j] = "cont" /\ c[j - 1] = "wide"
        BY <3>3, <2>0
      <4>2. CASE j - 1 > i + 1
        <5>1. c[j - 2] # "wide" \/ c[j - 1] = "cont"
          <6>1. j - 2 \in 1 .. n /\ j - 2 + 1 = j - 1
            BY <4>2
          <6> QED
            BY <6>1, <2>0
        <5>2. over[j - 1] = c[j - 1]
          BY <3>1, <4>2, <1>2
        <5>3. j - 1 = i + 2 => over[i + 1] # "wide"
          <6> SUFFICES ASSUME j - 1 = i + 2, over[i + 1] = "wide" PROVE FALSE
            OBVIOUS
          <6>1. i + 1 \in 1 .. n /\ i + 1 = j - 2
            BY <4>2
          <6>2. c[i + 1] = "wide"
            BY <6>1, <1>2
          <6> QED
            BY <6>1, <6>2, <5>1, <4>1
        <5> QED
          BY <3>1, <4>1, <4>2, <5>2, <5>3, <1>4
      <4>3. CASE j - 1 = i + 1
        <5>1. j = i + 2 /\ i + 1 \in 1 .. n /\ c[i + 1] = "wide"
          BY <4>1, <4>3, <3>1
        <5>2. c[i] # "wide"
          BY <5>1, <2>0
        <5>3. over[i + 1] = "wide"
          BY <5>1, <5>2, <1>2
        <5>4. width = 2 => p[j] = "blank"
          BY <5>1, <5>3, <1>4
        <5>5. width = 1
          BY <5>4
        <5> QED
          BY <5>1, <5>3, <5>5, <1>4, <4>3
      <4> QED
        BY <4>2, <4>3, <2>6
    <3> QED
      BY <3>4, <3>5, <2>6
  <2> QED
    BY <2>1, <2>2, <2>3, <2>4, <2>5, <2>6
<1> QED
  BY <1>7, <1>8 DEF CellsOf, Paired, p

\* What joins a character beside it changes no half of a wide one.
LEMMA JoinedIsWhole ==
    ASSUME NEW n \in Nat, NEW whole \in BOOLEAN, NEW c \in CellsOf(n, whole), NEW i \in 1 .. n
    PROVE  [c EXCEPT ![i] = IF @ = "blank" THEN "narrow" ELSE @] \in CellsOf(n, whole)
<1> DEFINE d == [c EXCEPT ![i] = IF @ = "blank" THEN "narrow" ELSE @]
<1>1. c \in [1 .. n -> Kinds] /\ (whole => Paired(c, n))
  BY DEF CellsOf
<1>2. /\ d \in [1 .. n -> Kinds]
      /\ \A j \in 1 .. n : d[j] = IF j = i /\ c[i] = "blank" THEN "narrow" ELSE c[j]
  BY <1>1 DEF Kinds
<1> HIDE DEF d
<1>3. \A j \in 1 .. n : /\ d[j] = "wide" <=> c[j] = "wide"
                        /\ d[j] = "cont" <=> c[j] = "cont"
  BY <1>2
<1>4. whole => Paired(d, n)
  BY <1>1, <1>3 DEF Paired
<1> QED
  BY <1>2, <1>4 DEF CellsOf, d

-----------------------------------------------------------------------------
(* Grids.  Grids(R, C, whole) are the grids of R rows and C columns that      *)
(* control sequences lead to; Unused(R, C) is the alternate one before it is  *)
(* entered.                                                                   *)

\* Where the cursor may be: one past the end, or two as Valid() has it.
Past(C, whole) == IF whole THEN C ELSE Most(C, 2)

Bounds(R, C, whole, lines) ==
    [rows : {R}, cols : {C}, row : 0 .. R - 1, col : 0 .. Past(C, whole),
     srow : 0 .. R - 1, scol : 0 .. Past(C, whole), origin : BOOLEAN, sorigin : BOOLEAN,
     top : 0 .. R - 1, bot : 0 .. R - 1, bad : BOOLEAN, lines : lines]

\* The scroll region is not empty, and more than the first row where there is more.
Region(g) == g.top <= g.bot /\ (g.rows > 1 => g.bot >= 1)

Grids(R, C, whole) == {g \in Bounds(R, C, whole, [1 .. R -> LinesOf(C, whole)]) : Region(g)}
Unused(R, C) == {g \in Bounds(R, C, TRUE, {<<>>}) : Region(g)}

\* The size of a screen, and whether wide characters are whole.
Shape(R, C, whole) == R \in Dimensions /\ C \in Dimensions /\ whole \in BOOLEAN

\* h is a grid again, and no panic more than g.
Stays(g, h, R, C, whole) == h \in Grids(R, C, whole) /\ h.bad = g.bad

\* What a cursor movement changes, ...
AtRow(g, row) == [g EXCEPT !.row = row]
AtCol(g, col) == [g EXCEPT !.col = col]

LEMMA RowStays ==
    ASSUME NEW R, NEW C, NEW whole, Shape(R, C, whole), NEW g \in Grids(R, C, whole),
           NEW row \in 0 .. R - 1
    PROVE  Stays(g, AtRow(g, row), R, C, whole)
  BY DEF Stays, Grids, Bounds, Region, AtRow

\* (the column)
LEMMA ColStays ==
    ASSUME NEW R, NEW C, NEW whole, Shape(R, C, whole), NEW g \in Grids(R, C, whole),
           NEW col \in 0 .. Past(C, whole)
    PROVE  Stays(g, AtCol(g, col), R, C, whole)
  BY DEF Stays, Grids, Bounds, Region, AtCol

\* ... and a change of the lines.
OfLines(g, lines) == [g EXCEPT !.lines = lines]

LEMMA LinesStay ==
    ASSUME NEW R, NEW C, NEW whole, Shape(R, C, whole), NEW g \in Grids(R, C, whole),
           NEW lines \in [1 .. R -> LinesOf(C, whole)]
    PROVE  Stays(g, OfLines(g, lines), R, C, whole)
  BY DEF Stays, Grids, Bounds, Region, OfLines

\* Its dimensions are numbers of 16 bits.
LEMMA Dimension ==
    ASSUME NEW n \in Dimensions
    PROVE  n \in Nat \ {0} /\ n < 65536
  BY DEF Dimensions

\* The fields of a grid.
LEMMA Fields ==
    ASSUME NEW R, NEW C, NEW whole, Shape(R, C, whole), NEW g \in Grids(R, C, whole)
    PROVE  /\ R \in Nat \ {0} /\ C \in Nat \ {0} /\ R < 65536 /\ C < 65536
           /\ Past(C, whole) \in Nat /\ C <= Past(C, whole)
           /\ g.rows = R /\ g.cols = C
           /\ g.row \in 0 .. R - 1 /\ g.col \in 0 .. Past(C, whole)
           /\ g.srow \in 0 .. R - 1 /\ g.scol \in 0 .. Past(C, whole)
           /\ g.top \in 0 .. R - 1 /\ g.bot \in 0 .. R - 1
           /\ g.origin \in BOOLEAN /\ g.sorigin \in BOOLEAN /\ g.bad \in BOOLEAN
           /\ g.lines \in [1 .. R -> LinesOf(C, whole)]
           /\ g.top <= g.bot /\ (R > 1 => g.bot >= 1)
<1>1. R \in Nat \ {0} /\ C \in Nat \ {0} /\ R < 65536 /\ C < 65536
  BY Dimension DEF Shape
<1>2. Past(C, whole) \in Nat /\ C <= Past(C, whole)
  BY <1>1 DEF Past, Most
<1>3. g \in Bounds(R, C, whole, [1 .. R -> LinesOf(C, whole)]) /\ Region(g)
  BY DEF Grids
<1>4. /\ g.rows = R /\ g.cols = C
      /\ g.row \in 0 .. R - 1 /\ g.col \in 0 .. Past(C, whole)
      /\ g.srow \in 0 .. R - 1 /\ g.scol \in 0 .. Past(C, whole)
      /\ g.top \in 0 .. R - 1 /\ g.bot \in 0 .. R - 1
  BY <1>3 DEF Bounds
<1>5. g.origin \in BOOLEAN /\ g.sorigin \in BOOLEAN /\ g.bad \in BOOLEAN
  BY <1>3 DEF Bounds
<1>6. g.lines \in [1 .. R -> LinesOf(C, whole)]
  BY <1>3 DEF Bounds
<1> QED
  BY <1>1, <1>2, <1>3, <1>4, <1>5, <1>6 DEF Region

\* The cursor stays on the screen wherever a child sends it.
LEMMA ColumnsStay ==
    ASSUME NEW R, NEW C, NEW whole, Shape(R, C, whole), NEW g \in Grids(R, C, whole),
           NEW n \in Nat
    PROVE  /\ Stays(g, ColSet(g, n), R, C, whole)
           /\ Stays(g, ColIncClamp(g, n), R, C, whole)
           /\ Stays(g, ColDec(g, n), R, C, whole)
           /\ Stays(g, ColTab(g), R, C, whole)
<1>0. /\ C \in Nat \ {0} /\ Past(C, whole) \in Nat /\ C <= Past(C, whole)
      /\ g.cols = C /\ g.col \in 0 .. Past(C, whole)
  BY Fields
<1>1. ASSUME NEW k \in Nat PROVE Stays(g, ColSet(g, k), R, C, whole)
  <2>1. Within(k, C) \in 0 .. Past(C, whole)
    BY <1>0 DEF Within, Least
  <2>2. ColSet(g, k) = AtCol(g, Within(k, C))
    BY <1>0 DEF ColSet, ColClamp, AtCol, Grids, Bounds
  <2> QED
    BY <2>1, <2>2, ColStays
<1>2. g.col + n \in Nat /\ g.col - (g.col % 8) + 8 \in Nat
  BY <1>0
<1>3. Monus(g.col, n) \in 0 .. Past(C, whole)
  BY <1>0 DEF Monus, Most
<1>4. ColDec(g, n) = AtCol(g, Monus(g.col, n))
  BY DEF ColDec, AtCol
<1>5. Stays(g, ColDec(g, n), R, C, whole)
  BY <1>3, <1>4, ColStays
<1> QED
  BY <1>1, <1>2, <1>5 DEF ColIncClamp, ColTab

\* ... and a row is a row.
LEMMA RowsStay ==
    ASSUME NEW R, NEW C, NEW whole, Shape(R, C, whole), NEW g \in Grids(R, C, whole),
           NEW n \in Nat
    PROVE  /\ Stays(g, RowSet(g, n), R, C, whole)
           /\ Stays(g, RowIncClamp(g, n), R, C, whole)
           /\ Stays(g, RowDecClamp(g, n), R, C, whole)
<1>0. /\ R \in Nat \ {0} /\ g.rows = R /\ g.row \in 0 .. R - 1
      /\ g.top \in 0 .. R - 1 /\ g.bot \in 0 .. R - 1
  BY Fields
<1>1. Within(n, R) \in 0 .. R - 1
  BY <1>0 DEF Within, Least
<1>2. Least(g.row + n, Floor(g)) \in 0 .. R - 1
  BY <1>0 DEF Least, Floor, InRegion
<1>3. Most(g.row - n, Ceiling(g)) \in 0 .. R - 1
  BY <1>0 DEF Most, Ceiling, InRegion
<1>4. /\ RowSet(g, n) = AtRow(g, Within(n, R))
      /\ RowIncClamp(g, n) = AtRow(g, Least(g.row + n, Floor(g)))
      /\ RowDecClamp(g, n) = AtRow(g, Most(g.row - n, Ceiling(g)))
  BY <1>0 DEF RowSet, RowIncClamp, RowDecClamp, AtRow
<1> QED
  BY <1>1, <1>2, <1>3, <1>4, RowStays

\* Positions, with and without an origin.
LEMMA PositionStays ==
    ASSUME NEW R, NEW C, NEW whole, Shape(R, C, whole), NEW g \in Grids(R, C, whole),
           NEW row \in Nat, NEW col \in Nat
    PROVE  Stays(g, SetPos(g, row, col), R, C, whole)
<1>0. /\ R \in Nat \ {0} /\ C \in Nat \ {0} /\ C <= Past(C, whole) /\ Past(C, whole) \in Nat
      /\ g.rows = R /\ g.cols = C /\ g.row \in 0 .. R - 1
      /\ g.top \in 0 .. R - 1 /\ g.bot \in 0 .. R - 1
  BY Fields
<1> DEFINE lo == IF g.origin THEN g.top ELSE 0
           hi == IF g.origin THEN g.bot ELSE g.rows - 1
           r == Least(row + lo, hi)
           c == Within(col, C)
<1>1. r \in 0 .. R - 1 /\ c \in 0 .. Past(C, whole)
  BY <1>0 DEF Least, Within
<1>2. SetPos(g, row, col) = AtCol(AtRow(g, r), c)
  BY <1>0 DEF SetPos, ColClamp, AtRow, AtCol, Grids, Bounds
<1> HIDE DEF r, c
<1>3. Stays(g, AtRow(g, r), R, C, whole)
  BY <1>1, RowStays
<1> QED
  BY <1>1, <1>2, <1>3, ColStays DEF Stays

\* The cursor saved and brought back.
LEMMA SavedStays ==
    ASSUME NEW R, NEW C, NEW whole, Shape(R, C, whole), NEW g \in Grids(R, C, whole)
    PROVE  Stays(g, Save(g), R, C, whole) /\ Stays(g, Restore(g), R, C, whole)
  BY DEF Stays, Grids, Bounds, Region, Save, Restore

\* The scroll region and the origin mode.
LEMMA RegionStays ==
    ASSUME NEW R, NEW C, NEW whole, Shape(R, C, whole), NEW g \in Grids(R, C, whole),
           NEW top \in Nat, NEW bottom \in Nat, NEW on \in BOOLEAN
    PROVE  /\ Stays(g, SetScrollRegion(g, top, bottom), R, C, whole)
           /\ Stays(g, SetOriginMode(g, on), R, C, whole)
<1>0. R \in Nat \ {0} /\ Past(C, whole) \in Nat /\ g.rows = R
  BY Fields
<1>1. Stays(g, SetScrollRegion(g, top, bottom), R, C, whole)
  <2> DEFINE bot == Least(bottom, R - 1)
             t == IF top < bot THEN top ELSE 0
             b == IF top < bot THEN bot ELSE R - 1
             h == [g EXCEPT !.top = t, !.bot = b, !.row = t, !.col = 0]
  <2>1. t \in 0 .. R - 1 /\ b \in 0 .. R - 1 /\ t <= b /\ (R > 1 => b >= 1)
    BY <1>0 DEF Least
  <2>2. SetScrollRegion(g, top, bottom) = h
    BY <1>0 DEF SetScrollRegion
  <2> HIDE DEF t, b
  <2>3. 0 \in 0 .. Past(C, whole)
    BY <1>0
  <2>4. h \in Bounds(R, C, whole, [1 .. R -> LinesOf(C, whole)]) /\ h.bad = g.bad
    BY <2>1, <2>3 DEF Grids, Bounds
  <2>5. h.top = t /\ h.bot = b /\ h.rows = R
    BY <1>0 DEF Grids, Bounds
  <2>6. Region(h)
    BY <2>1, <2>5 DEF Region
  <2> QED
    BY <2>2, <2>4, <2>6 DEF Stays, Grids
<1>2. Stays(g, [g EXCEPT !.origin = on], R, C, whole)
  BY DEF Stays, Grids, Bounds, Region
<1>3. Stays(g, SetOriginMode(g, on), R, C, whole)
  <2> DEFINE h == [g EXCEPT !.origin = on]
  <2>1. h \in Grids(R, C, whole) /\ h.bad = g.bad
    BY <1>2 DEF Stays
  <2>2. SetOriginMode(g, on) = SetPos(h, 0, 0)
    BY DEF SetOriginMode
  <2> HIDE DEF h
  <2>3. Stays(h, SetPos(h, 0, 0), R, C, whole)
    BY <2>1, PositionStays
  <2> QED
    BY <2>1, <2>2, <2>3 DEF Stays
<1> QED
  BY <1>1, <1>3

-----------------------------------------------------------------------------
(* Moving lines. *)

\* h is g with other lines at most.
Moved(g, h, R, C, whole) ==
    Stays(g, h, R, C, whole) /\ h.row = g.row /\ h.col = g.col

\* The set of these, as a fold over the lines that move has it.
Moves(g, R, C, whole) ==
    {h \in Grids(R, C, whole) : h.bad = g.bad /\ h.row = g.row /\ h.col = g.col}

LEMMA LinesMove ==
    ASSUME NEW R, NEW C, NEW whole, Shape(R, C, whole), NEW g \in Grids(R, C, whole),
           NEW h \in Moves(g, R, C, whole), NEW lines \in [1 .. R -> LinesOf(C, whole)]
    PROVE  OfLines(h, lines) \in Moves(g, R, C, whole)
<1>1. h \in Grids(R, C, whole)
  BY DEF Moves
<1>2. OfLines(h, lines) \in Grids(R, C, whole) /\ OfLines(h, lines).bad = h.bad
  BY <1>1, LinesStay DEF Stays
<1>3. OfLines(h, lines).row = h.row /\ OfLines(h, lines).col = h.col
  BY <1>1 DEF OfLines, Grids, Bounds
<1> QED
  BY <1>2, <1>3 DEF Moves

\* A line comes in below the region and another goes: the lines are as many.
LEMMA OnePulledUp ==
    ASSUME NEW R, NEW C, NEW whole, Shape(R, C, whole), NEW g \in Grids(R, C, whole),
           NEW h \in Moves(g, R, C, whole), NEW at \in 0 .. R - 1
    PROVE  PulledUp(h, at) \in Moves(g, R, C, whole)
<1>1. h \in Grids(R, C, whole)
  BY DEF Moves
<1>2. /\ R \in Nat \ {0} /\ C \in Nat \ {0} /\ whole \in BOOLEAN /\ h.cols = C
      /\ h.bot \in 0 .. R - 1 /\ h.lines \in [1 .. R -> LinesOf(C, whole)]
  BY <1>1, Fields DEF Shape
<1>3. NewRow(C) \in LinesOf(C, whole)
  BY <1>2, NewRowIsWhole
<1> DEFINE more == InsertAt(h.lines, h.bot + 2, NewRow(C))
           lines == RemoveAt(more, at + 1)
<1>4. R + 1 \in Nat /\ h.bot + 2 \in 1 .. R + 1 /\ at + 1 \in 1 .. R + 1 /\ (R + 1) - 1 = R
  BY <1>2
<1>5. more \in [1 .. R + 1 -> LinesOf(C, whole)]
  BY <1>2, <1>3, <1>4, Inserted
<1> HIDE DEF more
<1>6. lines \in [1 .. (R + 1) - 1 -> LinesOf(C, whole)]
  BY <1>4, <1>5, Removed
<1>7. PulledUp(h, at) = OfLines(h, lines)
  BY <1>2 DEF PulledUp, OfLines, more
<1> HIDE DEF lines
<1> QED
  BY <1>4, <1>6, <1>7, LinesMove

\* The region's last line goes and another comes in.
LEMMA OnePushedDown ==
    ASSUME NEW R, NEW C, NEW whole, Shape(R, C, whole), NEW g \in Grids(R, C, whole),
           NEW h \in Moves(g, R, C, whole), NEW at \in 0 .. R - 1
    PROVE  PushedDown(h, at) \in Moves(g, R, C, whole)
<1>1. h \in Grids(R, C, whole)
  BY DEF Moves
<1>2. /\ R \in Nat \ {0} /\ C \in Nat \ {0} /\ whole \in BOOLEAN /\ h.cols = C
      /\ h.bot \in 0 .. R - 1 /\ h.lines \in [1 .. R -> LinesOf(C, whole)]
  BY <1>1, Fields DEF Shape
<1>3. NewRow(C) \in LinesOf(C, whole)
  BY <1>2, NewRowIsWhole
<1> DEFINE fewer == RemoveAt(h.lines, h.bot + 1)
           again == InsertAt(fewer, at + 1, NewRow(C))
           lines == [again EXCEPT ![h.bot + 1].w = FALSE]
<1>4. R - 1 \in Nat /\ h.bot + 1 \in 1 .. R /\ at + 1 \in 1 .. (R - 1) + 1 /\ (R - 1) + 1 = R
  BY <1>2
<1>5. fewer \in [1 .. R - 1 -> LinesOf(C, whole)]
  BY <1>2, <1>4, Removed
<1> HIDE DEF fewer
<1>6. again \in [1 .. (R - 1) + 1 -> LinesOf(C, whole)]
  BY <1>3, <1>4, <1>5, Inserted
<1> HIDE DEF again
<1>7. again \in [1 .. R -> LinesOf(C, whole)]
  BY <1>4, <1>6
<1>8. lines \in [1 .. R -> LinesOf(C, whole)]
  BY <1>4, <1>7 DEF LinesOf
<1>9. PushedDown(h, at) = OfLines(h, lines)
  BY <1>2 DEF PushedDown, OfLines, again, fewer
<1> HIDE DEF lines
<1> QED
  BY <1>8, <1>9, LinesMove

\* Any number of them.
LEMMA PulledStay ==
    ASSUME NEW R, NEW C, NEW whole, Shape(R, C, whole), NEW g \in Grids(R, C, whole),
           NEW n \in Nat, NEW at \in 0 .. R - 1
    PROVE  FoldLeft(PulledUp, g, Repeat(n, at)) \in Moves(g, R, C, whole)
<1> DEFINE Holds == [k \in 0 .. n |-> Moves(g, R, C, whole)]
           seq == Repeat(n, at)
<1>1. DOMAIN seq = 1 .. n /\ \A k \in 1 .. n : seq[k] = at
  BY DEF Repeat
<1>2. g \in Holds[0]
  BY DEF Moves
<1>3. \A k \in 1 .. n : \A x \in Holds[k - 1] : PulledUp(x, seq[k]) \in Holds[k]
  <2> TAKE k \in 1 .. n
  <2>1. Holds[k - 1] = Moves(g, R, C, whole) /\ Holds[k] = Moves(g, R, C, whole)
    OBVIOUS
  <2> QED
    BY <1>1, <2>1, OnePulledUp
<1>4. Holds[n] = Moves(g, R, C, whole)
  OBVIOUS
<1> HIDE DEF Holds, seq
<1>5. PullingUp!Folded(g, seq) \in Holds[n]
  BY <1>1, <1>2, <1>3, PullingUp!FoldInvariant
<1>6. PullingUp!Folded(g, seq) = FoldLeft(PulledUp, g, Repeat(n, at))
  BY DEF seq, PullingUp!Folded, PullingUp!FoldLeft, PullingUp!MapThenFoldSet, PullingUp!Max,
         FoldLeft, MapThenFoldSet, Max
<1> QED
  BY <1>4, <1>5, <1>6

\* (downwards)
LEMMA PushedStay ==
    ASSUME NEW R, NEW C, NEW whole, Shape(R, C, whole), NEW g \in Grids(R, C, whole),
           NEW n \in Nat, NEW at \in 0 .. R - 1
    PROVE  FoldLeft(PushedDown, g, Repeat(n, at)) \in Moves(g, R, C, whole)
<1> DEFINE Holds == [k \in 0 .. n |-> Moves(g, R, C, whole)]
           seq == Repeat(n, at)
<1>1. DOMAIN seq = 1 .. n /\ \A k \in 1 .. n : seq[k] = at
  BY DEF Repeat
<1>2. g \in Holds[0]
  BY DEF Moves
<1>3. \A k \in 1 .. n : \A x \in Holds[k - 1] : PushedDown(x, seq[k]) \in Holds[k]
  <2> TAKE k \in 1 .. n
  <2>1. Holds[k - 1] = Moves(g, R, C, whole) /\ Holds[k] = Moves(g, R, C, whole)
    OBVIOUS
  <2> QED
    BY <1>1, <2>1, OnePushedDown
<1>4. Holds[n] = Moves(g, R, C, whole)
  OBVIOUS
<1> HIDE DEF Holds, seq
<1>5. PushingDown!Folded(g, seq) \in Holds[n]
  BY <1>1, <1>2, <1>3, PushingDown!FoldInvariant
<1>6. PushingDown!Folded(g, seq) = FoldLeft(PushedDown, g, Repeat(n, at))
  BY DEF seq, PushingDown!Folded, PushingDown!FoldLeft, PushingDown!MapThenFoldSet,
         PushingDown!Max, FoldLeft, MapThenFoldSet, Max
<1> QED
  BY <1>4, <1>5, <1>6

\* The four ways lines move.
LEMMA LinesMoved ==
    ASSUME NEW R, NEW C, NEW whole, Shape(R, C, whole), NEW g \in Grids(R, C, whole),
           NEW n \in Nat
    PROVE  /\ Moved(g, ScrollUp(g, n), R, C, whole)
           /\ Moved(g, ScrollDown(g, n), R, C, whole)
           /\ Moved(g, InsertLines(g, n), R, C, whole)
           /\ Moved(g, DeleteLines(g, n), R, C, whole)
<1>0. /\ R \in Nat \ {0} /\ g.rows = R /\ g.row \in 0 .. R - 1 /\ g.top \in 0 .. R - 1
  BY Fields
<1>1. Least(n, g.rows - g.top) \in Nat /\ Least(n, g.rows - g.row) \in Nat
  BY <1>0 DEF Least
<1>2. /\ ScrollUp(g, n) \in Moves(g, R, C, whole)
      /\ DeleteLines(g, n) \in Moves(g, R, C, whole)
  BY <1>0, <1>1, PulledStay DEF ScrollUp, DeleteLines
<1>3. /\ ScrollDown(g, n) \in Moves(g, R, C, whole)
      /\ InsertLines(g, n) \in Moves(g, R, C, whole)
  BY <1>0, PushedStay DEF ScrollDown, InsertLines
<1> QED
  BY <1>2, <1>3 DEF Moves, Moved, Stays

\* A line feed, and its reverse.
LEMMA ScrollStays ==
    ASSUME NEW R, NEW C, NEW whole, Shape(R, C, whole), NEW g \in Grids(R, C, whole),
           NEW n \in Nat
    PROVE  /\ Stays(g, RowIncScroll(g, n), R, C, whole)
           /\ RowIncScroll(g, n).col = g.col
           /\ Stays(g, RowDecScroll(g, n), R, C, whole)
<1>0. /\ R \in Nat \ {0} /\ g.rows = R /\ g.row \in 0 .. R - 1 /\ g.top \in 0 .. R - 1
      /\ g.bot \in 0 .. R - 1
  BY Fields
<1> DEFINE d == RowIncClamp(g, n)
           u == RowDecClamp(g, n)
           above == Monus(Ceiling(g), Monus(g.row, n))
<1>1. Stays(g, d, R, C, whole) /\ Stays(g, u, R, C, whole)
  BY RowsStay
<1>2. d \in Grids(R, C, whole) /\ u \in Grids(R, C, whole) /\ d.bad = g.bad /\ u.bad = g.bad
  BY <1>1 DEF Stays
<1>3. d.col = g.col
  BY DEF RowIncClamp, Grids, Bounds
<1>4. Scrolled(g, n) \in Nat /\ above + Monus(n, g.row) \in Nat
  BY <1>0 DEF Scrolled, Monus, Most, Ceiling, InRegion
<1>5. /\ RowIncScroll(g, n) = ScrollUp(d, Scrolled(g, n))
      /\ RowDecScroll(g, n) = ScrollDown(u, above + Monus(n, g.row))
  BY DEF RowIncScroll, RowDecScroll
<1> HIDE DEF d, u, above
<1>6. /\ Moved(d, ScrollUp(d, Scrolled(g, n)), R, C, whole)
      /\ Moved(u, ScrollDown(u, above + Monus(n, g.row)), R, C, whole)
  BY <1>2, <1>4, LinesMoved
<1> QED
  BY <1>2, <1>3, <1>5, <1>6 DEF Moved, Stays

\* Wrapping finds the line it left, where there are two rows or more.
LEMMA WrapStays ==
    ASSUME NEW R, NEW C, NEW whole, Shape(R, C, whole), NEW g \in Grids(R, C, whole),
           NEW filled \in BOOLEAN
    PROVE  /\ ColWrap(g, filled) \in Grids(R, C, whole)
           /\ ColWrap(g, filled).col = 0
           /\ R > 1 => ColWrap(g, filled).bad = g.bad
<1>0. /\ R \in Nat \ {0} /\ R < 65536 /\ g.rows = R /\ g.row \in 0 .. R - 1
      /\ g.top \in 0 .. R - 1 /\ g.bot \in 0 .. R - 1 /\ (R > 1 => g.bot >= 1)
      /\ Past(C, whole) \in Nat
  BY Fields
<1> DEFINE z == AtCol(g, 0)
           next == RowIncScroll(z, 1)
           left == Minus(g.row, Scrolled(g, 1))
           w == filled /\ left + 1 = next.row
           lines == [next.lines EXCEPT ![left + 1].w = w]
<1>1. z \in Grids(R, C, whole) /\ z.bad = g.bad
  <2>1. 0 \in 0 .. Past(C, whole)
    BY <1>0
  <2> QED
    BY <2>1, ColStays DEF Stays
<1>2. z.col = 0
  BY DEF AtCol, Grids, Bounds
<1>3. ColWrap(g, filled) = IF left >= R THEN [next EXCEPT !.bad = TRUE]
                           ELSE [next EXCEPT !.lines[left + 1].w = w]
  BY <1>0 DEF ColWrap, AtCol
<1> HIDE DEF z
<1>4. next \in Grids(R, C, whole) /\ next.bad = g.bad /\ next.col = 0
  <2>1. 1 \in Nat
    OBVIOUS
  <2>2. Stays(z, RowIncScroll(z, 1), R, C, whole) /\ RowIncScroll(z, 1).col = z.col
    BY <1>1, <2>1, ScrollStays
  <2> QED
    BY <1>1, <1>2, <2>2 DEF Stays
<1> HIDE DEF next
<1>5. left \in Nat
  <2>1. Scrolled(g, 1) \in Nat
    BY <1>0 DEF Scrolled, Monus, Most
  <2> QED
    BY <1>0, <2>1 DEF Minus
<1>6. R > 1 => left < R
  <2>0. SUFFICES ASSUME R > 1 PROVE left < R
    OBVIOUS
  <2>1. Scrolled(g, 1) \in {0, 1} /\ Scrolled(g, 1) <= g.row
    BY <1>0, <2>0 DEF Scrolled, InRegion, Monus, Most
  <2>2. left = g.row - Scrolled(g, 1)
    BY <1>0, <2>1 DEF Minus
  <2> QED
    BY <1>0, <2>1, <2>2
<1> HIDE DEF left
<1>7. CASE left >= R
  <2>1. ColWrap(g, filled) = [next EXCEPT !.bad = TRUE]
    BY <1>3, <1>7
  <2>2. [next EXCEPT !.bad = TRUE] \in Grids(R, C, whole)
        /\ [next EXCEPT !.bad = TRUE].col = 0
    BY <1>4 DEF Grids, Bounds, Region
  <2>3. ~(R > 1)
    BY <1>0, <1>5, <1>6, <1>7
  <2> QED
    BY <2>1, <2>2, <2>3
<1>8. CASE ~(left >= R)
  <2>1. left + 1 \in 1 .. R /\ w \in BOOLEAN
    BY <1>0, <1>5, <1>8
  <2>2. next.lines \in [1 .. R -> LinesOf(C, whole)]
    BY <1>4, Fields
  <2>3. ColWrap(g, filled) = OfLines(next, lines)
    BY <1>3, <1>8 DEF OfLines
  <2> HIDE DEF w
  <2>4. lines \in [1 .. R -> LinesOf(C, whole)]
    BY <2>1, <2>2 DEF LinesOf
  <2> HIDE DEF lines
  <2>5. Stays(next, OfLines(next, lines), R, C, whole)
    BY <1>4, <2>4, LinesStay
  <2>6. OfLines(next, lines).col = 0
    BY <1>4 DEF OfLines, Grids, Bounds
  <2> QED
    BY <1>4, <2>3, <2>5, <2>6 DEF Stays
<1> QED
  BY <1>7, <1>8

-----------------------------------------------------------------------------
(* Erasing and shifting cells. *)

\* The line of the cursor can be replaced by another.
LEMMA LineStays ==
    ASSUME NEW R, NEW C, NEW whole, Shape(R, C, whole), NEW g \in Grids(R, C, whole),
           NEW l \in LinesOf(C, whole)
    PROVE  Line(g) \in LinesOf(C, whole) /\ Stays(g, WithLine(g, l), R, C, whole)
<1>0. /\ R \in Nat \ {0} /\ g.row \in 0 .. R - 1
      /\ g.lines \in [1 .. R -> LinesOf(C, whole)]
  BY Fields
<1>1. g.row + 1 \in 1 .. R
  BY <1>0
<1> DEFINE lines == [g.lines EXCEPT ![g.row + 1] = l]
<1>2. WithLine(g, l) = OfLines(g, lines)
  BY DEF WithLine, OfLines
<1>3. lines \in [1 .. R -> LinesOf(C, whole)]
  BY <1>0, <1>1
<1> HIDE DEF lines
<1>4. Stays(g, WithLine(g, l), R, C, whole)
  BY <1>2, <1>3, LinesStay
<1> QED
  BY <1>0, <1>1, <1>4 DEF Line

\* Erasing some columns, ...
LEMMA ColsErased ==
    ASSUME NEW R, NEW C, NEW whole, Shape(R, C, whole), NEW g \in Grids(R, C, whole),
           NEW from \in Nat, NEW to \in 0 .. C
    PROVE  Stays(g, EraseCols(g, from, to), R, C, whole)
<1>0. C \in Nat \ {0} /\ whole \in BOOLEAN
  BY Fields DEF Shape
<1> DEFINE n == Monus(to, from)
           seq == [k \in 1 .. n |-> from + k]
           Holds == [k \in 0 .. n |-> LinesOf(C, whole)]
           l == Line(g)
<1>1. n \in Nat /\ DOMAIN seq = 1 .. n /\ \A k \in 1 .. n : seq[k] \in 1 .. C
  BY <1>0 DEF Monus, Most
<1> HIDE DEF n, seq
<1>2. l \in LinesOf(C, whole)
  <2>1. NewRow(C) \in LinesOf(C, whole)
    BY <1>0, NewRowIsWhole
  <2> QED
    BY <2>1, LineStays
<1> HIDE DEF l
<1>3. \A k \in 1 .. n : \A x \in Holds[k - 1] : EraseCell(x, seq[k]) \in Holds[k]
  <2> TAKE k \in 1 .. n
  <2>1. Holds[k - 1] = LinesOf(C, whole) /\ Holds[k] = LinesOf(C, whole)
    BY <1>1
  <2> QED
    BY <1>0, <1>1, <2>1, Erased
<1>4. l \in Holds[0] /\ Holds[n] = LinesOf(C, whole)
  BY <1>1, <1>2
<1> HIDE DEF Holds
<1>5. Erasing!Folded(l, seq) \in Holds[n]
  BY <1>1, <1>3, <1>4, Erasing!FoldInvariant
<1>6. EraseCols(g, from, to) = WithLine(g, Erasing!Folded(l, seq))
  BY DEF EraseCols, l, n, seq, Erasing!Folded, Erasing!FoldLeft, Erasing!MapThenFoldSet,
         Erasing!Max, FoldLeft, MapThenFoldSet, Max
<1> QED
  BY <1>4, <1>5, <1>6, LineStays

\* ... or some lines.
LEMMA LinesErased ==
    ASSUME NEW R, NEW C, NEW whole, Shape(R, C, whole), NEW g \in Grids(R, C, whole),
           NEW from \in Int, NEW to \in Int
    PROVE  Stays(g, EraseLines(g, from, to), R, C, whole)
<1>0. /\ R \in Nat \ {0} /\ C \in Nat \ {0} /\ whole \in BOOLEAN /\ g.cols = C
      /\ g.lines \in [1 .. R -> LinesOf(C, whole)]
  BY Fields DEF Shape
<1>1. NewRow(C) \in LinesOf(C, whole)
  BY <1>0, NewRowIsWhole
<1> DEFINE lines == [r \in 1 .. R |-> IF r - 1 \in from .. (to - 1) THEN NewRow(C)
                                      ELSE g.lines[r]]
<1>2. lines \in [1 .. R -> LinesOf(C, whole)]
  BY <1>0, <1>1
<1>3. EraseLines(g, from, to) = OfLines(g, lines)
  BY <1>0 DEF EraseLines, OfLines
<1> HIDE DEF lines
<1> QED
  BY <1>2, <1>3, LinesStay

\* ED, EL and ECH.
LEMMA ErasureStays ==
    ASSUME NEW R, NEW C, NEW whole, Shape(R, C, whole), NEW g \in Grids(R, C, whole),
           NEW n \in Nat
    PROVE  /\ Stays(g, EraseRowForward(g), R, C, whole)
           /\ Stays(g, EraseRowBackward(g), R, C, whole)
           /\ Stays(g, EraseRow(g), R, C, whole)
           /\ Stays(g, EraseAll(g), R, C, whole)
           /\ Stays(g, EraseAllForward(g), R, C, whole)
           /\ Stays(g, EraseAllBackward(g), R, C, whole)
           /\ Stays(g, EraseCells(g, n), R, C, whole)
<1>1. ASSUME NEW h \in Grids(R, C, whole)
      PROVE  /\ Stays(h, EraseRowForward(h), R, C, whole)
             /\ Stays(h, EraseRowBackward(h), R, C, whole)
  <2>0. C \in Nat \ {0} /\ h.cols = C /\ h.col \in Nat
    BY <1>1, Fields
  <2>1. C \in 0 .. C /\ Least(h.col, C - 1) + 1 \in 0 .. C /\ 0 \in Nat
    BY <2>0 DEF Least
  <2>2. Stays(h, EraseCols(h, h.col, C), R, C, whole)
    BY <1>1, <2>0, <2>1, ColsErased
  <2>3. Stays(h, EraseCols(h, 0, Least(h.col, C - 1) + 1), R, C, whole)
    BY <1>1, <2>1, ColsErased
  <2> QED
    BY <2>0, <2>2, <2>3 DEF EraseRowForward, EraseRowBackward
<1>0. C \in Nat \ {0} /\ g.cols = C /\ g.col \in Nat /\ g.row \in Int /\ g.rows \in Int
  BY Fields
<1>2. /\ Stays(g, EraseLines(g, g.row, g.row + 1), R, C, whole)
      /\ Stays(g, EraseLines(g, 0, g.rows), R, C, whole)
      /\ Stays(g, EraseLines(g, g.row + 1, g.rows), R, C, whole)
      /\ Stays(g, EraseLines(g, 0, g.row), R, C, whole)
  <2>1. 0 \in Int /\ g.row + 1 \in Int
    BY <1>0
  <2> QED
    BY <1>0, <2>1, LinesErased
<1>3. Stays(g, EraseCells(g, n), R, C, whole)
  <2>1. Least(g.col + n, C) \in 0 .. C
    BY <1>0 DEF Least
  <2>2. Stays(g, EraseCols(g, g.col, Least(g.col + n, C)), R, C, whole)
    BY <1>0, <2>1, ColsErased
  <2> QED
    BY <1>0, <2>2 DEF EraseCells
<1>4. /\ Stays(g, EraseAllForward(g), R, C, whole)
      /\ Stays(g, EraseAllBackward(g), R, C, whole)
  BY <1>1, <1>2 DEF EraseAllForward, EraseAllBackward, Stays
<1> QED
  BY <1>1, <1>2, <1>3, <1>4 DEF EraseRow, EraseAll

\* A grid after an operation that panics at most where a wide character was cut.
Kept(g, h, R, C, whole) == h \in Grids(R, C, whole) /\ (whole => h.bad = g.bad)

\* A panic leaves the rest as it is.
LEMMA BadStays ==
    ASSUME NEW R, NEW C, NEW whole, Shape(R, C, whole), NEW g \in Grids(R, C, whole), ~whole
    PROVE  Kept(g, [g EXCEPT !.bad = TRUE], R, C, whole)
<1> DEFINE h == [g EXCEPT !.bad = TRUE]
<1>1. h \in Bounds(R, C, whole, [1 .. R -> LinesOf(C, whole)])
  BY DEF Grids, Bounds
<1>2. Region(h)
  BY DEF Grids, Bounds, Region
<1> QED
  BY <1>1, <1>2 DEF Kept, Grids

\* ICH.
LEMMA InsertStays ==
    ASSUME NEW R, NEW C, NEW whole, Shape(R, C, whole), NEW g \in Grids(R, C, whole),
           NEW n \in Nat \ {0}
    PROVE  Kept(g, InsertCells(g, n), R, C, whole)
<1>0. /\ C \in Nat \ {0} /\ g.cols = C /\ g.col \in 0 .. Past(C, whole) /\ whole \in BOOLEAN
      /\ Past(C, whole) \in Nat
  BY Fields DEF Shape
<1>1. CASE g.col > C
  <2>1. ~whole
    BY <1>0, <1>1 DEF Past
  <2>2. InsertCells(g, n) = [g EXCEPT !.bad = TRUE]
    BY <1>0, <1>1 DEF InsertCells
  <2> QED
    BY <2>1, <2>2, BadStays
<1>2. CASE ~(g.col > C)
  <2> DEFINE c == Line(g).c
             k == g.col
             split == k < C /\ c[k + 1] = "cont"
             d == InsertedCells(c, C, k, n, split)
  <2>1. c \in CellsOf(C, whole)
    <3>1. NewRow(C) \in LinesOf(C, whole)
      BY <1>0, NewRowIsWhole
    <3>2. Line(g) \in LinesOf(C, whole)
      BY <3>1, LineStays
    <3> QED
      BY <3>2 DEF LinesOf
  <2>2. k \in 0 .. C /\ split \in BOOLEAN /\ (split <=> k < C /\ c[k + 1] = "cont")
    BY <1>0, <1>2
  <2>3. InsertCells(g, n) = WithLine(g, [c |-> d, w |-> FALSE])
    BY <1>0, <1>2 DEF InsertCells, InsertedCells
  <2> HIDE DEF c, k, split
  <2>4. d \in CellsOf(C, whole)
    BY <1>0, <2>1, <2>2, Shifted
  <2> HIDE DEF d
  <2>5. [c |-> d, w |-> FALSE] \in LinesOf(C, whole)
    BY <2>4 DEF LinesOf
  <2>6. Stays(g, WithLine(g, [c |-> d, w |-> FALSE]), R, C, whole)
    BY <2>5, LineStays
  <2> QED
    BY <2>3, <2>6 DEF Stays, Kept
<1> QED
  BY <1>1, <1>2

\* DCH.
LEMMA DeleteStays ==
    ASSUME NEW R, NEW C, NEW whole, Shape(R, C, whole), NEW g \in Grids(R, C, whole),
           NEW n \in Nat
    PROVE  Kept(g, DeleteCells(g, n), R, C, whole)
<1>0. /\ C \in Nat \ {0} /\ C < 65536 /\ g.cols = C /\ g.col \in 0 .. Past(C, whole)
      /\ whole \in BOOLEAN /\ Past(C, whole) \in Nat
  BY Fields DEF Shape
<1>1. CASE g.col > C
  <2>1. ~whole
    BY <1>0, <1>1 DEF Past
  <2>2. DeleteCells(g, n) = [g EXCEPT !.bad = TRUE]
    BY <1>0, <1>1 DEF DeleteCells
  <2> QED
    BY <2>1, <2>2, BadStays
<1>2. CASE ~(g.col > C)
  <2> DEFINE count == Least(n, Minus(g.cols, g.col))
             seq == Repeat(count, g.col + 1)
             Holds == [k \in 0 .. count |-> LinesOf(C - k, whole)]
             l == Line(g)
             left == Removing!Folded(l, seq)
  <2>1. count \in Nat /\ g.col + 1 \in Nat \ {0} /\ g.col + count <= C
    <3>1. Minus(g.cols, g.col) = C - g.col
      BY <1>0, <1>2 DEF Minus
    <3> QED
      BY <1>0, <1>2, <3>1 DEF Least
  <2>2. l \in LinesOf(C, whole)
    <3>1. NewRow(C) \in LinesOf(C, whole)
      BY <1>0, NewRowIsWhole
    <3> QED
      BY <3>1, LineStays
  <2> HIDE DEF l
  <2>3. DeleteCells(g, n) = WithLine(g, ResizeRow(left, C))
    BY <1>0, <1>2 DEF DeleteCells, l, Removing!Folded, Removing!FoldLeft,
       Removing!MapThenFoldSet, Removing!Max, FoldLeft, MapThenFoldSet, Max
  <2> HIDE DEF count
  <2>4. DOMAIN seq = 1 .. count /\ \A k \in 1 .. count : seq[k] = g.col + 1
    BY DEF Repeat
  <2> HIDE DEF seq
  <2>5. \A k \in 1 .. count : \A x \in Holds[k - 1] : RemoveCell(x, seq[k]) \in Holds[k]
    <3> SUFFICES ASSUME NEW k \in 1 .. count, NEW x \in Holds[k - 1]
                 PROVE  RemoveCell(x, seq[k]) \in Holds[k]
      OBVIOUS
    <3> DEFINE m == C - (k - 1)
    <3>1. Holds[k - 1] = LinesOf(m, whole) /\ Holds[k] = LinesOf(C - k, whole)
      BY <2>1
    <3>2. m \in Nat /\ g.col + 1 \in 1 .. m /\ m - 1 = C - k
      BY <1>0, <2>1
    <3> HIDE DEF m, Holds
    <3>3. RemoveCell(x, g.col + 1) \in LinesOf(m - 1, whole)
      BY <1>0, <3>1, <3>2, RemovedIsWhole
    <3> QED
      BY <2>4, <3>1, <3>2, <3>3
  <2>6. l \in Holds[0] /\ Holds[count] = LinesOf(C - count, whole)
    <3>1. C - 0 = C /\ 0 \in 0 .. count /\ count \in 0 .. count
      BY <1>0, <2>1
    <3> QED
      BY <2>2, <3>1
  <2> HIDE DEF Holds
  <2>7. left \in LinesOf(C - count, whole)
    <3>1. left \in Holds[count]
      BY <2>1, <2>4, <2>5, <2>6, Removing!FoldInvariant
    <3> QED
      BY <2>6, <3>1
  <2> HIDE DEF left
  <2>8. C - count \in Nat /\ C - count <= C
    BY <1>0, <2>1
  <2>9. ResizeRow(left, C) \in LinesOf(C, whole)
    BY <1>0, <2>7, <2>8, Resized
  <2>10. Stays(g, WithLine(g, ResizeRow(left, C)), R, C, whole)
    BY <2>9, LineStays
  <2> QED
    BY <2>3, <2>10 DEF Stays, Kept
<1> QED
  BY <1>1, <1>2

-----------------------------------------------------------------------------
(* Printing a character. *)

\* A zero-width character finds the cell of the one before it.
LEMMA JoinStays ==
    ASSUME NEW R, NEW C, NEW whole, Shape(R, C, whole), NEW g \in Grids(R, C, whole),
           NEW row \in 0 .. R - 1, NEW col \in Nat, whole => col < C
    PROVE  Kept(g, JoinCell(g, row, col), R, C, whole)
<1>0. /\ R \in Nat \ {0} /\ C \in Nat \ {0} /\ g.cols = C /\ whole \in BOOLEAN
      /\ g.lines \in [1 .. R -> LinesOf(C, whole)]
  BY Fields DEF Shape
<1> DEFINE r == row + 1
           l == g.lines[r]
           c == l.c
           at == IF col < C /\ c[col + 1] = "cont" THEN Minus(col, 1) ELSE col
           d == [c EXCEPT ![at + 1] = IF @ = "blank" THEN "narrow" ELSE @]
           lines == [g.lines EXCEPT ![r] = [l EXCEPT !.c = d]]
<1>1. r \in 1 .. R /\ l \in LinesOf(C, whole)
  BY <1>0
<1>2. JoinCell(g, row, col) = IF at >= C THEN [g EXCEPT !.bad = TRUE]
                              ELSE [g EXCEPT !.lines[r].c[at + 1] =
                                       IF @ = "blank" THEN "narrow" ELSE @]
  BY <1>0 DEF JoinCell
<1>3. c \in CellsOf(C, whole) /\ l.w \in BOOLEAN
  BY <1>1 DEF LinesOf
<1>4. at \in Nat /\ (whole => at < C)
  <2>1. Minus(col, 1) \in Nat /\ (col > 0 => Minus(col, 1) <= col)
    BY DEF Minus
  <2>2. ASSUME whole, col < C, c[col + 1] = "cont" PROVE col > 0
    BY <1>0, <1>3, <2>2 DEF CellsOf, Paired
  <2> QED
    BY <1>0, <2>1, <2>2
<1> HIDE DEF at
<1>5. CASE at >= C
  <2>1. ~whole
    BY <1>0, <1>4, <1>5
  <2> QED
    BY <1>2, <1>5, <2>1, BadStays
<1>6. CASE ~(at >= C)
  <2>1. at + 1 \in 1 .. C
    BY <1>0, <1>4, <1>6
  <2>2. JoinCell(g, row, col) = OfLines(g, lines)
    BY <1>2, <1>6 DEF OfLines
  <2> HIDE DEF c
  <2>3. d \in CellsOf(C, whole)
    BY <1>0, <1>3, <2>1, JoinedIsWhole
  <2> HIDE DEF d
  <2>4. [l EXCEPT !.c = d] \in LinesOf(C, whole)
    BY <1>1, <2>3 DEF LinesOf
  <2> HIDE DEF l
  <2>5. lines \in [1 .. R -> LinesOf(C, whole)]
    BY <1>0, <1>1, <2>4
  <2> HIDE DEF lines
  <2> QED
    BY <2>2, <2>5, LinesStay DEF Stays, Kept
<1> QED
  BY <1>5, <1>6

\* (wherever the cursor is)
LEMMA CombineStays ==
    ASSUME NEW R, NEW C, NEW whole, Shape(R, C, whole), NEW g \in Grids(R, C, whole)
    PROVE  Kept(g, Combine(g), R, C, whole)
<1>0. /\ R \in Nat \ {0} /\ C \in Nat \ {0} /\ g.cols = C /\ g.row \in 0 .. R - 1
      /\ g.col \in 0 .. Past(C, whole) /\ whole \in BOOLEAN /\ Past(C, whole) \in Nat
      /\ (whole => Past(C, whole) = C)
  BY Fields DEF Shape, Past
<1>1. CASE g.col > 0
  <2>1. g.col - 1 \in Nat /\ (whole => g.col - 1 < C)
    BY <1>0, <1>1
  <2> QED
    BY <1>0, <1>1, <2>1, JoinStays DEF Combine
<1>2. CASE ~(g.col > 0) /\ g.row > 0 /\ g.lines[g.row].w
  <2>1. C - 1 \in Nat /\ C - 1 < C /\ g.row - 1 \in 0 .. R - 1
    BY <1>0, <1>2
  <2> QED
    BY <1>0, <1>2, <2>1, JoinStays DEF Combine
<1>3. CASE ~(g.col > 0) /\ ~(g.row > 0 /\ g.lines[g.row].w)
  BY <1>3 DEF Combine, Kept
<1> QED
  BY <1>1, <1>2, <1>3

\* A character that fits is put on the line, and the cursor goes past it.
LEMMA PutStays ==
    ASSUME NEW R, NEW C, NEW whole, Shape(R, C, whole), NEW g \in Grids(R, C, whole),
           NEW width \in {1, 2},
           \/ g.col + width <= C
           \/ ~whole /\ C < width
    PROVE  Kept(g, Put(g, width), R, C, whole)
<1>0. /\ C \in Nat \ {0} /\ g.cols = C /\ g.col \in Nat /\ whole \in BOOLEAN
      /\ Past(C, whole) \in Nat /\ C <= Past(C, whole)
  BY Fields DEF Shape
<1> DEFINE i == g.col + 1
           l == Line(g)
           w == l.w /\ ~(width = 2 /\ i + 2 = C /\ l.c[i] # "wide" /\ l.c[i + 1] = "wide")
           m == [c |-> PutCells(l.c, i, width), w |-> w]
           h == WithLine(g, m)
<1>1. CASE i > C
  BY <1>0, <1>1 DEF Put, Kept
<1>2. CASE ~(i > C)
  <2>1. i \in 1 .. C /\ (whole /\ width = 2 => i < C)
    BY <1>0, <1>2
  <2>2. g.col + width \in 0 .. Past(C, whole)
    <3>1. g.col + width <= C \/ (~whole /\ C = 1 /\ width = 2 /\ g.col = 0)
      BY <1>0, <1>2
    <3>2. ~whole => Past(C, whole) >= 2
      BY <1>0 DEF Past, Most
    <3> QED
      BY <1>0, <3>1, <3>2
  <2>3. l \in LinesOf(C, whole)
    <3>1. NewRow(C) \in LinesOf(C, whole)
      BY <1>0, NewRowIsWhole
    <3> QED
      BY <3>1, LineStays
  <2>4. Put(g, width) = [h EXCEPT !.col = @ + width]
    BY <1>0, <1>2 DEF Put
  <2> HIDE DEF l, i
  <2>5. l.c \in CellsOf(C, whole) /\ l.w \in BOOLEAN
    BY <2>3 DEF LinesOf
  <2>6. PutCells(l.c, i, width) \in CellsOf(C, whole) /\ w \in BOOLEAN
    BY <1>0, <2>1, <2>5, PutIsWhole
  <2> HIDE DEF w
  <2>7. m \in LinesOf(C, whole)
    BY <2>6 DEF LinesOf
  <2> HIDE DEF m
  <2>8. h \in Grids(R, C, whole) /\ h.bad = g.bad
    BY <2>7, LineStays DEF Stays
  <2>9. h.col = g.col
    BY DEF WithLine, Grids, Bounds
  <2> HIDE DEF h
  <2>10. Put(g, width) = AtCol(h, g.col + width)
    BY <2>4, <2>9 DEF AtCol
  <2> QED
    BY <2>2, <2>8, <2>10, ColStays DEF Stays, Kept
<1> QED
  BY <1>1, <1>2

\* Screen::text.  Only on a screen of one column a wide character does not fit; on
\* one of two rows or more wrapping finds its line.
LEMMA TextStays ==
    ASSUME NEW R, NEW C, NEW whole, Shape(R, C, whole), NEW g \in Grids(R, C, whole),
           NEW width \in 0 .. 2, whole => width <= C, ~g.bad
    PROVE  /\ Text(g, width) \in Grids(R, C, whole)
           /\ whole /\ R > 1 => ~Text(g, width).bad
<1>0. /\ R \in Nat \ {0} /\ C \in Nat \ {0} /\ C < 65536 /\ g.cols = C /\ g.col \in Nat
      /\ whole \in BOOLEAN
  BY Fields DEF Shape
<1> DEFINE full == g.col > Minus(C, width)
           filled == Line(g).c[C] # "blank"
           g1 == IF full THEN ColWrap(g, filled) ELSE g
<1>1. Text(g, width) = IF g1.bad THEN g1
                       ELSE IF width = 0 THEN Combine(g1)
                       ELSE Put(g1, width)
  BY <1>0 DEF Text
<1>2. g1 \in Grids(R, C, whole) /\ (R > 1 => ~g1.bad)
  <2>1. filled \in BOOLEAN
    OBVIOUS
  <2> HIDE DEF filled
  <2>2. /\ ColWrap(g, filled) \in Grids(R, C, whole)
        /\ R > 1 => ColWrap(g, filled).bad = g.bad
    BY <2>1, WrapStays
  <2>3. CASE full
    BY <2>2, <2>3
  <2>4. CASE ~full
    BY <2>4
  <2> QED
    BY <2>3, <2>4
<1>3. width # 0 => g1.col + width <= C \/ (~whole /\ C < width)
  <2> SUFFICES ASSUME width # 0, ~(C < width) PROVE g1.col + width <= C
    BY <1>0
  <2>1. Minus(C, width) = C - width
    BY <1>0 DEF Minus
  <2>2. CASE full
    <3>1. g1.col = 0
      <4>1. filled \in BOOLEAN
        OBVIOUS
      <4> HIDE DEF filled
      <4>2. ColWrap(g, filled).col = 0
        BY <4>1, WrapStays
      <4> QED
        BY <2>2, <4>2
    <3> QED
      BY <1>0, <3>1
  <2>3. CASE ~full
    BY <1>0, <2>1, <2>3
  <2> QED
    BY <2>2, <2>3
<1> HIDE DEF g1
<1>4. CASE g1.bad
  BY <1>1, <1>2, <1>4
<1>5. CASE ~g1.bad /\ width = 0
  BY <1>1, <1>2, <1>5, CombineStays DEF Kept
<1>6. CASE ~g1.bad /\ width # 0
  <2>1. width \in {1, 2}
    BY <1>6
  <2>2. Kept(g1, Put(g1, width), R, C, whole)
    BY <1>2, <1>3, <1>6, <2>1, PutStays
  <2> QED
    BY <1>1, <1>6, <2>2 DEF Kept
<1> QED
  BY <1>4, <1>5, <1>6

-----------------------------------------------------------------------------
(* Making, clearing and resizing grids. *)

\* A grid that may have lost a half is no better than one that has not.
LEMMA Looser ==
    ASSUME NEW R, NEW C, NEW whole, Shape(R, C, whole), NEW g \in Grids(R, C, whole),
           NEW other \in BOOLEAN, other => whole
    PROVE  g \in Grids(R, C, other)
<1>0. /\ R \in Nat \ {0} /\ C \in Nat \ {0} /\ whole \in BOOLEAN
      /\ g.lines \in [1 .. R -> LinesOf(C, whole)]
      /\ g.col \in 0 .. Past(C, whole) /\ g.scol \in 0 .. Past(C, whole)
  BY Fields DEF Shape
<1>1. LinesOf(C, whole) \subseteq LinesOf(C, other)
  BY DEF LinesOf, CellsOf
<1>2. g.lines \in [1 .. R -> LinesOf(C, other)]
  BY <1>0, <1>1
<1>3. g.col \in 0 .. Past(C, other) /\ g.scol \in 0 .. Past(C, other)
  BY <1>0 DEF Past, Most
<1> QED
  BY <1>2, <1>3 DEF Grids, Bounds

\* New grids, with and without lines.
LEMMA Created ==
    ASSUME NEW R, NEW C, NEW whole, Shape(R, C, whole)
    PROVE  /\ NewGrid(<<R, C>>, TRUE) \in Grids(R, C, whole)
           /\ ~NewGrid(<<R, C>>, TRUE).bad
           /\ NewGrid(<<R, C>>, FALSE) \in Unused(R, C)
           /\ ~NewGrid(<<R, C>>, FALSE).bad
<1>0. R \in Nat \ {0} /\ C \in Nat \ {0} /\ whole \in BOOLEAN
  BY Dimension DEF Shape
<1>1. /\ 0 \in 0 .. R - 1 /\ R - 1 \in 0 .. R - 1 /\ 0 <= R - 1 /\ (R > 1 => R - 1 >= 1)
      /\ 0 \in 0 .. Past(C, whole) /\ 0 \in 0 .. Past(C, TRUE)
  BY <1>0 DEF Past, Most
<1>2. NewRow(C) \in LinesOf(C, whole)
  BY <1>0, NewRowIsWhole
<1>3. [r \in 1 .. R |-> NewRow(C)] \in [1 .. R -> LinesOf(C, whole)]
  BY <1>2
<1> DEFINE g == NewGrid(<<R, C>>, TRUE)
           u == NewGrid(<<R, C>>, FALSE)
<1>4. g \in Bounds(R, C, whole, [1 .. R -> LinesOf(C, whole)]) /\ g.bad = FALSE
  BY <1>1, <1>3 DEF NewGrid, Bounds
<1>5. u \in Bounds(R, C, TRUE, {<<>>}) /\ u.bad = FALSE
  BY <1>1 DEF NewGrid, Bounds
<1>6. Region(g) /\ Region(u)
  BY <1>1 DEF NewGrid, Region
<1> HIDE DEF g, u
<1> QED
  BY <1>4, <1>5, <1>6 DEF Grids, Unused, g, u

\* The alternate grid is one or the other.
Spare(R, C, whole) == Grids(R, C, whole) \cup Unused(R, C)

\* What both have in common.
LEMMA SpareFields ==
    ASSUME NEW R, NEW C, NEW whole, Shape(R, C, whole), NEW g \in Spare(R, C, whole)
    PROVE  /\ g.rows = R /\ g.cols = C /\ g.bad \in BOOLEAN
           /\ g.row \in 0 .. R - 1 /\ g.col \in 0 .. Past(C, whole)
           /\ g.srow \in 0 .. R - 1 /\ g.scol \in 0 .. Past(C, whole)
           /\ g.top \in 0 .. R - 1 /\ g.bot \in 0 .. R - 1
           /\ g.top <= g.bot /\ (R > 1 => g.bot >= 1)
           /\ g.origin \in BOOLEAN /\ g.sorigin \in BOOLEAN
           /\ \/ g \in Grids(R, C, whole) /\ g.lines # <<>>
              \/ g \in Unused(R, C) /\ g.lines = <<>>
<1>0. C \in Nat \ {0} /\ R \in Nat \ {0}
  BY Dimension DEF Shape
<1>1. CASE g \in Grids(R, C, whole)
  <2>1. g.lines \in [1 .. R -> LinesOf(C, whole)]
    BY <1>1, Fields
  <2>2. 1 \in DOMAIN g.lines
    BY <1>0, <2>1
  <2>3. g.lines # <<>>
    BY <2>2
  <2> QED
    BY <1>1, <2>3, Fields
<1>2. CASE g \in Unused(R, C)
  <2>1. g \in Bounds(R, C, TRUE, {<<>>}) /\ Region(g)
    BY <1>2 DEF Unused
  <2>2. /\ g.rows = R /\ g.cols = C /\ g.bad \in BOOLEAN
        /\ g.row \in 0 .. R - 1 /\ g.col \in 0 .. Past(C, TRUE)
        /\ g.srow \in 0 .. R - 1 /\ g.scol \in 0 .. Past(C, TRUE)
        /\ g.top \in 0 .. R - 1 /\ g.bot \in 0 .. R - 1
        /\ g.origin \in BOOLEAN /\ g.sorigin \in BOOLEAN /\ g.lines = <<>>
    BY <2>1 DEF Bounds
  <2>3. g.col \in 0 .. Past(C, whole) /\ g.scol \in 0 .. Past(C, whole)
    BY <1>0, <2>2 DEF Past, Most
  <2> QED
    BY <1>2, <2>1, <2>2, <2>3 DEF Region
<1> QED
  BY <1>1, <1>2 DEF Spare

\* Allocating lines: ?47h and ?1049h.
LEMMA Allocated ==
    ASSUME NEW R, NEW C, NEW whole, Shape(R, C, whole), NEW g \in Spare(R, C, whole)
    PROVE  AllocateRows(g) \in Grids(R, C, whole) /\ AllocateRows(g).bad = g.bad
<1>0. C \in Nat \ {0} /\ R \in Nat \ {0} /\ whole \in BOOLEAN
  BY Dimension DEF Shape
<1> DEFINE lines == [r \in 1 .. R |-> NewRow(C)]
           h == OfLines(g, lines)
<1>1. CASE g \in Grids(R, C, whole) /\ g.lines # <<>>
  BY <1>1 DEF AllocateRows
<1>2. CASE g \in Unused(R, C) /\ g.lines = <<>>
  <2>1. AllocateRows(g) = h
    <3>1. g.rows = R /\ g.cols = C
      BY SpareFields
    <3> QED
      BY <1>2, <3>1 DEF AllocateRows, OfLines
  <2>2. lines \in [1 .. R -> LinesOf(C, whole)]
    BY <1>0, NewRowIsWhole
  <2> HIDE DEF lines
  <2>3. g.col \in 0 .. Past(C, whole) /\ g.scol \in 0 .. Past(C, whole)
    BY SpareFields
  <2>4. h \in Bounds(R, C, whole, [1 .. R -> LinesOf(C, whole)]) /\ h.bad = g.bad
    BY <1>2, <2>2, <2>3 DEF Unused, Bounds, OfLines
  <2>5. Region(h)
    BY <1>2 DEF Unused, Bounds, Region, OfLines
  <2> QED
    BY <2>1, <2>4, <2>5 DEF Grids
<1> QED
  BY <1>1, <1>2, SpareFields

\* Clearing a grid: ?1049h.
LEMMA ClearedStays ==
    ASSUME NEW R, NEW C, NEW whole, Shape(R, C, whole), NEW g \in Spare(R, C, whole)
    PROVE  ClearGrid(g) \in Spare(R, C, whole) /\ ClearGrid(g).bad = g.bad
<1>1. g.rows = R /\ g.cols = C /\ g.bad \in BOOLEAN
  BY SpareFields
<1> DEFINE t == NewGrid(<<R, C>>, TRUE)
           u == NewGrid(<<R, C>>, FALSE)
<1>2. t \in Grids(R, C, whole) /\ u \in Unused(R, C)
  BY Created
<1>3. ClearGrid(g) = [t EXCEPT !.bad = g.bad] \/ ClearGrid(g) = [u EXCEPT !.bad = g.bad]
  <2>1. CASE g.lines = <<>>
    <3>1. (g.lines # <<>>) = FALSE
      BY <2>1
    <3> QED
      BY <1>1, <3>1 DEF ClearGrid
  <2>2. CASE g.lines # <<>>
    <3>1. (g.lines # <<>>) = TRUE
      BY <2>2
    <3> QED
      BY <1>1, <3>1 DEF ClearGrid
  <2> QED
    BY <2>1, <2>2
<1> HIDE DEF t, u
<1>4. /\ [t EXCEPT !.bad = g.bad] \in Grids(R, C, whole)
      /\ [t EXCEPT !.bad = g.bad].bad = g.bad
  BY <1>1, <1>2 DEF Grids, Bounds, Region
<1>5. /\ [u EXCEPT !.bad = g.bad] \in Unused(R, C)
      /\ [u EXCEPT !.bad = g.bad].bad = g.bad
  BY <1>1, <1>2 DEF Unused, Bounds, Region
<1> QED
  BY <1>3, <1>4, <1>5 DEF Spare

\* Resizing: the lines that stay are cut or extended, and whole unless the last
\* column now holds the first half of a wide character.
LEMMA SizeStays ==
    ASSUME NEW R, NEW C, NEW whole, Shape(R, C, whole), NEW g \in Spare(R, C, whole),
           NEW size \in Dimensions \X Dimensions, NEW other \in BOOLEAN,
           other => whole /\ \A r \in DOMAIN SetSize(g, size).lines :
                                ~Halved(SetSize(g, size).lines[r])
    PROVE  /\ SetSize(g, size) \in Grids(size[1], size[2], other)
           /\ SetSize(g, size).bad = g.bad
<1> DEFINE m == size[1]
           n == size[2]
           h == SetSize(g, size)
           b == Least(IF g.bot = g.rows - 1 THEN m - 1 ELSE g.bot, m - 1)
           t == IF b < g.top THEN 0 ELSE g.top
           lines == [r \in 1 .. m |-> IF r <= Len(g.lines) THEN ResizeRow(g.lines[r], n)
                                      ELSE NewRow(n)]
<1>1. m \in Nat \ {0} /\ n \in Nat \ {0} /\ R \in Nat \ {0} /\ C \in Nat \ {0}
      /\ whole \in BOOLEAN /\ Past(C, whole) \in Nat
  BY Dimension DEF Shape, Past, Most
<1>2. /\ g.rows = R /\ g.bad \in BOOLEAN
      /\ g.row \in 0 .. R - 1 /\ g.col \in 0 .. Past(C, whole)
      /\ g.srow \in 0 .. R - 1 /\ g.scol \in 0 .. Past(C, whole)
      /\ g.top \in 0 .. R - 1 /\ g.bot \in 0 .. R - 1
      /\ g.top <= g.bot /\ (R > 1 => g.bot >= 1)
      /\ g.origin \in BOOLEAN /\ g.sorigin \in BOOLEAN
  BY SpareFields
<1>3. h = [g EXCEPT !.rows = m, !.cols = n, !.bot = b, !.top = t,
                    !.row = Within(@, m), !.col = Within(@, n),
                    !.srow = Within(@, m), !.scol = Within(@, n), !.lines = lines]
  BY DEF SetSize
<1>4. h = [rows |-> m, cols |-> n, row |-> Within(g.row, m), col |-> Within(g.col, n),
           srow |-> Within(g.srow, m), scol |-> Within(g.scol, n),
           origin |-> g.origin, sorigin |-> g.sorigin,
           top |-> t, bot |-> b, bad |-> g.bad, lines |-> lines]
  <2>1. CASE g \in Grids(R, C, whole)
    BY <1>3, <2>1 DEF Grids, Bounds
  <2>2. CASE g \in Unused(R, C)
    BY <1>3, <2>2 DEF Unused, Bounds
  <2> QED
    BY <2>1, <2>2 DEF Spare
<1>5. /\ b \in 0 .. m - 1 /\ t \in 0 .. m - 1 /\ t <= b /\ (m > 1 => b >= 1)
      /\ Within(g.row, m) \in 0 .. m - 1 /\ Within(g.srow, m) \in 0 .. m - 1
  BY <1>1, <1>2 DEF Least, Within
<1>6. Within(g.col, n) \in 0 .. Past(n, other) /\ Within(g.scol, n) \in 0 .. Past(n, other)
  BY <1>1, <1>2 DEF Least, Within, Past, Most
<1> HIDE DEF b, t, m, n
<1>7. lines \in [1 .. m -> LinesOf(n, other)]
  <2>1. ASSUME NEW r \in 1 .. m PROVE lines[r] \in LinesOf(n, other)
    <3>1. CASE r <= Len(g.lines)
      <4>1. g.lines \in [1 .. R -> LinesOf(C, whole)] /\ Len(g.lines) = R
        <5>1. g \in Grids(R, C, whole)
          BY <1>1, <3>1, SpareFields
        <5>2. g.lines \in [1 .. R -> LinesOf(C, whole)]
          BY <5>1, Fields
        <5> QED
          BY <1>1, <5>2
      <4> DEFINE l == g.lines[r]
      <4>2. l \in LinesOf(C, whole)
        BY <1>1, <3>1, <4>1
      <4>3. lines[r] = ResizeRow(l, n)
        BY <3>1
      <4> HIDE DEF l
      <4>4. l \in LinesOf(C, other)
        BY <4>2 DEF LinesOf, CellsOf
      <4>5. other => C <= n \/ l.c[n] # "wide"
        <5> SUFFICES ASSUME other, n < C PROVE l.c[n] # "wide"
          BY <1>1
        <5>1. ~Halved(lines[r])
          BY <1>4 DEF h
        <5>2. /\ ResizeRow(l, n).c = [i \in 1 .. n |-> IF i <= Len(l.c) THEN l.c[i]
                                                       ELSE "blank"]
              /\ Len(l.c) = C
          BY <1>1, <4>2, Columns DEF ResizeRow, LinesOf, CellsOf
        <5>3. n \in 1 .. n /\ Len(ResizeRow(l, n).c) = n
          BY <1>1, <5>2
        <5>4. ResizeRow(l, n).c[n] = l.c[n]
          BY <1>1, <5>2, <5>3
        <5> QED
          BY <4>3, <5>1, <5>3, <5>4 DEF Halved
      <4> QED
        BY <1>1, <4>3, <4>4, <4>5, Resized
    <3>2. CASE ~(r <= Len(g.lines))
      BY <1>1, <3>2, NewRowIsWhole
    <3> QED
      BY <3>1, <3>2
  <2> QED
    BY <2>1
<1> HIDE DEF lines, h
<1>8. h \in Bounds(m, n, other, [1 .. m -> LinesOf(n, other)]) /\ h.bad = g.bad
  BY <1>2, <1>4, <1>5, <1>6, <1>7 DEF Bounds
<1>9. Region(h)
  BY <1>4, <1>5 DEF Region
<1> QED
  BY <1>8, <1>9 DEF Grids, h, m, n

-----------------------------------------------------------------------------
(* The invariant. *)

TwoRows == \A x \in Instances : \A i \in DOMAIN x.sizes : x.sizes[i][1] > 1

\* The grids have one size; what is in use has lines.
Consistent(R, C, whole, m, a, on) ==
    /\ Shape(R, C, whole)
    /\ m \in Grids(R, C, whole)
    /\ a \in Spare(R, C, whole)
    /\ on => a \in Grids(R, C, whole)

\* On two rows and more nothing panics before a wide character is cut.
Sound(R, whole, m, a) == TwoRows => R > 1 /\ (whole => ~m.bad /\ ~a.bad)

\* The main grid holds what was on it when it was left, and its saved cursor is
\* the one it had.
Remembered(m, on, e) ==
    e # <<>> => /\ on
                /\ m.lines = e[1].lines
                /\ m.srow = e[1].row /\ m.scol = e[1].col
                /\ m.sorigin = e[1].origin

IInv == /\ instance \in Instances
        /\ altOn \in BOOLEAN /\ cut \in BOOLEAN
        /\ Consistent(main.rows, main.cols, ~cut, main, alt, altOn)
        /\ Sound(main.rows, ~cut, main, alt)
        /\ Remembered(main, altOn, entry)

\* The sizes of an instance.
LEMMA SizesAre ==
    ASSUME instance \in Instances
    PROVE  /\ instance.sizes[1] \in Sizes
           /\ Sizes \subseteq Dimensions \X Dimensions
           /\ TwoRows => \A size \in Sizes : size[1] > 1
<1>1. instance.sizes \in Seq(Dimensions \X Dimensions) \ {<<>>}
  BY ScreenAssumption
<1>2. 1 \in DOMAIN instance.sizes
  BY <1>1, EmptySeq, LenProperties
<1>3. \A i \in DOMAIN instance.sizes : instance.sizes[i] \in Dimensions \X Dimensions
  BY <1>1
<1> QED
  BY <1>2, <1>3 DEF Sizes, TwoRows

\* Two new grids, at the start and after RIS.
LEMMA NewGridsAreGood ==
    ASSUME NEW R \in Dimensions, NEW C \in Dimensions, NEW whole \in BOOLEAN,
           TwoRows => R > 1
    PROVE  LET m == NewGrid(<<R, C>>, TRUE)
               a == NewGrid(<<R, C>>, FALSE)
           IN  /\ Consistent(m.rows, m.cols, whole, m, a, FALSE)
               /\ Sound(m.rows, whole, m, a)
<1> DEFINE m == NewGrid(<<R, C>>, TRUE)
           a == NewGrid(<<R, C>>, FALSE)
<1>1. Shape(R, C, whole)
  BY DEF Shape
<1>2. m \in Grids(R, C, whole) /\ ~m.bad /\ a \in Unused(R, C) /\ ~a.bad
  BY <1>1, Created
<1> HIDE DEF m, a
<1>3. m.rows = R /\ m.cols = C
  BY <1>1, <1>2, Fields
<1>4. Consistent(m.rows, m.cols, whole, m, a, FALSE)
  BY <1>1, <1>2, <1>3 DEF Consistent, Spare
<1>5. Sound(m.rows, whole, m, a)
  BY <1>2, <1>3 DEF Sound
<1> QED
  BY <1>4, <1>5 DEF m, a

\* It holds at the start.
LEMMA InitKeeps ==
    ASSUME Init
    PROVE  IInv
<1> DEFINE size == instance.sizes[1]
<1>1. instance \in Instances
  BY DEF Init
<1>2. size \in Dimensions \X Dimensions /\ (TwoRows => size[1] > 1)
  BY <1>1, SizesAre
<1>3. /\ main = NewGrid(size, TRUE) /\ alt = NewGrid(size, FALSE)
      /\ altOn = FALSE /\ cut = FALSE /\ entry = <<>>
  BY DEF Init
<1> HIDE DEF size
<1>4. size = <<size[1], size[2]>> /\ size[1] \in Dimensions /\ size[2] \in Dimensions
  BY <1>2
<1>5. (~cut) \in BOOLEAN /\ cut \in BOOLEAN /\ altOn \in BOOLEAN
  BY <1>3
<1>6. /\ Consistent(main.rows, main.cols, ~cut, main, alt, altOn)
      /\ Sound(main.rows, ~cut, main, alt)
  BY <1>2, <1>3, <1>4, <1>5, NewGridsAreGood
<1>7. Remembered(main, altOn, entry)
  BY <1>3 DEF Remembered
<1> QED
  BY <1>1, <1>5, <1>6, <1>7 DEF IInv

\* What the actions find.
LEMMA Now ==
    ASSUME IInv
    PROVE  /\ Shape(main.rows, main.cols, ~cut)
           /\ main \in Grids(main.rows, main.cols, ~cut)
           /\ alt \in Spare(main.rows, main.cols, ~cut)
           /\ Current \in Grids(main.rows, main.cols, ~cut)
           /\ main.bad \in BOOLEAN /\ alt.bad \in BOOLEAN /\ Current.bad \in BOOLEAN
           /\ main.rows \in Nat \ {0} /\ main.cols \in Nat \ {0}
<1>1. /\ Shape(main.rows, main.cols, ~cut)
      /\ main \in Grids(main.rows, main.cols, ~cut)
      /\ alt \in Spare(main.rows, main.cols, ~cut)
      /\ Current \in Grids(main.rows, main.cols, ~cut)
  BY DEF IInv, Consistent, Current
<1>2. main.bad \in BOOLEAN /\ alt.bad \in BOOLEAN /\ Current.bad \in BOOLEAN
  BY <1>1, Fields, SpareFields
<1>3. main.rows \in Nat \ {0} /\ main.cols \in Nat \ {0}
  BY <1>1, Fields
<1> QED
  BY <1>1, <1>2, <1>3

\* One grid changes and stays a grid: every control sequence but those below.
LEMMA ApplyKeeps ==
    ASSUME IInv, NEW op, NEW g, Kept(Current, g, main.rows, main.cols, ~cut), Apply(op, g)
    PROVE  IInv'
<1> DEFINE R == main.rows
           C == main.cols
           W == ~cut
<1>1. /\ Shape(R, C, W) /\ main \in Grids(R, C, W) /\ alt \in Spare(R, C, W)
      /\ altOn => alt \in Grids(R, C, W)
      /\ Sound(R, W, main, alt) /\ Remembered(main, altOn, entry)
      /\ instance \in Instances /\ altOn \in BOOLEAN /\ cut \in BOOLEAN
  BY DEF IInv, Consistent
<1>2. /\ main' = IF altOn THEN main ELSE g
      /\ alt' = IF altOn THEN g ELSE alt
      /\ instance' = instance /\ altOn' = altOn /\ cut' = cut /\ entry' = entry
  BY DEF Apply, GridMut
<1>3. g \in Grids(R, C, W) /\ (W => g.bad = Current.bad) /\ g.rows = R /\ g.cols = C
  <2>1. g \in Grids(R, C, W) /\ (W => g.bad = Current.bad)
    BY DEF Kept
  <2> QED
    BY <1>1, <2>1, Fields
<1> HIDE DEF R, C, W
<1>4. CASE altOn
  <2>1. main' = main /\ alt' = g /\ (W => g.bad = alt.bad)
    BY <1>2, <1>3, <1>4 DEF Current
  <2>2. Consistent(R, C, W, main, g, altOn)
    BY <1>1, <1>3 DEF Consistent, Spare
  <2>3. Sound(R, W, main, g)
    BY <1>1, <2>1 DEF Sound
  <2> QED
    BY <1>1, <1>2, <2>1, <2>2, <2>3 DEF IInv, R, C, W
<1>5. CASE ~altOn
  <2>1. main' = g /\ alt' = alt /\ (W => g.bad = main.bad)
    BY <1>2, <1>3, <1>5 DEF Current
  <2>2. Consistent(R, C, W, g, alt, altOn)
    BY <1>1, <1>3, <1>5 DEF Consistent
  <2>3. Sound(R, W, g, alt)
    BY <1>1, <2>1 DEF Sound
  <2>4. Remembered(g, altOn, entry)
    BY <1>1, <1>5 DEF Remembered
  <2> QED
    BY <1>1, <1>2, <1>3, <2>1, <2>2, <2>3, <2>4 DEF IInv, R, C, W
<1> QED
  BY <1>4, <1>5

\* (an operation that panics never)
LEMMA StayKeeps ==
    ASSUME IInv, NEW op, NEW g, Stays(Current, g, main.rows, main.cols, ~cut), Apply(op, g)
    PROVE  IInv'
<1>1. Kept(Current, g, main.rows, main.cols, ~cut)
  BY DEF Stays, Kept
<1> QED
  BY <1>1, ApplyKeeps

\* A character.
LEMMA CharKeeps ==
    ASSUME IInv, NEW width \in 0 .. 2, Char(width)
    PROVE  IInv'
<1> DEFINE R == main.rows
           C == main.cols
           g == Text(Current, width)
           W == ~cut'
<1>1. /\ Shape(R, C, ~cut) /\ main \in Grids(R, C, ~cut) /\ alt \in Spare(R, C, ~cut)
      /\ altOn => alt \in Grids(R, C, ~cut)
      /\ Sound(R, ~cut, main, alt) /\ Remembered(main, altOn, entry)
      /\ instance \in Instances /\ altOn \in BOOLEAN /\ cut \in BOOLEAN
  BY DEF IInv, Consistent
<1>2. /\ main' = IF altOn THEN main ELSE g
      /\ alt' = IF altOn THEN g ELSE alt
      /\ instance' = instance /\ altOn' = altOn /\ entry' = entry
      /\ ~main.bad /\ ~alt.bad
  BY DEF Char, GridMut, Ready, Panicked
<1>3. Current \in Grids(R, C, ~cut) /\ Current.cols = C /\ ~Current.bad /\ C \in Nat
  BY <1>1, <1>2, Now, Fields DEF Current
<1>4. cut' = (cut \/ width > C)
  BY <1>3 DEF Char
<1>5. /\ W \in BOOLEAN /\ cut' \in BOOLEAN /\ (W => ~cut) /\ (W => width <= C)
  <2>1. cut' \in BOOLEAN
    BY <1>4
  <2>2. W \in BOOLEAN
    BY <2>1
  <2>3. W => ~cut
    BY <1>1, <1>4
  <2>4. W => ~(width > C)
    BY <1>4, <2>1
  <2>5. W => width <= C
    BY <1>3, <2>4
  <2> QED
    BY <2>1, <2>2, <2>3, <2>5
<1> HIDE DEF R, C, W, g
<1>6. /\ Shape(R, C, W) /\ main \in Grids(R, C, W) /\ Current \in Grids(R, C, W)
      /\ alt \in Spare(R, C, W) /\ (altOn => alt \in Grids(R, C, W))
  <2>1. Shape(R, C, W)
    BY <1>1, <1>5 DEF Shape
  <2>2. \A h \in Grids(R, C, ~cut) : h \in Grids(R, C, W)
    BY <1>1, <1>5, Looser
  <2> QED
    BY <1>1, <1>3, <2>1, <2>2 DEF Spare
<1>7. g \in Grids(R, C, W) /\ (W /\ R > 1 => ~g.bad) /\ g.rows = R /\ g.cols = C
  <2>1. g \in Grids(R, C, W) /\ (W /\ R > 1 => ~g.bad)
    BY <1>3, <1>5, <1>6, TextStays DEF g
  <2> QED
    BY <1>6, <2>1, Fields
<1>8. CASE altOn
  <2>1. main' = main /\ alt' = g
    BY <1>2, <1>8
  <2>2. Consistent(R, C, W, main, g, altOn)
    BY <1>6, <1>7 DEF Consistent, Spare
  <2>3. Sound(R, W, main, g)
    BY <1>1, <1>2, <1>7 DEF Sound
  <2> QED
    BY <1>1, <1>2, <1>5, <2>1, <2>2, <2>3 DEF IInv, R, C, W
<1>9. CASE ~altOn
  <2>1. main' = g /\ alt' = alt
    BY <1>2, <1>9
  <2>2. Consistent(R, C, W, g, alt, altOn)
    BY <1>6, <1>7, <1>9 DEF Consistent
  <2>3. Sound(R, W, g, alt)
    BY <1>1, <1>2, <1>7 DEF Sound
  <2>4. Remembered(g, altOn, entry)
    BY <1>1, <1>9 DEF Remembered
  <2> QED
    BY <1>1, <1>2, <1>5, <1>7, <2>1, <2>2, <2>3, <2>4 DEF IInv, W
<1> QED
  BY <1>8, <1>9

\* RIS.
LEMMA RisKeeps ==
    ASSUME IInv, Ris
    PROVE  IInv'
<1> DEFINE R == main.rows
           C == main.cols
           W == ~cut'
<1>1. /\ R \in Dimensions /\ C \in Dimensions /\ (TwoRows => R > 1) /\ instance \in Instances
  BY DEF IInv, Consistent, Shape, Sound
<1>2. /\ main' = NewGrid(<<R, C>>, TRUE) /\ alt' = NewGrid(<<R, C>>, FALSE)
      /\ altOn' = FALSE /\ cut' = FALSE /\ entry' = <<>> /\ instance' = instance
  BY DEF Ris
<1>3. W \in BOOLEAN /\ cut' \in BOOLEAN /\ altOn' \in BOOLEAN
  BY <1>2
<1> HIDE DEF R, C, W
<1>4. /\ Consistent(main'.rows, main'.cols, W, main', alt', altOn')
      /\ Sound(main'.rows, W, main', alt')
  BY <1>1, <1>2, <1>3, NewGridsAreGood
<1>5. Remembered(main', altOn', entry')
  BY <1>2 DEF Remembered
<1> QED
  BY <1>1, <1>2, <1>3, <1>4, <1>5 DEF IInv, W

\* ?47h.
LEMMA Enter47Keeps ==
    ASSUME IInv, Enter47
    PROVE  IInv'
<1> DEFINE R == main.rows
           C == main.cols
           W == ~cut
           g == AllocateRows(alt)
<1>1. /\ Shape(R, C, W) /\ main \in Grids(R, C, W) /\ alt \in Spare(R, C, W)
      /\ Sound(R, W, main, alt) /\ Remembered(main, altOn, entry)
      /\ instance \in Instances /\ altOn \in BOOLEAN /\ cut \in BOOLEAN
  BY DEF IInv, Consistent
<1>2. /\ main' = main /\ alt' = g /\ altOn' = TRUE
      /\ instance' = instance /\ cut' = cut /\ entry' = entry
  BY DEF Enter47, Enter
<1> HIDE DEF R, C, W, g
<1>3. g \in Grids(R, C, W) /\ g.bad = alt.bad
  BY <1>1, Allocated DEF g
<1>4. Consistent(R, C, W, main, g, altOn')
  BY <1>1, <1>3 DEF Consistent, Spare
<1>5. Sound(R, W, main, g)
  BY <1>1, <1>3 DEF Sound
<1>6. Remembered(main, altOn', entry)
  BY <1>1, <1>2 DEF Remembered
<1>7. altOn' \in BOOLEAN
  BY <1>2
<1> QED
  BY <1>1, <1>2, <1>4, <1>5, <1>6, <1>7 DEF IInv, R, C, W

\* ?1049h: the main grid is remembered as it is, with its cursor saved.
LEMMA Enter1049Keeps ==
    ASSUME IInv, Enter1049
    PROVE  IInv'
<1> DEFINE R == main.rows
           C == main.cols
           W == ~cut
           c == ClearGrid(alt)
           g == AllocateRows(c)
<1>1. /\ Shape(R, C, W) /\ main \in Grids(R, C, W) /\ alt \in Spare(R, C, W)
      /\ Sound(R, W, main, alt) /\ Remembered(main, altOn, entry)
      /\ instance \in Instances /\ altOn \in BOOLEAN /\ cut \in BOOLEAN
  BY DEF IInv, Consistent
<1>2. /\ main' = SavedMain /\ alt' = g /\ altOn' = TRUE
      /\ instance' = instance /\ cut' = cut
      /\ entry' = IF altOn THEN entry ELSE <<main>>
  BY DEF Enter1049, Enter
<1> HIDE DEF R, C, W, g, c
<1>3. g \in Grids(R, C, W) /\ g.bad = alt.bad
  <2>1. c \in Spare(R, C, W) /\ c.bad = alt.bad
    BY <1>1, ClearedStays DEF c
  <2> QED
    BY <1>1, <2>1, Allocated DEF g
<1>4. /\ SavedMain \in Grids(R, C, W) /\ SavedMain.bad = main.bad
      /\ SavedMain.rows = R /\ SavedMain.cols = C
  <2>1. SavedMain \in Grids(R, C, W) /\ SavedMain.bad = main.bad
    BY <1>1, SavedStays DEF SavedMain, Stays
  <2> QED
    BY <1>1, <2>1, Fields
<1>5. Consistent(R, C, W, SavedMain, g, altOn')
  BY <1>1, <1>3, <1>4 DEF Consistent, Spare
<1>6. Sound(R, W, SavedMain, g)
  BY <1>1, <1>3, <1>4 DEF Sound
<1>7. Remembered(SavedMain, altOn', entry')
  <2>1. CASE altOn
    BY <1>1, <1>2, <2>1 DEF Remembered, SavedMain
  <2>2. CASE ~altOn
    <3>1. entry'[1] = main /\ SavedMain = Save(main)
      BY <1>2, <2>2 DEF SavedMain
    <3>2. /\ Save(main).lines = main.lines /\ Save(main).srow = main.row
          /\ Save(main).scol = main.col /\ Save(main).sorigin = main.origin
      BY <1>1 DEF Save, Grids, Bounds
    <3> QED
      BY <1>2, <3>1, <3>2 DEF Remembered
  <2> QED
    BY <2>1, <2>2
<1>8. altOn' \in BOOLEAN
  BY <1>2
<1> HIDE DEF SavedMain
<1> QED
  BY <1>1, <1>2, <1>4, <1>5, <1>6, <1>7, <1>8 DEF IInv, R, C, W

\* ?47l and ?1049l.
LEMMA LeaveKeeps ==
    ASSUME IInv, Leave47 \/ Leave1049
    PROVE  IInv'
<1> DEFINE R == main.rows
           C == main.cols
           W == ~cut
<1>1. /\ Shape(R, C, W) /\ main \in Grids(R, C, W) /\ alt \in Spare(R, C, W)
      /\ Sound(R, W, main, alt)
      /\ instance \in Instances /\ altOn \in BOOLEAN /\ cut \in BOOLEAN
  BY DEF IInv, Consistent
<1>2. /\ main' = main \/ main' = Restore(main)
      /\ alt' = alt /\ altOn' = FALSE
      /\ instance' = instance /\ cut' = cut /\ entry' = <<>>
  BY DEF Leave47, Leave1049
<1> HIDE DEF R, C, W
<1>3. main' \in Grids(R, C, W) /\ main'.bad = main.bad
  BY <1>1, <1>2, SavedStays DEF Stays
<1>4. main'.rows = R /\ main'.cols = C
  BY <1>1, <1>3, Fields
<1>5. Consistent(R, C, W, main', alt, altOn')
  BY <1>1, <1>2, <1>3 DEF Consistent
<1>6. Sound(R, W, main', alt)
  BY <1>1, <1>3 DEF Sound
<1>7. Remembered(main', altOn', entry') /\ altOn' \in BOOLEAN
  BY <1>2 DEF Remembered
<1> QED
  BY <1>1, <1>2, <1>4, <1>5, <1>6, <1>7 DEF IInv, W

\* A resize of both grids.
LEMMA ResizeKeeps ==
    ASSUME IInv, NEW size \in Sizes, Resize(size)
    PROVE  IInv'
<1> DEFINE R == main.rows
           C == main.cols
           W == ~cut'
           m == SetSize(main, size)
           a == SetSize(alt, size)
<1>1. /\ Shape(R, C, ~cut) /\ main \in Spare(R, C, ~cut) /\ alt \in Spare(R, C, ~cut)
      /\ Sound(R, ~cut, main, alt)
      /\ instance \in Instances /\ altOn \in BOOLEAN /\ cut \in BOOLEAN
  BY DEF IInv, Consistent, Spare
<1>2. /\ main' = m /\ alt' = a /\ altOn' = altOn /\ instance' = instance /\ entry' = <<>>
      /\ cut' = (cut \/ \E g \in {main', alt'} :
                          \E r \in DOMAIN g.lines : Halved(g.lines[r]))
  BY DEF Resize
<1>3. size \in Dimensions \X Dimensions /\ (TwoRows => size[1] > 1)
  BY <1>1, SizesAre
<1> HIDE DEF R, C, W, m, a
<1>4. cut' \in BOOLEAN
  BY <1>2
<1>5. W \in BOOLEAN
  BY <1>4 DEF W
<1>6. /\ W => ~cut
      /\ W => \A r \in DOMAIN m.lines : ~Halved(m.lines[r])
      /\ W => \A r \in DOMAIN a.lines : ~Halved(a.lines[r])
  <2>1. W => ~cut
    BY <1>1, <1>2 DEF W
  <2>2. W => ~ \E r \in DOMAIN m.lines : Halved(m.lines[r])
    BY <1>2 DEF W
  <2>3. W => ~ \E r \in DOMAIN a.lines : Halved(a.lines[r])
    BY <1>2 DEF W
  <2> QED
    BY <2>1, <2>2, <2>3
<1>7. /\ m \in Grids(size[1], size[2], W) /\ m.bad = main.bad
      /\ a \in Grids(size[1], size[2], W) /\ a.bad = alt.bad
  <2>1. (~cut) \in BOOLEAN
    BY <1>1
  <2>2. m \in Grids(size[1], size[2], W) /\ m.bad = main.bad
    BY <1>1, <1>3, <1>5, <1>6, SizeStays DEF m
  <2>3. a \in Grids(size[1], size[2], W) /\ a.bad = alt.bad
    BY <1>1, <1>3, <1>5, <1>6, SizeStays DEF a
  <2> QED
    BY <2>2, <2>3
<1>8. Shape(size[1], size[2], W)
  BY <1>3, <1>5 DEF Shape
<1>9. m.rows = size[1] /\ m.cols = size[2]
  BY <1>7, <1>8, Fields
<1>10. Consistent(size[1], size[2], W, m, a, altOn)
  BY <1>7, <1>8 DEF Consistent, Spare
<1>11. Sound(size[1], W, m, a)
  BY <1>1, <1>3, <1>6, <1>7 DEF Sound
<1>12. Remembered(m, altOn, entry')
  BY <1>2 DEF Remembered
<1> QED
  BY <1>1, <1>2, <1>4, <1>9, <1>10, <1>11, <1>12 DEF IInv, W

\* The parameters of a control sequence.
LEMMA Counts ==
    ASSUME NEW n \in Count
    PROVE  n \in Nat \ {0} /\ n \in Nat /\ n - 1 \in Nat
  BY ScreenAssumption DEF Count

\* Moving the cursor.
LEMMA MoveKeeps ==
    ASSUME IInv, NEW n \in Count,
           \/ Bs \/ Tab \/ Cr
           \/ Cuu(n) \/ Cud(n) \/ Cuf(n) \/ Cub(n) \/ Cnl(n) \/ Cpl(n) \/ Cha(n) \/ Vpa(n)
    PROVE  IInv'
<1>0. n \in Nat /\ n - 1 \in Nat /\ 0 \in Nat /\ 1 \in Nat
  BY Counts
<1> DEFINE R == main.rows
           C == main.cols
           W == ~cut
           g == ColSet(Current, 0)
<1>1. Shape(R, C, W) /\ Current \in Grids(R, C, W)
  BY Now
<1> HIDE DEF R, C, W
<1>2. \A k \in Nat : /\ Stays(Current, ColSet(Current, k), R, C, W)
                     /\ Stays(Current, ColIncClamp(Current, k), R, C, W)
                     /\ Stays(Current, ColDec(Current, k), R, C, W)
                     /\ Stays(Current, ColTab(Current), R, C, W)
  BY <1>1, ColumnsStay
<1>3. /\ Stays(Current, RowSet(Current, n - 1), R, C, W)
      /\ Stays(Current, RowIncClamp(Current, n), R, C, W)
      /\ Stays(Current, RowDecClamp(Current, n), R, C, W)
  BY <1>0, <1>1, RowsStay
<1>4. g \in Grids(R, C, W) /\ g.bad = Current.bad
  BY <1>0, <1>2 DEF Stays
<1>5. /\ Stays(g, RowIncClamp(g, n), R, C, W)
      /\ Stays(g, RowDecClamp(g, n), R, C, W)
  BY <1>0, <1>1, <1>4, RowsStay
<1>6. /\ Stays(Current, RowIncClamp(g, n), R, C, W)
      /\ Stays(Current, RowDecClamp(g, n), R, C, W)
  BY <1>4, <1>5 DEF Stays
<1> HIDE DEF g
<1>7. CASE Bs \/ Tab \/ Cr
  <2>1. /\ Stays(Current, ColDec(Current, 1), R, C, W)
        /\ Stays(Current, ColTab(Current), R, C, W)
        /\ Stays(Current, ColSet(Current, 0), R, C, W)
    BY <1>0, <1>2
  <2> QED
    BY <1>7, <2>1, StayKeeps DEF Bs, Tab, Cr, R, C, W
<1>8. CASE Cuu(n) \/ Cud(n) \/ Vpa(n)
  BY <1>3, <1>8, StayKeeps DEF Cuu, Cud, Vpa, R, C, W
<1>9. CASE Cuf(n) \/ Cub(n) \/ Cha(n)
  <2>1. /\ Stays(Current, ColIncClamp(Current, n), R, C, W)
        /\ Stays(Current, ColDec(Current, n), R, C, W)
        /\ Stays(Current, ColSet(Current, n - 1), R, C, W)
    BY <1>0, <1>2
  <2> QED
    BY <1>9, <2>1, StayKeeps DEF Cuf, Cub, Cha, R, C, W
<1>10. CASE Cnl(n) \/ Cpl(n)
  BY <1>6, <1>10, StayKeeps DEF Cnl, Cpl, g, R, C, W
<1> QED
  BY <1>7, <1>8, <1>9, <1>10

\* Addressing it, the scroll region, the saved cursor.
LEMMA PlaceKeeps ==
    ASSUME IInv, NEW i \in Count, NEW j \in Count, NEW on \in BOOLEAN,
           Cup(i, j) \/ Decstbm(i, j) \/ DecOrigin(on) \/ Decsc \/ Decrc
    PROVE  IInv'
<1>0. i - 1 \in Nat /\ j - 1 \in Nat
  BY Counts
<1> DEFINE R == main.rows
           C == main.cols
           W == ~cut
<1>1. Shape(R, C, W) /\ Current \in Grids(R, C, W)
  BY Now
<1> HIDE DEF R, C, W
<1>2. Stays(Current, SetPos(Current, i - 1, j - 1), R, C, W)
  BY <1>0, <1>1, PositionStays
<1>3. /\ Stays(Current, SetScrollRegion(Current, i - 1, j - 1), R, C, W)
      /\ Stays(Current, SetOriginMode(Current, on), R, C, W)
  BY <1>0, <1>1, RegionStays
<1>4. Stays(Current, Save(Current), R, C, W) /\ Stays(Current, Restore(Current), R, C, W)
  BY <1>1, SavedStays
<1>5. CASE Cup(i, j)
  BY <1>2, <1>5, StayKeeps DEF Cup, R, C, W
<1>6. CASE Decstbm(i, j) \/ DecOrigin(on)
  BY <1>3, <1>6, StayKeeps DEF Decstbm, DecOrigin, R, C, W
<1>7. CASE Decsc \/ Decrc
  BY <1>4, <1>7, StayKeeps DEF Decsc, Decrc, R, C, W
<1> QED
  BY <1>5, <1>6, <1>7

\* Moving lines.
LEMMA ScrollKeeps ==
    ASSUME IInv, NEW n \in Count, Lf \/ Ri \/ Il(n) \/ Dl(n) \/ Su(n) \/ Sd(n)
    PROVE  IInv'
<1>0. n \in Nat /\ 1 \in Nat
  BY Counts
<1> DEFINE R == main.rows
           C == main.cols
           W == ~cut
<1>1. Shape(R, C, W) /\ Current \in Grids(R, C, W)
  BY Now
<1> HIDE DEF R, C, W
<1>2. /\ Stays(Current, RowIncScroll(Current, 1), R, C, W)
      /\ Stays(Current, RowDecScroll(Current, 1), R, C, W)
  BY <1>0, <1>1, ScrollStays
<1>3. /\ Stays(Current, ScrollUp(Current, n), R, C, W)
      /\ Stays(Current, ScrollDown(Current, n), R, C, W)
      /\ Stays(Current, InsertLines(Current, n), R, C, W)
      /\ Stays(Current, DeleteLines(Current, n), R, C, W)
  BY <1>0, <1>1, LinesMoved DEF Moved
<1>4. CASE Lf \/ Ri
  BY <1>2, <1>4, StayKeeps DEF Lf, Ri, R, C, W
<1>5. CASE Il(n) \/ Dl(n) \/ Su(n) \/ Sd(n)
  BY <1>3, <1>5, StayKeeps DEF Il, Dl, Su, Sd, R, C, W
<1> QED
  BY <1>4, <1>5

\* Erasing and shifting.
LEMMA EditKeeps ==
    ASSUME IInv, NEW n \in Count, NEW mode \in 0 .. 2,
           Ed(mode) \/ El(mode) \/ Ech(n) \/ Ich(n) \/ Dch(n)
    PROVE  IInv'
<1>0. n \in Nat \ {0} /\ n \in Nat
  BY Counts
<1> DEFINE R == main.rows
           C == main.cols
           W == ~cut
<1>1. Shape(R, C, W) /\ Current \in Grids(R, C, W)
  BY Now
<1> HIDE DEF R, C, W
<1>2. /\ Stays(Current, EraseRowForward(Current), R, C, W)
      /\ Stays(Current, EraseRowBackward(Current), R, C, W)
      /\ Stays(Current, EraseRow(Current), R, C, W)
      /\ Stays(Current, EraseAll(Current), R, C, W)
      /\ Stays(Current, EraseAllForward(Current), R, C, W)
      /\ Stays(Current, EraseAllBackward(Current), R, C, W)
      /\ Stays(Current, EraseCells(Current, n), R, C, W)
  BY <1>0, <1>1, ErasureStays
<1>3. /\ Kept(Current, InsertCells(Current, n), R, C, W)
      /\ Kept(Current, DeleteCells(Current, n), R, C, W)
  BY <1>0, <1>1, InsertStays, DeleteStays
<1>4. CASE Ech(n)
  BY <1>2, <1>4, StayKeeps DEF Ech, R, C, W
<1>5. CASE Ich(n) \/ Dch(n)
  BY <1>3, <1>5, ApplyKeeps DEF Ich, Dch, R, C, W
<1>6. CASE Ed(mode)
  <2> DEFINE g == CASE mode = 0 -> EraseAllForward(Current)
                    [] mode = 1 -> EraseAllBackward(Current)
                    [] mode = 2 -> EraseAll(Current)
  <2>1. Stays(Current, g, R, C, W)
    <3>1. mode = 0 \/ mode = 1 \/ mode = 2
      OBVIOUS
    <3> QED
      BY <1>2, <3>1
  <2>2. Apply("erase", g)
    BY <1>6 DEF Ed
  <2> HIDE DEF g
  <2> QED
    BY <2>1, <2>2, StayKeeps DEF R, C, W
<1>7. CASE El(mode)
  <2> DEFINE g == CASE mode = 0 -> EraseRowForward(Current)
                    [] mode = 1 -> EraseRowBackward(Current)
                    [] mode = 2 -> EraseRow(Current)
  <2>1. Stays(Current, g, R, C, W)
    <3>1. mode = 0 \/ mode = 1 \/ mode = 2
      OBVIOUS
    <3> QED
      BY <1>2, <3>1
  <2>2. Apply("erase", g)
    BY <1>7 DEF El
  <2> HIDE DEF g
  <2> QED
    BY <2>1, <2>2, StayKeeps DEF R, C, W
<1> QED
  BY <1>4, <1>5, <1>6, <1>7

\* Every step keeps it.
LEMMA StepKeeps ==
    ASSUME IInv, [Next]_vars
    PROVE  IInv'
<1>0. 1 \in Count
  BY ScreenAssumption DEF Count
<1>1. ASSUME NEW width \in 0 .. 2, Char(width) PROVE IInv'
  BY <1>1, CharKeeps
<1>2. CASE Bs \/ Tab \/ Cr
  BY <1>0, <1>2, MoveKeeps
<1>3. CASE Lf \/ Ri
  BY <1>0, <1>3, ScrollKeeps
<1>4. CASE Decsc \/ Decrc
  BY <1>0, <1>4, PlaceKeeps
<1>5. CASE Ris
  BY <1>5, RisKeeps
<1>6. ASSUME NEW n \in Count,
             \/ Cuu(n) \/ Cud(n) \/ Cuf(n) \/ Cub(n)
             \/ Cnl(n) \/ Cpl(n) \/ Cha(n) \/ Vpa(n)
      PROVE  IInv'
  BY <1>6, MoveKeeps
<1>7. ASSUME NEW n \in Count, Ech(n) \/ Ich(n) \/ Dch(n) PROVE IInv'
  <2>1. 0 \in 0 .. 2
    OBVIOUS
  <2> QED
    BY <1>7, <2>1, EditKeeps
<1>8. ASSUME NEW n \in Count, Il(n) \/ Dl(n) \/ Su(n) \/ Sd(n) PROVE IInv'
  BY <1>8, ScrollKeeps
<1>9. ASSUME NEW m \in Count, NEW n \in Count, Cup(m, n) \/ Decstbm(m, n) PROVE IInv'
  <2>1. TRUE \in BOOLEAN
    OBVIOUS
  <2> QED
    BY <1>9, <2>1, PlaceKeeps
<1>10. ASSUME NEW on \in BOOLEAN, DecOrigin(on) PROVE IInv'
  BY <1>0, <1>10, PlaceKeeps
<1>11. ASSUME NEW mode \in 0 .. 2, Ed(mode) \/ El(mode) PROVE IInv'
  BY <1>0, <1>11, EditKeeps
<1>12. CASE Enter47 \/ Enter1049 \/ Leave47 \/ Leave1049
  BY <1>12, Enter47Keeps, Enter1049Keeps, LeaveKeeps
<1>13. ASSUME NEW size \in Sizes, Resize(size) PROVE IInv'
  BY <1>13, ResizeKeeps
<1>14. CASE UNCHANGED vars
  BY <1>14 DEF vars, IInv, Consistent, Sound, Remembered
<1> QED
  BY <1>1, <1>2, <1>3, <1>4, <1>5, <1>6, <1>7, <1>8, <1>9, <1>10, <1>11, <1>12, <1>13, <1>14
     DEF Next

\* Always.
THEOREM Invariant ==
    Spec => []IInv
<1>1. Init => IInv
  BY InitKeeps
<1>2. IInv /\ [Next]_vars => IInv'
  BY StepKeeps
<1> QED
  BY <1>1, <1>2, PTL DEF Spec

-----------------------------------------------------------------------------
(* The properties. *)

\* A grid is what the unwrap() calls of grid.rs take it for.
LEMMA GridIsValid ==
    ASSUME NEW R, NEW C, NEW whole, Shape(R, C, whole), NEW g \in Spare(R, C, whole)
    PROVE  Valid(g)
<1>1. /\ g.rows = R /\ g.cols = C
      /\ g.row \in 0 .. R - 1 /\ g.col \in 0 .. Past(C, whole)
      /\ g.srow \in 0 .. R - 1 /\ g.scol \in 0 .. Past(C, whole)
      /\ g.top \in 0 .. R - 1 /\ g.bot \in 0 .. R - 1 /\ g.top <= g.bot
  BY SpareFields
<1>2. R \in Nat \ {0} /\ C \in Nat \ {0}
  BY Dimension DEF Shape
<1>3. /\ g.row < g.rows /\ g.col <= Most(g.cols, 2)
      /\ g.srow < g.rows /\ g.scol <= Most(g.cols, 2)
      /\ g.top <= g.bot /\ g.bot < g.rows
  BY <1>1, <1>2 DEF Past, Most
<1>4. /\ g.lines # <<>> => Len(g.lines) = g.rows
      /\ \A r \in DOMAIN g.lines : /\ Len(g.lines[r].c) = g.cols
                                   /\ \A i \in 1 .. g.cols : g.lines[r].c[i] \in Kinds
  <2>1. CASE g \in Grids(R, C, whole)
    <3>1. g.lines \in [1 .. R -> LinesOf(C, whole)]
      BY <2>1, Fields
    <3>2. Len(g.lines) = R /\ DOMAIN g.lines = 1 .. R
      BY <1>2, <3>1
    <3>3. ASSUME NEW r \in 1 .. R
          PROVE  Len(g.lines[r].c) = C /\ \A i \in 1 .. C : g.lines[r].c[i] \in Kinds
      <4>1. g.lines[r].c \in [1 .. C -> Kinds]
        BY <3>1 DEF LinesOf, CellsOf
      <4> QED
        BY <1>2, <4>1, Columns
    <3> QED
      BY <1>1, <3>2, <3>3
  <2>2. CASE g.lines = <<>>
    BY <2>2
  <2> QED
    BY <2>1, <2>2, SpareFields
<1> QED
  BY <1>3, <1>4 DEF Valid

\* Both grids stay valid and of one size, whatever the child sends and however
\* the session is resized.
THEOREM AlwaysValid ==
    Spec => []GridsValid
<1>1. ASSUME IInv PROVE GridsValid
  <2> DEFINE R == main.rows
             C == main.cols
             W == ~cut
  <2>1. /\ Shape(R, C, W) /\ main \in Spare(R, C, W) /\ alt \in Spare(R, C, W)
        /\ main \in Grids(R, C, W) /\ (altOn => alt \in Grids(R, C, W))
    BY <1>1 DEF IInv, Consistent, Spare
  <2> HIDE DEF R, C, W
  <2>2. Valid(main) /\ Valid(alt)
    BY <2>1, GridIsValid
  <2>3. R \in Nat \ {0}
    BY <2>1, Fields
  <2>4. ASSUME NEW g \in Grids(R, C, W) PROVE g.lines # <<>>
    <3>1. g.lines \in [1 .. R -> LinesOf(C, W)]
      BY <2>1, Fields
    <3>2. 1 \in DOMAIN g.lines
      BY <2>3, <3>1
    <3> QED
      BY <3>2
  <2>5. main.lines # <<>> /\ (altOn => alt.lines # <<>>)
    BY <2>1, <2>4
  <2>6. main.rows = R /\ main.cols = C /\ alt.rows = R /\ alt.cols = C
    BY <2>1, SpareFields
  <2> QED
    BY <2>2, <2>5, <2>6 DEF GridsValid
<1> QED
  BY <1>1, Invariant, PTL

\* No overwrite, erase, insertion or deletion separates the halves of a wide
\* character.
THEOREM AlwaysWhole ==
    Spec => []PairsWhole
<1>1. ASSUME IInv PROVE PairsWhole
  <2> SUFFICES ASSUME ~cut, NEW l \in Lines PROVE Whole(l)
    BY DEF PairsWhole
  <2> DEFINE R == main.rows
             C == main.cols
             W == ~cut
  <2>1. Shape(R, C, W) /\ main \in Spare(R, C, W) /\ alt \in Spare(R, C, W)
    BY <1>1 DEF IInv, Consistent, Spare
  <2> HIDE DEF R, C, W
  <2>2. ASSUME NEW g \in Spare(R, C, W), NEW r \in DOMAIN g.lines
        PROVE  g.lines[r] \in LinesOf(C, W)
    <3>1. g \in Grids(R, C, W)
      <4>1. g.lines # <<>>
        BY <2>2
      <4> QED
        BY <2>1, <2>2, <4>1, SpareFields
    <3>2. g.lines \in [1 .. R -> LinesOf(C, W)]
      BY <2>1, <3>1, Fields
    <3> QED
      BY <2>2, <3>2
  <2>3. l \in LinesOf(C, W)
    BY <2>1, <2>2 DEF Lines
  <2>4. l.c \in [1 .. C -> Kinds] /\ Paired(l.c, C)
    BY <2>3 DEF LinesOf, CellsOf, W
  <2>5. C \in Nat
    BY <2>1, Dimension DEF Shape
  <2>6. DOMAIN l.c = 1 .. C /\ Len(l.c) = C
    BY <2>4, <2>5, Columns
  <2> QED
    BY <2>4, <2>6 DEF Whole, Paired
<1> QED
  BY <1>1, Invariant, PTL

\* On screens of two rows and more no index is out of range as long as no wide
\* character was cut.
THEOREM AlwaysInRange ==
    ASSUME TwoRows
    PROVE  Spec => []IndexesInRange
<1>1. IInv => IndexesInRange
  BY DEF IInv, Sound, IndexesInRange, Panicked
<1> QED
  BY <1>1, Invariant, PTL

\* A program that left the main screen with ?1049h finds its text and its cursor
\* again at ?1049l.
THEOREM MainComesBack ==
    Spec => LeavingRestoresMain
<1>1. ASSUME IInv, altOn, Leave1049, entry # <<>>
      PROVE  /\ main'.lines = entry[1].lines
             /\ <<main'.row, main'.col>> = <<entry[1].row, entry[1].col>>
             /\ main'.origin = entry[1].origin
  <2>1. /\ main \in Grids(main.rows, main.cols, ~cut)
        /\ main.lines = entry[1].lines
        /\ main.srow = entry[1].row /\ main.scol = entry[1].col
        /\ main.sorigin = entry[1].origin
    BY <1>1 DEF IInv, Consistent, Remembered
  <2>2. main' = Restore(main)
    BY <1>1 DEF Leave1049
  <2>3. /\ Restore(main).lines = main.lines
        /\ Restore(main).row = main.srow /\ Restore(main).col = main.scol
        /\ Restore(main).origin = main.sorigin
    BY <2>1 DEF Restore, Grids, Bounds
  <2> QED
    BY <2>1, <2>2, <2>3
<1>2. IInv /\ [Next]_vars =>
        [altOn /\ ~altOn' /\ Leave1049 /\ entry # <<>> =>
           /\ main'.lines = entry[1].lines
           /\ <<main'.row, main'.col>> = <<entry[1].row, entry[1].col>>
           /\ main'.origin = entry[1].origin]_vars
  BY <1>1
<1> QED
  BY <1>2, Invariant, PTL DEF Spec, LeavingRestoresMain
=============================================================================
