---------------------------- MODULE Layout_proofs ----------------------------
(***************************************************************************)
(* CurrentIsShown and ListFits for every size of the terminal, every       *)
(* number of sessions and all texts.                                       *)
(***************************************************************************)
EXTENDS Layout, SequenceTheorems, TLAPS

Adding == INSTANCE FoldTheorems WITH Op <- AddWidth
Counting == INSTANCE FoldTheorems WITH Op <- AddChar
Taking == INSTANCE FoldTheorems WITH Op <- TakeChar
Joining == INSTANCE FoldTheorems WITH Op <- AddSegment
Emitting == INSTANCE FoldTheorems WITH Op <- EmitSegment

\* FlattenSeq, seen as a fold.
Chained(out, text) == out \o text
Chaining == INSTANCE FoldTheorems WITH Op <- Chained

\* All that is drawn, the selector included.
Char == [of : Names \cup {"selector"}, at : Nat, w : Nat, more : Int]
Text == Seq(Char)

\* What is known of the constants is that they are made of such texts.
LEMMA AllAreTexts == /\ AnyText \subseteq Text /\ PlainText \subseteq AnyText
                     /\ Ascii \subseteq PlainText /\ <<>> \in PlainText
<1> DEFINE C(ws, mores) == [of : Names, at : Nat, w : ws, more : mores]
<1>1. /\ C(0 .. 2, -2 .. 1) \subseteq Char /\ C(0 .. 2, {0}) \subseteq C(0 .. 2, -2 .. 1)
      /\ C({1}, {0}) \subseteq C(0 .. 2, {0})
  BY DEF Char
<1>2. /\ AnyText = Seq(C(0 .. 2, -2 .. 1)) /\ PlainText = Seq(C(0 .. 2, {0}))
      /\ Ascii = Seq(C({1}, {0})) /\ Text = Seq(Char)
  BY DEF AnyText, PlainText, Ascii, TextOf, Text
<1> HIDE DEF C
<1>3. \A S, T : S \subseteq T => Seq(S) \subseteq Seq(T)
  BY SeqMonotonic
<1>4. <<>> \in Seq(C(0 .. 2, {0}))
  BY EmptySeq
<1> QED
  BY <1>1, <1>2, <1>3, <1>4

-----------------------------------------------------------------------------
(* The width of a text, and of its characters.                             *)

\* A text's characters have widths.
LEMMA TextChars ==
    ASSUME NEW t \in Text
    PROVE  /\ Len(t) \in Nat /\ DOMAIN t = 1 .. Len(t)
           /\ \A k \in 1 .. Len(t) : t[k] \in Char /\ t[k].w \in Nat /\ t[k].more \in Int
<1>1. Len(t) \in Nat /\ DOMAIN t = 1 .. Len(t) /\ \A k \in 1 .. Len(t) : t[k] \in Char
  BY ElementOfSeq DEF Text
<1> QED
  BY <1>1 DEF Char

\* Character by character.
LEMMA WidthSteps ==
    ASSUME NEW t \in Text
    PROVE  /\ Width(SubSeq(t, 1, 0)) = 0
           /\ Width(SubSeq(t, 1, Len(t))) = Width(t)
           /\ \A k \in 1 .. Len(t) :
                Width(SubSeq(t, 1, k)) = Width(SubSeq(t, 1, k - 1)) + t[k].w + t[k].more
<1>1. /\ t \in Seq(Char) /\ SubSeq(t, 1, Len(t)) = t
      /\ DOMAIN SubSeq(t, 1, 0) = 1 .. 0
  BY DEF Text
<1>2. Adding!Folded(0, SubSeq(t, 1, 0)) = 0
  BY <1>1, Adding!FoldEmpty
<1>3. \A k \in 1 .. Len(t) :
        Adding!Folded(0, SubSeq(t, 1, k)) = AddWidth(Adding!Folded(0, SubSeq(t, 1, k - 1)), t[k])
  BY <1>1, Adding!FoldSteps
<1>4. \A s : Adding!Folded(0, s) = Width(s)
  BY DEF Adding!Folded, Adding!FoldLeft, Adding!MapThenFoldSet, Adding!Max,
         Width, FoldLeft, MapThenFoldSet, Max
<1> QED
  BY <1>1, <1>2, <1>3, <1>4 DEF AddWidth

LEMMA CharWidthSteps ==
    ASSUME NEW t \in Text
    PROVE  /\ CharWidth(SubSeq(t, 1, 0)) = 0
           /\ CharWidth(SubSeq(t, 1, Len(t))) = CharWidth(t)
           /\ \A k \in 1 .. Len(t) :
                CharWidth(SubSeq(t, 1, k)) = CharWidth(SubSeq(t, 1, k - 1)) + t[k].w
<1>1. /\ t \in Seq(Char) /\ SubSeq(t, 1, Len(t)) = t
      /\ DOMAIN SubSeq(t, 1, 0) = 1 .. 0
  BY DEF Text
<1>2. Counting!Folded(0, SubSeq(t, 1, 0)) = 0
  BY <1>1, Counting!FoldEmpty
<1>3. \A k \in 1 .. Len(t) :
        Counting!Folded(0, SubSeq(t, 1, k)) = AddChar(Counting!Folded(0, SubSeq(t, 1, k - 1)), t[k])
  BY <1>1, Counting!FoldSteps
<1>4. \A s : Counting!Folded(0, s) = CharWidth(s)
  BY DEF Counting!Folded, Counting!FoldLeft, Counting!MapThenFoldSet, Counting!Max,
         CharWidth, FoldLeft, MapThenFoldSet, Max
<1> QED
  BY <1>1, <1>2, <1>3, <1>4 DEF AddChar

\* Widths are numbers; a longer beginning has characters no narrower; a fair text is
\* no wider than its characters.
LEMMA WidthGrows ==
    ASSUME NEW t \in Text
    PROVE  /\ Width(t) \in Int /\ CharWidth(t) \in Nat
           /\ \A k \in 0 .. Len(t) : /\ Width(SubSeq(t, 1, k)) \in Int
                                     /\ CharWidth(SubSeq(t, 1, k)) \in Nat
           /\ \A k \in 0 .. Len(t) : \A j \in 0 .. k :
                CharWidth(SubSeq(t, 1, j)) <= CharWidth(SubSeq(t, 1, k))
           /\ Fair(t) => Width(t) <= CharWidth(t)
<1> DEFINE W(k) == CharWidth(SubSeq(t, 1, k))
           V(k) == Width(SubSeq(t, 1, k))
           P == {k \in Nat : k <= Len(t) =>
                               /\ W(k) \in Nat /\ \A j \in 0 .. k : W(j) \in Nat /\ W(j) <= W(k)
                               /\ V(k) \in Int /\ (Fair(t) => V(k) <= W(k))}
<1>1. W(0) = 0 /\ W(Len(t)) = CharWidth(t) /\ V(0) = 0 /\ V(Len(t)) = Width(t) /\ Len(t) \in Nat
      /\ \A k \in 1 .. Len(t) : /\ W(k) = W(k - 1) + t[k].w /\ t[k].w \in Nat
                                /\ V(k) = V(k - 1) + t[k].w + t[k].more /\ t[k].more \in Int
                                /\ Fair(t) => t[k].more <= 0
  <2>1. \A k \in 1 .. Len(t) : Fair(t) => t[k].more <= 0
    BY TextChars DEF Fair
  <2> QED
    BY <2>1, TextChars, WidthSteps, CharWidthSteps
<1> HIDE DEF W, V
<1>2. 0 \in P
  BY <1>1
<1>3. ASSUME NEW k \in Nat, k \in P PROVE k + 1 \in P
  <2> SUFFICES ASSUME k + 1 <= Len(t)
               PROVE  /\ W(k + 1) \in Nat
                      /\ \A j \in 0 .. k + 1 : W(j) \in Nat /\ W(j) <= W(k + 1)
                      /\ V(k + 1) \in Int /\ (Fair(t) => V(k + 1) <= W(k + 1))
    OBVIOUS
  <2>1. k + 1 \in 1 .. Len(t) /\ (k + 1) - 1 = k
    BY <1>1
  <2>2. PICK d \in Nat, m \in Int : /\ W(k + 1) = W(k) + d /\ V(k + 1) = V(k) + d + m
                                    /\ Fair(t) => m <= 0
    <3>1. /\ W(k + 1) = W(k) + t[k + 1].w /\ t[k + 1].w \in Nat
          /\ V(k + 1) = V(k) + t[k + 1].w + t[k + 1].more /\ t[k + 1].more \in Int
          /\ Fair(t) => t[k + 1].more <= 0
      BY <1>1, <2>1
    <3> QED
      BY <3>1
  <2>3. /\ W(k) \in Nat /\ \A j \in 0 .. k : W(j) \in Nat /\ W(j) <= W(k)
        /\ V(k) \in Int /\ (Fair(t) => V(k) <= W(k))
    BY <1>1, <1>3
  <2>4. W(k) \in Nat /\ W(k + 1) = W(k) + d /\ W(k + 1) \in Nat /\ W(k) <= W(k + 1)
    <3>1. W(k) \in Nat /\ W(k + 1) = W(k) + d
      BY <2>2, <2>3
    <3> QED
      BY <3>1
  <2>5. V(k) \in Int /\ V(k + 1) = V(k) + d + m /\ V(k + 1) \in Int
    <3>1. V(k) \in Int /\ V(k + 1) = V(k) + d + m
      BY <2>2, <2>3
    <3> QED
      BY <3>1
  <2>6. ASSUME Fair(t) PROVE V(k + 1) <= W(k + 1)
    <3>1. V(k) <= W(k) /\ m <= 0
      BY <2>2, <2>3, <2>6
    <3> QED
      BY <2>4, <2>5, <3>1
  <2>7. ASSUME NEW j \in 0 .. k + 1 PROVE W(j) \in Nat /\ W(j) <= W(k + 1)
    <3>1. CASE j = k + 1
      BY <2>4, <3>1
    <3>2. CASE j \in 0 .. k
      <4>1. W(j) \in Nat /\ W(j) <= W(k)
        BY <2>3, <3>2
      <4> QED
        BY <2>4, <4>1
    <3> QED
      BY <3>1, <3>2
  <2> QED
    BY <2>4, <2>5, <2>6, <2>7
<1> HIDE DEF P
<1>4. Nat \subseteq P
  BY <1>2, <1>3, Adding!Induction
<1>5. \A k \in 0 .. Len(t) : /\ W(k) \in Nat /\ V(k) \in Int /\ (Fair(t) => V(k) <= W(k))
                             /\ \A j \in 0 .. k : W(j) <= W(k)
  BY <1>1, <1>4 DEF P
<1>6. Len(t) \in 0 .. Len(t)
  BY <1>1
<1> QED
  BY <1>1, <1>5, <1>6 DEF W, V

\* The beginnings of a text are made of the same characters.
LEMMA Beginnings ==
    ASSUME NEW C, NEW t \in Seq(C), NEW k \in 0 .. Len(t)
    PROVE  /\ SubSeq(t, 1, k) \in Seq(C) /\ Len(SubSeq(t, 1, k)) = k
           /\ \A j \in 1 .. k : SubSeq(t, 1, k)[j] = t[j]
  OBVIOUS

\* Where the two measures agree.
LEMMA WidthOfPlain ==
    ASSUME NEW t \in PlainText
    PROVE  /\ t \in Text /\ Fair(t) /\ Len(t) \in Nat
           /\ \A k \in 0 .. Len(t) : /\ SubSeq(t, 1, k) \in PlainText
                                     /\ Width(SubSeq(t, 1, k)) = CharWidth(SubSeq(t, 1, k))
           /\ Width(t) \in Nat /\ Width(t) = CharWidth(t)
           /\ \A k \in 0 .. Len(t) : Width(SubSeq(t, 1, k)) \in Nat
           /\ \A k \in 0 .. Len(t) : \A j \in 0 .. k :
                Width(SubSeq(t, 1, j)) <= Width(SubSeq(t, 1, k))
<1> DEFINE W(k) == CharWidth(SubSeq(t, 1, k))
           V(k) == Width(SubSeq(t, 1, k))
           P == {k \in Nat : k <= Len(t) => V(k) = W(k)}
<1>1. t \in Text /\ Len(t) \in Nat /\ DOMAIN t = 1 .. Len(t)
  BY AllAreTexts, TextChars
<1>2. \A k \in 1 .. Len(t) : t[k].more = 0
  <2>1. \A k \in 1 .. Len(t) : t[k] \in [of : Names, at : Nat, w : 0 .. 2, more : {0}]
    BY ElementOfSeq DEF PlainText, TextOf
  <2> QED
    BY <2>1
<1>3. Fair(t)
  BY <1>1, <1>2 DEF Fair
<1>4. /\ W(0) = 0 /\ W(Len(t)) = CharWidth(t) /\ V(0) = 0 /\ V(Len(t)) = Width(t)
      /\ \A k \in 1 .. Len(t) : /\ W(k) = W(k - 1) + t[k].w /\ t[k].w \in Nat
                                /\ V(k) = V(k - 1) + t[k].w + t[k].more
      /\ \A k \in 0 .. Len(t) : W(k) \in Nat /\ \A j \in 0 .. k : W(j) <= W(k)
  BY <1>1, TextChars, WidthSteps, CharWidthSteps, WidthGrows
<1>5. \A k \in 0 .. Len(t) : SubSeq(t, 1, k) \in PlainText
  BY Beginnings DEF PlainText, TextOf
<1> HIDE DEF W, V
<1>6. 0 \in P
  BY <1>4
<1>7. ASSUME NEW k \in Nat, k \in P PROVE k + 1 \in P
  <2> SUFFICES ASSUME k + 1 <= Len(t) PROVE V(k + 1) = W(k + 1)
    OBVIOUS
  <2>1. k + 1 \in 1 .. Len(t) /\ (k + 1) - 1 = k /\ k \in 0 .. Len(t)
    BY <1>1
  <2>2. W(k + 1) = W(k) + t[k + 1].w /\ V(k + 1) = V(k) + t[k + 1].w + 0 /\ t[k + 1].w \in Nat
    BY <1>2, <1>4, <2>1
  <2>3. V(k) = W(k) /\ W(k) \in Nat
    BY <1>1, <1>4, <1>7, <2>1
  <2> QED
    BY <2>2, <2>3
<1> HIDE DEF P
<1>8. Nat \subseteq P
  BY <1>6, <1>7, Adding!Induction
<1>9. \A k \in 0 .. Len(t) : V(k) = W(k)
  BY <1>1, <1>8 DEF P
<1>10. Len(t) \in 0 .. Len(t)
  BY <1>1
<1>11. \A k \in 0 .. Len(t) : \A j \in 0 .. k : j \in 0 .. Len(t)
  BY <1>1
<1>12. \A k \in 0 .. Len(t) : V(k) \in Nat /\ \A j \in 0 .. k : V(j) <= V(k)
  BY <1>4, <1>9, <1>11
<1> QED
  BY <1>1, <1>3, <1>4, <1>5, <1>9, <1>10, <1>12 DEF V, W

\* Of two texts.
LEMMA WidthOfConcat ==
    ASSUME NEW a \in Text, NEW b \in Text
    PROVE  /\ a \o b \in Text
           /\ Width(a \o b) = Width(a) + Width(b)
<1> DEFINE c == a \o b
           P == {k \in Nat : k <= Len(b) =>
                   Width(SubSeq(c, 1, Len(a) + k)) = Width(a) + Width(SubSeq(b, 1, k))}
<1>1. /\ c \in Text /\ Len(c) = Len(a) + Len(b) /\ Len(a) \in Nat /\ Len(b) \in Nat
      /\ SubSeq(c, 1, Len(a)) = a
      /\ \A k \in 1 .. Len(b) : c[Len(a) + k] = b[k]
  <2>1. a \in Seq(Char) /\ b \in Seq(Char)
    BY DEF Text
  <2>2. c \in Seq(Char) /\ Len(c) = Len(a) + Len(b)
    BY <2>1, ConcatProperties
  <2>3. Len(a) \in Nat /\ Len(b) \in Nat /\ \A k \in 1 .. Len(b) : c[Len(a) + k] = b[k]
    BY <2>1, ConcatProperties
  <2>4. SubSeq(c, 1, Len(a)) = a
    BY <2>1
  <2> QED
    BY <2>2, <2>3, <2>4 DEF Text
<1> HIDE DEF c
<1>2. 0 \in P
  <2>1. Width(SubSeq(c, 1, Len(a) + 0)) = Width(a)
    <3>1. Len(a) + 0 = Len(a)
      BY <1>1
    <3> QED
      BY <1>1, <3>1, Zenon
  <2>2. Width(SubSeq(b, 1, 0)) = 0 /\ Width(a) \in Int
    BY WidthSteps, WidthGrows
  <2> QED
    BY <2>1, <2>2
<1>3. ASSUME NEW k \in Nat, k \in P PROVE k + 1 \in P
  <2> SUFFICES ASSUME k + 1 <= Len(b)
               PROVE  Width(SubSeq(c, 1, Len(a) + (k + 1))) = Width(a) + Width(SubSeq(b, 1, k + 1))
    OBVIOUS
  <2>1. k + 1 \in 1 .. Len(b) /\ (k + 1) - 1 = k /\ k \in 0 .. Len(b)
    BY <1>1
  <2>2. /\ Len(a) + (k + 1) \in 1 .. Len(c) /\ (Len(a) + (k + 1)) - 1 = Len(a) + k
        /\ c[Len(a) + (k + 1)] = b[k + 1]
    BY <1>1, <2>1
  <2>3. Width(SubSeq(c, 1, Len(a) + (k + 1)))
          = Width(SubSeq(c, 1, Len(a) + k)) + b[k + 1].w + b[k + 1].more
    BY <1>1, <2>2, WidthSteps
  <2>4. Width(SubSeq(b, 1, k + 1)) = Width(SubSeq(b, 1, k)) + b[k + 1].w + b[k + 1].more
    BY <2>1, WidthSteps
  <2>5. Width(SubSeq(c, 1, Len(a) + k)) = Width(a) + Width(SubSeq(b, 1, k))
    BY <1>3, <2>1
  <2>6. Width(a) \in Int /\ Width(SubSeq(b, 1, k)) \in Int /\ b[k + 1].w \in Int
        /\ b[k + 1].more \in Int
    BY <2>1, WidthGrows, TextChars
  <2>7. \A x, y, d, m \in Int : x + y + d + m = x + (y + d + m)
    OBVIOUS
  <2>8. Width(SubSeq(c, 1, Len(a) + (k + 1)))
          = Width(a) + Width(SubSeq(b, 1, k)) + b[k + 1].w + b[k + 1].more
    BY <2>3, <2>5, Zenon
  <2>9. Width(a) + Width(SubSeq(b, 1, k)) + b[k + 1].w + b[k + 1].more
          = Width(a) + (Width(SubSeq(b, 1, k)) + b[k + 1].w + b[k + 1].more)
    BY <2>6, <2>7
  <2> QED
    BY <2>4, <2>8, <2>9, Zenon
<1> HIDE DEF P
<1>4. Nat \subseteq P
  BY <1>2, <1>3, Adding!Induction
<1>5. Len(b) \in P
  BY <1>1, <1>4
<1>6. Width(SubSeq(c, 1, Len(c))) = Width(a) + Width(SubSeq(b, 1, Len(b)))
  BY <1>1, <1>5 DEF P
<1> QED
  BY <1>1, <1>6, WidthSteps DEF c

\* A text of ASCII characters has as many columns as characters.
LEMMA WidthOfAscii ==
    ASSUME NEW t \in Ascii
    PROVE  /\ t \in PlainText /\ t \in Text /\ Width(t) = Len(t) /\ CharWidth(t) = Len(t)
           /\ Fair(t)
<1> DEFINE W(k) == CharWidth(SubSeq(t, 1, k))
           P == {k \in Nat : k <= Len(t) => W(k) = k}
<1>1. /\ t \in PlainText /\ t \in Text /\ Fair(t)
      /\ Len(t) \in Nat /\ Width(t) = CharWidth(t)
  BY AllAreTexts, WidthOfPlain
<1>2. \A k \in 1 .. Len(t) : t[k].w = 1
  <2>1. \A k \in 1 .. Len(t) : t[k] \in [of : Names, at : Nat, w : {1}, more : {0}]
    BY ElementOfSeq DEF Ascii, TextOf
  <2> QED
    BY <2>1
<1>3. W(0) = 0 /\ W(Len(t)) = CharWidth(t) /\ \A k \in 1 .. Len(t) : W(k) = W(k - 1) + t[k].w
  BY <1>1, CharWidthSteps
<1> HIDE DEF W
<1>4. 0 \in P
  BY <1>3
<1>5. ASSUME NEW k \in Nat, k \in P PROVE k + 1 \in P
  <2> SUFFICES ASSUME k + 1 <= Len(t) PROVE W(k + 1) = k + 1
    OBVIOUS
  <2>1. k + 1 \in 1 .. Len(t) /\ (k + 1) - 1 = k /\ W(k) = k
    BY <1>1, <1>5
  <2> QED
    BY <1>2, <1>3, <2>1
<1> HIDE DEF P
<1>6. Nat \subseteq P
  BY <1>4, <1>5, Adding!Induction
<1>7. W(Len(t)) = Len(t)
  BY <1>1, <1>6 DEF P
<1> QED
  BY <1>1, <1>3, <1>7

\* The greater and the lesser of two numbers.
LEMMA MaxOfTwo ==
    ASSUME NEW a \in Int, NEW b \in Int
    PROVE  Max({a, b}) = IF a >= b THEN a ELSE b
<1>1. \E x \in {a, b} : \A y \in {a, b} : x >= y
  OBVIOUS
<1>2. Max({a, b}) \in {a, b} /\ \A y \in {a, b} : Max({a, b}) >= y
  BY <1>1 DEF Max
<1> QED
  BY <1>2

LEMMA MinOfTwo ==
    ASSUME NEW a \in Int, NEW b \in Int
    PROVE  Min({a, b}) = IF a <= b THEN a ELSE b
<1>1. \E x \in {a, b} : \A y \in {a, b} : x <= y
  OBVIOUS
<1>2. Min({a, b}) \in {a, b} /\ \A y \in {a, b} : Min({a, b}) <= y
  BY <1>1 DEF Min
<1> QED
  BY <1>2

\* Spaces are a text like any other.
LEMMA WidthOfSpaces ==
    ASSUME NEW n \in Int
    PROVE  /\ Spaces(n) \in Ascii /\ Spaces(n) \in Text
           /\ Len(Spaces(n)) = IF n > 0 THEN n ELSE 0
           /\ Width(Spaces(n)) = IF n > 0 THEN n ELSE 0
<1> DEFINE m == IF n > 0 THEN n ELSE 0
           C == [of : Names, at : Nat, w : {1}, more : {0}]
<1>1. m \in Nat /\ Max({n, 0}) = m
  BY MaxOfTwo
<1>2. [of |-> "space", at |-> 0, w |-> 1, more |-> 0] \in C
  BY LayoutAssumption
<1>3. Spaces(n) \in [1 .. m -> C]
  BY <1>1, <1>2 DEF Spaces
<1> HIDE DEF C, m
<1>4. Spaces(n) \in Seq(C) /\ Len(Spaces(n)) = m
  BY <1>1, <1>3
<1>5. Spaces(n) \in Ascii
  BY <1>4 DEF C, Ascii, TextOf
<1> QED
  BY <1>4, <1>5, WidthOfAscii DEF m

-----------------------------------------------------------------------------
(* What is cut and padded.                                                 *)

\* A cut text is the longest beginning that fits.
LEMMA TruncatedFits ==
    ASSUME NEW t \in Text, NEW n \in Nat
    PROVE  \E k \in 0 .. Len(t) :
              /\ Truncated(t, n) = SubSeq(t, 1, k)
              /\ CharWidth(SubSeq(t, 1, k)) <= n
              /\ k < Len(t) => CharWidth(SubSeq(t, 1, k + 1)) > n
<1> DEFINE W(k) == CharWidth(SubSeq(t, 1, k))
           N == Len(t)
           start == [len |-> 0, used |-> 0, room |-> n]
           Holds == [k \in 0 .. N |->
                       {s \in [len : 0 .. k, used : Nat, room : {n}] :
                          s.used = W(k) /\ W(s.len) <= n /\ (s.len < k => W(s.len + 1) > n)}]
<1>1. /\ N \in Nat /\ DOMAIN t = 1 .. N /\ W(0) = 0
      /\ \A k \in 0 .. N : W(k) \in Nat /\ \A j \in 0 .. k : W(j) <= W(k)
      /\ \A k \in 1 .. N : W(k) = W(k - 1) + t[k].w /\ t[k].w \in Nat
  BY TextChars, CharWidthSteps, WidthGrows
<1> HIDE DEF W, N
<1>2. start \in Holds[0]
  BY <1>1
<1>3. ASSUME NEW k \in 1 .. N, NEW x \in Holds[k - 1]
      PROVE  TakeChar(x, t[k]) \in Holds[k]
  <2>1. k \in 0 .. N /\ k - 1 \in 0 .. N /\ k \in Nat /\ k - 1 \in Nat
    BY <1>1
  <2>2. /\ x \in [len : 0 .. k - 1, used : Nat, room : {n}] /\ x.used = W(k - 1) /\ W(x.len) <= n
        /\ x.len < k - 1 => W(x.len + 1) > n
    BY <2>1
  <2>3. W(k) = x.used + t[k].w /\ W(k) \in Nat
    BY <1>1, <2>1, <2>2
  <2>4. TakeChar(x, t[k]) = [len |-> IF W(k) <= n THEN x.len + 1 ELSE x.len,
                             used |-> W(k), room |-> n]
    BY <2>2, <2>3 DEF TakeChar
  <2>5. CASE W(k) <= n
    <3>1. ~(x.len < k - 1)
      <4> SUFFICES ASSUME x.len < k - 1 PROVE FALSE
        OBVIOUS
      <4>1. x.len + 1 \in 0 .. k /\ x.len + 1 \in 0 .. N
        BY <1>1, <2>1, <2>2
      <4> QED
        BY <1>1, <2>1, <2>2, <2>3, <2>5, <4>1
    <3>2. x.len + 1 = k
      BY <2>1, <2>2, <3>1
    <3> QED
      BY <2>1, <2>3, <2>4, <2>5, <3>2
  <2>6. CASE W(k) > n
    <3>1. TakeChar(x, t[k]) = [len |-> x.len, used |-> W(k), room |-> n]
      BY <2>3, <2>4, <2>6
    <3>2. x.len < k => W(x.len + 1) > n
      BY <2>1, <2>2, <2>6
    <3> QED
      BY <2>1, <2>2, <2>3, <3>1, <3>2
  <2> QED
    BY <2>3, <2>5, <2>6
<1> HIDE DEF Holds
<1>4. Taking!Folded(start, t) \in Holds[N]
  BY <1>1, <1>2, <1>3, Taking!FoldInvariant
<1>5. Truncated(t, n) = SubSeq(t, 1, Taking!Folded(start, t).len)
  BY DEF Taking!Folded, Taking!FoldLeft, Taking!MapThenFoldSet, Taking!Max,
         Truncated, FoldLeft, MapThenFoldSet, Max
<1>6. N \in 0 .. N
  BY <1>1
<1> QED
  BY <1>4, <1>5, <1>6 DEF Holds, W, N

\* Of a text without such characters, by either measure.
LEMMA PlainCut ==
    ASSUME NEW t \in PlainText, NEW n \in Nat
    PROVE  \E k \in 0 .. Len(t) :
              /\ Truncated(t, n) = SubSeq(t, 1, k)
              /\ Width(SubSeq(t, 1, k)) <= n
              /\ k < Len(t) => Width(SubSeq(t, 1, k + 1)) > n
<1>1. t \in Text /\ Len(t) \in Nat
      /\ \A k \in 0 .. Len(t) : Width(SubSeq(t, 1, k)) = CharWidth(SubSeq(t, 1, k))
  BY WidthOfPlain
<1>2. PICK k \in 0 .. Len(t) :
         /\ Truncated(t, n) = SubSeq(t, 1, k)
         /\ CharWidth(SubSeq(t, 1, k)) <= n
         /\ k < Len(t) => CharWidth(SubSeq(t, 1, k + 1)) > n
  BY <1>1, TruncatedFits
<1>3. k < Len(t) => k + 1 \in 0 .. Len(t)
  BY <1>1
<1> QED
  BY <1>1, <1>2, <1>3

-----------------------------------------------------------------------------
(* Texts one after the other.                                              *)

\* The beginnings of two texts one after the other.
LEMMA BeginningsOfConcat ==
    ASSUME NEW a \in Text, NEW b \in Text
    PROVE  /\ a \o b \in Text /\ Len(a \o b) = Len(a) + Len(b)
           /\ Len(a) \in Nat /\ Len(b) \in Nat
           /\ \A m \in 0 .. Len(a) : SubSeq(a \o b, 1, m) = SubSeq(a, 1, m)
           /\ \A m \in 0 .. Len(b) : SubSeq(a \o b, 1, Len(a) + m) = a \o SubSeq(b, 1, m)
<1>1. /\ a \in Seq(Char) /\ b \in Seq(Char) /\ Len(a) \in Nat /\ Len(b) \in Nat
      /\ a \o b \in Seq(Char) /\ Len(a \o b) = Len(a) + Len(b)
  BY ConcatProperties DEF Text
<1>2. \A m \in 0 .. Len(a) : SubSeq(a \o b, 1, m) = SubSeq(a, 1, m)
  BY <1>1
<1>3. \A m \in 0 .. Len(b) : SubSeq(a \o b, 1, Len(a) + m) = a \o SubSeq(b, 1, m)
  BY <1>1
<1> QED
  BY <1>1, <1>2, <1>3 DEF Text

LEMMA FlattenIsFold ==
    ASSUME NEW C, NEW seqs \in Seq(Seq(C))
    PROVE  FlattenSeq(seqs) = Chaining!Folded(<<>>, seqs)
<1> DEFINE n == Len(seqs)
           F(i) == Chaining!Folded(<<>>, SubSeq(seqs, 1, i))
           f == CHOOSE g : g = [i \in 1 .. n |-> IF i = 1 THEN seqs[i] ELSE g[i - 1] \o seqs[i]]
           h == [i \in 1 .. n |-> F(i)]
           P == {i \in Nat : i \in 1 .. n => f[i] = F(i)}
<1>1. /\ n \in Nat /\ \A i \in 1 .. n : seqs[i] \in Seq(C)
      /\ F(n) = Chaining!Folded(<<>>, seqs)
      /\ F(0) = <<>>
  <2>1. n \in Nat /\ SubSeq(seqs, 1, n) = seqs /\ \A i \in 1 .. n : seqs[i] \in Seq(C)
    OBVIOUS
  <2>2. DOMAIN SubSeq(seqs, 1, 0) = 1 .. 0
    OBVIOUS
  <2>3. F(0) = <<>>
    BY <2>2, Chaining!FoldEmpty
  <2> QED
    BY <2>1, <2>3
<1>2. \A i \in 1 .. n : F(i) = F(i - 1) \o seqs[i]
  BY Chaining!FoldSteps DEF Chained
<1>3. CASE n = 0
  <2>1. FlattenSeq(seqs) = seqs /\ seqs = <<>>
    BY <1>3 DEF FlattenSeq
  <2> QED
    BY <1>1, <1>3, <2>1
<1>4. CASE n > 0
  <2>1. FlattenSeq(seqs) = f[n]
    BY <1>4 DEF FlattenSeq
  <2> HIDE DEF F, n
  <2>2. F(1) = seqs[1]
    <3>1. 1 \in 1 .. n /\ 1 - 1 = 0
      BY <1>1, <1>4
    <3>2. F(1) = <<>> \o seqs[1] /\ seqs[1] \in Seq(C)
      BY <1>1, <1>2, <3>1
    <3> QED
      BY <3>2
  <2>3. \A i \in 1 .. n : h[i] = IF i = 1 THEN seqs[i] ELSE h[i - 1] \o seqs[i]
    <3> SUFFICES ASSUME NEW i \in 1 .. n
                 PROVE  h[i] = IF i = 1 THEN seqs[i] ELSE h[i - 1] \o seqs[i]
      OBVIOUS
    <3>1. CASE i = 1
      BY <2>2, <3>1
    <3>2. CASE i # 1
      <4>1. i - 1 \in 1 .. n
        BY <1>1, <3>2
      <4>2. h[i] = F(i) /\ h[i - 1] = F(i - 1)
        BY <4>1
      <4> QED
        BY <1>2, <3>2, <4>2
    <3> QED
      BY <3>1, <3>2
  <2>4. h = [i \in 1 .. n |-> IF i = 1 THEN seqs[i] ELSE h[i - 1] \o seqs[i]]
    <3>1. h = [i \in 1 .. n |-> h[i]]
      OBVIOUS
    <3> HIDE DEF h
    <3> QED
      BY <2>3, <3>1
  <2> HIDE DEF h
  <2>5. f = [i \in 1 .. n |-> IF i = 1 THEN seqs[i] ELSE f[i - 1] \o seqs[i]]
    BY <2>4
  <2> HIDE DEF f
  <2>6. 0 \in P
    OBVIOUS
  <2>7. ASSUME NEW i \in Nat, i \in P PROVE i + 1 \in P
    <3> SUFFICES ASSUME i + 1 \in 1 .. n PROVE f[i + 1] = F(i + 1)
      OBVIOUS
    <3>1. CASE i = 0
      BY <2>2, <2>5, <3>1
    <3>2. CASE i > 0
      <4>1. i \in 1 .. n /\ (i + 1) - 1 = i /\ i + 1 # 1
        BY <1>1, <3>2
      <4>2. f[i + 1] = f[(i + 1) - 1] \o seqs[i + 1]
        BY <2>5, <4>1, Zenon
      <4>3. F(i + 1) = F((i + 1) - 1) \o seqs[i + 1]
        BY <1>2, Zenon
      <4> QED
        BY <2>7, <4>1, <4>2, <4>3
    <3> QED
      BY <3>1, <3>2
  <2> HIDE DEF P
  <2>8. n \in P
    BY <1>1, <2>6, <2>7, Adding!Induction
  <2> QED
    BY <1>1, <1>4, <2>1, <2>8 DEF P
<1> QED
  BY <1>1, <1>3, <1>4

\* One text more is put at the end.
LEMMA FlattenSteps ==
    ASSUME NEW C, NEW seqs \in Seq(Seq(C))
    PROVE  /\ FlattenSeq(SubSeq(seqs, 1, 0)) = <<>>
           /\ FlattenSeq(SubSeq(seqs, 1, Len(seqs))) = FlattenSeq(seqs)
           /\ \A k \in 1 .. Len(seqs) :
                FlattenSeq(SubSeq(seqs, 1, k)) = FlattenSeq(SubSeq(seqs, 1, k - 1)) \o seqs[k]
           /\ \A k \in 0 .. Len(seqs) : FlattenSeq(SubSeq(seqs, 1, k)) \in Seq(C)
<1> DEFINE F(k) == FlattenSeq(SubSeq(seqs, 1, k))
           P == {k \in Nat : k <= Len(seqs) => F(k) \in Seq(C)}
<1>1. Len(seqs) \in Nat /\ \A k \in 1 .. Len(seqs) : seqs[k] \in Seq(C)
  OBVIOUS
<1>2. \A k \in 0 .. Len(seqs) : F(k) = Chaining!Folded(<<>>, SubSeq(seqs, 1, k))
  BY FlattenIsFold, Beginnings
<1>3. F(0) = <<>>
  <2>1. SubSeq(seqs, 1, 0) = <<>>
    OBVIOUS
  <2> QED
    BY <2>1 DEF FlattenSeq
<1>4. \A k \in 1 .. Len(seqs) : F(k) = F(k - 1) \o seqs[k]
  <2>1. \A k \in 1 .. Len(seqs) : k \in 0 .. Len(seqs) /\ k - 1 \in 0 .. Len(seqs)
    OBVIOUS
  <2>2. \A k \in 1 .. Len(seqs) : Chaining!Folded(<<>>, SubSeq(seqs, 1, k))
                                    = Chaining!Folded(<<>>, SubSeq(seqs, 1, k - 1)) \o seqs[k]
    BY Chaining!FoldSteps DEF Chained
  <2> HIDE DEF F
  <2> QED
    BY <1>2, <2>1, <2>2
<1>5. F(Len(seqs)) = FlattenSeq(seqs)
  <2>1. SubSeq(seqs, 1, Len(seqs)) = seqs
    OBVIOUS
  <2> QED
    BY <2>1
<1> HIDE DEF F
<1>6. 0 \in P
  BY <1>1, <1>3, EmptySeq
<1>7. ASSUME NEW k \in Nat, k \in P PROVE k + 1 \in P
  <2> SUFFICES ASSUME k + 1 <= Len(seqs) PROVE F(k + 1) \in Seq(C)
    OBVIOUS
  <2>1. k + 1 \in 1 .. Len(seqs) /\ (k + 1) - 1 = k /\ F(k) \in Seq(C)
    BY <1>1, <1>7
  <2>2. F(k + 1) = F((k + 1) - 1) \o seqs[k + 1] /\ seqs[k + 1] \in Seq(C)
    BY <1>1, <1>4, <2>1
  <2>3. \A a, b \in Seq(C) : a \o b \in Seq(C)
    BY ConcatProperties
  <2> QED
    BY <2>1, <2>2, <2>3
<1> HIDE DEF P
<1>8. Nat \subseteq P
  BY <1>6, <1>7, Adding!Induction
<1>9. \A k \in 0 .. Len(seqs) : F(k) \in Seq(C)
  BY <1>1, <1>8 DEF P
<1> QED
  BY <1>3, <1>4, <1>5, <1>9 DEF F

\* The m-th beginning of a leaves none of the n columns unused: a longer one that
\* fits is no wider.
Best(a, m, n) ==
    \A i \in 0 .. Len(a) : Width(SubSeq(a, 1, i)) <= n =>
                             Width(SubSeq(a, 1, i)) <= Width(SubSeq(a, 1, m))

\* What st has drawn is as much of a as fits, and all of it while there is room.
AsMuch(st, a, n) ==
    \E m \in 0 .. Len(a) :
       /\ st.out = SubSeq(a, 1, m) /\ Width(SubSeq(a, 1, m)) <= n
       /\ Best(a, m, n)
       /\ st.full => Width(a) > n
       /\ st.full \/ Width(SubSeq(a, 1, m)) = n \/ m = Len(a)

\* What AddSegment works on: what is drawn so far, of n columns.
Drawing(n) == [out : PlainText, full : BOOLEAN, room : {n}]

\* The widths of the beginnings of two texts one after the other.
LEMMA WidthsOfConcat ==
    ASSUME NEW a \in PlainText, NEW t \in PlainText
    PROVE  /\ Len(a) \in Nat /\ Len(t) \in Nat /\ Len(a \o t) = Len(a) + Len(t)
           /\ Width(a) \in Nat /\ Width(t) \in Nat /\ Width(a \o t) = Width(a) + Width(t)
           /\ \A i \in 0 .. Len(a) :
                /\ Width(SubSeq(a \o t, 1, i)) = Width(SubSeq(a, 1, i))
                /\ Width(SubSeq(a, 1, i)) \in Nat /\ Width(SubSeq(a, 1, i)) <= Width(a)
           /\ \A i \in 0 .. Len(t) :
                /\ Width(SubSeq(a \o t, 1, Len(a) + i)) = Width(a) + Width(SubSeq(t, 1, i))
                /\ Width(SubSeq(t, 1, i)) \in Nat /\ Width(SubSeq(t, 1, i)) <= Width(t)
           /\ \A i \in 0 .. Len(t) : \A j \in 0 .. i :
                Width(SubSeq(t, 1, j)) <= Width(SubSeq(t, 1, i))
<1>1. /\ Len(a) \in Nat /\ Len(t) \in Nat /\ Len(a \o t) = Len(a) + Len(t)
      /\ \A i \in 0 .. Len(a) : SubSeq(a \o t, 1, i) = SubSeq(a, 1, i)
      /\ \A i \in 0 .. Len(t) : SubSeq(a \o t, 1, Len(a) + i) = a \o SubSeq(t, 1, i)
  BY WidthOfPlain, BeginningsOfConcat
<1>2. \A i \in 0 .. Len(t) : SubSeq(t, 1, i) \in Text
  BY WidthOfPlain, Beginnings DEF Text
<1>3. \A i \in 0 .. Len(t) : Width(a \o SubSeq(t, 1, i)) = Width(a) + Width(SubSeq(t, 1, i))
  BY <1>2, WidthOfPlain, WidthOfConcat
<1>4. Width(a \o t) = Width(a) + Width(t)
  BY WidthOfPlain, WidthOfConcat
<1>5. \A s \in PlainText : /\ Width(s) \in Nat /\ Len(s) \in 0 .. Len(s)
                      /\ \A i \in 0 .. Len(s) :
                           /\ Width(SubSeq(s, 1, i)) \in Nat
                           /\ Width(SubSeq(s, 1, i)) <= Width(s)
                           /\ \A j \in 0 .. i : Width(SubSeq(s, 1, j)) <= Width(SubSeq(s, 1, i))
  <2> TAKE s \in PlainText
  <2>1. Len(s) \in 0 .. Len(s)
    BY WidthOfPlain
  <2>2. Width(SubSeq(s, 1, Len(s))) = Width(s)
    BY WidthOfPlain, WidthSteps
  <2> QED
    BY <2>1, <2>2, WidthOfPlain
<1> QED
  BY <1>1, <1>3, <1>4, <1>5

\* What is cut stays the best, whatever follows.
LEMMA BestStays ==
    ASSUME NEW a \in PlainText, NEW t \in PlainText, NEW n \in Nat, NEW m \in 0 .. Len(a),
           Best(a, m, n), Width(SubSeq(a, 1, m)) <= n, Width(a) > n
    PROVE  Best(a \o t, m, n)
<1> DEFINE b == a \o t
<1>1. SUFFICES ASSUME NEW i \in 0 .. Len(b), Width(SubSeq(b, 1, i)) <= n
               PROVE  Width(SubSeq(b, 1, i)) <= Width(SubSeq(b, 1, m))
  BY DEF Best
<1>2. /\ Len(a) \in Nat /\ Len(t) \in Nat /\ Len(b) = Len(a) + Len(t) /\ Width(a) \in Nat
      /\ \A k \in 0 .. Len(a) : Width(SubSeq(b, 1, k)) = Width(SubSeq(a, 1, k))
      /\ \A k \in 0 .. Len(t) : /\ Width(SubSeq(b, 1, Len(a) + k)) = Width(a) + Width(SubSeq(t, 1, k))
                                /\ Width(SubSeq(t, 1, k)) \in Nat
  BY WidthsOfConcat
<1> HIDE DEF b
<1>3. CASE i <= Len(a)
  <2>1. i \in 0 .. Len(a)
    BY <1>1, <1>2, <1>3
  <2> QED
    BY <1>1, <1>2, <2>1 DEF Best
<1>4. CASE i > Len(a)
  <2>1. i - Len(a) \in 0 .. Len(t) /\ Len(a) + (i - Len(a)) = i
    BY <1>1, <1>2, <1>4
  <2>2. Width(SubSeq(b, 1, i)) = Width(a) + Width(SubSeq(t, 1, i - Len(a)))
        /\ Width(SubSeq(t, 1, i - Len(a))) \in Nat
    BY <1>2, <2>1
  <2>3. Width(SubSeq(b, 1, i)) > n
    BY <1>2, <2>2
  <2> QED
    BY <1>1, <1>2, <2>2, <2>3
<1> QED
  BY <1>1, <1>2, <1>3, <1>4

\* All of a and as much of t as fits is the best of both.
LEMMA BestOfBoth ==
    ASSUME NEW a \in PlainText, NEW t \in PlainText, NEW n \in Nat, NEW j \in 0 .. Len(t),
           j < Len(t) => Width(a) + Width(SubSeq(t, 1, j + 1)) > n,
           NEW m \in 0 .. Len(a \o t),
           Width(SubSeq(a \o t, 1, m)) = Width(a) + Width(SubSeq(t, 1, j))
    PROVE  Best(a \o t, m, n)
<1> DEFINE b == a \o t
<1>1. SUFFICES ASSUME NEW i \in 0 .. Len(b), Width(SubSeq(b, 1, i)) <= n
               PROVE  Width(SubSeq(b, 1, i)) <= Width(SubSeq(b, 1, m))
  BY DEF Best
<1>2. /\ Len(a) \in Nat /\ Len(t) \in Nat /\ Len(b) = Len(a) + Len(t) /\ Width(a) \in Nat
      /\ \A k \in 0 .. Len(a) : /\ Width(SubSeq(b, 1, k)) = Width(SubSeq(a, 1, k))
                                /\ Width(SubSeq(a, 1, k)) \in Nat
                                /\ Width(SubSeq(a, 1, k)) <= Width(a)
      /\ \A k \in 0 .. Len(t) : /\ Width(SubSeq(b, 1, Len(a) + k)) = Width(a) + Width(SubSeq(t, 1, k))
                                /\ Width(SubSeq(t, 1, k)) \in Nat
      /\ \A k \in 0 .. Len(t) : \A l \in 0 .. k :
           Width(SubSeq(t, 1, l)) <= Width(SubSeq(t, 1, k))
  BY WidthsOfConcat
<1>3. Width(SubSeq(b, 1, m)) = Width(a) + Width(SubSeq(t, 1, j)) /\ Width(SubSeq(t, 1, j)) \in Nat
  BY <1>2
<1> HIDE DEF b
<1>4. CASE i <= Len(a)
  <2>1. i \in 0 .. Len(a)
    BY <1>1, <1>2, <1>4
  <2>2. Width(SubSeq(b, 1, i)) = Width(SubSeq(a, 1, i)) /\ Width(SubSeq(a, 1, i)) \in Nat
        /\ Width(SubSeq(a, 1, i)) <= Width(a)
    BY <1>2, <2>1
  <2> QED
    BY <1>2, <1>3, <2>2
<1>5. CASE i > Len(a)
  <2> DEFINE k == i - Len(a)
  <2>1. k \in 0 .. Len(t) /\ Len(a) + k = i
    BY <1>1, <1>2, <1>5
  <2> HIDE DEF k
  <2>2. Width(SubSeq(b, 1, i)) = Width(a) + Width(SubSeq(t, 1, k)) /\ Width(SubSeq(t, 1, k)) \in Nat
    BY <1>2, <2>1
  <2>3. CASE k <= j
    <3>1. k \in 0 .. j
      BY <2>1, <2>3
    <3>2. Width(SubSeq(t, 1, k)) <= Width(SubSeq(t, 1, j))
      BY <1>2, <3>1
    <3> QED
      BY <1>2, <1>3, <2>2, <3>2
  <2>4. CASE k > j
    <3>1. j < Len(t) /\ j + 1 \in 0 .. k /\ j + 1 \in 0 .. Len(t)
      BY <1>2, <2>1, <2>4
    <3>2. Width(SubSeq(t, 1, j + 1)) <= Width(SubSeq(t, 1, k)) /\ Width(SubSeq(t, 1, j + 1)) \in Nat
          /\ Width(a) + Width(SubSeq(t, 1, j + 1)) > n
      BY <1>2, <2>1, <3>1
    <3>3. Width(SubSeq(b, 1, i)) > n
      BY <1>2, <2>2, <3>2
    <3> QED
      BY <1>1, <1>2, <2>2, <3>3
  <2> QED
    BY <1>2, <2>1, <2>3, <2>4
<1> QED
  BY <1>1, <1>2, <1>4, <1>5

\* One text more.
LEMMA SegmentStep ==
    ASSUME NEW a \in PlainText, NEW t \in PlainText, t = <<>> \/ Width(t) > 0, NEW n \in Nat,
           NEW x \in Drawing(n), AsMuch(x, a, n)
    PROVE  AddSegment(x, t) \in Drawing(n) /\ AsMuch(AddSegment(x, t), a \o t, n)
<1> DEFINE b == a \o t
           y == AddSegment(x, t)
<1>1. /\ a \in Text /\ t \in Text /\ b \in PlainText /\ b \in Text
      /\ Len(a) \in Nat /\ Len(t) \in Nat /\ Len(b) = Len(a) + Len(t)
      /\ \A i \in 0 .. Len(a) : SubSeq(b, 1, i) = SubSeq(a, 1, i)
      /\ \A i \in 0 .. Len(t) : SubSeq(b, 1, Len(a) + i) = a \o SubSeq(t, 1, i)
  <2>1. a \in Text /\ t \in Text
    BY AllAreTexts
  <2>2. b \in PlainText
    BY ConcatProperties DEF PlainText, TextOf
  <2> QED
    BY <2>1, <2>2, BeginningsOfConcat
<1>2. /\ Width(a) \in Nat /\ Width(t) \in Nat /\ Width(b) = Width(a) + Width(t)
      /\ \A i \in 0 .. Len(a) : /\ Width(SubSeq(b, 1, i)) = Width(SubSeq(a, 1, i))
                                /\ Width(SubSeq(a, 1, i)) \in Nat
      /\ \A i \in 0 .. Len(t) : /\ Width(SubSeq(b, 1, Len(a) + i)) = Width(a) + Width(SubSeq(t, 1, i))
                                /\ Width(SubSeq(t, 1, i)) \in Nat
                                /\ Width(SubSeq(t, 1, i)) <= Width(t)
  BY <1>1, WidthsOfConcat
<1>3. PICK m \in 0 .. Len(a) :
         /\ x.out = SubSeq(a, 1, m) /\ Width(SubSeq(a, 1, m)) <= n
         /\ Best(a, m, n)
         /\ x.full => Width(a) > n
         /\ x.full \/ Width(SubSeq(a, 1, m)) = n \/ m = Len(a)
  BY DEF AsMuch
<1>4. x.room = n /\ x.full \in BOOLEAN /\ x.out \in PlainText /\ Width(x.out) \in Nat
  BY <1>2, <1>3 DEF Drawing
<1>5. m \in 0 .. Len(b)
  BY <1>1, <1>3
<1>6. CASE x.full \/ Width(x.out) >= x.room
  <2>1. y = x
    BY <1>6 DEF AddSegment
  <2>2. Best(b, m, n)
    <3>1. CASE x.full
      BY <1>1, <1>3, <3>1, BestStays
    <3>2. CASE Width(SubSeq(a, 1, m)) = n
      BY <1>2, <1>3, <3>2 DEF Best
    <3> QED
      BY <1>3, <1>4, <1>6, <3>1, <3>2
  <2>3. x.full => Width(b) > n
    BY <1>2, <1>3
  <2>4. x.full \/ Width(SubSeq(b, 1, m)) = n
    BY <1>2, <1>3, <1>4, <1>6
  <2>5. x.out = SubSeq(b, 1, m) /\ Width(SubSeq(b, 1, m)) <= n
    BY <1>1, <1>2, <1>3
  <2>6. AsMuch(x, b, n)
    BY <1>5, <2>2, <2>3, <2>4, <2>5 DEF AsMuch
  <2> HIDE DEF y, b
  <2> QED
    BY <2>1, <2>6 DEF y, b
<1>7. CASE ~x.full /\ Width(x.out) < x.room
  <2> DEFINE piece == Truncated(t, x.room - Width(x.out))
             grown == IF Width(piece) > 0 THEN a \o piece ELSE a
  <2>1. m = Len(a) /\ x.out = a /\ Width(a) < n /\ x.room - Width(x.out) = n - Width(a)
        /\ n - Width(a) \in Nat
    <3>1. m = Len(a)
      BY <1>3, <1>4, <1>7
    <3>2. SubSeq(a, 1, m) = a
      BY <1>1, <3>1 DEF Text
    <3>3. x.out = a /\ x.room = n
      BY <1>3, <1>4, <3>1, <3>2, Zenon
    <3>4. x.room - Width(x.out) = n - Width(a) /\ Width(a) < n
      BY <1>7, <3>3
    <3>5. n - Width(a) \in Nat
      BY <1>2, <3>4
    <3> QED
      BY <3>1, <3>3, <3>4, <3>5
  <2>2. PICK j \in 0 .. Len(t) :
          /\ piece = SubSeq(t, 1, j) /\ Width(SubSeq(t, 1, j)) <= n - Width(a)
          /\ j < Len(t) => Width(SubSeq(t, 1, j + 1)) > n - Width(a)
    BY <1>1, <2>1, PlainCut
  <2>3. y = [out |-> grown, full |-> Width(piece) < Width(t), room |-> n]
    BY <1>4, <1>7, <2>1 DEF AddSegment
  <2> HIDE DEF piece, y
  <2>4. Width(piece) \in Nat /\ Width(piece) <= Width(t) /\ Width(piece) <= n - Width(a)
    BY <1>2, <2>2
  <2>5. j < Len(t) => Width(a) + Width(SubSeq(t, 1, j + 1)) > n
    <3> SUFFICES ASSUME j < Len(t) PROVE Width(a) + Width(SubSeq(t, 1, j + 1)) > n
      OBVIOUS
    <3>1. j + 1 \in 0 .. Len(t)
      BY <1>1
    <3>2. Width(SubSeq(t, 1, j + 1)) \in Nat
      BY <1>2, <3>1
    <3> QED
      BY <1>2, <2>2, <3>2
  \* What is drawn is a beginning, as wide as a and the piece.
  <2>6. PICK k \in 0 .. Len(b) :
          /\ grown = SubSeq(b, 1, k) /\ Width(SubSeq(b, 1, k)) = Width(a) + Width(piece)
          /\ j = Len(t) => k = Len(b)
    <3>1. CASE Width(piece) > 0
      <4>1. Len(a) + j \in 0 .. Len(b) /\ (j = Len(t) => Len(a) + j = Len(b))
        <5> HIDE DEF b, grown
        <5>1. Len(a) \in Nat /\ Len(t) \in Nat /\ Len(b) = Len(a) + Len(t)
          BY <1>1, Zenon
        <5> QED
          BY <5>1
      <4>2. grown = SubSeq(b, 1, Len(a) + j)
        BY <1>1, <2>2, <3>1
      <4>3. Width(SubSeq(b, 1, Len(a) + j)) = Width(a) + Width(piece)
        BY <1>2, <2>2
      <4> HIDE DEF grown, b
      <4> QED
        BY <4>1, <4>2, <4>3
    <3>2. CASE ~(Width(piece) > 0)
      <4>1. Width(piece) = 0 /\ Width(a) + Width(piece) = Width(a)
        BY <1>2, <2>4, <3>2
      <4>2. Len(a) \in 0 .. Len(b) /\ SubSeq(b, 1, Len(a)) = a
        <5>1. Len(a) \in 0 .. Len(a) /\ SubSeq(a, 1, Len(a)) = a
          BY <1>1 DEF Text
        <5> QED
          BY <1>1, <5>1
      <4>3. j = Len(t) => Len(a) = Len(b)
        <5> SUFFICES ASSUME j = Len(t) PROVE Len(a) = Len(b)
          OBVIOUS
        <5>1. piece = t
          BY <1>1, <2>2 DEF Text
        <5>2. t = <<>>
          BY <4>1, <5>1
        <5>3. Len(t) = 0
          BY <5>2
        <5> QED
          BY <1>1, <5>3
      <4>4. grown = a
        BY <3>2
      <4> HIDE DEF grown, b
      <4>5. Width(SubSeq(b, 1, Len(a))) = Width(a) + Width(piece)
        BY <4>1, <4>2, Zenon
      <4> QED
        BY <4>2, <4>3, <4>4, <4>5, Zenon
    <3> QED
      BY <3>1, <3>2
  <2>7. Best(b, k, n)
    BY <1>1, <2>2, <2>5, <2>6, BestOfBoth
  <2>8. y.out = grown /\ y.full = (Width(piece) < Width(t)) /\ y.room = n
        /\ DOMAIN y = {"out", "full", "room"}
    BY <2>3
  <2>9. Width(SubSeq(b, 1, k)) <= n
    BY <1>2, <2>4, <2>6
  <2>10. j < Len(t) => Width(b) > n /\ Width(piece) < Width(t)
    <3> SUFFICES ASSUME j < Len(t) PROVE Width(b) > n /\ Width(piece) < Width(t)
      OBVIOUS
    <3>1. j + 1 \in 0 .. Len(t)
      BY <1>1
    <3>2. Width(SubSeq(t, 1, j + 1)) \in Nat /\ Width(SubSeq(t, 1, j + 1)) <= Width(t)
          /\ Width(a) + Width(SubSeq(t, 1, j + 1)) > n
      BY <1>2, <2>5, <3>1
    <3> QED
      BY <1>2, <2>4, <3>2
  <2>11. j = Len(t) => piece = t
    BY <1>1, <2>2 DEF Text
  <2>12. Width(piece) < Width(t) <=> j < Len(t)
    <3>1. j < Len(t) \/ j = Len(t)
      BY <1>1
    <3>2. piece = t => ~(Width(piece) < Width(t))
      BY <1>2
    <3> QED
      BY <2>10, <2>11, <3>1, <3>2
  <2>13. y.full => Width(b) > n
    BY <2>8, <2>10, <2>12
  <2>14. y.full \/ k = Len(b)
    <3>1. j < Len(t) \/ j = Len(t)
      BY <1>1
    <3> QED
      BY <2>6, <2>8, <2>12, <3>1
  <2> HIDE DEF grown, b
  <2>15. AsMuch(y, b, n)
    BY <2>6, <2>7, <2>8, <2>9, <2>13, <2>14 DEF AsMuch
  <2>16. grown \in PlainText
    <3>1. SubSeq(b, 1, k) \in PlainText
      BY <1>1, <2>6, Beginnings DEF PlainText, TextOf
    <3> QED
      BY <2>6, <3>1
  <2>17. y \in Drawing(n)
    <3>1. (Width(piece) < Width(t)) \in BOOLEAN
      OBVIOUS
    <3> QED
      BY <2>3, <2>16, <3>1 DEF Drawing
  <2> QED
    BY <2>15, <2>17 DEF y, b
<1> QED
  <2>1. Width(x.out) >= x.room \/ Width(x.out) < x.room
    BY <1>4
  <2> QED
    BY <1>6, <1>7, <2>1, Zenon

\* Texts cut together at n columns: a beginning of what they say that leaves no
\* column unused.
LEMMA SegmentsFit ==
    ASSUME NEW segs \in Seq(PlainText), NEW n \in Nat,
           \A k \in DOMAIN segs : segs[k] = <<>> \/ Width(segs[k]) > 0
    PROVE  /\ FlattenSeq(segs) \in PlainText
           /\ \E m \in 0 .. Len(FlattenSeq(segs)) :
                 /\ SegmentsIn(segs, n) = SubSeq(FlattenSeq(segs), 1, m)
                 /\ Width(SubSeq(FlattenSeq(segs), 1, m)) <= n
                 /\ Best(FlattenSeq(segs), m, n)
<1> DEFINE N == Len(segs)
           A(k) == FlattenSeq(SubSeq(segs, 1, k))
           start == [out |-> <<>>, full |-> FALSE, room |-> n]
           Holds == [k \in 0 .. N |-> {st \in Drawing(n) : AsMuch(st, A(k), n)}]
<1>1. /\ N \in Nat /\ DOMAIN segs = 1 .. N
      /\ \A k \in 1 .. N : segs[k] \in PlainText /\ A(k) = A(k - 1) \o segs[k]
      /\ \A k \in 0 .. N : A(k) \in PlainText
      /\ A(0) = <<>> /\ A(N) = FlattenSeq(segs)
  <2>1. /\ segs \in Seq(Seq([of : Names, at : Nat, w : 0 .. 2, more : {0}]))
        /\ PlainText = Seq([of : Names, at : Nat, w : 0 .. 2, more : {0}])
    BY DEF PlainText, TextOf
  <2>2. N \in Nat /\ DOMAIN segs = 1 .. N /\ \A k \in 1 .. N : segs[k] \in PlainText
    BY ElementOfSeq
  <2> QED
    BY <2>1, <2>2, FlattenSteps
<1>2. \A k \in 1 .. N : segs[k] = <<>> \/ Width(segs[k]) > 0
  BY <1>1
<1> HIDE DEF A, N
<1>3. start \in Holds[0]
  <2>1. <<>> \in PlainText /\ <<>> \in Text /\ SubSeq(<<>>, 1, 0) = <<>> /\ Len(<<>>) = 0
        /\ 0 \in 0 .. Len(<<>>)
    BY DEF PlainText, TextOf, Text
  <2>2. Width(SubSeq(<<>>, 1, 0)) = 0
    BY <2>1, WidthSteps
  <2>3. \A i \in 0 .. Len(<<>>) : i = 0
    BY <2>1
  <2>4. Best(<<>>, 0, n)
    BY <2>2, <2>3 DEF Best
  <2>5. start \in Drawing(n)
    BY <2>1 DEF Drawing
  <2>6. start.out = <<>> /\ start.full = FALSE
    OBVIOUS
  <2>7. AsMuch(start, <<>>, n)
    BY <2>1, <2>2, <2>4, <2>6 DEF AsMuch
  <2>8. 0 \in 0 .. N
    BY <1>1
  <2> HIDE DEF start
  <2> QED
    BY <1>1, <2>5, <2>7, <2>8
<1> HIDE DEF start
<1>4. ASSUME NEW k \in 1 .. N, NEW x \in Holds[k - 1]
      PROVE  AddSegment(x, segs[k]) \in Holds[k]
  <2>1. k \in 0 .. N /\ k - 1 \in 0 .. N
    BY <1>1
  <2>2. x \in Drawing(n) /\ AsMuch(x, A(k - 1), n)
    BY <2>1
  <2>3. /\ A(k - 1) \in PlainText /\ segs[k] \in PlainText /\ A(k) = A(k - 1) \o segs[k]
        /\ segs[k] = <<>> \/ Width(segs[k]) > 0
    BY <1>1, <1>2, <2>1
  <2>4. AddSegment(x, segs[k]) \in Drawing(n)
        /\ AsMuch(AddSegment(x, segs[k]), A(k - 1) \o segs[k], n)
    BY <2>2, <2>3, SegmentStep
  <2> QED
    BY <2>1, <2>3, <2>4
<1> HIDE DEF Holds
<1>5. Joining!Folded(start, segs) \in Holds[N]
  BY <1>1, <1>3, <1>4, Joining!FoldInvariant
<1>6. SegmentsIn(segs, n) = Joining!Folded(start, segs).out
  BY DEF Joining!Folded, Joining!FoldLeft, Joining!MapThenFoldSet, Joining!Max,
         SegmentsIn, FoldLeft, MapThenFoldSet, Max, start
<1>7. AsMuch(Joining!Folded(start, segs), A(N), n)
  <2>1. N \in 0 .. N
    BY <1>1
  <2> QED
    BY <1>5, <2>1 DEF Holds
<1>8. N \in 0 .. N
  BY <1>1
<1> QED
  BY <1>1, <1>6, <1>7, <1>8 DEF AsMuch

\* The parts of a fair text are fair.
LEMMA FairParts ==
    ASSUME NEW a \in Text, NEW b \in Text, Fair(a \o b)
    PROVE  Fair(a) /\ Fair(b)
<1>1. /\ Len(a) \in Nat /\ Len(b) \in Nat /\ Len(a \o b) = Len(a) + Len(b)
      /\ DOMAIN a = 1 .. Len(a) /\ DOMAIN b = 1 .. Len(b)
      /\ DOMAIN (a \o b) = 1 .. Len(a) + Len(b)
  BY BeginningsOfConcat, TextChars
<1>2. /\ \A k \in 1 .. Len(a) : (a \o b)[k] = a[k]
      /\ \A k \in 1 .. Len(b) : (a \o b)[Len(a) + k] = b[k]
  BY <1>1 DEF Text
<1>3. \A k \in 1 .. Len(a) + Len(b) : (a \o b)[k].more <= 0
  BY <1>1 DEF Fair
<1>4. \A k \in 1 .. Len(a) : a[k].more <= 0
  <2>1. \A k \in 1 .. Len(a) : k \in 1 .. Len(a) + Len(b)
    BY <1>1
  <2> QED
    BY <1>2, <1>3, <2>1
<1>5. \A k \in 1 .. Len(b) : b[k].more <= 0
  <2>1. \A k \in 1 .. Len(b) : Len(a) + k \in 1 .. Len(a) + Len(b)
    BY <1>1
  <2> QED
    BY <1>2, <1>3, <2>1
<1> QED
  BY <1>1, <1>4, <1>5 DEF Fair

\* Whatever characters the texts have: one more, ...
LEMMA SegmentKeeps ==
    ASSUME NEW n \in Nat, NEW t \in AnyText,
           NEW x \in [out : AnyText, full : BOOLEAN, room : {n}],
           Fair(x.out) => Width(x.out) <= n
    PROVE  /\ AddSegment(x, t) \in [out : AnyText, full : BOOLEAN, room : {n}]
           /\ Fair(AddSegment(x, t).out) => Width(AddSegment(x, t).out) <= n
<1> DEFINE y == AddSegment(x, t)
           piece == Truncated(t, x.room - Width(x.out))
           grown == IF Width(piece) > 0 THEN x.out \o piece ELSE x.out
<1>1. /\ x.out \in AnyText /\ x.out \in Text /\ x.room = n /\ t \in Text
      /\ Width(x.out) \in Int
  BY AllAreTexts, WidthGrows
<1>2. CASE x.full \/ Width(x.out) >= x.room
  <2>1. y = x
    BY <1>2 DEF AddSegment
  <2> QED
    BY <2>1
<1>3. CASE ~(x.full \/ Width(x.out) >= x.room)
  <2>1. y = [out |-> grown, full |-> Width(piece) < Width(t), room |-> n]
    BY <1>1, <1>3 DEF AddSegment
  <2>2. n - Width(x.out) \in Nat /\ x.room - Width(x.out) = n - Width(x.out)
    BY <1>1, <1>3
  <2>3. PICK k \in 0 .. Len(t) :
          piece = SubSeq(t, 1, k) /\ CharWidth(SubSeq(t, 1, k)) <= n - Width(x.out)
    BY <1>1, <2>2, TruncatedFits
  <2>4. piece \in AnyText
    BY <2>3, Beginnings DEF AnyText, TextOf
  <2> HIDE DEF y, piece
  <2>5. /\ piece \in Text /\ Width(piece) \in Int /\ CharWidth(piece) \in Nat
        /\ Fair(piece) => Width(piece) <= CharWidth(piece)
        /\ CharWidth(piece) <= n - Width(x.out)
    BY <2>3, <2>4, AllAreTexts, WidthGrows
  <2>6. x.out \o piece \in AnyText
    BY <1>1, <2>4, ConcatProperties DEF AnyText, TextOf
  <2>7. Width(x.out \o piece) = Width(x.out) + Width(piece)
    BY <1>1, <2>5, WidthOfConcat
  <2>8. Fair(x.out \o piece) => Width(x.out \o piece) <= n
    <3> SUFFICES ASSUME Fair(x.out \o piece) PROVE Width(x.out \o piece) <= n
      OBVIOUS
    <3>1. Fair(piece)
      BY <1>1, <2>5, FairParts
    <3> QED
      BY <1>1, <2>5, <2>7, <3>1
  <2>9. grown \in AnyText /\ (Fair(grown) => Width(grown) <= n)
    BY <1>1, <2>6, <2>8
  <2> HIDE DEF grown
  <2>10. (Width(piece) < Width(t)) \in BOOLEAN
    OBVIOUS
  <2>11. y \in [out : AnyText, full : BOOLEAN, room : {n}] /\ y.out = grown
    BY <2>1, <2>9, <2>10
  <2> QED
    BY <2>9, <2>11 DEF y
<1> QED
  BY <1>2, <1>3

\* ... and all: what is drawn is a text, and if it is fair it fits.
LEMMA SegmentsStay ==
    ASSUME NEW segs \in Seq(AnyText), NEW n \in Nat
    PROVE  /\ SegmentsIn(segs, n) \in AnyText
           /\ Fair(SegmentsIn(segs, n)) => Width(SegmentsIn(segs, n)) <= n
<1> DEFINE N == Len(segs)
           start == [out |-> <<>>, full |-> FALSE, room |-> n]
           S == {x \in [out : AnyText, full : BOOLEAN, room : {n}] :
                   Fair(x.out) => Width(x.out) <= n}
           Holds == [k \in 0 .. N |-> S]
<1>1. N \in Nat /\ DOMAIN segs = 1 .. N /\ \A k \in 1 .. N : segs[k] \in AnyText
  BY ElementOfSeq
<1>2. start \in S
  <2>1. <<>> \in AnyText /\ Width(<<>>) = 0
    <3>1. <<>> \in AnyText /\ <<>> \in Text /\ SubSeq(<<>>, 1, 0) = <<>>
      BY AllAreTexts
    <3> QED
      BY <3>1, WidthSteps
  <2> QED
    BY <2>1
<1>3. ASSUME NEW x \in S, NEW t \in AnyText PROVE AddSegment(x, t) \in S
  BY SegmentKeeps
<1> HIDE DEF N, S, start
<1>4. start \in Holds[0] /\ \A k \in 1 .. N : \A x \in Holds[k - 1] : AddSegment(x, segs[k]) \in Holds[k]
  BY <1>1, <1>2, <1>3
<1> HIDE DEF Holds
<1>5. Joining!Folded(start, segs) \in Holds[N]
  BY <1>1, <1>4, Joining!FoldInvariant
<1>6. SegmentsIn(segs, n) = Joining!Folded(start, segs).out
  BY DEF Joining!Folded, Joining!FoldLeft, Joining!MapThenFoldSet, Joining!Max,
         SegmentsIn, FoldLeft, MapThenFoldSet, Max, start
<1>7. Joining!Folded(start, segs) \in S
  BY <1>1, <1>5 DEF Holds
<1> QED
  BY <1>6, <1>7 DEF S

-----------------------------------------------------------------------------
(* A line of the list.                                                     *)

\* What is cut is a text that fits, and begins as the text does.
LEMMA CutText ==
    ASSUME NEW t \in Text, NEW n \in Nat
    PROVE  /\ Truncated(t, n) \in Text
           /\ Width(Truncated(t, n)) \in Int
           /\ Fair(Truncated(t, n)) => Width(Truncated(t, n)) <= n
           /\ t \in PlainText => Width(Truncated(t, n)) \in 0 .. n
           /\ Len(Truncated(t, n)) \in 0 .. Len(t)
           /\ \A j \in 1 .. Len(Truncated(t, n)) : Truncated(t, n)[j] = t[j]
<1>1. PICK k \in 0 .. Len(t) :
         Truncated(t, n) = SubSeq(t, 1, k) /\ CharWidth(SubSeq(t, 1, k)) <= n
  BY TruncatedFits
<1>2. /\ SubSeq(t, 1, k) \in Text /\ Len(SubSeq(t, 1, k)) = k
      /\ \A j \in 1 .. k : SubSeq(t, 1, k)[j] = t[j]
  BY Beginnings DEF Text
<1>3. /\ Width(SubSeq(t, 1, k)) \in Int /\ CharWidth(SubSeq(t, 1, k)) \in Nat
      /\ Fair(SubSeq(t, 1, k)) => Width(SubSeq(t, 1, k)) <= CharWidth(SubSeq(t, 1, k))
  BY <1>2, WidthGrows
<1>4. t \in PlainText => Width(SubSeq(t, 1, k)) = CharWidth(SubSeq(t, 1, k))
  BY WidthOfPlain
<1>5. /\ Fair(SubSeq(t, 1, k)) => Width(SubSeq(t, 1, k)) <= n
      /\ t \in PlainText => Width(SubSeq(t, 1, k)) \in 0 .. n
  BY <1>1, <1>3, <1>4
<1> QED
  BY <1>1, <1>2, <1>3, <1>5

\* A character that fits is not cut away.
LEMMA FirstStays ==
    ASSUME NEW t \in Text, NEW n \in Nat, Len(t) > 0, t[1].w <= n
    PROVE  Len(Truncated(t, n)) > 0 /\ Truncated(t, n)[1] = t[1]
<1>1. PICK k \in 0 .. Len(t) : /\ Truncated(t, n) = SubSeq(t, 1, k)
                               /\ k < Len(t) => CharWidth(SubSeq(t, 1, k + 1)) > n
  BY TruncatedFits
<1>2. CharWidth(SubSeq(t, 1, 1)) <= n /\ CharWidth(SubSeq(t, 1, 1)) \in Nat
  <2>1. 1 \in 1 .. Len(t) /\ 1 - 1 = 0
    BY TextChars
  <2>2. CharWidth(SubSeq(t, 1, 1)) = CharWidth(SubSeq(t, 1, 1 - 1)) + t[1].w /\ t[1].w \in Nat
    BY <2>1, CharWidthSteps, TextChars
  <2> QED
    BY <2>1, <2>2, CharWidthSteps
<1>3. k # 0
  <2> SUFFICES ASSUME k = 0 PROVE FALSE
    OBVIOUS
  <2>1. k < Len(t) /\ k + 1 = 1
    BY TextChars
  <2> QED
    BY <1>1, <1>2, <2>1
<1>4. Len(SubSeq(t, 1, k)) = k /\ \A j \in 1 .. k : SubSeq(t, 1, k)[j] = t[j]
  BY Beginnings DEF Text
<1> QED
  BY <1>1, <1>3, <1>4

\* An ASCII text is cut at the column.
LEMMA CutAscii ==
    ASSUME NEW t \in Ascii, NEW n \in Nat
    PROVE  /\ Truncated(t, n) \in Ascii
           /\ Len(Truncated(t, n)) = IF Len(t) <= n THEN Len(t) ELSE n
           /\ Truncated(t, n) = SubSeq(t, 1, IF Len(t) <= n THEN Len(t) ELSE n)
<1>1. t \in Text /\ Len(t) \in Nat
  BY WidthOfAscii, TextChars
<1>2. \A j \in 0 .. Len(t) : SubSeq(t, 1, j) \in Ascii /\ Len(SubSeq(t, 1, j)) = j
  BY Beginnings DEF Ascii, TextOf
<1>3. \A j \in 0 .. Len(t) : CharWidth(SubSeq(t, 1, j)) = j
  BY <1>2, WidthOfAscii
<1>4. PICK k \in 0 .. Len(t) : /\ Truncated(t, n) = SubSeq(t, 1, k)
                               /\ CharWidth(SubSeq(t, 1, k)) <= n
                               /\ k < Len(t) => CharWidth(SubSeq(t, 1, k + 1)) > n
  BY <1>1, TruncatedFits
<1>5. k <= n
  BY <1>3, <1>4
<1>6. k < Len(t) => k + 1 > n
  <2>1. k < Len(t) => k + 1 \in 0 .. Len(t)
    BY <1>1
  <2> QED
    BY <1>3, <1>4, <2>1
<1>7. k = IF Len(t) <= n THEN Len(t) ELSE n
  BY <1>1, <1>5, <1>6
<1> QED
  BY <1>2, <1>4, <1>7

\* The columns of a row are as wide as they should be.
LEMMA ColumnsAreFull ==
    ASSUME NEW n \in Nat
    PROVE  /\ \A t \in Ascii : LeftIn(t, n) \in Text /\ Width(LeftIn(t, n)) = n
           /\ \A t \in Ascii : RightIn(t, n) \in Text /\ Width(RightIn(t, n)) = n
           /\ \A t \in PlainText : /\ Padded(Truncated(t, n), n) \in Text
                                   /\ Width(Padded(Truncated(t, n), n)) = n
<1>1. ASSUME NEW t \in Ascii
      PROVE  /\ Truncated(t, n) \in Text /\ Len(Truncated(t, n)) \in 0 .. n
             /\ Width(Truncated(t, n)) = Len(Truncated(t, n))
  BY CutAscii, WidthOfAscii, TextChars
<1>2. ASSUME NEW k \in 0 .. n
      PROVE  Spaces(n - k) \in Text /\ Width(Spaces(n - k)) = n - k
  BY WidthOfSpaces
<1>3. ASSUME NEW t \in Ascii
      PROVE  LeftIn(t, n) \in Text /\ Width(LeftIn(t, n)) = n
  <2> DEFINE c == Truncated(t, n)
             s == Spaces(n - Len(c))
  <2>1. c \in Text /\ s \in Text /\ Width(c) + Width(s) = n
    BY <1>1, <1>2
  <2>2. LeftIn(t, n) = c \o s
    BY DEF LeftIn
  <2> HIDE DEF c, s
  <2> QED
    BY <2>1, <2>2, WidthOfConcat
<1>4. ASSUME NEW t \in Ascii
      PROVE  RightIn(t, n) \in Text /\ Width(RightIn(t, n)) = n
  <2> DEFINE c == Truncated(t, n)
             s == Spaces(n - Len(c))
  <2>1. c \in Text /\ s \in Text /\ Width(s) + Width(c) = n
    BY <1>1, <1>2
  <2>2. RightIn(t, n) = s \o c
    BY DEF RightIn
  <2> HIDE DEF c, s
  <2> QED
    BY <2>1, <2>2, WidthOfConcat
<1>5. ASSUME NEW t \in PlainText
      PROVE  /\ Padded(Truncated(t, n), n) \in Text
             /\ Width(Padded(Truncated(t, n), n)) = n
  <2> DEFINE c == Truncated(t, n)
             s == Spaces(n - Width(c))
  <2>1. c \in Text /\ s \in Text /\ Width(c) + Width(s) = n
    BY <1>2, AllAreTexts, CutText
  <2>2. Padded(c, n) = c \o s
    BY DEF Padded
  <2> HIDE DEF c, s
  <2>3. Padded(c, n) \in Text /\ Width(Padded(c, n)) = n
    BY <2>1, <2>2, WidthOfConcat
  <2> QED
    BY <2>3 DEF c
<1> QED
  BY <1>3, <1>4, <1>5

\* What follows a text to the end of the row.
LEMMA Filled ==
    ASSUME NEW a \in Text, NEW n \in Nat, Fair(a) => Width(a) <= n
    PROVE  /\ a \o Spaces(n - Width(a)) \in Text
           /\ Fills(a \o Spaces(n - Width(a)), n)
           /\ Len(a) > 0 => (a \o Spaces(n - Width(a)))[1] = a[1]
           /\ n > 0 /\ Len(a) = 0 => (a \o Spaces(n - Width(a)))[1].of = "space"
<1> DEFINE s == Spaces(n - Width(a))
           c == a \o s
<1>1. /\ s \in Text /\ Width(a) \in Int /\ n - Width(a) \in Int
      /\ Width(s) = (IF n - Width(a) > 0 THEN n - Width(a) ELSE 0)
      /\ Len(s) = (IF n - Width(a) > 0 THEN n - Width(a) ELSE 0)
  <2> DEFINE d == n - Width(a)
  <2>1. Width(a) \in Int /\ d \in Int
    BY WidthGrows
  <2> HIDE DEF d
  <2>2. /\ Spaces(d) \in Text /\ Width(Spaces(d)) = (IF d > 0 THEN d ELSE 0)
        /\ Len(Spaces(d)) = (IF d > 0 THEN d ELSE 0)
    BY <2>1, WidthOfSpaces
  <2> QED
    BY <2>1, <2>2 DEF d
<1> HIDE DEF s
<1>2. c \in Text /\ Width(c) = Width(a) + Width(s) /\ Len(c) = Len(a) + Len(s) /\ Len(a) \in Nat
  BY <1>1, WidthOfConcat, BeginningsOfConcat
<1>3. Width(c) >= n /\ (Width(a) <= n => Width(c) = n)
  BY <1>1, <1>2
<1>4. Fair(c) => Fair(a)
  BY <1>1, FairParts
<1>5. Fills(c, n)
  BY <1>3, <1>4 DEF Fills
<1>6. Len(a) > 0 => c[1] = a[1]
  BY <1>1 DEF Text
<1>7. Len(a) = 0 => c = s /\ Width(a) = 0
  <2>1. Len(a) = 0 => SubSeq(a, 1, 0) = a
    BY DEF Text
  <2>2. Len(a) = 0 => c = s
    BY <1>1 DEF Text
  <2> QED
    BY <2>1, <2>2, WidthSteps
<1> HIDE DEF c
<1>8. n > 0 /\ Len(a) = 0 => c[1].of = "space"
  <2> SUFFICES ASSUME n > 0, Len(a) = 0 PROVE c[1].of = "space"
    OBVIOUS
  <2>1. c = Spaces(n - 0) /\ n - 0 = n
    BY <1>7 DEF s
  <2>2. Max({n, 0}) = n
    BY MaxOfTwo
  <2>3. Spaces(n)[1].of = "space"
    BY <2>2 DEF Spaces
  <2> QED
    BY <2>1, <2>3
<1> QED
  BY <1>2, <1>5, <1>6, <1>8 DEF c, s

\* The padding of a line, of which more columns may be visible than it has.
LEMMA LineFilled ==
    ASSUME NEW a \in Text, cols \in Nat
    PROVE  ListLine(a, Width(a)) = a \o Spaces(cols - Width(a))
<1>1. Width(a) \in Int
  BY WidthGrows
<1>2. Min({Width(a), cols}) = IF Width(a) <= cols THEN Width(a) ELSE cols
  BY <1>1, MinOfTwo
<1>3. CASE Width(a) <= cols
  BY <1>2, <1>3 DEF ListLine
<1>4. CASE Width(a) > cols
  <2>1. Min({Width(a), cols}) = cols /\ cols - cols = 0 /\ cols - Width(a) \in Int
        /\ 0 \in Int
    BY <1>1, <1>2, <1>4
  <2>2. Max({0, 0}) = 0 /\ Max({cols - Width(a), 0}) = 0
    <3>1. ~(cols - Width(a) >= 0) \/ cols - Width(a) = 0
      BY <1>1, <1>4
    <3> QED
      BY <2>1, <3>1, MaxOfTwo
  <2>3. Spaces(cols - cols) = Spaces(cols - Width(a))
    BY <2>1, <2>2 DEF Spaces
  <2> QED
    BY <2>1, <2>3 DEF ListLine
<1> QED
  BY <1>1, <1>3, <1>4

\* A cut text fills the row.
LEMMA TextLineFits ==
    ASSUME NEW t \in Text, cols \in Nat \ {0}
    PROVE  /\ TextLine(t) \in Text /\ Fills(TextLine(t), cols)
           /\ Len(t) > 0 /\ t[1].w = 1 => TextLine(t)[1] = t[1]
           /\ Len(t) > 0 => TextLine(t)[1].of \in {"space", t[1].of}
           /\ Len(t) = 0 => TextLine(t)[1].of = "space"
<1> DEFINE c == Truncated(t, cols)
<1>1. /\ c \in Text /\ (Fair(c) => Width(c) <= cols) /\ Len(c) \in 0 .. Len(t)
      /\ \A j \in 1 .. Len(c) : c[j] = t[j]
  BY CutText
<1>2. Len(t) > 0 /\ t[1].w = 1 => Len(c) > 0 /\ c[1] = t[1]
  BY FirstStays
<1>3. TextLine(t) = ListLine(c, Width(c))
  BY DEF TextLine
<1> HIDE DEF c
<1>4. TextLine(t) = c \o Spaces(cols - Width(c))
  BY <1>1, <1>3, LineFilled
<1>5. /\ TextLine(t) \in Text /\ Fills(TextLine(t), cols)
      /\ Len(c) > 0 => TextLine(t)[1] = c[1]
      /\ Len(c) = 0 => TextLine(t)[1].of = "space"
  <2> DEFINE l == c \o Spaces(cols - Width(c))
  <2>1. cols \in Nat /\ cols > 0
    OBVIOUS
  <2>2. /\ l \in Text /\ Fills(l, cols) /\ (Len(c) > 0 => l[1] = c[1])
        /\ Len(c) = 0 => l[1].of = "space"
    BY <1>1, <2>1, Filled
  <2> HIDE DEF l
  <2>3. TextLine(t) = l
    BY <1>4 DEF l
  <2> QED
    BY <2>2, <2>3
<1>6. Len(c) > 0 => c[1] = t[1]
  BY <1>1
<1>7. Len(t) > 0 => TextLine(t)[1].of \in {"space", t[1].of}
  BY <1>1, <1>5, <1>6
<1>8. Len(t) = 0 => TextLine(t)[1].of = "space"
  BY <1>1, <1>5
<1> QED
  BY <1>2, <1>5, <1>7, <1>8

\* The columns of a row before the directory are as many as counted.
LEMMA RowStart ==
    ASSUME NEW row \in [id : Ascii, name : Ascii, state : PlainText, size : Ascii, cwd : AnyText],
           NEW ch \in [of : {"selector", "space"}, at : {0}, w : {1}, more : {0}]
    PROVE  LET start == <<ch>> \o Spaces(3) \o LeftIn(row.id, 4) \o Spaces(1)
                        \o LeftIn(row.name, 24) \o Spaces(1)
                        \o Padded(Truncated(row.state, 14), 14) \o Spaces(1)
                        \o RightIn(row.size, 8) \o Spaces(2)
           IN  start \in Text /\ Width(start) = RowPrefixWidth /\ start[1] = ch /\ Len(start) > 0
<1>1. <<ch>> \in Text /\ Width(<<ch>>) = 1 /\ Len(<<ch>>) = 1 /\ <<ch>>[1] = ch
  <2>1. ch \in Char /\ ch.w = 1 /\ ch.more = 0
    BY LayoutAssumption DEF Char
  <2> DEFINE s == <<ch>>
  <2>2. s \in Text /\ Len(s) = 1 /\ s[1] = ch
    BY <2>1 DEF Text
  <2> HIDE DEF s
  <2>3. 1 \in 1 .. Len(s)
    BY <2>2
  <2>4. Width(SubSeq(s, 1, 1)) = Width(SubSeq(s, 1, 1 - 1)) + s[1].w + s[1].more
    BY <2>2, <2>3, WidthSteps
  <2>5. Width(SubSeq(s, 1, 1)) = Width(s) /\ Width(SubSeq(s, 1, 0)) = 0
    BY <2>2, WidthSteps
  <2>6. s \in Text /\ Width(s) = 1 /\ Len(s) = 1 /\ s[1] = ch
    BY <2>1, <2>2, <2>4, <2>5
  <2> QED
    BY <2>6 DEF s
<1>2. \A n \in 1 .. 3 : Spaces(n) \in Text /\ Width(Spaces(n)) = n
  BY WidthOfSpaces
<1>3. /\ LeftIn(row.id, 4) \in Text /\ Width(LeftIn(row.id, 4)) = 4
      /\ LeftIn(row.name, 24) \in Text /\ Width(LeftIn(row.name, 24)) = 24
      /\ RightIn(row.size, 8) \in Text /\ Width(RightIn(row.size, 8)) = 8
  BY ColumnsAreFull
<1>4. /\ Padded(Truncated(row.state, 14), 14) \in Text
      /\ Width(Padded(Truncated(row.state, 14), 14)) = 14
  BY AllAreTexts, ColumnsAreFull
<1>5. ASSUME NEW a \in Text, NEW b \in Text, Len(a) > 0, a[1] = ch
      PROVE  a \o b \in Text /\ Width(a \o b) = Width(a) + Width(b) /\ Len(a \o b) > 0
             /\ (a \o b)[1] = ch
  <2>1. Len(a) \in Nat /\ Len(b) \in Nat /\ Len(a \o b) = Len(a) + Len(b)
    BY BeginningsOfConcat
  <2>2. (a \o b)[1] = a[1]
    BY <1>5, <2>1 DEF Text
  <2> QED
    BY <1>5, <2>1, <2>2, WidthOfConcat
<1> DEFINE s1 == <<ch>> \o Spaces(3)
           s2 == s1 \o LeftIn(row.id, 4)
           s3 == s2 \o Spaces(1)
           s4 == s3 \o LeftIn(row.name, 24)
           s5 == s4 \o Spaces(1)
           s6 == s5 \o Padded(Truncated(row.state, 14), 14)
           s7 == s6 \o Spaces(1)
           s8 == s7 \o RightIn(row.size, 8)
           s9 == s8 \o Spaces(2)
           Is(s, n) == s \in Text /\ Width(s) = n /\ Len(s) > 0 /\ s[1] = ch
<1>6. Is(<<ch>>, 1)
  BY <1>1
<1>7. ASSUME NEW a, NEW b, NEW m \in Nat, NEW n \in Nat,
             Is(a, m), b \in Text, Width(b) = n
      PROVE  Is(a \o b, m + n)
  BY <1>5, <1>7
<1> HIDE DEF Is
<1>8. Is(s1, 4)
  BY <1>2, <1>6, <1>7
<1> HIDE DEF s1
<1>9. Is(s2, 8)
  BY <1>3, <1>8, <1>7
<1> HIDE DEF s2
<1>10. Is(s3, 9)
  BY <1>2, <1>9, <1>7
<1> HIDE DEF s3
<1>11. Is(s4, 33)
  BY <1>3, <1>10, <1>7
<1> HIDE DEF s4
<1>12. Is(s5, 34)
  BY <1>2, <1>11, <1>7
<1> HIDE DEF s5
<1>13. Is(s6, 48)
  BY <1>4, <1>12, <1>7
<1> HIDE DEF s6
<1>14. Is(s7, 49)
  BY <1>2, <1>13, <1>7
<1> HIDE DEF s7
<1>15. Is(s8, 57)
  BY <1>3, <1>14, <1>7
<1> HIDE DEF s8
<1>16. Is(s9, 59)
  BY <1>2, <1>15, <1>7
<1> QED
  BY <1>16 DEF s1, s2, s3, s4, s5, s6, s7, s8, Is, RowPrefixWidth

\* A row of the list fills its line, and its first character is the selector or not.
LEMMA RowLineFits ==
    ASSUME NEW row \in [id : Ascii, name : Ascii, state : PlainText, size : Ascii, cwd : AnyText],
           NEW isSelected \in BOOLEAN,
           cols \in Nat \ {0}
    PROVE  /\ RowLine(row, isSelected) \in Text
           /\ Fills(RowLine(row, isSelected), cols)
           /\ RowLine(row, isSelected)[1].of = IF isSelected THEN "selector" ELSE "space"
<1> DEFINE ch == [of |-> IF isSelected THEN "selector" ELSE "space", at |-> 0,
                  w |-> 1, more |-> 0]
           start == <<ch>> \o Spaces(3) \o LeftIn(row.id, 4) \o Spaces(1)
                        \o LeftIn(row.name, 24) \o Spaces(1)
                        \o Padded(Truncated(row.state, 14), 14) \o Spaces(1)
                        \o RightIn(row.size, 8) \o Spaces(2)
           cwd == Truncated(row.cwd, cols - RowPrefixWidth)
           line == RowLine(row, isSelected)
<1>1. ch \in [of : {"selector", "space"}, at : {0}, w : {1}, more : {0}]
  OBVIOUS
<1>2. ch.of = (IF isSelected THEN "selector" ELSE "space") /\ ch.w = 1
  OBVIOUS
<1>3. line = IF cols <= RowPrefixWidth THEN TextLine(start \o row.cwd)
             ELSE ListLine(start \o cwd, RowPrefixWidth + Width(cwd))
  BY DEF RowLine
<1> HIDE DEF ch, line
<1>4. start \in Text /\ Width(start) = RowPrefixWidth /\ start[1] = ch /\ Len(start) > 0
  BY <1>1, RowStart
<1> HIDE DEF start
<1>5. row.cwd \in Text
  BY AllAreTexts
<1>6. ASSUME NEW b \in Text
      PROVE  /\ start \o b \in Text /\ Width(start \o b) = RowPrefixWidth + Width(b)
             /\ Len(start \o b) > 0 /\ (start \o b)[1] = ch
  <2>1. Len(start) \in Nat /\ Len(b) \in Nat /\ Len(start \o b) = Len(start) + Len(b)
    BY <1>4, BeginningsOfConcat
  <2>2. (start \o b)[1] = start[1]
    BY <1>4, <2>1 DEF Text
  <2> QED
    BY <1>4, <2>1, <2>2, WidthOfConcat
<1>7. CASE cols <= RowPrefixWidth
  <2>1. TextLine(start \o row.cwd) \in Text /\ Fills(TextLine(start \o row.cwd), cols)
        /\ TextLine(start \o row.cwd)[1] = (start \o row.cwd)[1]
    BY <1>2, <1>5, <1>6, TextLineFits
  <2> QED
    BY <1>2, <1>3, <1>5, <1>6, <1>7, <2>1 DEF line
<1>8. CASE cols > RowPrefixWidth
  <2> DEFINE c == start \o cwd
  <2>1. /\ cwd \in Text /\ Width(cwd) \in Int
        /\ Fair(cwd) => Width(cwd) <= cols - RowPrefixWidth
    BY <1>5, <1>8, CutText DEF RowPrefixWidth
  <2> HIDE DEF cwd
  <2>2. c \in Text /\ Width(c) = RowPrefixWidth + Width(cwd) /\ Len(c) > 0 /\ c[1] = ch
    BY <1>6, <2>1
  <2>3. Fair(c) => Fair(cwd)
    BY <1>4, <2>1, FairParts
  <2>4. line = ListLine(c, Width(c))
    BY <1>3, <1>8, <2>2 DEF RowPrefixWidth
  <2> HIDE DEF c
  <2>5. line = c \o Spaces(cols - Width(c))
    BY <2>2, <2>4, LineFilled
  <2>6. Fair(c) => Width(c) <= cols
    BY <2>1, <2>2, <2>3 DEF RowPrefixWidth
  <2>7. line \in Text /\ Fills(line, cols) /\ line[1] = c[1]
    BY <2>2, <2>5, <2>6, Filled
  <2> QED
    BY <1>2, <2>2, <2>7 DEF line
<1> QED
  BY <1>7, <1>8 DEF RowPrefixWidth

\* The status line fills its row.
LEMMA StatusRowFits ==
    ASSUME status \in Seq(AnyText), cols \in Nat
    PROVE  Fills(StatusRow, cols)
<1> DEFINE t == SegmentsIn(status, cols)
<1>1. t \in Text /\ (Fair(t) => Width(t) <= cols)
  BY AllAreTexts, SegmentsStay
<1>2. StatusRow = t \o Spaces(cols - Width(t))
  BY DEF StatusRow
<1> HIDE DEF t
<1> QED
  BY <1>1, <1>2, Filled

-----------------------------------------------------------------------------
(* The list.                                                               *)

\* What a step keeps: the sizes, what a poll and a listing bring, and a selection
\* that is in the list.
Sizes == /\ mode \in {"bar", "list"}
         /\ cols \in Nat \ {0} /\ height \in Nat \ {0}
Shown == /\ bar \in Bars \cup {<<>>}
         /\ rows \in Lists \cup {<<>>}
         /\ status \in Statuses \cup {<<>>}
Selection == selected \in 0 .. Max({Len(rows) - 1, 0})
IInv == Sizes /\ Shown /\ Selection

Rows == Seq([id : Ascii, name : Ascii, state : PlainText, size : Ascii, cwd : AnyText])

LEMMA RowsAreRows ==
    ASSUME NEW list \in Lists \cup {<<>>}
    PROVE  list \in Rows /\ Len(list) \in Nat /\ DOMAIN list = 1 .. Len(list)
           /\ (list = <<>> <=> Len(list) = 0)
<1>1. list \in Rows
  <2>1. <<>> \in Rows
    BY DEF Rows
  <2>2. Lists \subseteq Rows
    BY LayoutAssumption DEF Rows
  <2> QED
    BY <2>1, <2>2
<1> QED
  BY <1>1, EmptySeq DEF Rows

LEMMA InitIInv == Init => IInv
<1> SUFFICES ASSUME Init PROVE IInv
  OBVIOUS
<1>1. Sizes /\ Shown
  BY LayoutAssumption DEF Init, Sizes, Shown
<1>2. Max({Len(rows) - 1, 0}) = 0
  <2>1. Len(rows) - 1 = -1
    BY DEF Init
  <2> QED
    BY <2>1, MaxOfTwo
<1> QED
  BY <1>1, <1>2 DEF Init, IInv, Selection

LEMMA NextIInv == IInv /\ [Next]_vars => IInv'
<1> SUFFICES ASSUME IInv, [Next]_vars PROVE IInv'
  OBVIOUS
<1>1. Sizes /\ Shown /\ Selection
  BY DEF IInv
<1>2. Len(rows) \in Nat
  BY <1>1, RowsAreRows DEF Shown
<1>3. CASE Resize
  BY <1>1, <1>3, LayoutAssumption DEF Resize, IInv, Sizes, Shown, Selection
<1>4. CASE Poll
  BY <1>1, <1>4 DEF Poll, IInv, Sizes, Shown, Selection
<1>5. CASE Listing
  <2>1. Sizes' /\ Shown'
    BY <1>1, <1>5 DEF Listing, Sizes, Shown
  <2>2. Len(rows') \in Nat /\ DOMAIN rows' = 1 .. Len(rows')
    BY <1>5, RowsAreRows DEF Listing
  <2>3. Max({Len(rows') - 1, 0}) = IF Len(rows') - 1 >= 0 THEN Len(rows') - 1 ELSE 0
    BY <2>2, MaxOfTwo
  <2>4. selected \in Nat
    <3>1. Max({Len(rows) - 1, 0}) = IF Len(rows) - 1 >= 0 THEN Len(rows) - 1 ELSE 0
      BY <1>2, MaxOfTwo
    <3> QED
      BY <1>1, <1>2, <3>1 DEF Selection
  <2>5. CASE selected' = Max({Min({selected, Len(rows') - 1}), 0})
    <3> DEFINE m == Min({selected, Len(rows') - 1})
    <3>1. m = IF selected <= Len(rows') - 1 THEN selected ELSE Len(rows') - 1
      BY <2>2, <2>4, MinOfTwo
    <3>2. m \in Int /\ m <= Len(rows') - 1
      BY <2>2, <2>4, <3>1
    <3> HIDE DEF m
    <3>3. Max({m, 0}) = IF m >= 0 THEN m ELSE 0
      BY <3>2, MaxOfTwo
    <3>4. Max({m, 0}) \in 0 .. Max({Len(rows') - 1, 0})
      BY <2>2, <2>3, <3>2, <3>3
    <3> QED
      BY <1>1, <2>1, <2>5, <3>4 DEF IInv, Selection, m
  <2>6. CASE \E k \in DOMAIN rows' : selected' = k - 1
    BY <2>1, <2>2, <2>3, <2>6 DEF IInv, Selection
  <2> QED
    BY <1>5, <2>5, <2>6 DEF Listing
<1>6. CASE Move
  <2>1. Sizes' /\ Shown' /\ rows' = rows
    BY <1>1, <1>6 DEF Move, Sizes, Shown
  <2>2. Max({Len(rows) - 1, 0}) = IF Len(rows) - 1 >= 0 THEN Len(rows) - 1 ELSE 0
    BY <1>2, MaxOfTwo
  <2>3. selected \in Nat /\ selected \in 0 .. Max({Len(rows) - 1, 0})
    BY <1>1, <1>2, <2>2 DEF Selection
  <2>4. CASE selected > 0 /\ selected' = selected - 1
    BY <2>1, <2>2, <2>3, <2>4 DEF IInv, Selection
  <2>5. CASE selected' = Max({Min({selected + 1, Len(rows) - 1}), 0})
    <3> DEFINE m == Min({selected + 1, Len(rows) - 1})
    <3>1. m = IF selected + 1 <= Len(rows) - 1 THEN selected + 1 ELSE Len(rows) - 1
      BY <1>2, <2>3, MinOfTwo
    <3>2. m \in Int
      BY <1>2, <2>3, <3>1
    <3> HIDE DEF m
    <3>3. Max({m, 0}) = IF m >= 0 THEN m ELSE 0
      BY <3>2, MaxOfTwo
    <3>4. Max({m, 0}) \in 0 .. Max({Len(rows) - 1, 0})
      BY <1>2, <2>2, <2>3, <3>1, <3>3
    <3> QED
      BY <2>1, <2>5, <3>4 DEF IInv, Selection, m
  <2> QED
    BY <1>6, <2>4, <2>5 DEF Move
<1>7. CASE UNCHANGED vars
  BY <1>1, <1>7 DEF vars, IInv, Sizes, Shown, Selection
<1> QED
  BY <1>3, <1>4, <1>5, <1>6, <1>7 DEF Next

\* The decorations and the window of rows share the lines above the status line.
LEMMA HeaderFits ==
    ASSUME NEW budget \in Nat, NEW body \in Nat
    PROVE  LET k == HeaderLen(budget, body)
           IN  k \in 0 .. 3 /\ (k = 0 \/ k + body <= budget)
<1> DEFINE S == {k \in 0 .. 3 : k = 0 \/ k + body <= budget}
<1>1. \E x \in S : \A y \in S : x >= y
  <2>1. CASE 3 \in S
    BY <2>1
  <2>2. CASE 3 \notin S /\ 2 \in S
    BY <2>2
  <2>3. CASE 3 \notin S /\ 2 \notin S /\ 1 \in S
    BY <2>3
  <2>4. CASE 3 \notin S /\ 2 \notin S /\ 1 \notin S
    BY <2>4
  <2> QED
    BY <2>1, <2>2, <2>3, <2>4
<1> HIDE DEF S
<1>2. Max(S) \in S
  BY <1>1 DEF Max
<1> QED
  BY <1>2 DEF S, HeaderLen

LEMMA WindowFits ==
    ASSUME NEW budget \in Nat, NEW len \in Nat \ {0}, NEW sel \in 0 .. len - 1
    PROVE  LET w == Viewport(budget, len, sel)
           IN  /\ w.len = IF budget <= len THEN budget ELSE len
               /\ w.start \in 0 .. len - w.len
               /\ budget > 0 => sel \in w.start .. w.start + w.len - 1
<1> DEFINE v == Min({budget, len})
           at == Min({sel, len - 1})
           back == Max({at - (v - 1), 0})
           from == Min({back, len - v})
<1>1. v = (IF budget <= len THEN budget ELSE len) /\ v \in 0 .. len
  BY MinOfTwo
<1>2. at = sel
  BY MinOfTwo
<1> HIDE DEF v, at
<1>3. back = IF sel - (v - 1) >= 0 THEN sel - (v - 1) ELSE 0
  BY <1>1, <1>2, MaxOfTwo
<1> HIDE DEF back
<1>4. from = IF back <= len - v THEN back ELSE len - v
  BY <1>1, <1>3, MinOfTwo
<1> HIDE DEF from
<1>5. Viewport(budget, len, sel) = IF v = 0 THEN [start |-> 0, len |-> 0]
                                   ELSE [start |-> from, len |-> v]
  BY DEF Viewport, v, at, back, from
<1>6. CASE v = 0
  BY <1>1, <1>5, <1>6
<1>7. CASE v # 0
  <2>1. from \in 0 .. len - v /\ sel \in from .. from + v - 1
    BY <1>1, <1>3, <1>4, <1>7
  <2> QED
    BY <1>1, <1>5, <1>7, <2>1
<1> QED
  BY <1>6, <1>7

LEMMA ListShares ==
    ASSUME NEW budget \in Nat, NEW body \in Nat, body > 0, NEW sel \in 0 .. body - 1
    PROVE  LET k == HeaderLen(budget, body)
               w == Viewport(Max({budget - k, 0}), body, sel)
           IN  /\ k \in 0 .. 3 /\ w.len \in Nat /\ w.start \in Nat
               /\ k + w.len <= budget /\ w.start + w.len <= body
               /\ k > 0 => w.len = body
               /\ budget > 0 => w.len > 0 /\ sel - w.start \in 0 .. w.len - 1
<1> DEFINE k == HeaderLen(budget, body)
           rest == Max({budget - k, 0})
           w == Viewport(rest, body, sel)
<1>1. k \in 0 .. 3 /\ (k = 0 \/ k + body <= budget)
  BY HeaderFits
<1> HIDE DEF k
<1>2. k \in Nat /\ budget - k \in Nat
  BY <1>1
<1>3. rest = budget - k
  BY <1>2, MaxOfTwo
<1> HIDE DEF rest
<1>4. rest \in Nat /\ k + rest = budget /\ (k > 0 => rest >= body)
  BY <1>1, <1>2, <1>3
<1>5. /\ w.len = IF rest <= body THEN rest ELSE body
      /\ w.start \in 0 .. body - w.len
      /\ rest > 0 => sel \in w.start .. w.start + w.len - 1
  BY <1>4, WindowFits
<1> HIDE DEF w
<1>6. w.len \in Nat /\ w.len <= rest /\ w.len <= body /\ (k > 0 => w.len = body)
      /\ (rest > 0 => w.len > 0)
  BY <1>4, <1>5
<1>7. w.start \in Nat /\ w.start + w.len <= body
  BY <1>5, <1>6
<1>8. k + w.len <= budget
  BY <1>2, <1>4, <1>6
<1>9. budget > 0 => rest > 0
  BY <1>2, <1>4
<1>10. budget > 0 => w.len > 0 /\ sel - w.start \in 0 .. w.len - 1
  BY <1>5, <1>6, <1>7, <1>9
<1> QED
  BY <1>1, <1>6, <1>7, <1>8, <1>10 DEF k, rest, w

\* The lines of the list: the decorations there is room for, and the rows of the
\* window, or that there are none.
LEMMA LinesFit ==
    ASSUME IInv
    PROVE  /\ Head3 \in 0 .. 3 /\ (Head3 > 0 => Window.len = Body)
           /\ Len(ListLines) = Head3 + Window.len /\ Window.len \in Nat
           /\ Head3 + Window.len <= height - 1
           /\ \A i \in DOMAIN ListLines : Fills(ListLines[i], cols)
           /\ \A i \in 1 .. Head3 : ListLines[i][1].of # "selector"
           /\ rows # <<>> =>
                /\ height > 1 => Window.len > 0 /\ selected - Window.start \in 0 .. Window.len - 1
                /\ Window.start \in Nat
                /\ \A i \in 1 .. Window.len :
                     ListLines[Head3 + i][1].of
                       = IF Window.start + i - 1 = selected THEN "selector" ELSE "space"
<1> DEFINE head == <<TextLine(Title), TextLine(SegmentsIn(Hints, cols)), TextLine(<<>>)>>
           top == SubSeq(head, 1, Head3)
           low == IF rows = <<>>
                  THEN [i \in 1 .. Window.len |-> TextLine(Spaces(2) \o NoSessions)]
                  ELSE [i \in 1 .. Window.len |->
                          RowLine(rows[Window.start + i], Window.start + i - 1 = selected)]
           Line(l) == Fills(l, cols) /\ l \in Text
<1>1. cols \in Nat \ {0} /\ height \in Nat \ {0}
  BY DEF IInv, Sizes
<1>2. /\ rows \in Rows /\ Len(rows) \in Nat /\ DOMAIN rows = 1 .. Len(rows)
      /\ (rows = <<>> <=> Len(rows) = 0)
  BY RowsAreRows DEF IInv, Shown
<1>3. Body \in Nat /\ Body > 0 /\ (Len(rows) > 0 => Body = Len(rows))
      /\ Max({Len(rows) - 1, 0}) = Body - 1
  <2> DEFINE n == Len(rows)
  <2>1. n \in Nat /\ n - 1 \in Int
    BY <1>2
  <2> HIDE DEF n
  <2>2. Max({n, 1}) = IF n >= 1 THEN n ELSE 1
    BY <2>1, MaxOfTwo
  <2>3. Max({n - 1, 0}) = IF n - 1 >= 0 THEN n - 1 ELSE 0
    BY <2>1, MaxOfTwo
  <2>4. Max({n, 1}) \in Nat /\ Max({n, 1}) > 0 /\ (n > 0 => Max({n, 1}) = n)
        /\ Max({n - 1, 0}) = Max({n, 1}) - 1
    BY <2>1, <2>2, <2>3
  <2> QED
    BY <2>4 DEF Body, n
<1>4. selected \in 0 .. Body - 1
  BY <1>3 DEF IInv, Selection
<1>5. /\ Head3 \in 0 .. 3 /\ Window.len \in Nat /\ Window.start \in Nat
      /\ Head3 + Window.len <= Budget /\ Window.start + Window.len <= Body
      /\ Head3 > 0 => Window.len = Body
      /\ Budget > 0 => Window.len > 0 /\ selected - Window.start \in 0 .. Window.len - 1
  <2>1. Budget \in Nat
    BY <1>1 DEF Budget
  <2> QED
    BY <1>3, <1>4, <2>1, ListShares DEF Head3, Window
<1>6. height > 1 => Budget > 0
  BY <1>1 DEF Budget
<1>7. Head3 \in Nat /\ Head3 + Window.len <= height - 1
  BY <1>5 DEF Budget
<1>8. \A i \in 1 .. Head3 + Window.len : \/ i \in 1 .. Head3
                                         \/ i > Head3 /\ i - Head3 \in 1 .. Window.len
  BY <1>5, <1>7
<1>9. ListLines = top \o low
  BY DEF ListLines
<1>10. ASSUME NEW t \in Text, \A k \in 1 .. Len(t) : t[k].of \in Names
       PROVE  Line(TextLine(t)) /\ TextLine(t)[1].of # "selector"
  <2>1. Len(t) \in Nat
    BY TextChars
  <2>2. Len(t) > 0 => t[1].of \in Names
    BY <1>10, <2>1
  <2>3. /\ TextLine(t) \in Text /\ Fills(TextLine(t), cols)
        /\ Len(t) > 0 => TextLine(t)[1].of \in {"space", t[1].of}
        /\ Len(t) = 0 => TextLine(t)[1].of = "space"
    BY <1>1, TextLineFits
  <2> QED
    BY <2>1, <2>2, <2>3, LayoutAssumption
<1>11. ASSUME NEW t \in AnyText PROVE t \in Text /\ \A k \in 1 .. Len(t) : t[k].of \in Names
  <2>1. \A k \in 1 .. Len(t) : t[k] \in [of : Names, at : Nat, w : 0 .. 2, more : -2 .. 1]
    BY ElementOfSeq DEF AnyText, TextOf
  <2> QED
    BY <2>1, AllAreTexts
<1>12. /\ Line(TextLine(Title)) /\ TextLine(Title)[1].of # "selector"
       /\ Line(TextLine(<<>>)) /\ TextLine(<<>>)[1].of # "selector"
  <2>1. Title \in AnyText /\ <<>> \in AnyText
    BY LayoutAssumption, AllAreTexts
  <2> HIDE DEF Line
  <2> QED
    BY <1>10, <1>11, <2>1
<1>13. Line(TextLine(SegmentsIn(Hints, cols))) /\ TextLine(SegmentsIn(Hints, cols))[1].of # "selector"
  <2>1. Hints \in Seq(AnyText) /\ cols \in Nat
    BY <1>1, LayoutAssumption
  <2>2. SegmentsIn(Hints, cols) \in AnyText
    BY <2>1, SegmentsStay
  <2> HIDE DEF Line
  <2> QED
    BY <1>10, <1>11, <2>2
<1>14. /\ Len(head) = 3
       /\ \A k \in 1 .. 3 : Line(head[k]) /\ head[k][1].of # "selector"
  BY <1>12, <1>13
<1>15. head \in Seq(Text)
  BY <1>12, <1>13
<1> HIDE DEF head
<1>16. /\ top \in Seq(Text) /\ Len(top) = Head3
       /\ \A k \in 1 .. Head3 : top[k] = head[k] /\ k \in 1 .. 3
  <2>1. Head3 \in 0 .. Len(head)
    BY <1>5, <1>14
  <2> QED
    BY <1>5, <1>14, <1>15, <2>1, Beginnings
<1> HIDE DEF top
<1>17. CASE rows = <<>>
  <2>1. Spaces(2) \o NoSessions \in AnyText
    <3>1. Spaces(2) \in AnyText /\ NoSessions \in AnyText
      BY WidthOfSpaces, AllAreTexts, LayoutAssumption
    <3> QED
      BY <3>1, ConcatProperties DEF AnyText, TextOf
  <2>2. Line(TextLine(Spaces(2) \o NoSessions))
    BY <1>10, <1>11, <2>1
  <2>3. low = [i \in 1 .. Window.len |-> TextLine(Spaces(2) \o NoSessions)]
    BY <1>17
  <2> HIDE DEF low
  <2>4. low \in Seq(Text) /\ Len(low) = Window.len /\ \A i \in 1 .. Window.len : Line(low[i])
    <3>1. \A i \in 1 .. Window.len : Line(low[i])
      BY <2>2, <2>3
    <3>2. low \in [1 .. Window.len -> Text]
      BY <2>3, <3>1
    <3> QED
      BY <1>5, <3>1, <3>2
  <2>5. /\ Len(top \o low) = Head3 + Window.len
        /\ \A i \in 1 .. Head3 : (top \o low)[i] = top[i]
        /\ \A i \in 1 .. Head3 + Window.len :
             i > Head3 => (top \o low)[i] = low[i - Head3] /\ i - Head3 \in 1 .. Window.len
        /\ DOMAIN (top \o low) = 1 .. Head3 + Window.len
    BY <1>5, <1>7, <1>16, <2>4
  <2>6. \A i \in DOMAIN ListLines : Fills(ListLines[i], cols)
    <3> SUFFICES ASSUME NEW i \in 1 .. Head3 + Window.len PROVE Fills((top \o low)[i], cols)
      BY <1>9, <2>5
    <3>1. CASE i \in 1 .. Head3
      BY <1>14, <1>16, <3>1, <2>5
    <3>2. CASE i > Head3
      BY <2>4, <2>5, <3>2
    <3> QED
      BY <1>8, <3>1, <3>2, Zenon
  <2>7. \A i \in 1 .. Head3 : ListLines[i][1].of # "selector"
    BY <1>9, <1>14, <1>16, <2>5
  <2> QED
    BY <1>5, <1>7, <1>9, <1>17, <2>5, <2>6, <2>7
<1>18. CASE rows # <<>>
  <2>1. ASSUME NEW i \in 1 .. Window.len
        PROVE  LET l == RowLine(rows[Window.start + i], Window.start + i - 1 = selected)
               IN  /\ Line(l)
                   /\ l[1].of = IF Window.start + i - 1 = selected THEN "selector" ELSE "space"
    <3>1. Window.start + i \in 1 .. Len(rows)
      <4>1. Len(rows) = Body
        <5>1. Len(rows) > 0
          BY <1>2, <1>18
        <5> QED
          BY <1>3, <5>1
      <4> QED
        BY <1>2, <1>5, <4>1
    <3>2. rows[Window.start + i]
            \in [id : Ascii, name : Ascii, state : PlainText, size : Ascii, cwd : AnyText]
      BY <1>2, <3>1, ElementOfSeq DEF Rows
    <3>3. (Window.start + i - 1 = selected) \in BOOLEAN
      OBVIOUS
    <3> QED
      BY <1>1, <3>2, <3>3, RowLineFits
  <2>2. low = [i \in 1 .. Window.len |->
                 RowLine(rows[Window.start + i], Window.start + i - 1 = selected)]
    BY <1>18
  <2> HIDE DEF low
  <2>3. /\ low \in Seq(Text) /\ Len(low) = Window.len
        /\ \A i \in 1 .. Window.len :
             /\ Line(low[i])
             /\ low[i][1].of = IF Window.start + i - 1 = selected THEN "selector" ELSE "space"
    <3>1. \A i \in 1 .. Window.len : Line(low[i])
      BY <2>1, <2>2
    <3>2. \A i \in 1 .. Window.len :
            low[i][1].of = IF Window.start + i - 1 = selected THEN "selector" ELSE "space"
      BY <2>1, <2>2
    <3>3. low \in [1 .. Window.len -> Text]
      BY <2>2, <3>1
    <3> QED
      BY <1>5, <3>1, <3>2, <3>3
  <2> HIDE DEF low
  <2>4. /\ Len(top \o low) = Head3 + Window.len
        /\ \A i \in 1 .. Head3 : (top \o low)[i] = top[i]
        /\ \A i \in 1 .. Window.len : (top \o low)[Head3 + i] = low[i]
        /\ \A i \in 1 .. Head3 + Window.len :
             i > Head3 => (top \o low)[i] = low[i - Head3] /\ i - Head3 \in 1 .. Window.len
        /\ DOMAIN (top \o low) = 1 .. Head3 + Window.len
    <3>1. top \in Seq(Text) /\ low \in Seq(Text) /\ Len(top) = Head3 /\ Len(low) = Window.len
          /\ Head3 \in Nat /\ Window.len \in Nat
      BY <1>5, <1>7, <1>16, <2>3
    <3>2. \A i \in 1 .. Window.len : Head3 + i > Head3 /\ Head3 + i \in 1 .. Head3 + Window.len
                                       /\ (Head3 + i) - Head3 = i
      BY <3>1
    <3>3. /\ Len(top \o low) = Head3 + Window.len
          /\ \A i \in 1 .. Head3 : (top \o low)[i] = top[i]
          /\ \A i \in 1 .. Head3 + Window.len :
               i > Head3 => (top \o low)[i] = low[i - Head3] /\ i - Head3 \in 1 .. Window.len
          /\ DOMAIN (top \o low) = 1 .. Head3 + Window.len
      BY <3>1
    <3> QED
      BY <3>2, <3>3
  <2>5. \A i \in DOMAIN ListLines : Fills(ListLines[i], cols)
    <3> SUFFICES ASSUME NEW i \in 1 .. Head3 + Window.len PROVE Fills((top \o low)[i], cols)
      BY <1>9, <2>4
    <3>1. CASE i \in 1 .. Head3
      BY <1>14, <1>16, <3>1, <2>4
    <3>2. CASE i > Head3
      BY <2>3, <2>4, <3>2
    <3> QED
      BY <1>8, <3>1, <3>2, Zenon
  <2>6. \A i \in 1 .. Head3 : ListLines[i][1].of # "selector"
    BY <1>9, <1>14, <1>16, <2>4
  <2>7. \A i \in 1 .. Window.len :
          ListLines[Head3 + i][1].of
            = IF Window.start + i - 1 = selected THEN "selector" ELSE "space"
    BY <1>9, <2>3, <2>4
  <2>8. height > 1 => Window.len > 0 /\ selected - Window.start \in 0 .. Window.len - 1
    BY <1>5, <1>6
  <2> QED
    BY <1>5, <1>7, <1>9, <2>4, <2>5, <2>6, <2>7, <2>8
<1> QED
  BY <1>17, <1>18

\* The list fits its rows, with the selected session marked, and the status line
\* says as much as it has room for.
LEMMA IInvListFits == IInv => ListFits
<1> SUFFICES ASSUME IInv, mode = "list" PROVE ListFits
  BY DEF ListFits
<1> DEFINE lines == ListLines
           marked == {i \in DOMAIN lines : lines[i][1].of = "selector"}
           said == FlattenSeq(status)
           shown == SegmentsIn(status, cols)
<1>1. /\ Head3 \in 0 .. 3 /\ (Head3 > 0 => Window.len = Body)
      /\ Len(lines) = Head3 + Window.len /\ Window.len \in Nat
      /\ Len(lines) <= height - 1
      /\ \A i \in DOMAIN lines : Fills(lines[i], cols)
  BY LinesFit
<1>2. ASSUME rows # <<>>, height > 1
      PROVE  \E i \in 1 .. Window.len :
                marked = {Head3 + i} /\ Window.start + i - 1 = selected
  <2>1. /\ selected - Window.start \in 0 .. Window.len - 1 /\ Window.start \in Nat
        /\ \A i \in 1 .. Window.len :
             lines[Head3 + i][1].of
               = IF Window.start + i - 1 = selected THEN "selector" ELSE "space"
        /\ \A i \in 1 .. Head3 : lines[i][1].of # "selector"
    BY <1>2, LinesFit
  <2>2. DOMAIN lines = 1 .. Head3 + Window.len
    BY <1>1 DEF ListLines
  <2> HIDE DEF lines
  <2> DEFINE i == selected - Window.start + 1
  <2>7. selected \in Int
    <3>1. Len(rows) \in Nat
      BY RowsAreRows DEF IInv, Shown
    <3>2. Len(rows) - 1 \in Int
      BY <3>1
    <3>3. Max({Len(rows) - 1, 0}) \in Nat
      BY <3>2, MaxOfTwo
    <3> QED
      BY <3>3 DEF IInv, Selection
  <2>3. i \in 1 .. Window.len /\ Window.start + i - 1 = selected
    <3>1. selected - Window.start + 1 \in 1 .. Window.len
      BY <1>1, <2>1
    <3>2. Window.start + (selected - Window.start + 1) - 1 = selected
      BY <2>1, <2>7
    <3> QED
      BY <3>1, <3>2
  <2> HIDE DEF i
  <2>4. ASSUME NEW j \in DOMAIN lines
        PROVE  lines[j][1].of = "selector" <=> j = Head3 + i
    <3>1. CASE j <= Head3
      <4>1. j \in 1 .. Head3 /\ j # Head3 + i
        BY <1>1, <2>2, <2>3, <3>1
      <4> QED
        BY <2>1, <4>1
    <3>2. CASE j > Head3
      <4>1. j - Head3 \in 1 .. Window.len /\ Head3 + (j - Head3) = j
        BY <1>1, <2>2, <3>2
      <4>2. lines[j][1].of = IF Window.start + (j - Head3) - 1 = selected THEN "selector" ELSE "space"
        BY <2>1, <4>1
      <4>3. Window.start + (j - Head3) - 1 = selected <=> j = Head3 + i
        <5>1. i \in Int /\ j \in Int /\ Head3 \in Int /\ Window.start \in Int
          BY <1>1, <2>1, <2>2, <2>3
        <5> QED
          BY <2>3, <5>1
      <4> QED
        BY <4>2, <4>3
    <3> QED
      BY <1>1, <2>2, <3>1, <3>2
  <2>5. Head3 + i \in DOMAIN lines
    BY <1>1, <2>2, <2>3
  <2>6. marked = {Head3 + i}
    BY <2>4, <2>5
  <2> QED
    BY <2>3, <2>6
<1>3. /\ status \in Seq(AnyText) /\ cols \in Nat
      /\ \A k \in DOMAIN status : status[k] = <<>> \/ Width(status[k]) > 0
  <2>1. <<>> \in Seq(AnyText) /\ DOMAIN <<>> = {}
    OBVIOUS
  <2>2. status \in Statuses \/ status = <<>>
    BY DEF IInv, Shown
  <2>3. cols \in Nat
    BY DEF IInv, Sizes
  <2> QED
    BY <2>1, <2>2, <2>3, LayoutAssumption
<1>4. Fills(StatusRow, cols)
  BY <1>3, StatusRowFits
<1>5. ASSUME status \in Seq(PlainText)
      PROVE  /\ IsPrefix(shown, said)
             /\ \A k \in 0 .. Len(said) :
                  Width(SubSeq(said, 1, k)) <= cols => Width(SubSeq(said, 1, k)) <= Width(shown)
  <2>1. said \in PlainText
    BY <1>3, <1>5, SegmentsFit
  <2>2. PICK m \in 0 .. Len(said) : shown = SubSeq(said, 1, m) /\ Best(said, m, cols)
    BY <1>3, <1>5, SegmentsFit
  <2> HIDE DEF said, shown
  <2>3. IsPrefix(shown, said)
    <3>1. said \in Text
      BY <2>1, WidthOfPlain
    <3>2. Len(SubSeq(said, 1, m)) = m /\ m <= Len(said) /\ Len(said) \in Nat
      BY <3>1, Beginnings, TextChars DEF Text
    <3>3. SubSeq(said, 1, Len(shown)) = shown
      BY <2>2, <3>2
    <3> QED
      BY <2>2, <3>2, <3>3 DEF IsPrefix
  <2> QED
    BY <2>2, <2>3 DEF Best
<1> HIDE DEF lines, said, shown
<1> QED
  BY <1>1, <1>2, <1>4, <1>5 DEF ListFits, lines, said, shown

\* At every size of the terminal, with every listing and whatever characters its
\* texts have, the selected row is drawn, and the lines and the status line fill
\* their rows, exactly if no text is wider than its characters (main.rs,
\* render_session_list_with_status()).
THEOREM ListAlwaysFits == Spec => []ListFits
<1> QED
  BY InitIInv, NextIInv, IInvListFits, PTL DEF Spec

-----------------------------------------------------------------------------
(* The status bar.                                                         *)

\* The parts of two texts one after the other.
LEMMA PartsOfConcat ==
    ASSUME NEW a \in Ascii, NEW b \in Ascii, NEW from \in Nat, NEW to \in Nat,
           to <= Len(a) + Len(b)
    PROVE  /\ to <= Len(a) => SubSeq(a \o b, from + 1, to) = SubSeq(a, from + 1, to)
           /\ from >= Len(a) =>
                SubSeq(a \o b, from + 1, to) = SubSeq(b, from - Len(a) + 1, to - Len(a))
           /\ from <= Len(a) /\ Len(a) <= to =>
                SubSeq(a \o b, from + 1, to)
                  = SubSeq(a, from + 1, Len(a)) \o SubSeq(b, 1, to - Len(a))
<1> DEFINE C == [of : Names, at : Nat, w : {1}, more : {0}]
<1>5. a \in Seq(C) /\ b \in Seq(C)
  BY DEF Ascii, TextOf
<1> HIDE DEF C
<1>1. Len(a) \in Nat /\ Len(b) \in Nat /\ a \o b \in Seq(C) /\ Len(a \o b) = Len(a) + Len(b)
  BY <1>5, ConcatProperties
<1>2. to <= Len(a) => SubSeq(a \o b, from + 1, to) = SubSeq(a, from + 1, to)
  BY <1>1, <1>5
<1>3. from >= Len(a) =>
        SubSeq(a \o b, from + 1, to) = SubSeq(b, from - Len(a) + 1, to - Len(a))
  BY <1>1, <1>5
<1>4. ASSUME from <= Len(a), Len(a) <= to
      PROVE  SubSeq(a \o b, from + 1, to) = SubSeq(a, from + 1, Len(a)) \o SubSeq(b, 1, to - Len(a))
  <2> DEFINE l == SubSeq(a \o b, from + 1, to)
             r1 == SubSeq(a, from + 1, Len(a))
             r2 == SubSeq(b, 1, to - Len(a))
  <2>1. /\ l \in Seq(C) /\ Len(l) = to - from
        /\ \A i \in 1 .. to - from : l[i] = (a \o b)[from + i]
    BY <1>1, <1>4
  <2>2. /\ r1 \in Seq(C) /\ Len(r1) = Len(a) - from
        /\ \A i \in 1 .. Len(a) - from : r1[i] = a[from + i]
    BY <1>1, <1>4, <1>5
  <2>3. /\ r2 \in Seq(C) /\ Len(r2) = to - Len(a)
        /\ \A i \in 1 .. to - Len(a) : r2[i] = b[i]
    BY <1>1, <1>4, <1>5
  <2> HIDE DEF l, r1, r2
  <2>4. r1 \o r2 \in Seq(C) /\ Len(r1 \o r2) = to - from
    <3>1. r1 \o r2 \in Seq(C) /\ Len(r1 \o r2) = Len(r1) + Len(r2)
      BY <2>2, <2>3, ConcatProperties
    <3> QED
      BY <1>1, <2>2, <2>3, <3>1
  <2>5. ASSUME NEW i \in 1 .. to - from PROVE l[i] = (r1 \o r2)[i]
    <3>1. CASE from + i <= Len(a)
      <4>1. (a \o b)[from + i] = a[from + i]
        BY <1>1, <1>5, <3>1
      <4>2. (r1 \o r2)[i] = r1[i] /\ i \in 1 .. Len(a) - from
        BY <1>1, <2>2, <2>3, <3>1
      <4> QED
        BY <2>1, <2>2, <4>1, <4>2
    <3>2. CASE from + i > Len(a)
      <4> DEFINE j == i - (Len(a) - from)
      <4>1. j \in 1 .. to - Len(a) /\ from + i = Len(a) + j /\ i = Len(r1) + j
        BY <1>1, <1>4, <2>2, <3>2
      <4>2. (a \o b)[from + i] = b[j]
        BY <1>1, <1>5, <4>1
      <4>3. (r1 \o r2)[i] = r2[j]
        BY <1>1, <1>4, <2>2, <2>3, <4>1
      <4> QED
        BY <2>1, <2>3, <4>1, <4>2, <4>3
    <3>3. from + i <= Len(a) \/ from + i > Len(a)
      BY <1>1
    <3> QED
      BY <3>1, <3>2, <3>3
  <2>6. l = r1 \o r2
    BY <2>1, <2>4, <2>5, SeqEqual
  <2> QED
    BY <2>6 DEF l, r1, r2
<1> QED
  BY <1>2, <1>3, <1>4

\* The ends of an interval.
LEMMA IntervalEnds ==
    ASSUME NEW a \in Int, NEW b \in Int, a <= b
    PROVE  Min(a .. b) = a /\ Max(a .. b) = b
<1>1. \E x \in a .. b : \A y \in a .. b : x <= y
  OBVIOUS
<1>2. Min(a .. b) \in a .. b /\ \A y \in a .. b : Min(a .. b) <= y
  BY <1>1 DEF Min
<1>3. \E x \in a .. b : \A y \in a .. b : x >= y
  OBVIOUS
<1>4. Max(a .. b) \in a .. b /\ \A y \in a .. b : Max(a .. b) >= y
  BY <1>3 DEF Max
<1>5. a \in a .. b /\ b \in a .. b
  OBVIOUS
<1>6. Min(a .. b) <= a /\ Max(a .. b) >= b
  BY <1>2, <1>4, <1>5
<1>7. Min(a .. b) \in Int /\ Max(a .. b) \in Int /\ Min(a .. b) >= a /\ Max(a .. b) <= b
  BY <1>2, <1>4
<1> QED
  BY <1>6, <1>7

\* Parts of ASCII texts are such texts.
LEMMA AsciiParts ==
    ASSUME NEW t \in Ascii
    PROVE  /\ Len(t) \in Nat
           /\ \A from \in Nat : \A to \in 0 .. Len(t) :
                /\ SubSeq(t, from + 1, to) \in Ascii
                /\ Len(SubSeq(t, from + 1, to)) = IF to > from THEN to - from ELSE 0
           /\ \A u \in Ascii : t \o u \in Ascii /\ Len(t \o u) = Len(t) + Len(u)
<1> DEFINE C == [of : Names, at : Nat, w : {1}, more : {0}]
<1>1. Ascii = Seq(C)
  BY DEF Ascii, TextOf
<1> HIDE DEF C
<1>2. \A u \in Seq(C) : t \o u \in Seq(C) /\ Len(t \o u) = Len(t) + Len(u)
  BY <1>1, ConcatProperties
<1>3. \A from \in Nat : \A to \in 0 .. Len(t) :
        /\ SubSeq(t, from + 1, to) \in Seq(C)
        /\ Len(SubSeq(t, from + 1, to)) = IF to > from THEN to - from ELSE 0
  BY <1>1
<1> QED
  BY <1>1, <1>2, <1>3

\* The columns of an ASCII text are its characters.
LEMMA SliceOfAscii ==
    ASSUME NEW t \in Ascii, NEW skip \in Nat, NEW take \in Nat, skip + take <= Len(t)
    PROVE  SliceColumns(t, skip, take) = SubSeq(t, skip + 1, skip + take)
<1> DEFINE whole == {i \in 1 .. Len(t) : Col(t, i) >= skip /\ Col(t, i) + t[i].w - skip <= take}
<1>1. Len(t) \in Nat
  BY AsciiParts
<1>2. ASSUME NEW i \in 1 .. Len(t) PROVE Col(t, i) = i - 1 /\ t[i].w = 1
  <2>1. i - 1 \in 0 .. Len(t)
    BY <1>1
  <2>2. SubSeq(t, 1, i - 1) \in Ascii /\ Len(SubSeq(t, 1, i - 1)) = i - 1
    BY <2>1, Beginnings DEF Ascii, TextOf
  <2>3. CharWidth(SubSeq(t, 1, i - 1)) = i - 1
    BY <2>1, <2>2, WidthOfAscii
  <2>4. t[i] \in [of : Names, at : Nat, w : {1}, more : {0}]
    BY ElementOfSeq DEF Ascii, TextOf
  <2> QED
    BY <2>3, <2>4 DEF Col
<1>3. whole = skip + 1 .. skip + take
  BY <1>1, <1>2
<1>4. SliceColumns(t, skip, take) = IF whole = {} THEN <<>> ELSE SubSeq(t, Min(whole), Max(whole))
  BY DEF SliceColumns
<1> HIDE DEF whole
<1>5. CASE take = 0
  <2>1. whole = {}
    BY <1>3, <1>5
  <2>2. SubSeq(t, skip + 1, skip + take) = <<>>
    BY <1>5 DEF Ascii, TextOf
  <2> QED
    BY <1>4, <2>1, <2>2
<1>6. CASE take > 0
  <2>1. whole # {} /\ skip + 1 <= skip + take
    BY <1>3, <1>6
  <2>2. Min(whole) = skip + 1 /\ Max(whole) = skip + take
    BY <1>3, <2>1, IntervalEnds
  <2> QED
    BY <1>4, <2>1, <2>2
<1> QED
  BY <1>5, <1>6

\* What a region shows of what is said.
Seen(said, offset, region) ==
    SubSeq(said, offset + 1, IF Len(said) <= offset + region THEN Len(said) ELSE offset + region)

LEMMA SeenFits ==
    ASSUME NEW said \in Ascii, NEW offset \in Nat, NEW region \in Nat
    PROVE  /\ Seen(said, offset, region) \in Ascii
           /\ Len(Seen(said, offset, region)) =
                IF Len(said) <= offset THEN 0
                ELSE IF Len(said) <= offset + region THEN Len(said) - offset ELSE region
<1>1. Len(said) \in Nat
  BY AsciiParts
<1> DEFINE to == IF Len(said) <= offset + region THEN Len(said) ELSE offset + region
<1>2. to \in 0 .. Len(said)
  BY <1>1
<1>3. Seen(said, offset, region) = SubSeq(said, offset + 1, to)
  BY DEF Seen
<1>4. /\ Seen(said, offset, region) \in Ascii
      /\ Len(Seen(said, offset, region)) = IF to > offset THEN to - offset ELSE 0
  BY <1>2, <1>3, AsciiParts
<1> QED
  BY <1>1, <1>4

\* How many columns of a segment after said are scrolled away, how many the region
\* has left, and how many of the segment's are drawn.
Skip(said, offset) == IF offset >= Len(said) THEN offset - Len(said) ELSE 0
Left(said, offset, region) == region - Len(Seen(said, offset, region))
Take(said, t, offset, region) ==
    IF Left(said, offset, region) <= Len(t) - Skip(said, offset)
    THEN Left(said, offset, region) ELSE Len(t) - Skip(said, offset)

Follows(said, t, offset, region) ==
    /\ Skip(said, offset) \in Nat /\ Take(said, t, offset, region) \in Nat
    /\ Skip(said, offset) + Take(said, t, offset, region) <= Len(t)
    /\ Seen(said \o t, offset, region)
         = Seen(said, offset, region)
             \o SubSeq(t, Skip(said, offset) + 1,
                          Skip(said, offset) + Take(said, t, offset, region))

\* A segment more: what the region shows of it follows.
LEMMA SeenOfConcat ==
    ASSUME NEW said \in Ascii, NEW t \in Ascii, NEW offset \in Nat, NEW region \in Nat
    PROVE  /\ Left(said, offset, region) \in 0 .. region
           /\ Left(said, offset, region) = 0 =>
                Seen(said \o t, offset, region) = Seen(said, offset, region)
           /\ Len(said) + Len(t) <= offset =>
                Seen(said \o t, offset, region) = Seen(said, offset, region)
           /\ Left(said, offset, region) > 0 /\ Len(said) + Len(t) > offset =>
                Follows(said, t, offset, region)
<1> DEFINE C == [of : Names, at : Nat, w : {1}, more : {0}]
           p == Len(said)
           L == Len(t)
           skip == IF offset >= p THEN offset - p ELSE 0
           left == region - Len(Seen(said, offset, region))
           take == IF left <= L - skip THEN left ELSE L - skip
           to == IF p + L <= offset + region THEN p + L ELSE offset + region
           s == said \o t
<1>1. said \in Seq(C) /\ t \in Seq(C)
  BY DEF Ascii, TextOf
<1> HIDE DEF C
<1>2. p \in Nat /\ L \in Nat /\ s \in Ascii /\ Len(s) = p + L
  BY AsciiParts
<1>3. left = region - (IF p <= offset THEN 0 ELSE IF p <= offset + region THEN p - offset ELSE region)
  BY <1>2, SeenFits
<1>4. Seen(s, offset, region) = SubSeq(s, offset + 1, to)
  BY <1>2 DEF Seen
<1> HIDE DEF p, L, s, left
<1>5. to \in Nat /\ to <= p + L
  BY <1>2
<1> HIDE DEF to
<1>6. /\ to <= p => SubSeq(s, offset + 1, to) = SubSeq(said, offset + 1, to)
      /\ offset >= p => SubSeq(s, offset + 1, to) = SubSeq(t, offset - p + 1, to - p)
      /\ offset <= p /\ p <= to =>
           SubSeq(s, offset + 1, to) = SubSeq(said, offset + 1, p) \o SubSeq(t, 1, to - p)
  BY <1>5, PartsOfConcat DEF p, L, s
<1>7. Seen(said, offset, region) = SubSeq(said, offset + 1, IF p <= offset + region THEN p ELSE offset + region)
  BY DEF Seen, p
<1>8. left \in 0 .. region
  BY <1>2, <1>3
<1>9. \A x \in Seq(C) : \A i \in Nat : \A j \in Nat : j <= i => SubSeq(x, i + 1, j) = <<>>
  OBVIOUS
<1>10. ASSUME left = 0 PROVE Seen(s, offset, region) = Seen(said, offset, region)
  <2>1. CASE p <= offset
    <3>1. region = 0 /\ to <= offset
      BY <1>2, <1>3, <1>10, <2>1 DEF to
    <3>2. SubSeq(s, offset + 1, to) = <<>>
      BY <1>2, <1>5, <3>1, <1>9 DEF Ascii, TextOf, C
    <3>3. Seen(said, offset, region) = <<>>
      BY <1>1, <1>2, <1>7, <1>9, <2>1
    <3> QED
      BY <1>4, <3>2, <3>3
  <2>2. CASE p > offset
    <3>1. p >= offset + region /\ to = offset + region /\ to <= p
      BY <1>2, <1>3, <1>10, <2>2 DEF to
    <3>2. (IF p <= offset + region THEN p ELSE offset + region) = to
      BY <1>2, <3>1
    <3> QED
      BY <1>4, <1>6, <1>7, <3>1, <3>2
  <2>3. p <= offset \/ p > offset
    BY <1>2
  <2> QED
    BY <2>1, <2>2, <2>3
<1>11. p + L <= offset => Seen(s, offset, region) = Seen(said, offset, region)
  <2> SUFFICES ASSUME p + L <= offset PROVE Seen(s, offset, region) = Seen(said, offset, region)
    OBVIOUS
  <2>1. to <= offset /\ p <= offset
    BY <1>2 DEF to
  <2>2. SubSeq(s, offset + 1, to) = <<>>
    BY <1>2, <1>5, <2>1, <1>9 DEF Ascii, TextOf, C
  <2>3. Seen(said, offset, region) = <<>>
    BY <1>1, <1>2, <1>7, <1>9, <2>1
  <2> QED
    BY <1>4, <2>2, <2>3
<1>12. ASSUME left > 0, p + L > offset
       PROVE  /\ skip \in Nat /\ take \in Nat /\ skip + take <= L
              /\ Seen(s, offset, region) = Seen(said, offset, region) \o SubSeq(t, skip + 1, skip + take)
  <2>1. CASE offset >= p
    <3>1. skip = offset - p /\ left = region
      BY <1>2, <1>3, <2>1
    <3>2. take = to - offset /\ to > offset
      BY <1>2, <1>12, <2>1, <3>1 DEF to
    <3>3. skip \in Nat /\ take \in Nat /\ skip + take = to - p /\ skip + take <= L
      BY <1>2, <1>5, <2>1, <3>1, <3>2
    <3>4. Seen(said, offset, region) = <<>>
      BY <1>1, <1>2, <1>7, <1>9, <2>1
    <3>5. Seen(s, offset, region) = SubSeq(t, skip + 1, skip + take)
      BY <1>4, <1>6, <2>1, <3>1, <3>3
    <3>6. SubSeq(t, skip + 1, skip + take) \in Seq(C)
      BY <1>1, <3>3 DEF L
    <3> HIDE DEF skip, take
    <3>7. <<>> \o SubSeq(t, skip + 1, skip + take) = SubSeq(t, skip + 1, skip + take)
      BY <3>6
    <3> QED
      BY <3>3, <3>4, <3>5, <3>7
  <2>2. CASE offset < p
    <3>1. skip = 0 /\ p < offset + region /\ left = offset + region - p
      BY <1>2, <1>3, <1>12, <2>2
    <3>2. take = to - p /\ to >= p
      BY <1>2, <3>1 DEF to
    <3>3. skip \in Nat /\ take \in Nat /\ skip + take = to - p /\ skip + take <= L
      BY <1>2, <1>5, <3>1, <3>2
    <3>4. Seen(said, offset, region) = SubSeq(said, offset + 1, p)
      BY <1>2, <1>7, <3>1
    <3>5. Seen(s, offset, region) = SubSeq(said, offset + 1, p) \o SubSeq(t, 1, to - p)
      <4>1. offset <= p /\ p <= to
        BY <1>2, <1>5, <2>2, <3>2
      <4> QED
        BY <1>4, <1>6, <4>1
    <3>6. skip + 1 = 1
      BY <3>1
    <3> HIDE DEF skip, take
    <3> QED
      BY <3>3, <3>4, <3>5, <3>6
  <2>3. offset >= p \/ offset < p
    BY <1>2
  <2> QED
    BY <2>1, <2>2, <2>3
<1>13. /\ Skip(said, offset) = skip /\ Left(said, offset, region) = left
       /\ Take(said, t, offset, region) = take
  BY DEF Skip, Left, Take, left, p, L
<1> HIDE DEF skip, take
<1> QED
  BY <1>8, <1>10, <1>11, <1>12, <1>13 DEF p, L, s, Follows

\* Texts are put together in any order.
LEMMA AsciiTogether ==
    \A a, b, c \in Ascii : (a \o b) \o c = a \o (b \o c)
<1> DEFINE C == [of : Names, at : Nat, w : {1}, more : {0}]
<1>1. Ascii = Seq(C)
  BY DEF Ascii, TextOf
<1> HIDE DEF C
<1> QED
  BY <1>1, ConcatAssociative

\* The bar when said is drawn, as far as the region has room for it.
Emitted(head, said, offset, region) ==
    {st \in [row : {head \o Seen(said, offset, region)}, pos : Nat,
             offset : {offset}, cols : {Len(head) + region}] :
       Len(Seen(said, offset, region)) < region => st.pos = Len(said)}

\* A segment more is drawn as far as the row has room.
LEMMA EmitStep ==
    ASSUME NEW head \in Ascii, NEW said \in Ascii, NEW t \in Ascii,
           NEW offset \in Nat, NEW region \in Nat,
           NEW st \in Emitted(head, said, offset, region)
    PROVE  EmitSegment(st, t) \in Emitted(head, said \o t, offset, region)
<1> DEFINE w == Seen(said, offset, region)
           v == Seen(said \o t, offset, region)
           p == Len(said)
           L == Len(t)
           left == Left(said, offset, region)
           skip == Max({st.offset - st.pos, 0})
           take == Min({left, Width(t) - skip})
           piece == Truncated(SliceColumns(t, skip, take), left)
           y == EmitSegment(st, t)
<1>1. /\ st.row = head \o w /\ st.pos \in Nat /\ st.offset = offset /\ st.cols = Len(head) + region
      /\ Len(w) < region => st.pos = p
  BY DEF Emitted
<1>2. /\ w \in Ascii /\ p \in Nat /\ L \in Nat /\ Len(head) \in Nat /\ Len(w) \in Nat
      /\ Width(t) = L /\ Len(said \o t) = p + L
  BY SeenFits, AsciiParts, WidthOfAscii
<1>3. /\ left \in 0 .. region
      /\ left = 0 => v = w
      /\ p + L <= offset => v = w
      /\ left = region - Len(w)
  BY SeenOfConcat DEF Left
<1> HIDE DEF y, left
<1>4. CASE left = 0
  <2> HIDE DEF w, v
  <2>1. Width(head \o w) = Len(head) + Len(w)
    <3>1. head \o w \in Ascii /\ Len(head \o w) = Len(head) + Len(w)
      BY <1>2, AsciiParts
    <3> QED
      BY <3>1, WidthOfAscii
  <2>2. st.cols - Width(st.row) = left
    BY <1>1, <1>2, <1>3, <2>1
  <2>3. y = st
    <3>1. y = IF left <= 0 THEN st
              ELSE [row |-> IF st.pos + Width(t) <= st.offset THEN st.row ELSE st.row \o piece,
                    pos |-> st.pos + Width(t), offset |-> st.offset, cols |-> st.cols]
      BY <2>2 DEF EmitSegment, y
    <3> HIDE DEF piece
    <3> QED
      BY <1>4, <3>1
  <2>4. ~(Len(v) < region)
    BY <1>2, <1>3, <1>4
  <2>5. st \in [row : {head \o v}, pos : Nat, offset : {offset}, cols : {Len(head) + region}]
    BY <1>3, <1>4 DEF Emitted, w
  <2> QED
    BY <2>3, <2>4, <2>5 DEF Emitted, y, v
<1>5. CASE left > 0
  <2>1. st.pos = p
    <3> HIDE DEF w
    <3> QED
      BY <1>1, <1>2, <1>3, <1>5
  <2>2. p + L > offset => Follows(said, t, offset, region)
    BY <1>5, SeenOfConcat DEF left
  <2> HIDE DEF w, v
  <2>3. Width(head \o w) = Len(head) + Len(w)
    <3>1. head \o w \in Ascii /\ Len(head \o w) = Len(head) + Len(w)
      BY <1>2, AsciiParts
    <3> QED
      BY <3>1, WidthOfAscii
  <2>4. st.cols - Width(st.row) = left
    BY <1>1, <1>2, <1>3, <2>3
  <2>5. y = [row |-> IF p + L <= offset THEN head \o w ELSE (head \o w) \o piece,
             pos |-> p + L, offset |-> offset, cols |-> Len(head) + region]
    <3>1. y = IF left <= 0 THEN st
              ELSE [row |-> IF st.pos + Width(t) <= st.offset THEN st.row ELSE st.row \o piece,
                    pos |-> st.pos + Width(t), offset |-> st.offset, cols |-> st.cols]
      BY <2>4 DEF EmitSegment, y
    <3> HIDE DEF piece
    <3>2. ~(left <= 0)
      BY <1>3, <1>5
    <3> QED
      BY <1>1, <1>2, <2>1, <3>1, <3>2
  <2>6. ASSUME p + L > offset PROVE (head \o w) \o piece = head \o v
    <3> DEFINE skip2 == Skip(said, offset)
               take2 == Take(said, t, offset, region)
               part == SubSeq(t, skip2 + 1, skip2 + take2)
    <3>1. skip = skip2
      BY <1>1, <1>2, <2>1, MaxOfTwo DEF Skip
    <3>2. skip2 \in Nat /\ take2 \in Nat /\ skip2 + take2 <= L /\ v = w \o part
      BY <2>2, <2>6 DEF Follows, w, v
    <3>3. take2 = IF left <= L - skip2 THEN left ELSE L - skip2
      BY DEF Take, left
    <3> HIDE DEF skip2, take2, skip
    <3>4. take = take2
      <4>1. L - skip2 \in Int /\ left \in Int
        BY <1>2, <1>3, <3>2
      <4>2. take = Min({left, L - skip2})
        BY <1>2, <3>1
      <4> HIDE DEF take, L
      <4> QED
        BY <3>3, <4>1, <4>2, MinOfTwo
    <3>5. take2 <= left
      BY <1>2, <1>3, <3>2, <3>3
    <3> HIDE DEF take
    <3>6. SliceColumns(t, skip, take) = part
      BY <3>1, <3>2, <3>4, SliceOfAscii
    <3>7. part \in Ascii /\ Len(part) = take2
      <4>1. skip2 + take2 \in 0 .. Len(t)
        BY <1>2, <3>2
      <4> QED
        BY <3>2, <4>1, AsciiParts
    <3> HIDE DEF part
    <3>8. Truncated(part, left) = part
      <4>1. left \in Nat /\ Len(part) <= left
        BY <1>3, <3>5, <3>7
      <4>2. Truncated(part, left) = SubSeq(part, 1, Len(part))
        BY <3>7, <4>1, CutAscii
      <4> QED
        BY <3>7, <4>2 DEF Ascii, TextOf
    <3>9. piece = part
      BY <3>6, <3>8
    <3> QED
      BY <1>2, <3>2, <3>7, <3>9, AsciiTogether
  <2>7. y.row = head \o v
    <3>1. y.row = IF p + L <= offset THEN head \o w ELSE (head \o w) \o piece
      <4> HIDE DEF piece
      <4> QED
        BY <2>5
    <3>2. p + L <= offset \/ p + L > offset
      BY <1>2
    <3> HIDE DEF piece
    <3> QED
      BY <1>3, <2>6, <3>1, <3>2
  <2>8. y.pos = p + L /\ y = [row |-> y.row, pos |-> p + L, offset |-> offset,
                              cols |-> Len(head) + region]
    <3> HIDE DEF piece
    <3> QED
      BY <2>5
  <2>9. y = [row |-> head \o v, pos |-> p + L, offset |-> offset, cols |-> Len(head) + region]
    BY <2>7, <2>8
  <2>10. p + L \in Nat
    BY <1>2
  <2> HIDE DEF p, L
  <2>11. /\ y \in [row : {head \o v}, pos : Nat, offset : {offset}, cols : {Len(head) + region}]
         /\ y.pos = Len(said \o t)
    BY <1>2, <2>9, <2>10
  <2> QED
    BY <2>11 DEF Emitted, y, v
<1>6. left = 0 \/ left > 0
  BY <1>3
<1> QED
  BY <1>4, <1>5, <1>6

\* All of the segments.
LEMMA EmittedRow ==
    ASSUME NEW head \in Ascii, NEW segs \in Seq(Ascii), NEW offset \in Nat, NEW region \in Nat
    PROVE  LET base == [row |-> head, pos |-> 0, offset |-> offset, cols |-> Len(head) + region]
           IN  FoldLeft(EmitSegment, base, segs).row
                 = head \o Seen(FlattenSeq(segs), offset, region)
<1> DEFINE N == Len(segs)
           A(k) == FlattenSeq(SubSeq(segs, 1, k))
           base == [row |-> head, pos |-> 0, offset |-> offset, cols |-> Len(head) + region]
           Holds == [k \in 0 .. N |-> Emitted(head, A(k), offset, region)]
<1>1. /\ N \in Nat /\ DOMAIN segs = 1 .. N
      /\ \A k \in 1 .. N : segs[k] \in Ascii /\ A(k) = A(k - 1) \o segs[k]
      /\ \A k \in 0 .. N : A(k) \in Ascii
      /\ A(0) = <<>> /\ A(N) = FlattenSeq(segs)
  <2>1. segs \in Seq(Seq([of : Names, at : Nat, w : {1}, more : {0}]))
        /\ Ascii = Seq([of : Names, at : Nat, w : {1}, more : {0}])
    BY DEF Ascii, TextOf
  <2>2. N \in Nat /\ DOMAIN segs = 1 .. N /\ \A k \in 1 .. N : segs[k] \in Ascii
    BY ElementOfSeq
  <2> QED
    BY <2>1, <2>2, FlattenSteps
<1> HIDE DEF A, N
<1>2. base \in Holds[0]
  <2>1. 0 \in 0 .. N /\ <<>> \in Ascii /\ Len(<<>>) = 0
    BY <1>1 DEF Ascii, TextOf
  <2>2. Seen(<<>>, offset, region) = <<>>
    BY <2>1 DEF Seen
  <2>3. head = head \o Seen(<<>>, offset, region)
    BY <2>2 DEF Ascii, TextOf
  <2>4. base \in Emitted(head, <<>>, offset, region)
    BY <2>1, <2>3 DEF Emitted
  <2> HIDE DEF base
  <2> QED
    BY <1>1, <2>1, <2>4
<1>3. ASSUME NEW k \in 1 .. N, NEW x \in Holds[k - 1]
      PROVE  EmitSegment(x, segs[k]) \in Holds[k]
  <2>1. k \in 0 .. N /\ k - 1 \in 0 .. N
    BY <1>1
  <2>2. x \in Emitted(head, A(k - 1), offset, region)
    BY <2>1
  <2>3. A(k) = A(k - 1) \o segs[k] /\ A(k - 1) \in Ascii /\ segs[k] \in Ascii
    BY <1>1, <2>1
  <2>4. EmitSegment(x, segs[k]) \in Emitted(head, A(k), offset, region)
    BY <2>2, <2>3, EmitStep
  <2> QED
    BY <2>1, <2>4
<1> HIDE DEF Holds
<1>4. Emitting!Folded(base, segs) \in Holds[N]
  BY <1>1, <1>2, <1>3, Emitting!FoldInvariant
<1>5. FoldLeft(EmitSegment, base, segs) = Emitting!Folded(base, segs)
  BY DEF Emitting!Folded, Emitting!FoldLeft, Emitting!MapThenFoldSet, Emitting!Max,
         FoldLeft, MapThenFoldSet, Max
<1>6. N \in 0 .. N
  BY <1>1
<1> HIDE DEF base
<1>7. Emitting!Folded(base, segs) \in Emitted(head, A(N), offset, region)
  BY <1>4, <1>6 DEF Holds
<1>8. Emitting!Folded(base, segs).row = head \o Seen(A(N), offset, region)
  BY <1>7 DEF Emitted
<1> QED
  BY <1>1, <1>5, <1>8 DEF base

\* What is put together first is what the whole begins with.
LEMMA FlattenBegins ==
    ASSUME NEW seqs \in Seq(Ascii), NEW j \in 0 .. Len(seqs)
    PROVE  LET a == FlattenSeq(SubSeq(seqs, 1, j))
               said == FlattenSeq(seqs)
           IN  /\ a \in Ascii /\ said \in Ascii /\ Len(a) \in 0 .. Len(said)
               /\ SubSeq(said, 1, Len(a)) = a
<1> DEFINE N == Len(seqs)
           A(k) == FlattenSeq(SubSeq(seqs, 1, k))
           a == A(j)
           P == {i \in Nat : j + i <= N =>
                   Len(a) <= Len(A(j + i)) /\ SubSeq(A(j + i), 1, Len(a)) = a}
<1>1. /\ N \in Nat
      /\ \A k \in 1 .. N : seqs[k] \in Ascii /\ A(k) = A(k - 1) \o seqs[k]
      /\ \A k \in 0 .. N : A(k) \in Ascii
      /\ A(N) = FlattenSeq(seqs)
  <2>1. seqs \in Seq(Seq([of : Names, at : Nat, w : {1}, more : {0}]))
        /\ Ascii = Seq([of : Names, at : Nat, w : {1}, more : {0}])
    BY DEF Ascii, TextOf
  <2>2. N \in Nat /\ \A k \in 1 .. N : seqs[k] \in Ascii
    BY ElementOfSeq
  <2> QED
    BY <2>1, <2>2, FlattenSteps
<1>2. a \in Ascii /\ Len(a) \in Nat /\ SubSeq(a, 1, Len(a)) = a
  <2>1. a \in Ascii
    BY <1>1
  <2> HIDE DEF a
  <2> QED
    BY <2>1 DEF Ascii, TextOf
<1>3. 0 \in P
  <2>1. j + 0 = j
    OBVIOUS
  <2>2. Len(a) <= Len(A(j)) /\ SubSeq(A(j), 1, Len(a)) = a
    BY <1>2
  <2> HIDE DEF a, A
  <2> QED
    BY <2>1, <2>2
<1> HIDE DEF A, N, a
<1>4. ASSUME NEW i \in Nat, i \in P PROVE i + 1 \in P
  <2> SUFFICES ASSUME j + (i + 1) <= N
               PROVE  Len(a) <= Len(A(j + (i + 1))) /\ SubSeq(A(j + (i + 1)), 1, Len(a)) = a
    OBVIOUS
  <2> DEFINE k == j + (i + 1)
             b == A(j + i)
             t == seqs[k]
  <2>1. k \in 1 .. N /\ k - 1 = j + i /\ j + i \in 0 .. N
    BY <1>1
  <2>2. b \in Ascii /\ t \in Ascii /\ A(k) = b \o t /\ Len(a) <= Len(b) /\ SubSeq(b, 1, Len(a)) = a
    <3>1. t \in Ascii /\ A(k) = A(k - 1) \o t
      BY <1>1, <2>1
    <3>2. b \in Ascii
      BY <1>1, <2>1
    <3>3. Len(a) <= Len(b) /\ SubSeq(b, 1, Len(a)) = a
      <4>1. j + i <= N
        BY <1>1, <2>1
      <4> QED
        BY <1>4, <4>1
    <3> HIDE DEF k, t
    <3> QED
      BY <2>1, <3>1, <3>2, <3>3
  <2> HIDE DEF k, b, t
  <2>3. b \in Text /\ t \in Text
    BY <2>2, WidthOfAscii
  <2>4. /\ Len(b \o t) = Len(b) + Len(t) /\ Len(b) \in Nat /\ Len(t) \in Nat
        /\ \A m \in 0 .. Len(b) : SubSeq(b \o t, 1, m) = SubSeq(b, 1, m)
    BY <2>3, BeginningsOfConcat
  <2>5. Len(a) <= Len(A(k)) /\ SubSeq(A(k), 1, Len(a)) = a
    BY <1>2, <2>2, <2>4
  <2> QED
    BY <2>5 DEF k
<1> HIDE DEF P
<1>5. Nat \subseteq P
  BY <1>3, <1>4, Adding!Induction
<1>6. N - j \in P /\ j + (N - j) = N
  BY <1>1, <1>5 DEF N
<1>7. Len(a) <= Len(A(N)) /\ SubSeq(A(N), 1, Len(a)) = a
  <2>1. Len(a) <= Len(A(j + (N - j))) /\ SubSeq(A(j + (N - j)), 1, Len(a)) = a
    BY <1>1, <1>6 DEF P
  <2> QED
    BY <1>6, <2>1
<1>8. A(N) \in Ascii /\ Len(A(N)) \in Nat
  BY <1>1, AsciiParts
<1> QED
  BY <1>1, <1>2, <1>7, <1>8 DEF a, A

\* The segments of the bar: before each label a space.
LEMMA SegmentsAre ==
    ASSUME NEW items \in Seq([label : Ascii, current : BOOLEAN])
    PROVE  /\ Len(items) \in Nat /\ DOMAIN items = 1 .. Len(items)
           /\ Segments(items) \in Seq(Ascii) /\ Len(Segments(items)) = 2 * Len(items)
           /\ \A k \in 1 .. Len(items) : /\ items[k] \in [label : Ascii, current : BOOLEAN]
                                         /\ Segments(items)[2 * k] = items[k].label
                                         /\ Segments(items)[2 * k - 1] = Spaces(1)
           /\ \A j \in 0 .. Len(items) :
                Segments(SubSeq(items, 1, j)) = SubSeq(Segments(items), 1, 2 * j)
<1> DEFINE n == Len(items)
           S(k) == IF k % 2 = 1 THEN Spaces(1) ELSE items[k \div 2].label
           segs == Segments(items)
<1>1. n \in Nat /\ DOMAIN items = 1 .. n /\ \A k \in 1 .. n : items[k] \in [label : Ascii, current : BOOLEAN]
  <2> DEFINE R == [label : Ascii, current : BOOLEAN]
  <2>1. items \in Seq(R)
    OBVIOUS
  <2> HIDE DEF R
  <2>2. n \in Nat /\ DOMAIN items = 1 .. n /\ \A k \in 1 .. n : items[k] \in R
    BY <2>1, ElementOfSeq
  <2> QED
    BY <2>2 DEF R
<1>2. Spaces(1) \in Ascii
  BY WidthOfSpaces
<1>3. segs = [k \in 1 .. 2 * n |-> S(k)]
  BY DEF Segments
<1>4. ASSUME NEW k \in 1 .. 2 * n PROVE S(k) \in Ascii
  <2>1. CASE k % 2 = 1
    BY <1>2, <2>1
  <2>2. CASE k % 2 # 1
    <3>1. k \div 2 \in 1 .. n
      BY <1>1, <2>2
    <3> QED
      BY <1>1, <2>2, <3>1
  <2> QED
    BY <2>1, <2>2
<1>5. segs \in Seq(Ascii) /\ Len(segs) = 2 * n
  <2>1. segs \in [1 .. 2 * n -> Ascii]
    BY <1>3, <1>4
  <2>2. 2 * n \in Nat
    BY <1>1
  <2> HIDE DEF segs
  <2> QED
    BY <2>1, <2>2
<1>6. ASSUME NEW k \in 1 .. n
      PROVE  segs[2 * k] = items[k].label /\ segs[2 * k - 1] = Spaces(1)
  <2>1. /\ 2 * k \in 1 .. 2 * n /\ 2 * k - 1 \in 1 .. 2 * n
        /\ (2 * k) % 2 = 0 /\ (2 * k - 1) % 2 = 1 /\ (2 * k) \div 2 = k
    BY <1>1
  <2> HIDE DEF segs
  <2>2. segs[2 * k] = S(2 * k) /\ segs[2 * k - 1] = S(2 * k - 1)
    BY <1>3, <2>1
  <2> QED
    BY <2>1, <2>2
<1>7. ASSUME NEW j \in 0 .. n
      PROVE  Segments(SubSeq(items, 1, j)) = SubSeq(segs, 1, 2 * j)
  <2> DEFINE some == SubSeq(items, 1, j)
             l == Segments(some)
             r == SubSeq(segs, 1, 2 * j)
  <2>1. Len(some) = j /\ \A i \in 1 .. j : some[i] = items[i]
    BY Beginnings
  <2>2. j \in Nat /\ 2 * j \in 0 .. Len(segs) /\ 2 * j \in Nat
    BY <1>1, <1>5
  <2>3. l = [k \in 1 .. 2 * j |-> IF k % 2 = 1 THEN Spaces(1) ELSE some[k \div 2].label]
    BY <2>1 DEF Segments
  <2> HIDE DEF segs, some
  <2>4. r \in Seq(Ascii) /\ Len(r) = 2 * j /\ \A k \in 1 .. 2 * j : r[k] = segs[k]
    BY <1>5, <2>2, Beginnings
  <2> HIDE DEF r, l
  <2>5. ASSUME NEW k \in 1 .. 2 * j PROVE l[k] = segs[k]
    <3>1. k \in 1 .. 2 * n /\ segs[k] = S(k)
      BY <1>1, <1>3, <2>2
    <3>2. l[k] = IF k % 2 = 1 THEN Spaces(1) ELSE some[k \div 2].label
      BY <2>3
    <3>3. k % 2 # 1 => k \div 2 \in 1 .. j
      BY <2>2
    <3> QED
      BY <2>1, <3>1, <3>2, <3>3
  <2>6. \A k \in 1 .. 2 * j : segs[k] \in Ascii
    BY <1>1, <1>3, <1>4, <2>2
  <2>7. l \in [1 .. 2 * j -> Ascii]
    BY <2>3, <2>5, <2>6
  <2>8. l \in Seq(Ascii) /\ Len(l) = 2 * j
    BY <2>2, <2>7
  <2>9. l = r
    BY <2>4, <2>5, <2>8, SeqEqual
  <2> QED
    BY <2>9 DEF l, r, some
<1> QED
  BY <1>1, <1>5, <1>6, <1>7

\* A part of a part.
LEMMA PartOfPart ==
    ASSUME NEW c \in Ascii, NEW s \in Nat, NEW to \in Nat, to <= Len(c),
           NEW i \in Nat, NEW j \in Nat, s + j <= to
    PROVE  SubSeq(SubSeq(c, s + 1, to), i + 1, j) = SubSeq(c, s + i + 1, s + j)
<1> DEFINE C == [of : Names, at : Nat, w : {1}, more : {0}]
           p == SubSeq(c, s + 1, to)
           l == SubSeq(p, i + 1, j)
           r == SubSeq(c, s + i + 1, s + j)
           n == IF j > i THEN j - i ELSE 0
<1>1. c \in Seq(C) /\ Len(c) \in Nat
  BY AsciiParts DEF Ascii, TextOf
<1> HIDE DEF C
<1>2. /\ p \in Seq(C) /\ Len(p) = to - s /\ \A k \in 1 .. to - s : p[k] = c[s + k]
  <2>1. to >= s
    OBVIOUS
  <2> QED
    BY <1>1, <2>1
<1> HIDE DEF p
<1>3. l \in Seq(C) /\ Len(l) = n /\ \A k \in 1 .. n : l[k] = p[i + k]
  <2>1. j <= Len(p) /\ Len(p) \in Nat
    BY <1>2
  <2> QED
    BY <1>2, <2>1
<1>4. r \in Seq(C) /\ Len(r) = n /\ \A k \in 1 .. n : r[k] = c[s + i + k]
  BY <1>1
<1> HIDE DEF l, r
<1>5. \A k \in 1 .. n : i + k \in 1 .. to - s /\ s + (i + k) = s + i + k
  OBVIOUS
<1> HIDE DEF n
<1>6. ASSUME NEW k \in 1 .. n PROVE l[k] = r[k]
  <2>1. l[k] = p[i + k] /\ r[k] = c[s + i + k]
    BY <1>3, <1>4
  <2>2. p[i + k] = c[s + (i + k)]
    BY <1>2, <1>5
  <2> QED
    BY <1>5, <2>1, <2>2
<1>7. l = r
  BY <1>3, <1>4, <1>6, SeqEqual
<1> QED
  BY <1>7 DEF l, r, p

\* A space.
LEMMA OneSpace == Spaces(1) \in Ascii /\ Len(Spaces(1)) = 1
<1> DEFINE one == 1
<1>1. one \in Int /\ one > 0
  OBVIOUS
<1> HIDE DEF one
<1>2. Spaces(one) \in Ascii /\ Len(Spaces(one)) = one
  BY <1>1, WidthOfSpaces
<1> QED
  BY <1>2 DEF one

\* A label after a space, somewhere in a text.
LEMMA LabelInside ==
    ASSUME NEW before \in Ascii, NEW sp \in Ascii, Len(sp) = 1, NEW l \in Ascii,
           NEW c \in Ascii,
           Len((before \o sp) \o l) <= Len(c),
           SubSeq(c, 1, Len((before \o sp) \o l)) = (before \o sp) \o l
    PROVE  /\ Len(before) + 1 \in Nat /\ Len(before) + 1 + Len(l) <= Len(c)
           /\ SubSeq(c, (Len(before) + 1) + 1, (Len(before) + 1) + Len(l)) = l
<1> DEFINE mid == before \o sp
           upto == mid \o l
           s == Len(before) + 1
           u == Len(upto)
<1>1. upto \in Ascii /\ mid \in Ascii /\ Len(mid) = s /\ u = s + Len(l)
  <2>1. mid \in Ascii /\ Len(mid) = Len(before) + Len(sp)
    BY AsciiParts
  <2>2. upto \in Ascii /\ u = Len(mid) + Len(l)
    BY <2>1, AsciiParts
  <2> QED
    BY <2>1, <2>2
<1>2. Len(l) \in Nat /\ Len(before) \in Nat /\ Len(c) \in Nat
  BY AsciiParts
<1>3. u <= Len(c) /\ SubSeq(c, 1, u) = upto
  OBVIOUS
<1>4. s \in Nat /\ u \in Nat
  <2>1. s \in Nat
    BY <1>2
  <2> QED
    BY <1>1, <1>2, <2>1
<1>5. upto = mid \o l
  OBVIOUS
<1> HIDE DEF s, u, mid, upto
<1>6. SubSeq(upto, s + 1, u) = l
  <2>1. s - Len(mid) + 1 = 1
    BY <1>1, <1>4
  <2>2. u - Len(mid) = Len(l)
    BY <1>1, <1>2, <1>4
  <2>3. u <= Len(mid) + Len(l) /\ s >= Len(mid)
    BY <1>1, <1>2, <1>4
  <2>4. SubSeq(mid \o l, s + 1, u) = SubSeq(l, s - Len(mid) + 1, u - Len(mid))
    BY <1>1, <1>4, <2>3, PartsOfConcat
  <2>5. SubSeq(l, 1, Len(l)) = l
    BY DEF Ascii, TextOf
  <2> QED
    BY <1>5, <2>1, <2>2, <2>4, <2>5
<1>7. SubSeq(c, s + 1, u) = l
  <2>1. u <= Len(c) /\ 0 + u <= u /\ 0 \in Nat
    BY <1>3, <1>4
  <2>2. SubSeq(SubSeq(c, 0 + 1, u), s + 1, u) = SubSeq(c, 0 + s + 1, 0 + u)
    BY <1>4, <2>1, PartOfPart
  <2>3. 0 + 1 = 1 /\ 0 + s + 1 = s + 1 /\ 0 + u = u
    BY <1>4
  <2> QED
    BY <1>3, <1>6, <2>2, <2>3
<1>8. s + Len(l) <= Len(c)
  BY <1>1, <1>3
<1> QED
  BY <1>1, <1>4, <1>7, <1>8 DEF s

\* Where a session's label is among the items.
Start(items, k) == Width(Content(SubSeq(items, 1, k - 1))) + 1

HasPlace(items, k) ==
    LET c == Content(items)
        l == items[k].label
        s == Start(items, k)
    IN  /\ l \in Ascii /\ Len(l) \in Nat /\ Width(l) = Len(l)
        /\ s \in Nat /\ s + Len(l) <= Len(c)
        /\ SubSeq(c, s + 1, s + Len(l)) = l

LEMMA LabelPlace ==
    ASSUME NEW items \in Seq([label : Ascii, current : BOOLEAN]), NEW k \in 1 .. Len(items)
    PROVE  HasPlace(items, k)
<1> DEFINE segs == Segments(items)
           A(j) == FlattenSeq(SubSeq(segs, 1, j))
           c == Content(items)
           l == items[k].label
           before == A(2 * (k - 1))
           mid == A(2 * k - 1)
           upto == A(2 * k)
           s == Len(before) + 1
<1>1. /\ Len(items) \in Nat /\ segs \in Seq(Ascii) /\ Len(segs) = 2 * Len(items)
      /\ l \in Ascii /\ segs[2 * k] = l /\ segs[2 * k - 1] = Spaces(1)
      /\ \A j \in 0 .. Len(items) : Segments(SubSeq(items, 1, j)) = SubSeq(segs, 1, 2 * j)
  BY SegmentsAre
<1>2. c = FlattenSeq(segs)
  BY DEF Content
<1>3. Content(SubSeq(items, 1, k - 1)) = before
  <2>1. k - 1 \in 0 .. Len(items)
    BY <1>1
  <2> QED
    BY <1>1, <2>1 DEF Content
<1> HIDE DEF segs, c, l
<1>4. /\ 2 * k \in 1 .. Len(segs) /\ 2 * k - 1 \in 1 .. Len(segs)
      /\ 2 * k \in 0 .. Len(segs) /\ 2 * k - 1 \in 0 .. Len(segs) /\ 2 * (k - 1) \in 0 .. Len(segs)
      /\ (2 * k - 1) - 1 = 2 * (k - 1)
  BY <1>1
<1>5. \A j \in 1 .. Len(segs) : A(j) = A(j - 1) \o segs[j]
  <2>1. segs \in Seq(Seq([of : Names, at : Nat, w : {1}, more : {0}]))
    BY <1>1 DEF Ascii, TextOf
  <2> QED
    BY <2>1, FlattenSteps
<1>6. /\ before \in Ascii /\ upto \in Ascii /\ mid \in Ascii /\ c \in Ascii
      /\ Len(upto) \in 0 .. Len(c) /\ SubSeq(c, 1, Len(upto)) = upto
  BY <1>1, <1>2, <1>4, FlattenBegins
<1>7. upto = mid \o l /\ mid = before \o Spaces(1)
  BY <1>1, <1>4, <1>5
<1> HIDE DEF A, before, mid, upto
<1>8. Width(l) = Len(l) /\ Width(before) = Len(before) /\ Len(l) \in Nat /\ Len(c) \in Nat
      /\ Len(upto) <= Len(c)
  <2>1. Width(l) = Len(l) /\ Width(before) = Len(before)
    BY <1>1, <1>6, WidthOfAscii
  <2>2. Len(l) \in Nat /\ Len(c) \in Nat
    BY <1>1, <1>6, AsciiParts
  <2> QED
    BY <1>6, <2>1, <2>2
<1>9. s \in Nat /\ s + Len(l) <= Len(c) /\ SubSeq(c, s + 1, s + Len(l)) = l
  <2>1. upto = (before \o Spaces(1)) \o l
    BY <1>7
  <2>2. Len((before \o Spaces(1)) \o l) <= Len(c)
    BY <1>8, <2>1
  <2>3. SubSeq(c, 1, Len((before \o Spaces(1)) \o l)) = (before \o Spaces(1)) \o l
    BY <1>6, <2>1
  <2>4. l \in Ascii
    BY <1>1
  <2> HIDE DEF s
  <2>5. /\ Len(before) + 1 \in Nat /\ Len(before) + 1 + Len(l) <= Len(c)
        /\ SubSeq(c, (Len(before) + 1) + 1, (Len(before) + 1) + Len(l)) = l
    <3>1. before \in Ascii /\ c \in Ascii
      BY <1>6
    <3> HIDE DEF c, l, before
    <3> QED
      BY <2>2, <2>3, <2>4, <3>1, OneSpace, LabelInside, ZenonT(30)
  <2> QED
    BY <2>5 DEF s
<1>10. s = Start(items, k)
  BY <1>3, <1>8 DEF Start
<1> HIDE DEF s
<1> QED
  BY <1>1, <1>6, <1>8, <1>9, <1>10 DEF c, l, HasPlace

\* The items scroll only if they have to, and no further than to their end; the
\* current one's columns are among those shown, or begin them.
Scrolls(total, region, s, e) ==
    LET o == ScrollOffset(total, region, <<s, e>>)
    IN  /\ o \in Nat /\ (region = 0 \/ total <= region => o = 0)
        /\ region > 0 /\ total > region => o + region <= total
        /\ region > 0 /\ total > region /\ e - s >= region => o = s
        /\ region > 0 /\ e - s <= region => o <= s /\ e <= o + region

LEMMA ScrollFits ==
    ASSUME NEW total \in Nat, NEW region \in Nat, NEW s \in Nat, NEW e \in Nat,
           s <= e, e <= total
    PROVE  Scrolls(total, region, s, e)
<1> DEFINE o == ScrollOffset(total, region, <<s, e>>)
           a == Min({s, e - region})
           b == IF e > region THEN a ELSE 0
<1>1. o = IF region = 0 \/ total <= region THEN 0
          ELSE IF e - s >= region THEN s ELSE Min({b, total - region})
  BY DEF ScrollOffset
<1>2. a = IF s <= e - region THEN s ELSE e - region
  BY MinOfTwo
<1> HIDE DEF o, a
<1>3. b \in Int
  BY <1>2
<1> HIDE DEF b
<1>4. Min({b, total - region}) = IF b <= total - region THEN b ELSE total - region
  BY <1>3, MinOfTwo
<1>5. CASE region = 0 \/ total <= region
  BY <1>1, <1>5 DEF o, Scrolls
<1>6. CASE region > 0 /\ total > region /\ e - s >= region
  BY <1>1, <1>6 DEF o, Scrolls
<1>7. CASE region > 0 /\ total > region /\ e - s < region
  <2>1. o = Min({b, total - region})
    BY <1>1, <1>7
  <2>2. b = IF e > region THEN e - region ELSE 0
    BY <1>2, <1>7 DEF b
  <2>3. o = b
    BY <1>4, <1>7, <2>1, <2>2
  <2> QED
    BY <1>7, <2>2, <2>3 DEF o, Scrolls
<1> QED
  BY <1>5, <1>6, <1>7

\* The header, however much of it fits.
LEMMA HeaderCut ==
    ASSUME NEW n \in Nat
    PROVE  LET h == IF n <= 6 THEN n ELSE 6
           IN  /\ Truncated(Header, n) = SubSeq(Header, 1, h)
               /\ SubSeq(Header, 1, h) \in Ascii
               /\ Len(SubSeq(Header, 1, h)) = h /\ Width(SubSeq(Header, 1, h)) = h
<1> DEFINE h == IF n <= 6 THEN n ELSE 6
           C == [of : Names, at : Nat, w : {1}, more : {0}]
<1>1. Header \in Ascii /\ Len(Header) = 6
  <2>1. \A i \in 1 .. 6 : [of |-> "[qscn]", at |-> i, w |-> 1, more |-> 0] \in C
    BY LayoutAssumption
  <2>2. Header = [i \in 1 .. 6 |-> [of |-> "[qscn]", at |-> i, w |-> 1, more |-> 0]]
    BY DEF Header
  <2> HIDE DEF C
  <2>3. Header \in Seq(C) /\ Len(Header) = 6
    BY <2>1, <2>2
  <2> QED
    BY <2>3 DEF Ascii, TextOf, C
<1>2. /\ Truncated(Header, n) \in Ascii
      /\ Len(Truncated(Header, n)) = IF Len(Header) <= n THEN Len(Header) ELSE n
      /\ Truncated(Header, n) = SubSeq(Header, 1, IF Len(Header) <= n THEN Len(Header) ELSE n)
  BY <1>1, CutAscii
<1>3. h = IF Len(Header) <= n THEN Len(Header) ELSE n
  BY <1>1
<1> HIDE DEF h
<1>4. Truncated(Header, n) = SubSeq(Header, 1, h) /\ Len(Truncated(Header, n)) = h
  BY <1>2, <1>3
<1> QED
  BY <1>2, <1>4, WidthOfAscii DEF h

\* A row of three parts.
IsRow(head, seen, rest) ==
    LET row == (head \o seen) \o rest
        shown == seen \o rest
    IN  /\ Width(row) = Len(row) /\ Len(row) = Len(head) + Len(shown)
        /\ SubSeq(row, 1, Len(head)) = head
        /\ SubSeq(row, Len(head) + 1, Len(row)) = shown
        /\ Len(shown) = Len(seen) + Len(rest)

LEMMA RowParts ==
    ASSUME NEW head \in Ascii, NEW seen \in Ascii, NEW rest \in Ascii
    PROVE  IsRow(head, seen, rest)
<1> DEFINE shown == seen \o rest
           row == head \o shown
<1>1. Len(head) \in Nat /\ Len(seen) \in Nat /\ Len(rest) \in Nat
  BY AsciiParts
<1>2. shown \in Ascii /\ Len(shown) = Len(seen) + Len(rest)
  BY AsciiParts
<1>3. (head \o seen) \o rest = row
  BY AsciiTogether
<1> HIDE DEF shown
<1>4. row \in Ascii /\ Len(row) = Len(head) + Len(shown)
  BY <1>2, AsciiParts
<1>5. Width(row) = Len(row)
  BY <1>4, WidthOfAscii
<1>6. SubSeq(row, 1, Len(head)) = head
  <2>1. /\ head \in Seq([of : Names, at : Nat, w : {1}, more : {0}])
        /\ shown \in Seq([of : Names, at : Nat, w : {1}, more : {0}])
    BY <1>2 DEF Ascii, TextOf
  <2> QED
    BY <2>1
<1>7. SubSeq(row, Len(head) + 1, Len(row)) = shown
  <2>1. Len(row) \in Nat /\ Len(row) <= Len(head) + Len(shown)
    BY <1>1, <1>2, <1>4
  <2>2. SubSeq(row, Len(head) + 1, Len(row))
          = SubSeq(shown, Len(head) - Len(head) + 1, Len(row) - Len(head))
    <3>1. Len(head) >= Len(head)
      BY <1>1
    <3> QED
      BY <1>1, <1>2, <2>1, <3>1, PartsOfConcat
  <2> HIDE DEF row
  <2>3. Len(head) - Len(head) + 1 = 1 /\ Len(row) - Len(head) = Len(shown)
    BY <1>1, <1>2, <1>4
  <2>4. SubSeq(shown, 1, Len(shown)) = shown
    BY <1>2 DEF Ascii, TextOf
  <2> QED
    BY <2>2, <2>3, <2>4
<1> QED
  BY <1>1, <1>2, <1>3, <1>4, <1>5, <1>6, <1>7 DEF shown, IsRow

\* The bar's row: the header, what the region shows of the items, and spaces.
BarHead(n) == IF n <= 6 THEN n ELSE 6
Region(n) == n - BarHead(n)
Offset(items, n) == ScrollOffset(Len(Content(items)), Region(n), CurrentSpan(items))
Items(items, n) == Seen(Content(items), Offset(items, n), Region(n))
After(items, n) == Spaces(Region(n) - Len(Items(items, n)))

LEMMA HeadAndRegion ==
    ASSUME NEW n \in Nat
    PROVE  /\ BarHead(n) \in Nat /\ Region(n) \in Nat
           /\ BarHead(n) + Region(n) = n /\ n - BarHead(n) = Region(n) /\ n - Region(n) = BarHead(n)
           /\ Max({n - 6, 0}) = Region(n)
<1>1. Max({n - 6, 0}) = IF n - 6 >= 0 THEN n - 6 ELSE 0
  BY MaxOfTwo
<1> QED
  BY <1>1 DEF BarHead, Region

LEMMA ContentIsAscii ==
    ASSUME NEW items \in Seq([label : Ascii, current : BOOLEAN])
    PROVE  /\ Content(items) \in Ascii /\ Len(Content(items)) \in Nat
           /\ Width(Content(items)) = Len(Content(items))
<1>1. Segments(items) \in Seq(Seq([of : Names, at : Nat, w : {1}, more : {0}]))
  BY SegmentsAre DEF Ascii, TextOf
<1>2. Len(Segments(items)) \in 0 .. Len(Segments(items))
  BY <1>1
<1>3. Content(items) \in Ascii
  BY <1>1, <1>2, FlattenSteps DEF Content, Ascii, TextOf
<1> QED
  BY <1>3, WidthOfAscii, AsciiParts

LEMMA BarRowIs ==
    ASSUME NEW items \in Seq([label : Ascii, current : BOOLEAN]), NEW n \in Nat,
           Offset(items, n) \in Nat
    PROVE  /\ Width(BarRow(items, n)) = n /\ Len(BarRow(items, n)) = n
           /\ SubSeq(BarRow(items, n), 1, BarHead(n)) = SubSeq(Header, 1, BarHead(n))
           /\ SubSeq(BarRow(items, n), BarHead(n) + 1, n) = Items(items, n) \o After(items, n)
           /\ Items(items, n) \in Ascii /\ Len(Items(items, n)) \in 0 .. Region(n)
           /\ After(items, n) \in Ascii
           /\ Len(Items(items, n) \o After(items, n)) = Region(n)
<1> DEFINE c == Content(items)
           h == BarHead(n)
           region == Region(n)
           o == Offset(items, n)
           head == SubSeq(Header, 1, h)
           seen == Items(items, n)
           drawn == head \o seen
           rest == After(items, n)
           shown == seen \o rest
           row == BarRow(items, n)
<1>1. h \in Nat /\ region \in Nat /\ h + region = n /\ n - h = region
  BY HeadAndRegion
<1>2. /\ Truncated(Header, n) = head /\ head \in Ascii /\ Len(head) = h /\ Width(head) = h
  BY HeaderCut DEF BarHead
<1>3. c \in Ascii /\ Width(c) = Len(c) /\ Len(c) \in Nat
  BY ContentIsAscii
<1>4. seen \in Ascii /\ Len(seen) \in 0 .. region
  <2>1. /\ seen \in Ascii
        /\ Len(seen) = IF Len(c) <= o THEN 0
                       ELSE IF Len(c) <= o + region THEN Len(c) - o ELSE region
    BY <1>1, <1>3, SeenFits DEF Items
  <2>2. o \in Nat
    OBVIOUS
  <2> HIDE DEF c, seen, o, region
  <2>3. Len(seen) \in Nat /\ Len(seen) <= region
    BY <1>1, <1>3, <2>1, <2>2
  <2> QED
    BY <2>1, <2>3
<1>5. FoldLeft(EmitSegment, [row |-> head, pos |-> 0, offset |-> o, cols |-> n],
               Segments(items)).row = drawn
  <2>1. Segments(items) \in Seq(Ascii) /\ c = FlattenSeq(Segments(items))
    BY SegmentsAre DEF Content
  <2>2. Len(head) + region = n
    BY <1>1, <1>2
  <2>3. seen = Seen(c, o, region) /\ o \in Nat
    BY DEF Items
  <2> HIDE DEF head, c, o, region, seen
  <2>4. FoldLeft(EmitSegment, [row |-> head, pos |-> 0, offset |-> o, cols |-> Len(head) + region],
                 Segments(items)).row = head \o Seen(FlattenSeq(Segments(items)), o, region)
    <3>1. /\ head \in Ascii /\ Segments(items) \in Seq(Ascii)
          /\ o \in Nat /\ region \in Nat
      BY <1>1, <1>2, <2>1, <2>3
    <3> QED
      BY <3>1, EmittedRow
  <2> QED
    BY <2>1, <2>2, <2>3, <2>4
<1>6. row = drawn \o Spaces(n - Width(drawn))
  <2>1. n - Width(Truncated(Header, n)) = region
    BY <1>1, <1>2
  <2>2. ScrollOffset(Width(Content(items)), n - Width(Truncated(Header, n)), CurrentSpan(items)) = o
    BY <1>3, <2>1 DEF Offset
  <2> HIDE DEF drawn, head
  <2> QED
    BY <1>2, <1>5, <2>2 DEF BarRow
<1>7. rest = Spaces(region - Len(seen))
  BY DEF After
<1> HIDE DEF c, head, seen, rest, row, h, region, o
<1>8. drawn \in Ascii /\ Len(drawn) = h + Len(seen) /\ Width(drawn) = h + Len(seen)
  <2>1. drawn \in Ascii /\ Len(drawn) = h + Len(seen)
    BY <1>2, <1>4, AsciiParts
  <2> QED
    BY <2>1, WidthOfAscii
<1>9. rest \in Ascii /\ Len(rest) = region - Len(seen)
  <2>1. region - Len(seen) \in Nat
    BY <1>1, <1>4
  <2> QED
    BY <1>7, <2>1, WidthOfSpaces
<1>10. row = (head \o seen) \o rest
  <2>1. n - Width(drawn) = region - Len(seen)
    BY <1>1, <1>4, <1>8
  <2> QED
    BY <1>6, <1>7, <2>1
<1> HIDE DEF drawn
<1>11. LET parts == (head \o seen) \o rest
       IN  /\ Width(parts) = Len(parts) /\ Len(parts) = Len(head) + Len(seen \o rest)
           /\ SubSeq(parts, 1, Len(head)) = head
           /\ SubSeq(parts, Len(head) + 1, Len(parts)) = seen \o rest
           /\ Len(seen \o rest) = Len(seen) + Len(rest)
  <2>1. head \in Ascii /\ seen \in Ascii /\ rest \in Ascii
    BY <1>2, <1>4, <1>9
  <2> QED
    BY <2>1, RowParts DEF IsRow
<1>12. Len(shown) = region
  BY <1>1, <1>4, <1>9, <1>11
<1>13. /\ Width(row) = Len(row) /\ Len(row) = h + Len(shown)
       /\ SubSeq(row, 1, h) = head /\ SubSeq(row, h + 1, Len(row)) = shown
  BY <1>2, <1>10, <1>11
<1> HIDE DEF shown
<1>14. Len(row) = n
  BY <1>1, <1>12, <1>13
<1>15. Width(row) = n /\ SubSeq(row, 1, h) = head /\ SubSeq(row, h + 1, n) = shown
  BY <1>13, <1>14
<1> QED
  BY <1>4, <1>9, <1>12, <1>14, <1>15 DEF row, head, h, region, seen, rest, shown

\* What the region shows is a window on the items.
LEMMA WindowShown ==
    ASSUME NEW c \in Ascii, NEW o \in Nat, NEW region \in Nat,
           region = 0 \/ Len(c) <= region => o = 0,
           region > 0 /\ Len(c) > region => o + region <= Len(c)
    PROVE  IsWindow(Seen(c, o, region) \o Spaces(region - Len(Seen(c, o, region))), c, region)
<1> DEFINE T == Len(c)
           seen == Seen(c, o, region)
           to == IF T <= o + region THEN T ELSE o + region
           n == IF region - T >= 0 THEN region - T ELSE 0
<1>1. T \in Nat
  BY AsciiParts
<1>2. Len(seen) = IF T <= o THEN 0 ELSE IF T <= o + region THEN T - o ELSE region
  BY SeenFits
<1>3. seen = SubSeq(c, o + 1, to)
  BY DEF Seen
<1>4. Min({o + region, T}) = to
  <2>1. Min({o + region, T}) = IF o + region <= T THEN o + region ELSE T
    BY <1>1, MinOfTwo
  <2> QED
    BY <1>1, <2>1
<1>5. Max({region - T, 0}) = n
  <2>1. region - T \in Int /\ 0 \in Int
    BY <1>1
  <2> QED
    BY <2>1, MaxOfTwo
<1>6. (region = 0 \/ T <= region => o = 0) /\ (region > 0 /\ T > region => o + region <= T)
  OBVIOUS
<1> HIDE DEF T, seen, to
<1>7. o \in 0 .. T
  BY <1>1, <1>6
<1>8. region - Len(seen) = n
  BY <1>1, <1>2, <1>6
<1> HIDE DEF n
<1>9. seen \o Spaces(region - Len(seen))
        = SubSeq(c, o + 1, Min({o + region, T})) \o Spaces(Max({region - T, 0}))
  BY <1>3, <1>4, <1>5, <1>8
<1> QED
  BY <1>7, <1>9 DEF IsWindow, T, seen

\* A label that is inside the region is shown whole, one that does not fit from its
\* beginning.
Placed(c, l, s, o, region, rest) ==
    /\ s + Len(l) <= Len(c) /\ SubSeq(c, s + 1, s + Len(l)) = l
    /\ Len(rest) = region - Len(Seen(c, o, region)) /\ region > 0
    /\ Len(c) <= region => o = 0
    /\ Len(c) > region => o + region <= Len(c)
    /\ Len(c) > region /\ Len(l) >= region => o = s
    /\ Len(l) <= region => o <= s /\ s + Len(l) <= o + region

IsIn(l, items, region) ==
    IF Len(l) > region
    THEN items = SubSeq(l, 1, region)
    ELSE \E from \in 0 .. region - Len(l) : SubSeq(items, from + 1, from + Len(l)) = l

LEMMA LabelShown ==
    ASSUME NEW c \in Ascii, NEW l \in Ascii, NEW s \in Nat, NEW o \in Nat, NEW region \in Nat,
           NEW rest \in Ascii, Placed(c, l, s, o, region, rest)
    PROVE  IsIn(l, Seen(c, o, region) \o rest, region)
<1> DEFINE T == Len(c)
           L == Len(l)
           seen == Seen(c, o, region)
           m == Len(seen)
           to == IF T <= o + region THEN T ELSE o + region
<1>1. T \in Nat /\ L \in Nat
  BY AsciiParts
<1>2. /\ seen \in Ascii /\ m = IF T <= o THEN 0 ELSE IF T <= o + region THEN T - o ELSE region
      /\ m \in Nat
  <2>1. /\ seen \in Ascii
        /\ m = IF T <= o THEN 0 ELSE IF T <= o + region THEN T - o ELSE region
    BY SeenFits
  <2> HIDE DEF seen, m, T
  <2> QED
    BY <1>1, <2>1
<1>3. seen = SubSeq(c, o + 1, to)
  BY DEF Seen
<1>4. /\ s + L <= T /\ SubSeq(c, s + 1, s + L) = l /\ Len(rest) = region - m
      /\ (T <= region => o = 0) /\ (T > region => o + region <= T)
      /\ (T > region /\ L >= region => o = s)
      /\ (L <= region => o <= s /\ s + L <= o + region)
      /\ region > 0
  BY DEF Placed
<1> HIDE DEF T, L, seen, m
<1>5. CASE L > region
  <2>1. T > region
    BY <1>1, <1>4, <1>5
  <2>2. o = s /\ o + region <= T
    <3>1. L >= region
      BY <1>1, <1>5
    <3> QED
      BY <1>4, <2>1, <3>1
  <2>3. m = region
    BY <1>1, <1>2, <2>2
  <2>4. to = s + region
    BY <1>1, <2>2
  <2> HIDE DEF to
  <2>5. seen \o rest = seen
    <3> DEFINE C == [of : Names, at : Nat, w : {1}, more : {0}]
    <3>1. seen \in Seq(C) /\ rest \in Seq(C)
      BY <1>2 DEF Ascii, TextOf
    <3>2. Len(rest) = 0
      BY <1>4, <2>3
    <3> HIDE DEF C
    <3>3. rest = <<>>
      BY <3>1, <3>2, EmptySeq
    <3> QED
      BY <3>1, <3>3, ConcatEmptySeq
  <2>6. SubSeq(SubSeq(c, s + 1, s + L), 0 + 1, region) = SubSeq(c, s + 0 + 1, s + region)
    <3>1. s + L \in Nat /\ s + L <= Len(c) /\ 0 \in Nat /\ s + region <= s + L
      BY <1>1, <1>4, <1>5 DEF T
    <3> QED
      BY <3>1, PartOfPart
  <2>7. 0 + 1 = 1 /\ s + 0 + 1 = s + 1
    OBVIOUS
  <2>8. seen \o rest = SubSeq(l, 1, region)
    BY <1>3, <1>4, <2>2, <2>4, <2>5, <2>6, <2>7
  <2> QED
    BY <1>5, <2>8 DEF seen, L, IsIn
<1>6. CASE L <= region
  <2> DEFINE from == s - o
             upto == from + L
  <2>1. from \in Nat /\ upto \in Nat /\ from <= region - L /\ o + from = s /\ o + upto = s + L
    BY <1>1, <1>4, <1>6
  <2>2. upto <= m /\ o + upto <= to /\ to \in Nat /\ to <= T
    BY <1>1, <1>2, <1>4, <1>6
  <2>3. upto <= m + Len(rest)
    <3>1. m + Len(rest) = region /\ upto <= region
      BY <1>1, <1>2, <1>4, <2>1
    <3> QED
      BY <3>1
  <2> HIDE DEF from, to
  <2>4. upto = from + L
    OBVIOUS
  <2> HIDE DEF upto
  <2>5. SubSeq(seen \o rest, from + 1, upto) = SubSeq(seen, from + 1, upto)
    BY <1>2, <2>1, <2>2, <2>3, PartsOfConcat DEF m
  <2>6. SubSeq(SubSeq(c, o + 1, to), from + 1, upto) = SubSeq(c, o + from + 1, o + upto)
    BY <2>1, <2>2, PartOfPart DEF T
  <2>7. SubSeq(seen \o rest, from + 1, from + L) = l
    BY <1>3, <1>4, <2>1, <2>4, <2>5, <2>6
  <2>8. from \in 0 .. region - L
    BY <1>1, <2>1
  <2>9. ~ (L > region)
    BY <1>1, <1>6
  <2> QED
    BY <2>7, <2>8, <2>9 DEF seen, L, IsIn
<1>7. L > region \/ L <= region
  BY <1>1
<1> QED
  BY <1>5, <1>6, <1>7

\* At most one of the items is the current session.
OneCurrent(items) ==
    \A j, k \in DOMAIN items : items[j].current /\ items[k].current => j = k

\* Where the current one is.
LEMMA SpanOfCurrent ==
    ASSUME NEW items \in Seq([label : Ascii, current : BOOLEAN]), OneCurrent(items),
           NEW k \in DOMAIN items, items[k].current
    PROVE  CurrentSpan(items) = <<Start(items, k), Start(items, k) + Len(items[k].label)>>
<1> DEFINE at == {j \in DOMAIN items : items[j].current}
<1>1. at = {k}
  BY DEF OneCurrent
<1>2. k \in Int /\ Width(items[k].label) = Len(items[k].label)
  <2>1. k \in 1 .. Len(items) /\ Len(items) \in Nat
    BY SegmentsAre
  <2>2. HasPlace(items, k)
    BY <2>1, LabelPlace
  <2> QED
    BY <2>1, <2>2 DEF HasPlace
<1>3. Max(at) = k
  <2>1. at = k .. k /\ k <= k
    BY <1>1, <1>2
  <2> QED
    BY <1>2, <2>1, IntervalEnds
<1>4. CurrentSpan(items) =
        IF at = {} THEN <<>>
        ELSE <<Start(items, Max(at)), Start(items, Max(at)) + Width(items[Max(at)].label)>>
  BY DEF CurrentSpan, Start
<1>5. at # {}
  BY <1>1
<1> HIDE DEF at
<1> QED
  BY <1>2, <1>3, <1>4, <1>5

\* How far the items scroll.
LEMMA OffsetFits ==
    ASSUME NEW items \in Seq([label : Ascii, current : BOOLEAN]), OneCurrent(items),
           NEW n \in Nat
    PROVE  /\ Offset(items, n) \in Nat
           /\ Region(n) = 0 \/ Len(Content(items)) <= Region(n) => Offset(items, n) = 0
           /\ Region(n) > 0 /\ Len(Content(items)) > Region(n) =>
                Offset(items, n) + Region(n) <= Len(Content(items))
           /\ \A k \in DOMAIN items : items[k].current =>
                /\ Region(n) > 0 /\ Len(Content(items)) > Region(n)
                     /\ Len(items[k].label) >= Region(n) => Offset(items, n) = Start(items, k)
                /\ Region(n) > 0 /\ Len(items[k].label) <= Region(n) =>
                     /\ Offset(items, n) <= Start(items, k)
                     /\ Start(items, k) + Len(items[k].label) <= Offset(items, n) + Region(n)
<1> DEFINE T == Len(Content(items))
           r == Region(n)
           o == Offset(items, n)
<1>1. T \in Nat /\ r \in Nat
  BY ContentIsAscii, HeadAndRegion
<1>2. o = ScrollOffset(T, r, CurrentSpan(items))
  BY DEF Offset
<1> HIDE DEF T, r, o
<1>3. CASE \A k \in DOMAIN items : ~ items[k].current
  <2>1. CurrentSpan(items) = <<>>
    BY <1>3 DEF CurrentSpan
  <2>2. o = 0
    BY <1>2, <2>1 DEF ScrollOffset
  <2>3. o \in Nat /\ (r > 0 /\ T > r => o + r <= T)
    BY <1>1, <2>2
  <2> QED
    BY <1>3, <2>2, <2>3 DEF T, r, o
<1>4. ASSUME NEW k \in DOMAIN items, items[k].current
      PROVE  /\ o \in Nat /\ (r = 0 \/ T <= r => o = 0) /\ (r > 0 /\ T > r => o + r <= T)
             /\ r > 0 /\ T > r /\ Len(items[k].label) >= r => o = Start(items, k)
             /\ r > 0 /\ Len(items[k].label) <= r =>
                  o <= Start(items, k) /\ Start(items, k) + Len(items[k].label) <= o + r
  <2> DEFINE s == Start(items, k)
             L == Len(items[k].label)
             e == s + L
  <2>1. s \in Nat /\ L \in Nat /\ e <= T
    <3>1. k \in 1 .. Len(items)
      BY SegmentsAre
    <3>2. HasPlace(items, k)
      BY <3>1, LabelPlace
    <3> QED
      BY <3>2 DEF HasPlace, T
  <2>2. CurrentSpan(items) = <<s, e>>
    BY <1>4, SpanOfCurrent
  <2> HIDE DEF s, L
  <2>3. e \in Nat /\ s <= e /\ e - s = L /\ e = s + L
    BY <2>1
  <2> HIDE DEF e
  <2>4. /\ o \in Nat /\ (r = 0 \/ T <= r => o = 0) /\ (r > 0 /\ T > r => o + r <= T)
        /\ (r > 0 /\ T > r /\ e - s >= r => o = s)
        /\ (r > 0 /\ e - s <= r => o <= s /\ e <= o + r)
    <3>1. Scrolls(T, r, s, e)
      BY <1>1, <2>1, <2>3, ScrollFits
    <3> QED
      BY <1>2, <2>2, <3>1 DEF Scrolls
  <2> QED
    BY <2>3, <2>4 DEF s, L
<1> QED
  BY <1>3, <1>4 DEF T, r, o

\* What the bar shows, the current session in it.
LEMMA IInvCurrentIsShown == IInv => CurrentIsShown
<1> SUFFICES ASSUME IInv, Drawn
             PROVE  CurrentIsShown
  BY DEF CurrentIsShown
<1> DEFINE c == Content(bar)
           r == Region(cols)
           o == Offset(bar, cols)
           seen == Items(bar, cols)
           rest == After(bar, cols)
           row == BarRow(bar, cols)
           items == SubSeq(row, cols - r + 1, Len(row))
<1>1. bar \in Seq([label : Ascii, current : BOOLEAN]) /\ OneCurrent(bar) /\ cols \in Nat
  BY LayoutAssumption DEF IInv, Sizes, Shown, Drawn, OneCurrent
<1>2. /\ Max({cols - 6, 0}) = r /\ cols - r = BarHead(cols) /\ r \in Nat
  BY <1>1, HeadAndRegion
<1>3. /\ o \in Nat
      /\ r = 0 \/ Len(c) <= r => o = 0
      /\ r > 0 /\ Len(c) > r => o + r <= Len(c)
      /\ \A k \in DOMAIN bar : bar[k].current =>
           /\ r > 0 /\ Len(c) > r /\ Len(bar[k].label) >= r => o = Start(bar, k)
           /\ r > 0 /\ Len(bar[k].label) <= r =>
                o <= Start(bar, k) /\ Start(bar, k) + Len(bar[k].label) <= o + r
  BY <1>1, OffsetFits
<1>4. /\ Width(row) = cols /\ Len(row) = cols
      /\ SubSeq(row, 1, BarHead(cols)) = SubSeq(Header, 1, BarHead(cols))
      /\ SubSeq(row, BarHead(cols) + 1, cols) = seen \o rest
      /\ seen \in Ascii /\ Len(seen) \in 0 .. r /\ rest \in Ascii
      /\ Len(seen \o rest) = r
  BY <1>1, <1>3, BarRowIs
<1>5. items = seen \o rest
  BY <1>2, <1>4
<1>6. c \in Ascii /\ Len(c) \in Nat
  BY <1>1, ContentIsAscii
<1>7. seen = Seen(c, o, r) /\ rest = Spaces(r - Len(seen))
  BY DEF Items, After
<1>8. Len(rest) = r - Len(seen)
  <2>1. Len(seen \o rest) = Len(seen) + Len(rest) /\ Len(rest) \in Nat
    BY <1>4, AsciiParts
  <2> QED
    BY <1>2, <1>4, <2>1
<1> HIDE DEF c, r, o, seen, rest, row
<1>9. IsWindow(items, c, r)
  <2>1. IsWindow(Seen(c, o, r) \o Spaces(r - Len(Seen(c, o, r))), c, r)
    BY <1>2, <1>3, <1>6, WindowShown
  <2> QED
    BY <1>5, <1>7, <2>1
<1>10. ASSUME NEW k \in DOMAIN bar, bar[k].current, r > 0
       PROVE  IsIn(bar[k].label, items, r)
  <2> DEFINE l == bar[k].label
             s == Start(bar, k)
  <2>1. /\ l \in Ascii /\ s \in Nat /\ s + Len(l) <= Len(c)
        /\ SubSeq(c, s + 1, s + Len(l)) = l
    <3>1. k \in 1 .. Len(bar)
      BY <1>1, SegmentsAre
    <3>2. HasPlace(bar, k)
      BY <1>1, <3>1, LabelPlace
    <3> QED
      BY <3>2 DEF HasPlace, c
  <2>2. /\ Len(c) > r /\ Len(l) >= r => o = s
        /\ Len(l) <= r => o <= s /\ s + Len(l) <= o + r
    BY <1>3, <1>10
  <2>3. /\ Len(c) <= r => o = 0
        /\ Len(c) > r => o + r <= Len(c)
    BY <1>3, <1>10
  <2>4. Len(rest) = r - Len(Seen(c, o, r))
    BY <1>7, <1>8
  <2> HIDE DEF l, s, items
  <2>5. IsIn(l, Seen(c, o, r) \o rest, r)
    <3>1. Placed(c, l, s, o, r, rest)
      BY <1>10, <2>1, <2>2, <2>3, <2>4 DEF Placed
    <3> QED
      BY <1>2, <1>3, <1>4, <1>6, <2>1, <3>1, LabelShown
  <2>6. items = Seen(c, o, r) \o rest
    BY <1>5, <1>7
  <2> QED
    BY <2>5, <2>6 DEF l
<1>11. /\ Width(row) = cols
       /\ SubSeq(row, 1, cols - r) = SubSeq(Header, 1, cols - r)
  BY <1>2, <1>4
<1>12. \A k \in DOMAIN bar : bar[k].current /\ r > 0 => IsIn(bar[k].label, items, r)
  BY <1>10
<1> HIDE DEF items
<1>13. /\ items = SubSeq(BarRow(bar, cols), cols - Max({cols - 6, 0}) + 1, Len(BarRow(bar, cols)))
       /\ row = BarRow(bar, cols) /\ c = Content(bar) /\ r = Max({cols - 6, 0})
  BY <1>2 DEF items, row, c
<1> QED
  BY <1>9, <1>11, <1>12, <1>13 DEF CurrentIsShown, IsIn

\* However narrow the terminal and however many sessions, the bar fills its row and
\* scrolls the current session into view: status_bar_scroll_offset(),
\* render_status_bar().
THEOREM CurrentAlwaysShown == Spec => []CurrentIsShown
  BY InitIInv, NextIInv, IInvCurrentIsShown, PTL DEF Spec
=============================================================================
