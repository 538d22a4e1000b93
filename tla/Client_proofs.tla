---------------------------- MODULE Client_proofs ----------------------------
(***************************************************************************)
(* Proofs about the client's way from session to session, for every number *)
(* of ids: it does not return to a session it knows to have ended, nor     *)
(* stop the daemon with sessions it knows to be alive, and the row that is *)
(* selected in the session list exists.                                    *)
(***************************************************************************)
EXTENDS Client, SequenceTheorems, FiniteSetTheorems, WellFoundedInduction, TLAPS

-----------------------------------------------------------------------------
(* Ordering the ids of a listing.                                          *)

\* A nonempty set of numbers has a smallest one ...
LEMMA Smallest ==
    ASSUME NEW S \in SUBSET Nat, S # {}
    PROVE  \E x \in S : \A y \in S : x <= y
<1> DEFINE R == OpToRel(<, Nat)
<1>1. IsWellFoundedOn(R, Nat)
  BY NatLessThanWellFounded
<1>2. \A x, y \in Nat : y < x => <<y, x>> \in R
  BY DEF OpToRel
<1> HIDE DEF R
<1>3. PICK x \in S : \A y \in S : ~(<<y, x>> \in R)
  BY <1>1, WFMin
<1>4. ASSUME NEW y \in S PROVE x <= y
  <2>1. x \in Nat /\ y \in Nat /\ ~(<<y, x>> \in R)
    BY <1>3
  <2>2. ~(y < x)
    BY <1>2, <2>1
  <2> QED
    BY <2>1, <2>2
<1> QED
  BY <1>4

\* ... and, if it is bounded, a largest one.
LEMMA Largest ==
    ASSUME NEW n \in Nat, NEW S \in SUBSET (1 .. n), S # {}
    PROVE  \E x \in S : \A y \in S : y <= x
<1> DEFINE U == {b \in Nat : \A y \in S : y <= b}
<1>1. n \in U
  OBVIOUS
<1>2. PICK b \in U : \A c \in U : b <= c
  BY <1>1, Smallest
<1>3. CASE b \in S
  BY <1>2, <1>3
<1>4. CASE b \notin S
  <2>1. PICK y \in S : TRUE
    OBVIOUS
  <2>2. b - 1 \in Nat /\ \A z \in S : z <= b - 1
    BY <1>2, <1>4, <2>1
  <2>3. b - 1 \in U
    BY <2>2
  <2> QED
    BY <1>2, <2>3
<1> QED
  BY <1>3, <1>4

\* Sets of ids are finite.
LEMMA FiniteIds ==
    ASSUME NEW n \in Nat, NEW S \in SUBSET (1 .. n)
    PROVE  IsFiniteSet(S)
<1>1. IsFiniteSet(1 .. n)
  BY FS_Interval
<1> QED
  BY <1>1, FS_Subset

\* Of n numbers, one has the rank k, for each k up to n.
LEMMA Ranked ==
    ASSUME NEW n \in Nat, NEW S \in SUBSET (1 .. n), NEW k \in 1 .. Cardinality(S)
    PROVE  \E i \in S : Rank(S, i) = k
<1>0. IsFiniteSet(S) /\ Cardinality(S) \in Nat
  BY FiniteIds, FS_CardinalityType
<1>found. \A j \in S : j \in Nat
  OBVIOUS
<1> DEFINE C == Cardinality(S)
           K == {m \in 1 .. C : \A i \in S : Rank(S, i) # m}
<1> SUFFICES ASSUME K # {} PROVE FALSE
  OBVIOUS
<1>1. PICK m \in K : \A j \in K : j <= m
  BY <1>0, Largest
<1>2. S # {} 
  BY <1>0, <1>1, FS_EmptySet
<1>3. PICK top \in S : \A y \in S : y <= top
  BY <1>2, Largest
<1>4. {j \in S : j <= top} = S
  BY <1>found, <1>3
<1>5. m # C /\ m + 1 \in 1 .. C
  BY <1>0, <1>1, <1>3, <1>4 DEF Rank
<1>6. PICK i \in S : Rank(S, i) = m + 1
  BY <1>1, <1>5
<1> DEFINE B == {j \in S : j < i}
<1>7. {j \in S : j <= i} = B \cup {i} /\ i \notin B
  <2>1. ASSUME NEW j \in S PROVE j <= i <=> j < i \/ j = i
    BY <1>found
  <2>2. ~(i < i)
    BY <1>found
  <2> QED
    BY <2>1, <2>2
<1>8. IsFiniteSet(B) /\ Cardinality(B) \in Nat
  BY <1>0, FS_Subset, FS_CardinalityType
<1>9. Cardinality(B) = m
  <2>1. Cardinality(B \cup {i}) = Cardinality(B) + 1
    BY <1>7, <1>8, FS_AddElement
  <2> QED
    BY <1>1, <1>6, <1>7, <1>8, <2>1 DEF Rank
<1>10. B # {}
  BY <1>1, <1>9, FS_EmptySet
<1>11. PICK p \in B : \A y \in B : y <= p
  BY <1>10, Largest
<1>12. {j \in S : j <= p} = B
  <2>1. \A j \in S : j < i => j <= p
    BY <1>11
  <2>2. \A j \in S : j <= p => j < i
    BY <1>found, <1>11
  <2> QED
    BY <2>1, <2>2
<1> QED
  BY <1>1, <1>9, <1>11, <1>12 DEF Rank
\* The ranks of different numbers differ.
LEMMA RanksDiffer ==
    ASSUME NEW n \in Nat, NEW S \in SUBSET (1 .. n), NEW i \in S, NEW j \in S, i < j
    PROVE  Rank(S, i) < Rank(S, j)
<1> DEFINE A == {m \in S : m <= i}
           B == {m \in S : m <= j}
<1>1. IsFiniteSet(S)
  BY FiniteIds
<1>2. IsFiniteSet(A) /\ IsFiniteSet(B)
  BY <1>1, FS_Subset
<1>3. Cardinality(A) \in Nat /\ Cardinality(B) \in Nat
  BY <1>2, FS_CardinalityType
<1>4. A \in SUBSET B
  <2>1. ASSUME NEW m \in S, m <= i PROVE m <= j
    BY <2>1
  <2> QED
    BY <2>1
<1>5. j \in B /\ j \notin A
  OBVIOUS
<1>6. Cardinality(A) <= Cardinality(B) /\ Cardinality(A) # Cardinality(B)
  BY <1>2, <1>4, <1>5, FS_Subset
<1> QED
  BY <1>3, <1>6 DEF Rank

\* A rank is a place in the ordered sequence.
LEMMA RankIsAPlace ==
    ASSUME NEW n \in Nat, NEW S \in SUBSET (1 .. n), NEW i \in S
    PROVE  Rank(S, i) \in 1 .. Cardinality(S)
<1> DEFINE A == {m \in S : m <= i}
<1>1. IsFiniteSet(S)
  BY FiniteIds
<1>2. IsFiniteSet(A) /\ Cardinality(A) <= Cardinality(S)
  BY <1>1, FS_Subset
<1>3. Cardinality(A) \in Nat /\ Cardinality(S) \in Nat
  BY <1>1, <1>2, FS_CardinalityType
<1>4. i \in A
  OBVIOUS
<1>5. Cardinality(A) # 0
  BY <1>2, <1>4, FS_EmptySet
<1> QED
  BY <1>2, <1>3, <1>5 DEF Rank

\* InOrder() of a set is a sequence of its elements, each at its rank.
LEMMA Ordered ==
    ASSUME NEW n \in Nat, NEW S \in SUBSET (1 .. n)
    PROVE  /\ Cardinality(S) \in Nat
           /\ InOrder(S) \in Seq(S) /\ Len(InOrder(S)) = Cardinality(S)
           /\ \A k \in 1 .. Cardinality(S) : InOrder(S)[k] \in S /\ Rank(S, InOrder(S)[k]) = k
           /\ \A i \in S : InOrder(S)[Rank(S, i)] = i
<1>1. Cardinality(S) \in Nat
  <2>1. IsFiniteSet(S)
    BY FiniteIds
  <2> QED
    BY <2>1, FS_CardinalityType
<1>2. ASSUME NEW k \in 1 .. Cardinality(S)
      PROVE  InOrder(S)[k] \in S /\ Rank(S, InOrder(S)[k]) = k
  <2>1. \E i \in S : Rank(S, i) = k
    BY Ranked
  <2>2. InOrder(S)[k] = CHOOSE i \in S : Rank(S, i) = k
    BY DEF InOrder
  <2> QED
    BY <2>1, <2>2
<1>3. InOrder(S) \in [1 .. Cardinality(S) -> S]
  BY <1>2 DEF InOrder
<1>4. InOrder(S) \in Seq(S) /\ Len(InOrder(S)) = Cardinality(S)
  <2>1. InOrder(S) \in Seq(S)
    BY <1>1, <1>3, SeqDef
  <2>2. DOMAIN InOrder(S) = 1 .. Cardinality(S)
    BY <1>3
  <2>3. Len(InOrder(S)) = Cardinality(S)
    BY <1>1, <2>1, <2>2, LenProperties
  <2> QED
    BY <2>1, <2>3
<1>5. ASSUME NEW i \in S PROVE InOrder(S)[Rank(S, i)] = i
  <2> DEFINE j == InOrder(S)[Rank(S, i)]
  <2>1. j \in S /\ Rank(S, j) = Rank(S, i)
    BY <1>2, RankIsAPlace
  <2>2. Rank(S, i) \in 1 .. Cardinality(S)
    BY RankIsAPlace
  <2> HIDE DEF j
  <2>3. Rank(S, i) \in Nat /\ ~(Rank(S, i) < Rank(S, i))
    BY <1>1, <2>2
  <2>4. ~(i < j)
    BY <2>1, <2>3, RanksDiffer
  <2>5. ~(j < i)
    BY <2>1, <2>3, RanksDiffer
  <2>6. i \in Nat /\ j \in Nat
    BY <2>1
  <2>7. i = j
    BY <2>4, <2>5, <2>6
  <2> QED
    BY <2>7 DEF j
<1> QED
  BY <1>1, <1>2, <1>4, <1>5


-----------------------------------------------------------------------------
(* Choosing a session from a listing.                                      *)

\* highest_remaining_session_id() gives none only if there is none.
LEMMA HighestIsAlive ==
    ASSUME NEW live \in SUBSET Ids, NEW excluded, NEW i,
           i = HighestExcluding(live, excluded)
    PROVE  /\ i # NoId => i \in live /\ i \notin excluded
           /\ i = NoId => live \subseteq excluded
<1>1. CASE live \ excluded = {}
  BY <1>1 DEF HighestExcluding
<1>2. CASE live \ excluded # {}
  <2>1. \E x \in live \ excluded : \A y \in live \ excluded : y <= x
    BY <1>2, ClientAssumption, Largest DEF Ids
  <2>2. \A x, y \in live \ excluded : y <= x => x >= y
    BY ClientAssumption DEF Ids
  <2>3. Max(live \ excluded) \in live \ excluded
    BY <2>1, <2>2 DEF Max
  <2>4. i = Max(live \ excluded)
    BY <1>2 DEF HighestExcluding
  <2> QED
    BY <2>3, <2>4, ClientAssumption DEF NoId, Ids
<1> QED
  BY <1>1, <1>2

\* The ring's next and previous place are other places of it.
LEMMA NextPlace ==
    ASSUME NEW n \in Nat, n >= 2, NEW k \in 1 .. n
    PROVE  /\ (k % n) + 1 \in 1 .. n /\ (k % n) + 1 # k
           /\ ((k + n - 2) % n) + 1 \in 1 .. n /\ ((k + n - 2) % n) + 1 # k
<1>1. CASE k = n
  <2>1. n % n = 0 /\ (n + n - 2) % n = n - 2
    OBVIOUS
  <2> QED
    BY <1>1, <2>1
<1>2. CASE k = 1
  <2>1. 1 % n = 1 /\ (n - 1) % n = n - 1
    OBVIOUS
  <2> QED
    BY <1>2, <2>1
<1>3. CASE 1 < k /\ k < n
  <2>1. k % n = k /\ (k + n - 2) % n = k - 2
    BY <1>3
  <2> QED
    BY <1>3, <2>1
<1> QED
  BY <1>1, <1>2, <1>3

\* adjacent_session_id() gives another live session, or none.
LEMMA NeighbourIsAlive ==
    ASSUME NEW live \in SUBSET Ids, NEW current, NEW dir,
           Adjacent(live, current, dir) # NoId
    PROVE  Adjacent(live, current, dir) \in live \ {current}
<1> DEFINE ring == InOrder(live)
           n == Cardinality(live)
           at == CHOOSE k \in 1 .. Len(ring) : ring[k] = current
           to == IF dir = "next" THEN (at % Len(ring)) + 1
                 ELSE ((at + Len(ring) - 2) % Len(ring)) + 1
<1>1. current \in live /\ ~(Len(ring) < 2) /\ Adjacent(live, current, dir) = ring[to]
  BY DEF Adjacent
<1>2. n \in Nat /\ Len(ring) = n /\ \A k \in 1 .. n : ring[k] \in live /\ Rank(live, ring[k]) = k
  BY ClientAssumption, Ordered DEF Ids
<1>3. at \in 1 .. n /\ ring[at] = current
  <2>1. Rank(live, current) \in 1 .. n /\ ring[Rank(live, current)] = current
    BY <1>1, ClientAssumption, Ordered, RankIsAPlace DEF Ids
  <2> QED
    BY <1>2, <2>1
<1> HIDE DEF ring, n, at
<1>4. to \in 1 .. n /\ to # at
  BY <1>1, <1>2, <1>3, NextPlace
<1>5. ring[to] \in live /\ ring[to] # current
  BY <1>2, <1>3, <1>4
<1> QED
  BY <1>1, <1>5

-----------------------------------------------------------------------------
(* The session list.                                                       *)

Row == [id : Ids, exited : BOOLEAN]
Standings == {"none", "live", "exited", "past", "gone"}

\* build_session_list_rows() shows listed sessions, and which of them exited.
LEMMA RowsAreListed ==
    ASSUME st \in [Ids -> Standings]
    PROVE  /\ Rows \in Seq(Row)
           /\ \A k \in 1 .. Len(Rows) : /\ Rows[k].id \in Listed
                                        /\ ~Rows[k].exited => Rows[k].id \in Live
           /\ Rows = <<>> => Listed = {}
<1> DEFINE ids == InOrder(Listed)
           n == Cardinality(Listed)
<1>1. Listed \in SUBSET Ids
  BY DEF Listed
<1>2. /\ n \in Nat /\ Len(ids) = n
      /\ \A k \in 1 .. n : ids[k] \in Listed
  BY <1>1, ClientAssumption, Ordered DEF Ids
<1> HIDE DEF ids, n
<1>3. Rows = [k \in 1 .. n |-> [id |-> ids[k], exited |-> st[ids[k]] = "exited"]]
  BY <1>2 DEF Rows, ids
<1>4. \A k \in 1 .. n : Rows[k] \in Row
  BY <1>1, <1>2, <1>3 DEF Row
<1>5. Rows \in Seq(Row)
  <2>1. Rows \in [1 .. n -> Row]
    BY <1>3, <1>4
  <2> QED
    BY <1>2, <2>1, SeqDef
<1>6. Len(Rows) = n
  <2>1. DOMAIN Rows = 1 .. n
    BY <1>3
  <2> QED
    BY <1>2, <1>5, <2>1, LenProperties
<1>7. Rows = <<>> => Listed = {}
  <2>1. Rows = <<>> => n = 0
    BY <1>6, EmptySeq
  <2>2. IsFiniteSet(Listed)
    BY <1>1, ClientAssumption, FiniteIds DEF Ids
  <2> QED
    BY <2>1, <2>2, FS_EmptySet DEF n
<1>8. \A k \in 1 .. n : Rows[k].id \in Listed /\ (~Rows[k].exited => Rows[k].id \in Live)
  BY <1>2, <1>3 DEF Listed, Live
<1> QED
  BY <1>5, <1>6, <1>7, <1>8

\* Whatever is selected, clamping makes it a row if there is one.
LEMMA ClampedIsARow ==
    ASSUME NEW rs \in Seq(Row), NEW k \in Nat
    PROVE  Clamped(k, rs) \in Nat /\ (rs # <<>> => Clamped(k, rs) < Len(rs))
<1>1. Len(rs) \in Nat /\ (rs # <<>> => Len(rs) # 0)
  BY LenProperties, EmptySeq
<1> QED
  BY <1>1 DEF Clamped

\* So is the row of a session, unless it has none.
LEMMA RowOfIsARow ==
    ASSUME NEW rs \in Seq(Row), NEW i, NEW other \in Nat,
           rs # <<>> => other < Len(rs)
    PROVE  RowOf(i, rs, other) \in Nat /\ (rs # <<>> => RowOf(i, rs, other) < Len(rs))
<1>1. Len(rs) \in Nat
  BY LenProperties
<1>2. CASE \E k \in 1 .. Len(rs) : rs[k].id = i
  <2> DEFINE at == CHOOSE k \in 1 .. Len(rs) : rs[k].id = i
  <2>1. at \in 1 .. Len(rs)
    BY <1>2
  <2>2. RowOf(i, rs, other) = at - 1
    BY <1>2 DEF RowOf
  <2> HIDE DEF at
  <2> QED
    BY <1>1, <2>1, <2>2
<1>3. CASE ~\E k \in 1 .. Len(rs) : rs[k].id = i
  BY <1>3 DEF RowOf
<1> QED
  BY <1>2, <1>3

-----------------------------------------------------------------------------
(* The inductive invariant.                                                *)

\* What the variables that matter hold.
Types ==
    /\ st \in [Ids -> Standings]
    /\ session \in Ids \cup {NoId} /\ previous \in Ids \cup {NoId}
    /\ target \in Ids \cup {NoId}
    /\ seen \in SUBSET Ids /\ told \in SUBSET Ids
    /\ rows \in Seq(Row) /\ selected \in Nat
    /\ pc \in {"rename", "kill", "renamed", "killed"} => target \in Ids

\* Before the first attachment the client has heard of no end.
Begun == pc \in {"smart", "given", "new"} => told = {} /\ previous = NoId

\* The client is attached, whatever overlay is open.
Attached == {"loop", "open", "help", "neighbour", "list", "rename", "kill", "renamed",
             "killed"}

\* While it is, it has not heard that its session ended, unless it has just
\* killed it itself; the session was created by this daemon or by one before.
SessionIsThere ==
    /\ pc \in Attached \cup {"attach", "recover"} => session \in Ids
    /\ pc \in Attached => /\ session \in told => pc = "killed" /\ target = session
                          /\ st[session] # "none" \/ restarted

\* An attach is under way only with a session that the daemon, or one before it, had.
Entering == link \in {"entering", "late"} =>
                pc = "attach" /\ (st[session] # "none" \/ restarted)

\* The session to fall back to is not known to have ended, and it is not the one
\* that is being tried, unless recovering has led there.
FallbackIsAlive ==
    pc \in {"attach", "recover"} /\ previous \in told \cup {session} =>
        previous = NoId \/ retried \/ restarted

\* What a listing showed was created; when the client goes to stop the daemon,
\* the last one showed no other live session.
NothingElse == /\ \A i \in seen : st[i] # "none"
               /\ pc = "shutdown" => (seen \cap Live) \subseteq {session}

IInv == /\ Types /\ Begun /\ SessionIsThere /\ Entering /\ FallbackIsAlive /\ NothingElse
        /\ SelectedIsARow

\* The invariant holds before the program has done anything.
LEMMA InitIInv == Init => IInv
<1> SUFFICES ASSUME Init PROVE IInv
  OBVIOUS
<1>1. rows \in Seq(Row) /\ st \in [Ids -> Standings]
  BY EmptySeq DEF Init, Standings
<1> QED
  BY <1>1, ClientAssumption
  DEF Init, IInv, Types, Begun, SessionIsThere, Entering, Attached, FallbackIsAlive, NothingElse,
      SelectedIsARow, Ids, NoId

\* What a listing gives the client to choose from.
LEMMA FoundAlive ==
    ASSUME Types
    PROVE  /\ Live \in SUBSET Ids /\ \A i \in Live : st[i] = "live"
           /\ \A e : \/ HighestExcluding(Live, e) = NoId /\ Live \subseteq e
                     \/ HighestExcluding(Live, e) \in Live \ e
           /\ \A c, d : Adjacent(Live, c, d) \in (Live \ {c}) \cup {NoId}
<1>1. Live \in SUBSET Ids /\ \A i \in Live : st[i] = "live"
  BY DEF Live
<1>2. ASSUME NEW e
      PROVE  \/ HighestExcluding(Live, e) = NoId /\ Live \subseteq e
             \/ HighestExcluding(Live, e) \in Live \ e
  BY <1>1, HighestIsAlive
<1>3. ASSUME NEW c, NEW d PROVE Adjacent(Live, c, d) \in (Live \ {c}) \cup {NoId}
  BY <1>1, NeighbourIsAlive
<1> QED
  BY <1>1, <1>2, <1>3

\* ... and to show.
LEMMA Shown ==
    ASSUME Types
    PROVE  /\ Rows \in Seq(Row) /\ Len(Rows) \in Nat
           /\ Rows = <<>> => Live = {}
           /\ \A k \in Nat : k < Len(Rows) =>
                  /\ Rows[k + 1].id \in Ids
                  /\ ~Rows[k + 1].exited => Rows[k + 1].id \in Live
           /\ Clamped(selected, Rows) \in Nat
           /\ Rows # <<>> => Clamped(selected, Rows) < Len(Rows)
           /\ \A i : /\ RowOf(i, Rows, 0) \in Nat
                     /\ Rows # <<>> => RowOf(i, Rows, 0) < Len(Rows)
           /\ \A i : LET k == RowOf(i, Rows, Clamped(selected, Rows))
                     IN  k \in Nat /\ (Rows # <<>> => k < Len(Rows))
<1>1. st \in [Ids -> Standings] /\ selected \in Nat
  BY DEF Types
<1>2. /\ Rows \in Seq(Row)
      /\ \A k \in 1 .. Len(Rows) : /\ Rows[k].id \in Listed
                                   /\ ~Rows[k].exited => Rows[k].id \in Live
      /\ Rows = <<>> => Listed = {}
  BY <1>1, RowsAreListed
<1>3. Len(Rows) \in Nat /\ (Rows # <<>> => 0 < Len(Rows))
  BY <1>2, LenProperties, EmptySeq
<1>4. Live \subseteq Listed /\ Listed \subseteq Ids
  BY DEF Live, Listed
<1>5. /\ Clamped(selected, Rows) \in Nat
      /\ Rows # <<>> => Clamped(selected, Rows) < Len(Rows)
  BY <1>1, <1>2, ClampedIsARow
<1>6. ASSUME NEW i PROVE /\ RowOf(i, Rows, 0) \in Nat
                         /\ Rows # <<>> => RowOf(i, Rows, 0) < Len(Rows)
  BY <1>2, <1>3, RowOfIsARow
<1>7. ASSUME NEW i PROVE LET k == RowOf(i, Rows, Clamped(selected, Rows))
                         IN  k \in Nat /\ (Rows # <<>> => k < Len(Rows))
  BY <1>2, <1>5, RowOfIsARow
<1>8. ASSUME NEW k \in Nat, k < Len(Rows)
      PROVE  Rows[k + 1].id \in Ids /\ (~Rows[k + 1].exited => Rows[k + 1].id \in Live)
  <2>1. k + 1 \in 1 .. Len(Rows)
    BY <1>3, <1>8
  <2> QED
    BY <1>2, <1>4, <2>1
<1> QED
  BY <1>2, <1>3, <1>4, <1>5, <1>6, <1>7, <1>8

\* The attachment is left for another session ...
LEMMA Left ==
    ASSUME NEW i, Leave(i)
    PROVE  /\ pc' = "attach" /\ session' = i /\ link' = "none"
           /\ rows' = <<>> /\ rows' \in Seq(Row) /\ selected' = 0 /\ target' = NoId
  BY EmptySeq DEF Leave, ToAttach

\* ... or resumed.
LEMMA Resumed ==
    ASSUME Resume
    PROVE  /\ pc' = "loop"
           /\ rows' = <<>> /\ rows' \in Seq(Row) /\ selected' = 0 /\ target' = NoId
           /\ UNCHANGED <<session, previous, retried, link>>
  BY EmptySeq DEF Resume, loopVars

\* The end of a session begins no attach.
LEMMA CutShort ==
    ASSUME NEW S, Cut(S) \/ HangUp, link' \in {"entering", "late"}
    PROVE  link \in {"entering", "late"}
  BY DEF Cut, HangUp

\* Every step of the client, of others and of the children preserves it.
LEMMA NextIInv == IInv /\ [Next]_vars => IInv'
<1> SUFFICES ASSUME IInv, [Next]_vars PROVE IInv'
  OBVIOUS
<1> USE DEF IInv, Types, Begun, SessionIsThere, Entering, Attached, FallbackIsAlive, NothingElse,
            SelectedIsARow, NoId, Standings, daemonVars, loopVars, commandVars,
            inputVars, listVars, inList, others, ListSessions,
            RequestFails, ToAttach, NewSession
<1>0. NoId \notin Ids /\ <<>> \in Seq(Row)
  BY ClientAssumption, EmptySeq DEF Ids
<1>found. /\ Live \in SUBSET Ids /\ \A i \in Live : st[i] = "live"
      /\ \A e : \/ HighestExcluding(Live, e) = NoId /\ Live \subseteq e
                \/ HighestExcluding(Live, e) \in Live \ e
      /\ \A c, d : Adjacent(Live, c, d) \in (Live \ {c}) \cup {NoId}
  BY FoundAlive
<1>1. CASE Smart
  <2>1. Cardinality(Listed) = 1 => Max(Listed) \in Ids
    <3>1. ASSUME Cardinality(Listed) = 1 PROVE Max(Listed) \in Listed
      <4>1. IsFiniteSet(Listed)
        BY ClientAssumption, FiniteIds DEF Ids, Listed
      <4>2. PICK x : Listed = {x}
        BY <3>1, <4>1, FS_Singleton
      <4>3. x \in Nat /\ x >= x
        BY <4>2, ClientAssumption DEF Listed, Ids
      <4> QED
        BY <4>2, <4>3 DEF Max
    <3> QED
      BY <3>1 DEF Listed
  <2> QED
    BY <1>0, <1>found, <1>1, <2>1 DEF Smart
<1>2. CASE Create
  BY <1>0, <1>found, <1>2 DEF Create, Fresh, Live
<1>3. CASE AttachGiven
  BY <1>0, <1>found, <1>3 DEF AttachGiven
<1>4. CASE AttachDefault
  <2>1. chosen' # NoId => chosen' \in Live
    BY <1>4, <1>found DEF AttachDefault
  <2> QED
    BY <1>0, <1>found, <1>4, <2>1 DEF AttachDefault
<1>5. CASE RequestFatal
  BY <1>5 DEF RequestFatal
<1>6. CASE AttachChecked \/ Attach
  <2>1. CASE AttachChecked
    BY <1>0, <2>1 DEF AttachChecked, Live
  <2>2. CASE Attach
    <3>1. /\ pc = "attach" /\ link \in {"entering", "late"} /\ pc' = "loop"
          /\ told' = told \ {session} /\ link' \notin {"entering", "late"}
          /\ UNCHANGED <<st, loopVars, commandVars, listVars, seen>>
      BY <2>2 DEF Attach
    <3>2. session \in Ids /\ (st[session] # "none" \/ restarted)
      BY <3>1
    <3>3. Types'
      BY <1>0, <3>1, <3>2 DEF Live
    <3>4. SelectedIsARow'
      BY <1>0, <3>1, <3>2 DEF Live
    <3>5. Begun' /\ SessionIsThere' /\ Entering'
      BY <1>0, <3>1, <3>2 DEF Live
    <3>6. FallbackIsAlive' /\ NothingElse'
      BY <1>0, <3>1, <3>2 DEF Live
    <3> QED
      BY <3>3, <3>4, <3>5, <3>6
  <2> QED
    BY <1>6, <2>1, <2>2
<1>7. CASE Unavailable
  <2>1. Types'
    BY <1>0, <1>found, <1>7 DEF Unavailable, Report, Live
  <2>2. SelectedIsARow'
    BY <1>0, <1>found, <1>7 DEF Unavailable, Report, Live
  <2>3. Begun' /\ SessionIsThere' /\ Entering'
    BY <1>0, <1>found, <1>7 DEF Unavailable, Report, Live
  <2>4. FallbackIsAlive' /\ NothingElse'
    BY <1>0, <1>found, <1>7 DEF Unavailable, Report, Live
  <2> QED
    BY <2>1, <2>2, <2>3, <2>4
<1>8. CASE Recover
  <2> DEFINE i == HighestExcluding(Live, {session})
  <2>1. /\ i # NoId => i \in Live /\ i # session
        /\ i = NoId => Live \subseteq {session}
    BY <1>found
  <2> HIDE DEF i
  <2>2. Types'
    BY <1>0, <1>found, <1>8, <2>1 DEF Recover, i, Live
  <2>3. SelectedIsARow'
    BY <1>0, <1>found, <1>8, <2>1 DEF Recover, i, Live
  <2>4. Begun' /\ SessionIsThere' /\ Entering'
    BY <1>0, <1>found, <1>8, <2>1 DEF Recover, i, Live
  <2>5. FallbackIsAlive' /\ NothingElse'
    BY <1>0, <1>found, <1>8, <2>1 DEF Recover, i, Live
  <2> QED
    BY <2>2, <2>3, <2>4, <2>5
<1>9. CASE FallBack
  BY <1>0, <1>found, <1>9 DEF FallBack, TakePrevious
<1>10. CASE GiveUp
  BY <1>0, <1>found, <1>10 DEF GiveUp, Report
<1>11. CASE NextAfterExit
  <2> DEFINE i == HighestExcluding(Live, {session})
  <2>1. /\ i # NoId => i \in Live /\ i # session
        /\ i = NoId => Live \subseteq {session}
    BY <1>found
  <2> HIDE DEF i
  <2>2. Types'
    BY <1>0, <1>found, <1>11, <2>1, Left DEF NextAfterExit, i, Live
  <2>3. SelectedIsARow'
    BY <1>0, <1>found, <1>11, <2>1, Left DEF NextAfterExit, i, Live
  <2>4. Begun' /\ SessionIsThere' /\ Entering'
    BY <1>0, <1>found, <1>11, <2>1, Left DEF NextAfterExit, i, Live
  <2>5. FallbackIsAlive' /\ NothingElse'
    BY <1>0, <1>found, <1>11, <2>1, Left DEF NextAfterExit, i, Live
  <2> QED
    BY <2>2, <2>3, <2>4, <2>5
<1>12. CASE Shutdown
  BY <1>12 DEF Shutdown, Stopped, Live
<1>13. CASE Detach
  BY <1>13 DEF Detach
<1>14. CASE OpenOverlay
  BY <1>14 DEF OpenOverlay
<1>15. CASE Neighbour
  <2> DEFINE i == Adjacent(Live, session, asked)
  <2>1. i # NoId => i \in Live /\ i # session
    BY <1>found
  <2> HIDE DEF i
  <2>2. Types'
    BY <1>0, <1>found, <1>15, <2>1, Resumed, Left DEF Neighbour, SwitchTo, i, Live
  <2>3. SelectedIsARow'
    BY <1>0, <1>found, <1>15, <2>1, Resumed, Left DEF Neighbour, SwitchTo, i, Live
  <2>4. Begun' /\ SessionIsThere' /\ Entering'
    BY <1>0, <1>found, <1>15, <2>1, Resumed, Left DEF Neighbour, SwitchTo, i, Live
  <2>5. FallbackIsAlive' /\ NothingElse'
    BY <1>0, <1>found, <1>15, <2>1, Resumed, Left DEF Neighbour, SwitchTo, i, Live
  <2> QED
    BY <2>2, <2>3, <2>4, <2>5
<1>16. CASE NeighbourFails
  BY <1>0, <1>found, <1>16, Resumed DEF NeighbourFails
<1>17. CASE OpenList
  BY <1>0, <1>found, <1>17, Shown DEF OpenList
<1>18. CASE ListRenamed
  BY <1>0, <1>found, <1>18, Shown DEF ListRenamed
<1>19. CASE ListKilled
  <2> DEFINE i == HighestExcluding(Live, {target})
  <2>1. /\ i # NoId => i \in Live /\ i # target
        /\ i = NoId => Live \subseteq {target}
    BY <1>found
  <2>2. /\ Rows \in Seq(Row) /\ (Rows = <<>> => Live = {})
        /\ Clamped(selected, Rows) \in Nat
        /\ Rows # <<>> => Clamped(selected, Rows) < Len(Rows)
    BY Shown
  <2> HIDE DEF i
  <2>3. CASE Rows = <<>>
    BY <1>0, <1>found, <1>19, <2>1, <2>2, <2>3 DEF ListKilled, Quit
  <2>4. CASE Rows # <<>> /\ target = session
    <3>1. Types'
      <4>1. CASE i = NoId
        <5>1. Quit
          BY <1>19, <2>4, <4>1 DEF ListKilled, i
        <5>2. rows' \in Seq(Row)
          BY <1>0, <5>1 DEF Quit
        <5> QED
          BY <1>found, <1>19, <5>1, <5>2 DEF ListKilled, Quit
      <4>2. CASE i # NoId
        <5>1. SwitchToFresh(i)
          BY <1>19, <2>4, <4>2 DEF ListKilled, i
        <5> QED
          BY <1>0, <1>found, <1>19, <2>1, <4>2, <5>1, Left DEF ListKilled, SwitchToFresh
      <4> QED
        BY <4>1, <4>2
    <3>2. SelectedIsARow'
      BY <1>0, <1>found, <1>19, <2>1, <2>2, <2>4, Left DEF ListKilled, Quit, SwitchToFresh, i, Live
    <3>3. Begun' /\ SessionIsThere' /\ Entering'
      BY <1>0, <1>found, <1>19, <2>1, <2>2, <2>4, Left DEF ListKilled, Quit, SwitchToFresh, i, Live
    <3>4. FallbackIsAlive' /\ NothingElse'
      BY <1>0, <1>found, <1>19, <2>1, <2>2, <2>4, Left DEF ListKilled, Quit, SwitchToFresh, i, Live
    <3> QED
      BY <3>1, <3>2, <3>3, <3>4
  <2>5. CASE Rows # <<>> /\ target # session
    BY <1>0, <1>found, <1>19, <2>1, <2>2, <2>5 DEF ListKilled, Quit
  <2> QED
    BY <2>3, <2>4, <2>5
<1>20. CASE Ended
  BY <1>20 DEF Ended
<1>21. CASE UserAsks
  BY <1>21 DEF UserAsks
<1>22. CASE CloseHelp \/ CloseList
  <2>1. Types'
    BY <1>0, <1>found, <1>22, Resumed DEF CloseHelp, CloseList, Live
  <2>2. SelectedIsARow'
    BY <1>0, <1>found, <1>22, Resumed DEF CloseHelp, CloseList, Live
  <2>3. Begun' /\ SessionIsThere' /\ Entering'
    BY <1>0, <1>found, <1>22, Resumed DEF CloseHelp, CloseList, Live
  <2>4. FallbackIsAlive' /\ NothingElse'
    BY <1>0, <1>found, <1>22, Resumed DEF CloseHelp, CloseList, Live
  <2> QED
    BY <2>1, <2>2, <2>3, <2>4
<1>23. CASE Move
  <2>1. /\ selected > 0 => selected - 1 \in Nat /\ selected - 1 < selected
        /\ Clamped(selected + 1, rows) \in Nat
        /\ rows # <<>> => Clamped(selected + 1, rows) < Len(rows) /\ Len(rows) \in Nat
    BY ClampedIsARow, LenProperties
  <2> QED
    BY <1>23, <2>1 DEF Move
<1>24. CASE CreateInList
  <2>1. Types'
    BY <1>0, <1>found, <1>24, Left DEF CreateInList, Fresh, SwitchTo, Live
  <2>2. SelectedIsARow'
    BY <1>0, <1>found, <1>24, Left DEF CreateInList, Fresh, SwitchTo, Live
  <2>3. Begun' /\ SessionIsThere' /\ Entering'
    BY <1>0, <1>found, <1>24, Left DEF CreateInList, Fresh, SwitchTo, Live
  <2>4. FallbackIsAlive' /\ NothingElse'
    BY <1>0, <1>found, <1>24, Left DEF CreateInList, Fresh, SwitchTo, Live
  <2> QED
    BY <2>1, <2>2, <2>3, <2>4
<1>25. ASSUME NEW what \in {"rename", "kill"}, Prompt(what) PROVE IInv'
  <2> DEFINE k == Clamped(selected, rows)
  <2>1. k \in Nat /\ (rows # <<>> => k < Len(rows)) /\ Len(rows) \in Nat
    BY ClampedIsARow, LenProperties
  <2> HIDE DEF k
  <2>2. rows[k + 1] \in Row
    <3>1. k + 1 \in 1 .. Len(rows)
      BY <1>25, <2>1 DEF Prompt
    <3> QED
      BY <3>1, LenProperties
  <2>3. target' \in Ids
    BY <1>25, <2>2 DEF Prompt, Row, k
  <2> QED
    BY <1>25, <2>1, <2>3 DEF Prompt, k
<1>26. CASE Decline
  BY <1>26 DEF Decline
<1>27. CASE Rename
  BY <1>27 DEF Rename
<1>28. CASE Kill
  <2>1. Types'
    BY <1>0, <1>found, <1>28, CutShort DEF Kill, Live
  <2>2. SelectedIsARow'
    BY <1>0, <1>found, <1>28, CutShort DEF Kill, Live
  <2>3. Begun' /\ SessionIsThere' /\ Entering'
    BY <1>0, <1>found, <1>28, CutShort DEF Kill, Live
  <2>4. FallbackIsAlive' /\ NothingElse'
    BY <1>0, <1>found, <1>28, CutShort DEF Kill, Live
  <2> QED
    BY <2>1, <2>2, <2>3, <2>4
<1>29. CASE Select
  <2> DEFINE k == Clamped(selected, Rows)
  <2>1. /\ Rows \in Seq(Row) /\ k \in Nat
        /\ Rows # <<>> => /\ k < Len(Rows)
                          /\ Rows[k + 1].id \in Ids
                          /\ ~Rows[k + 1].exited => Rows[k + 1].id \in Live
    BY Shown
  <2> HIDE DEF k
  <2>2. Types'
    BY <1>0, <1>found, <1>29, <2>1, Resumed, Left DEF Select, SwitchTo, k, Live
  <2>3. SelectedIsARow'
    BY <1>0, <1>found, <1>29, <2>1, Resumed, Left DEF Select, SwitchTo, k, Live
  <2>4. Begun' /\ SessionIsThere' /\ Entering'
    BY <1>0, <1>found, <1>29, <2>1, Resumed, Left DEF Select, SwitchTo, k, Live
  <2>5. FallbackIsAlive' /\ NothingElse'
    BY <1>0, <1>found, <1>29, <2>1, Resumed, Left DEF Select, SwitchTo, k, Live
  <2> QED
    BY <2>2, <2>3, <2>4, <2>5
<1>30. CASE OtherNew
  BY <1>30 DEF OtherNew, Fresh, Live
<1>31. CASE OtherKill
  BY <1>31, CutShort DEF OtherKill, Listed, Live
<1>32. CASE OtherStop
  BY <1>32, CutShort DEF OtherStop, Stopped, Live
<1>33. CASE ChildExits
  BY <1>33, CutShort DEF ChildExits, Live
<1>34. CASE Retired
  BY <1>34 DEF Retired, Live
<1>35. CASE UNCHANGED vars
  BY <1>35 DEF vars, Live
<1> QED
  BY <1>1, <1>2, <1>3, <1>4, <1>5, <1>6, <1>7, <1>8, <1>9, <1>10, <1>11, <1>12, <1>13,
     <1>14, <1>15, <1>16, <1>17, <1>18, <1>19, <1>20, <1>21, <1>22, <1>23, <1>24, <1>25,
     <1>26, <1>27, <1>28, <1>29, <1>30, <1>31, <1>32, <1>33, <1>34, <1>35
  DEF Next, ClientStep, User, Others

\* The inductive invariant holds in every behaviour.
THEOREM Invariance == Spec => []IInv
<1>1. Init => IInv
  BY InitIInv
<1>2. IInv /\ [Next]_vars => IInv'
  BY NextIInv
<1> QED
  BY <1>1, <1>2, PTL DEF Spec

-----------------------------------------------------------------------------
(* The properties the runs check.                                          *)

\* The row that is selected exists, whatever disappeared between two listings.
THEOREM SelectionExists == Spec => []SelectedIsARow
<1>1. IInv => SelectedIsARow
  BY DEF IInv
<1> QED
  BY <1>1, Invariance, PTL

\* When the client stops the daemon, its last listing showed no live session but
\* the one it takes for ended that is still alive.
THEOREM NobodyElseIsStopped == Spec => StopIsJustified
<1> DEFINE Justified == Shutdown /\ up => (seen \cap Live) \subseteq {session}
<1>1. IInv => Justified
  BY DEF IInv, NothingElse, Shutdown
<1>2. Spec => [][Justified]_vars
  BY <1>1, Invariance, PTL
<1> QED
  BY <1>2 DEF StopIsJustified

\* The client never turns to a session it knows to have ended, but for the one
\* it came from when a recovery has already led it there.
THEOREM NeverBackToTheDead == Spec => NoReturnToTheDead
<1> DEFINE Alive == pc # "attach" /\ pc' = "attach" /\ session' \in told' =>
                        (session' = previous /\ retried) \/ restarted
<1>1. IInv /\ [Next]_vars => [Alive]_vars
  <2> SUFFICES ASSUME IInv, Next, pc # "attach", pc' = "attach", session' \in told'
               PROVE  (session' = previous /\ retried) \/ restarted
    OBVIOUS
  <2>1. /\ Live \in SUBSET Ids
        /\ \A e : \/ HighestExcluding(Live, e) = NoId /\ Live \subseteq e
                  \/ HighestExcluding(Live, e) \in Live \ e
        /\ \A c, d : Adjacent(Live, c, d) \in (Live \ {c}) \cup {NoId}
    BY FoundAlive DEF IInv
  <2>2. NoId \notin Ids
    BY ClientAssumption DEF Ids, NoId
  <2> USE DEF ToAttach, ListSessions
  <2>3. CASE Smart \/ Create \/ AttachGiven
    BY <2>3 DEF Smart, Create, AttachGiven, IInv, Begun
  <2>4. CASE AttachDefault
    BY <2>1, <2>4 DEF AttachDefault
  <2>5. CASE Recover \/ NextAfterExit \/ Neighbour
    BY <2>1, <2>2, <2>5, Left, Resumed DEF Recover, NextAfterExit, Neighbour, SwitchTo
  <2>6. CASE FallBack
    BY <2>6 DEF FallBack, IInv, FallbackIsAlive, commandVars
  <2>7. CASE CreateInList
    BY <2>7, Left DEF CreateInList, SwitchTo
  <2>8. CASE ListKilled
    BY <2>1, <2>2, <2>8, Left DEF ListKilled, Quit, SwitchToFresh
  <2>9. CASE Select
    BY <2>9, Shown, Left, Resumed DEF Select, SwitchTo, IInv
  <2> QED
    BY <2>3, <2>4, <2>5, <2>6, <2>7, <2>8, <2>9, Resumed
    DEF Next, ClientStep, User, Others, RequestFatal, AttachChecked, Attach, Unavailable, Report, GiveUp,
        Shutdown, Detach, OpenOverlay, NeighbourFails, OpenList, ListRenamed, Ended,
        UserAsks, CloseHelp, Move, CloseList, Prompt, Decline, Rename, Kill, OtherNew,
        OtherKill, OtherStop, ChildExits, Retired, others
<1>2. Spec => [][Alive]_vars
  BY <1>1, Invariance, PTL DEF Spec
<1> QED
  BY <1>2 DEF NoReturnToTheDead

=============================================================================
