-------------------------- MODULE SignalInputsProofs --------------------------
(***************************************************************************)
(* Proofs about training sets, signals and evaluations, for any bars,      *)
(* windows, dates, thresholds and samples.                                 *)
(***************************************************************************)
EXTENDS SignalInputs, Evaluation, FiniteSetTheorems, SequenceTheorems,
        WellFoundedInduction, TLAPS

-----------------------------------------------------------------------------
(* Ranked: a finite set in a strict total order is enumerated in that order.*)

TotalOrder(S, R) ==
    /\ \A x \in S : <<x, x>> \notin R
    /\ \A x, y, z \in S : <<x, y>> \in R /\ <<y, z>> \in R => <<x, z>> \in R
    /\ \A x, y \in S : x = y \/ <<x, y>> \in R \/ <<y, x>> \in R

Below(S, R, x) == {y \in S : <<y, x>> \in R}

LEMMA BelowCounts ==
    ASSUME NEW S, NEW R, IsFiniteSet(S), TotalOrder(S, R), NEW x \in S
    PROVE  /\ Cardinality(S) \in Nat
           /\ Cardinality(Below(S, R, x)) \in 0..(Cardinality(S) - 1)
<1>1. Below(S, R, x) \in SUBSET S /\ x \notin Below(S, R, x)
  BY DEF Below, TotalOrder
<1>2. Below(S, R, x) # S
  BY <1>1
<1>3. /\ IsFiniteSet(Below(S, R, x))
      /\ Cardinality(Below(S, R, x)) <= Cardinality(S)
      /\ Cardinality(S) # Cardinality(Below(S, R, x))
  BY <1>1, <1>2, FS_Subset
<1>4. Cardinality(S) \in Nat /\ Cardinality(Below(S, R, x)) \in Nat
  BY <1>3, FS_CardinalityType
<1> QED BY <1>3, <1>4

LEMMA BelowGrows ==
    ASSUME NEW S, NEW R, IsFiniteSet(S), TotalOrder(S, R),
           NEW x \in S, NEW y \in S, <<x, y>> \in R
    PROVE  Cardinality(Below(S, R, x)) < Cardinality(Below(S, R, y))
<1>1. Below(S, R, x) \in SUBSET Below(S, R, y)
  BY DEF Below, TotalOrder
<1>2. x \in Below(S, R, y) /\ x \notin Below(S, R, x)
  BY DEF Below, TotalOrder
<1>3. Below(S, R, y) \in SUBSET S
  BY DEF Below
<1>4. IsFiniteSet(Below(S, R, y))
  BY <1>3, FS_Subset
<1>5. /\ Cardinality(Below(S, R, x)) <= Cardinality(Below(S, R, y))
      /\ Cardinality(Below(S, R, x)) # Cardinality(Below(S, R, y))
  BY <1>1, <1>2, <1>4, FS_Subset
<1>6. Cardinality(Below(S, R, x)) \in Nat /\ Cardinality(Below(S, R, y)) \in Nat
  BY BelowCounts
<1> QED BY <1>5, <1>6

LEMMA BelowIsUnique ==
    ASSUME NEW S, NEW R, IsFiniteSet(S), TotalOrder(S, R), NEW x \in S, NEW y \in S,
           Cardinality(Below(S, R, x)) = Cardinality(Below(S, R, y))
    PROVE  x = y
<1>1. Cardinality(Below(S, R, x)) \in Nat
  BY BelowCounts
<1>2. CASE <<x, y>> \in R
  BY <1>1, <1>2, BelowGrows
<1>3. CASE <<y, x>> \in R
  BY <1>1, <1>3, BelowGrows
<1> QED BY <1>2, <1>3 DEF TotalOrder

LEMMA RanksAreTaken ==
    ASSUME NEW S, NEW R, IsFiniteSet(S), TotalOrder(S, R), NEW n \in 1..Cardinality(S)
    PROVE  \E x \in S : Cardinality(Below(S, R, x)) = n - 1
<1> DEFINE N == Cardinality(S)
           rank == [x \in S |-> Cardinality(Below(S, R, x)) + 1]
<1>1. N \in Nat
  BY FS_CardinalityType
<1>2. IsFiniteSet(1..N) /\ Cardinality(1..N) = N
  <2>1. 1 \in Int /\ N \in Int
    BY <1>1
  <2>2. IsFiniteSet(1..N) /\ Cardinality(1..N) = IF 1 > N THEN 0 ELSE N - 1 + 1
    BY <2>1, FS_Interval
  <2> QED BY <1>1, <2>2
<1>3. \A x \in S : Cardinality(Below(S, R, x)) \in 0..(N - 1)
  BY BelowCounts
<1>4. rank \in [S -> 1..N]
  BY <1>1, <1>3
<1>5. \A x, y \in S : rank[x] = rank[y] => x = y
  <2> SUFFICES ASSUME NEW x \in S, NEW y \in S, rank[x] = rank[y] PROVE x = y
    OBVIOUS
  <2>1. Cardinality(Below(S, R, x)) = Cardinality(Below(S, R, y))
    BY <1>3
  <2> QED BY <2>1, BelowIsUnique
<1>6. rank \in Injection(S, 1..N)
  BY <1>4, <1>5 DEF Injection, IsInjective
<1>7. rank \in Surjection(S, 1..N)
  BY <1>2, <1>6, FS_Injection
<1>8. \E x \in S : rank[x] = n
  BY <1>7 DEF Surjection
<1>9. PICK x \in S : rank[x] = n
  BY <1>8
<1> QED BY <1>1, <1>3, <1>9

LEMMA RankedIsInOrder ==
    ASSUME NEW S, NEW R, IsFiniteSet(S), TotalOrder(S, R)
    PROVE  /\ Cardinality(S) \in Nat
           /\ Ranked(S, R) \in [1..Cardinality(S) -> S]
           /\ \A n \in 1..Cardinality(S) : Cardinality(Below(S, R, Ranked(S, R)[n])) = n - 1
           /\ \A x \in S : \E n \in 1..Cardinality(S) : Ranked(S, R)[n] = x
           /\ \A m, n \in 1..Cardinality(S) : m < n => <<Ranked(S, R)[m], Ranked(S, R)[n]>> \in R
<1> DEFINE N == Cardinality(S)
           s == Ranked(S, R)
<1>1. N \in Nat
  BY FS_CardinalityType
<1>2. DOMAIN s = 1..N
  BY DEF Ranked
<1>3. \A n \in 1..N : s[n] \in S /\ Cardinality(Below(S, R, s[n])) = n - 1
  <2> SUFFICES ASSUME NEW n \in 1..N
               PROVE  s[n] \in S /\ Cardinality(Below(S, R, s[n])) = n - 1
    OBVIOUS
  <2>1. s[n] = CHOOSE x \in S : Cardinality(Below(S, R, x)) = n - 1
    BY DEF Ranked, Below
  <2>2. \E x \in S : Cardinality(Below(S, R, x)) = n - 1
    BY RanksAreTaken
  <2> QED BY <2>1, <2>2
<1>4. s \in [1..N -> S]
  <2> DEFINE G(n) == CHOOSE x \in S : Cardinality({y \in S : <<y, x>> \in R}) = n - 1
  <2>1. s = [n \in 1..N |-> G(n)]
    BY DEF Ranked
  <2> HIDE DEF G
  <2>2. \A n \in 1..N : s[n] = G(n)
    BY <2>1
  <2>3. \A n \in 1..N : G(n) \in S
    BY <1>3, <2>2
  <2>4. [n \in 1..N |-> G(n)] \in [1..N -> S]
    BY <2>3
  <2> QED BY <2>1, <2>4
<1>5. \A x \in S : \E n \in 1..N : s[n] = x
  <2> SUFFICES ASSUME NEW x \in S PROVE \E n \in 1..N : s[n] = x
    OBVIOUS
  <2> DEFINE n == Cardinality(Below(S, R, x)) + 1
  <2>1. n \in 1..N /\ Cardinality(Below(S, R, x)) = n - 1
    BY <1>1, BelowCounts
  <2>2. s[n] \in S /\ Cardinality(Below(S, R, s[n])) = Cardinality(Below(S, R, x))
    BY <1>3, <2>1
  <2>3. s[n] = x
    BY <2>2, BelowIsUnique
  <2> QED BY <2>1, <2>3
<1>6. \A m, n \in 1..N : m < n => <<s[m], s[n]>> \in R
  <2> SUFFICES ASSUME NEW m \in 1..N, NEW n \in 1..N, m < n PROVE <<s[m], s[n]>> \in R
    OBVIOUS
  <2>1. s[m] \in S /\ s[n] \in S
    BY <1>3
  <2>2. /\ Cardinality(Below(S, R, s[m])) = m - 1
        /\ Cardinality(Below(S, R, s[n])) = n - 1
    BY <1>3
  <2>3. s[m] # s[n]
    BY <2>2
  <2>4. <<s[n], s[m]>> \notin R
    <3> SUFFICES ASSUME <<s[n], s[m]>> \in R PROVE FALSE
      OBVIOUS
    <3>1. Cardinality(Below(S, R, s[n])) < Cardinality(Below(S, R, s[m]))
      BY <2>1, BelowGrows
    <3> QED BY <2>2, <3>1
  <2> QED BY <2>1, <2>3, <2>4 DEF TotalOrder
<1> QED BY <1>1, <1>3, <1>4, <1>5, <1>6

(***************************************************************************)
(* A set that only lacks the first members of another is enumerated like   *)
(* the end of the other.                                                   *)
(***************************************************************************)
Ends(S, R, T, Q) ==
    /\ T \subseteq S
    /\ \A x, y \in T : <<x, y>> \in Q <=> <<x, y>> \in R
    /\ \A x \in S \ T, y \in T : <<x, y>> \in R

Shifted(short, long, n, k) == \A m \in 1..n : short[m] = long[k + m]

LEMMA RankedSuffix ==
    ASSUME NEW S, NEW R, IsFiniteSet(S), TotalOrder(S, R), NEW T, NEW Q, Ends(S, R, T, Q)
    PROVE  /\ IsFiniteSet(T) /\ TotalOrder(T, Q)
           /\ Cardinality(T) \in Nat /\ Cardinality(S \ T) \in Nat
           /\ Cardinality(S) = Cardinality(S \ T) + Cardinality(T)
           /\ Shifted(Ranked(T, Q), Ranked(S, R), Cardinality(T), Cardinality(S \ T))
<1> DEFINE k == Cardinality(S \ T)
<1>1. T \in SUBSET S /\ IsFiniteSet(T)
  BY FS_Subset DEF Ends
<1>2. TotalOrder(T, Q)
  BY DEF TotalOrder, Ends
<1>3. IsFiniteSet(S \ T) /\ k = Cardinality(S) - Cardinality(S \cap T)
  BY FS_Difference
<1>4. Cardinality(S \cap T) = Cardinality(T)
  <2>1. S \cap T = T
    BY <1>1
  <2> QED BY <2>1
<1>5. Cardinality(T) \in Nat /\ k \in Nat /\ Cardinality(S) \in Nat
  BY <1>1, <1>3, FS_CardinalityType
<1>6. Cardinality(S) = k + Cardinality(T)
  BY <1>3, <1>4, <1>5
<1>7. ASSUME NEW y \in T
      PROVE  Cardinality(Below(S, R, y)) = k + Cardinality(Below(T, Q, y))
  <2>1. Below(S, R, y) = (S \ T) \cup Below(T, Q, y)
    BY DEF Below, Ends
  <2>2. (S \ T) \cap Below(T, Q, y) = {}
    BY DEF Below
  <2>3. Below(T, Q, y) \in SUBSET T
    BY DEF Below
  <2>4. IsFiniteSet(Below(T, Q, y))
    BY <1>1, <2>3, FS_Subset
  <2>5. Cardinality((S \ T) \cup Below(T, Q, y))
          = k + Cardinality(Below(T, Q, y)) - Cardinality((S \ T) \cap Below(T, Q, y))
    BY <1>3, <2>4, FS_Union
  <2>6. Cardinality((S \ T) \cap Below(T, Q, y)) = 0
    BY <2>2, FS_EmptySet
  <2>7. Cardinality(Below(T, Q, y)) \in Nat
    BY <2>4, FS_CardinalityType
  <2> QED BY <1>5, <2>1, <2>5, <2>6, <2>7
<1>8. ASSUME NEW n \in 1..Cardinality(T)
      PROVE  Ranked(T, Q)[n] = Ranked(S, R)[k + n]
  <2> DEFINE m == k + n
             y == Ranked(T, Q)[n]
             x == Ranked(S, R)[m]
  <2>1. y \in T /\ Cardinality(Below(T, Q, y)) = n - 1
    BY <1>1, <1>2, RankedIsInOrder
  <2>2. m \in 1..Cardinality(S)
    BY <1>5, <1>6
  <2>3. x \in S /\ Cardinality(Below(S, R, x)) = m - 1
    <3> HIDE DEF m
    <3> QED BY <2>2, RankedIsInOrder
  <2>4. Cardinality(Below(S, R, y)) = k + (n - 1)
    BY <1>7, <2>1
  <2>5. Cardinality(Below(S, R, y)) = Cardinality(Below(S, R, x))
    BY <1>5, <2>3, <2>4
  <2> QED BY <1>1, <2>1, <2>3, <2>5, BelowIsUnique
<1> QED BY <1>1, <1>2, <1>5, <1>6, <1>8 DEF Shifted

LEMMA FiniteMax ==
    ASSUME NEW S, IsFiniteSet(S), S \subseteq Int, S # {}
    PROVE  Max(S) \in S /\ \A x \in S : x <= Max(S)
<1> DEFINE R == {p \in S \X S : p[1] < p[2]}
           N == Cardinality(S)
           s == Ranked(S, R)
<1>1. TotalOrder(S, R)
  BY DEF TotalOrder
<1>2. /\ N \in Nat
      /\ \A n \in 1..N : s[n] \in S
      /\ \A x \in S : \E n \in 1..N : s[n] = x
      /\ \A m, n \in 1..N : m < n => <<s[m], s[n]>> \in R
  <2> HIDE DEF R
  <2>1. /\ Cardinality(S) \in Nat
        /\ Ranked(S, R) \in [1..Cardinality(S) -> S]
        /\ \A x \in S : \E n \in 1..Cardinality(S) : Ranked(S, R)[n] = x
        /\ \A m, n \in 1..Cardinality(S) :
                m < n => <<Ranked(S, R)[m], Ranked(S, R)[n]>> \in R
    BY <1>1, RankedIsInOrder
  <2>2. N \in Nat /\ s \in [1..N -> S]
    BY <2>1
  <2> QED BY <2>1, <2>2
<1>3. \A m, n \in 1..N : m < n => s[m] < s[n]
  BY <1>2
<1> HIDE DEF s, N, R
<1>4. N \in 1..N
  <2>1. PICK x \in S : TRUE
    OBVIOUS
  <2>2. PICK n \in 1..N : s[n] = x
    BY <1>2
  <2> QED BY <1>2, <2>2
<1>5. s[N] \in S /\ \A x \in S : s[N] >= x
  <2>1. s[N] \in S
    BY <1>2, <1>4
  <2>2. ASSUME NEW x \in S PROVE s[N] >= x
    <3>1. PICK n \in 1..N : s[n] = x
      BY <1>2
    <3>2. CASE n = N
      BY <2>1, <3>1, <3>2
    <3>3. CASE n < N
      <4>1. s[n] < s[N]
        BY <1>3, <1>4, <3>3
      <4>2. s[N] \in Int /\ x \in Int
        BY <2>1
      <4> QED BY <3>1, <4>1, <4>2
    <3> QED BY <1>2, <3>1, <3>2, <3>3
  <2> QED BY <2>1, <2>2
<1>6. Max(S) \in S /\ \A x \in S : Max(S) >= x
  BY <1>5 DEF Max
<1> QED BY <1>6

LEMMA LongestIsNatural == Longest \in Nat
<1>1. Lookbacks \subseteq Int /\ Lookbacks \subseteq Nat
  BY TrainingAssumption
<1>2. Max(Lookbacks) \in Lookbacks
  BY <1>1, FiniteMax, TrainingAssumption
<1> QED BY <1>1, <1>2 DEF Longest

-----------------------------------------------------------------------------
(* What a query returns.                                                    *)

\* The rows a query considers, and the latest revision of each bar among them.
KnownRows(i, first, last, t) ==
    {b \in bars : b.inst = i /\ b.ev \in first..last /\ Known(b, t)}

LatestRows(i, first, last, t) ==
    {b \in KnownRows(i, first, last, t) :
        \A c \in KnownRows(i, first, last, t) : c.ev = b.ev => c.avail <= b.avail}

AsBars(rows) ==
    [n \in DOMAIN rows |-> [ev |-> rows[n].ev, close |-> rows[n].shape.close,
                            volume |-> rows[n].shape.volume]]

BarsInv ==
    /\ clock \in Start..MaxTime
    /\ bars \subseteq BarRow(clock)
    /\ IsFiniteSet(bars)
    /\ OneRowPerRevision(bars)

Order(rows) == {p \in rows \X rows : p[1].ev < p[2].ev}

LEMMA QueryIsRanked ==
    ASSUME NEW i, NEW first, NEW last, NEW t
    PROVE  BarsAsOf(i, first, last, t)
             = AsBars(Ranked(LatestRows(i, first, last, t), Order(LatestRows(i, first, last, t))))
BY DEF BarsAsOf, ByEvent, AsBars, LatestRows, KnownRows, Order

LEMMA LatestIsOrdered ==
    ASSUME BarsInv, NEW i, NEW first, NEW last, NEW t
    PROVE  /\ LatestRows(i, first, last, t) \subseteq BarRow(clock)
           /\ IsFiniteSet(LatestRows(i, first, last, t))
           /\ TotalOrder(LatestRows(i, first, last, t), Order(LatestRows(i, first, last, t)))
<1> DEFINE S == LatestRows(i, first, last, t)
<1>1. S \in SUBSET bars
  BY DEF LatestRows, KnownRows
<1>2. IsFiniteSet(S)
  BY <1>1, FS_Subset DEF BarsInv
<1>3. \A x \in S : x.ev \in Int /\ x.avail \in Int
  BY <1>1, TrainingAssumption DEF BarsInv, BarRow
<1>4. \A x, y \in S : x.ev = y.ev => x = y
  <2> SUFFICES ASSUME NEW x \in S, NEW y \in S, x.ev = y.ev PROVE x = y
    OBVIOUS
  <2>1. x.avail <= y.avail /\ y.avail <= x.avail /\ x.inst = i /\ y.inst = i
    BY DEF LatestRows, KnownRows
  <2>2. x.avail = y.avail
    BY <1>3, <2>1
  <2> QED BY <1>1, <2>1, <2>2 DEF BarsInv, OneRowPerRevision
<1>5. \A x, y \in S : <<x, y>> \in Order(S) <=> x.ev < y.ev
  BY DEF Order
<1> HIDE DEF S
<1>6. TotalOrder(S, Order(S))
  BY <1>3, <1>4, <1>5 DEF TotalOrder
<1> QED BY <1>1, <1>2, <1>6 DEF S, BarsInv

(***************************************************************************)
(* A query returns a sequence of bars.                                     *)
(***************************************************************************)
LEMMA QueryTypes ==
    ASSUME BarsInv, NEW i, NEW first, NEW last, NEW t
    PROVE  BarsAsOf(i, first, last, t) \in Seq(Bars)
<1> DEFINE S == LatestRows(i, first, last, t)
           s == Ranked(S, Order(S))
           N == Cardinality(S)
<1>1. N \in Nat /\ s \in [1..N -> S] /\ S \subseteq BarRow(clock)
  BY LatestIsOrdered, RankedIsInOrder
<1>2. BarsAsOf(i, first, last, t) = AsBars(s)
  BY QueryIsRanked
<1> HIDE DEF S, s, N
<1>3. \A n \in 1..N : [ev |-> s[n].ev, close |-> s[n].shape.close,
                       volume |-> s[n].shape.volume] \in Bars
  <2> SUFFICES ASSUME NEW n \in 1..N
               PROVE  [ev |-> s[n].ev, close |-> s[n].shape.close,
                       volume |-> s[n].shape.volume] \in Bars
    OBVIOUS
  <2>1. s[n] \in BarRow(clock)
    BY <1>1
  <2>2. s[n].ev \in 1..MaxTime /\ s[n].shape \in Shape
    BY <2>1, TrainingAssumption DEF BarRow, BarsInv
  <2> QED BY <2>2 DEF Shape, Bars
<1>4. DOMAIN s = 1..N
  BY <1>1
<1>5. AsBars(s) \in [1..N -> Bars]
  BY <1>3, <1>4 DEF AsBars
<1> QED BY <1>1, <1>2, <1>5

(***************************************************************************)
(* Of two windows that end together, the shorter one has the last bars of  *)
(* the longer one.                                                         *)
(***************************************************************************)
LEMMA WindowsAgree ==
    ASSUME BarsInv, NEW i, NEW d \in Int, NEW w \in Nat, NEW v \in Nat, w <= v
    PROVE  LET short == BarsAsOf(i, d - w, d, d)
               long  == BarsAsOf(i, d - v, d, d)
           IN  /\ Len(short) <= Len(long)
               /\ Shifted(short, long, Len(short), Len(long) - Len(short))
<1> DEFINE S == LatestRows(i, d - v, d, d)
           T == LatestRows(i, d - w, d, d)
           short == BarsAsOf(i, d - w, d, d)
           long == BarsAsOf(i, d - v, d, d)
<1>1. \A b \in bars : b.ev \in Int /\ b.avail \in Int
  BY TrainingAssumption DEF BarsInv, BarRow
<1>2. T = {b \in S : b.ev \in (d - w)..d}
  BY <1>1 DEF LatestRows, KnownRows
<1>3. \A b \in S : b.ev \in (d - v)..d
  BY DEF LatestRows, KnownRows
<1>4. T \in SUBSET S
  BY <1>2
<1>5. IsFiniteSet(S) /\ TotalOrder(S, Order(S))
  BY LatestIsOrdered
<1>6. \A x, y \in T : <<x, y>> \in Order(T) <=> <<x, y>> \in Order(S)
  BY <1>4 DEF Order
<1>7. \A x \in S \ T, y \in T : <<x, y>> \in Order(S)
  BY <1>2, <1>3 DEF Order
<1>8. short = AsBars(Ranked(T, Order(T))) /\ long = AsBars(Ranked(S, Order(S)))
  BY QueryIsRanked
<1> HIDE DEF S, T, short, long
<1> DEFINE k == Cardinality(S \ T)
           M == Cardinality(T)
           N == Cardinality(S)
<1>9. /\ IsFiniteSet(T) /\ TotalOrder(T, Order(T))
      /\ M \in Nat /\ k \in Nat /\ N = k + M
      /\ \A n \in 1..M : Ranked(T, Order(T))[n] = Ranked(S, Order(S))[k + n]
  <2>1. /\ IsFiniteSet(T) /\ TotalOrder(T, Order(T))
        /\ Cardinality(T) \in Nat /\ Cardinality(S \ T) \in Nat
        /\ Cardinality(S) = Cardinality(S \ T) + Cardinality(T)
        /\ Shifted(Ranked(T, Order(T)), Ranked(S, Order(S)), Cardinality(T),
                    Cardinality(S \ T))
    <3>1. Ends(S, Order(S), T, Order(T))
      BY <1>4, <1>6, <1>7 DEF Ends
    <3> QED BY <1>5, <3>1, RankedSuffix
  <2> QED BY <2>1 DEF Shifted
<1>10. DOMAIN Ranked(T, Order(T)) = 1..M /\ DOMAIN Ranked(S, Order(S)) = 1..N
  BY DEF Ranked
<1> HIDE DEF k, M, N
<1>11. DOMAIN short = 1..M /\ DOMAIN long = 1..N
  BY <1>8, <1>10 DEF AsBars
<1>12. short \in Seq(Bars) /\ long \in Seq(Bars)
  BY QueryTypes DEF short, long
<1>13. Len(short) = M /\ Len(long) = N
  BY <1>9, <1>11, <1>12
<1>14. \A n \in 1..M : short[n] = long[k + n]
  <2> SUFFICES ASSUME NEW n \in 1..M PROVE short[n] = long[k + n]
    OBVIOUS
  <2>1. k + n \in 1..N
    BY <1>9
  <2> QED BY <1>8, <1>9, <1>10, <2>1 DEF AsBars
<1>15. N - M = k
  BY <1>9
<1>16. Len(short) <= Len(long)
  BY <1>9, <1>13
<1>17. Shifted(short, long, Len(short), Len(long) - Len(short))
  BY <1>13, <1>14, <1>15 DEF Shifted
<1> QED BY <1>16, <1>17 DEF short, long

(***************************************************************************)
(* Hence features of two windows that end together are the same, or one of *)
(* the windows is too short for any.                                       *)
(***************************************************************************)
LEMMA FeaturesAgree ==
    ASSUME NEW long \in Seq(Bars), NEW short \in Seq(Bars), Len(short) <= Len(long),
           Shifted(short, long, Len(short), Len(long) - Len(short))
    PROVE  \/ Features(short) = <<>>
           \/ Features(long) = <<>>
           \/ Features(short) = Features(long)
<1> SUFFICES ASSUME Features(short) # <<>>, Features(long) # <<>>
             PROVE  Features(short) = Features(long)
  OBVIOUS
<1> DEFINE L == Longest
<1>1. L \in Nat
  BY LongestIsNatural
<1>2. /\ Len(short) > L /\ Features(short) = LastBars(short, L + 1)
      /\ Len(long) > L /\ Features(long) = LastBars(long, L + 1)
  BY DEF Features
<1> HIDE DEF L
<1>3. /\ LastBars(short, L + 1) = SubSeq(short, Len(short) - (L + 1) + 1, Len(short))
      /\ LastBars(long, L + 1) = SubSeq(long, Len(long) - (L + 1) + 1, Len(long))
  BY DEF LastBars
<1> DEFINE p == Len(short)
           q == Len(long)
           a == p - (L + 1) + 1
           b == q - (L + 1) + 1
           s == SubSeq(short, a, p)
           l == SubSeq(long, b, q)
<1>4. p \in Nat /\ q \in Nat
  OBVIOUS
<1>5. \A n \in 1..p : short[n] = long[(q - p) + n]
  BY DEF Shifted
<1>6. \A n \in a..p : short[n] \in Bars
  BY <1>1, <1>2
<1>7. \A n \in b..q : long[n] \in Bars
  BY <1>1, <1>2
<1> HIDE DEF p, q
<1>8. /\ a \in Int /\ b \in Int /\ a \in 1..p
      /\ p - a + 1 = L + 1 /\ q - b + 1 = L + 1
      /\ a <= p /\ b <= q /\ b - a = q - p
  BY <1>1, <1>2, <1>4 DEF p, q
<1> HIDE DEF a, b
<1>9. /\ s \in Seq(Bars) /\ Len(s) = L + 1
      /\ \A n \in 1..(L + 1) : s[n] = short[a + n - 1]
  BY <1>4, <1>6, <1>8, SubSeqProperties
<1>10. /\ l \in Seq(Bars) /\ Len(l) = L + 1
       /\ \A n \in 1..(L + 1) : l[n] = long[b + n - 1]
  BY <1>4, <1>7, <1>8, SubSeqProperties
<1> HIDE DEF s, l
<1>11. \A n \in 1..(L + 1) : s[n] = l[n]
  <2> SUFFICES ASSUME NEW n \in 1..(L + 1) PROVE s[n] = l[n]
    OBVIOUS
  <2> DEFINE m == a + n - 1
  <2>1. m \in 1..p
    BY <1>1, <1>4, <1>8
  <2>2. (q - p) + m = b + n - 1
    BY <1>1, <1>4, <1>8
  <2>3. s[n] = short[m]
    BY <1>9
  <2>4. l[n] = long[(q - p) + m]
    BY <1>10, <2>2
  <2> HIDE DEF m
  <2> QED BY <1>5, <2>1, <2>3, <2>4
<1>12. s = l
  BY <1>1, <1>9, <1>10, <1>11
<1> QED BY <1>2, <1>3, <1>12 DEF a, b, p, q, s, l

-----------------------------------------------------------------------------
(* The table of bars.                                                       *)

LEMMA BarsInit == ASSUME Init PROVE BarsInv
<1>1. bars = History /\ clock = Start
  BY DEF Init
<1>2. Start \in Start..MaxTime
  BY TrainingAssumption
<1> QED BY <1>1, <1>2, TrainingAssumption DEF BarsInv

LEMMA BarsStep ==
    ASSUME BarsInv, [Next]_vars
    PROVE  /\ BarsInv'
           /\ clock \in Nat /\ clock' \in Nat /\ clock <= clock'
           /\ bars \subseteq bars' /\ \A b \in bars' : b \in bars \/ b.avail = clock
<1>1. clock \in Nat /\ Start \in Nat /\ MaxTime \in Nat
  BY TrainingAssumption DEF BarsInv
<1>2. BarRow(clock) \subseteq BarRow(clock + 1)
  BY <1>1 DEF BarRow
<1>3. CASE Tick
  <2>1. bars' = bars /\ clock' = clock + 1 /\ clock < MaxTime
    BY <1>3 DEF Tick
  <2> QED BY <1>1, <1>2, <2>1 DEF BarsInv, OneRowPerRevision
<1>4. ASSUME NEW i \in Instruments, NEW ev \in 1..clock, NEW shape \in Shapes,
             CommitBar(i, ev, shape)
      PROVE  /\ BarsInv'
             /\ clock \in Nat /\ clock' \in Nat /\ clock <= clock'
             /\ bars \subseteq bars' /\ \A b \in bars' : b \in bars \/ b.avail = clock
  <2> DEFINE row == [inst |-> i, ev |-> ev, shape |-> shape, avail |-> clock]
  <2>1. /\ bars' = bars \cup {row} /\ clock' = clock
        /\ ~ \E b \in bars : b.inst = i /\ b.ev = ev /\ b.avail = clock
    BY <1>4 DEF CommitBar
  <2>2. row \in BarRow(clock)
    BY <1>1, TrainingAssumption DEF BarRow, BarsInv
  <2>3. IsFiniteSet(bars \cup {row})
    BY FS_AddElement DEF BarsInv
  <2>4. row.inst = i /\ row.ev = ev /\ row.avail = clock
    OBVIOUS
  <2> HIDE DEF row
  <2>5. OneRowPerRevision(bars \cup {row})
    BY <2>1, <2>4 DEF OneRowPerRevision, BarsInv
  <2>6. BarsInv'
    BY <2>1, <2>2, <2>3, <2>5 DEF BarsInv
  <2> QED BY <1>1, <2>1, <2>4, <2>6
<1>5. CASE UNCHANGED <<clock, bars>>
  BY <1>1, <1>5 DEF BarsInv, OneRowPerRevision
<1>6. ASSUME NEW i \in Instruments, NEW dates \in Dates, NEW t \in 1..MaxTime,
             StartBuild(i, dates, t)
      PROVE  UNCHANGED <<clock, bars>>
  BY <1>6 DEF StartBuild
<1>7. FetchFeatures => UNCHANGED <<clock, bars>>
  BY DEF FetchFeatures, Advance
<1>8. FetchLabel => UNCHANGED <<clock, bars>>
  BY DEF FetchLabel, Advance
<1>9. ASSUME NEW f \in Fractions, Split(f)
      PROVE  UNCHANGED <<clock, bars>>
  BY <1>9 DEF Split
<1>10. UNCHANGED vars => UNCHANGED <<clock, bars>>
  BY DEF vars
<1> QED BY <1>3, <1>4, <1>5, <1>6, <1>7, <1>8, <1>9, <1>10 DEF Next

(***************************************************************************)
(* A query as of an instant that is past returns what it returned before.  *)
(***************************************************************************)
LEMMA QueryIsStable ==
    ASSUME BarsInv, [Next]_vars, NEW i, NEW first, NEW last, NEW t \in Int, t < clock
    PROVE  BarsAsOf(i, first, last, t)' = BarsAsOf(i, first, last, t)
<1>1. /\ clock \in Nat /\ bars \subseteq bars'
      /\ \A b \in bars' : b \in bars \/ b.avail = clock
  BY BarsStep
<1>2. \A b \in bars' : Known(b, t) => b \in bars
  BY <1>1 DEF Known
<1>3. KnownRows(i, first, last, t)' = KnownRows(i, first, last, t)
  BY <1>1, <1>2 DEF KnownRows, Known
<1>4. LatestRows(i, first, last, t)' = LatestRows(i, first, last, t)
  BY <1>3 DEF LatestRows
<1>5. BarsAsOf(i, first, last, t)'
        = AsBars(Ranked(LatestRows(i, first, last, t)',
                        Order(LatestRows(i, first, last, t)')))
  BY DEF BarsAsOf, ByEvent, AsBars, LatestRows, KnownRows, Order
<1> QED BY <1>4, <1>5, QueryIsRanked

LEMMA WindowsAreStable ==
    ASSUME BarsInv, [Next]_vars, NEW i, NEW d \in Int, NEW t \in Int, t < clock
    PROVE  /\ d < clock => FeatureBars(i, d)' = FeatureBars(i, d)
           /\ d < clock => ServingBars(i, d)' = ServingBars(i, d)
           /\ d < clock => RegimeBars(d)' = RegimeBars(d)
           /\ LabelBars(i, d, t)' = LabelBars(i, d, t)
<1>1. d < clock => BarsAsOf(i, d - FeatureDays, d, d)' = BarsAsOf(i, d - FeatureDays, d, d)
  BY QueryIsStable
<1>2. d < clock => BarsAsOf(i, d - ServingDays, d, d)' = BarsAsOf(i, d - ServingDays, d, d)
  BY QueryIsStable
<1>3. d < clock => BarsAsOf(Benchmark, d - RegimeDays, d, d)'
                     = BarsAsOf(Benchmark, d - RegimeDays, d, d)
  BY QueryIsStable
<1>4. BarsAsOf(i, d, d + LabelDays, t)' = BarsAsOf(i, d, d + LabelDays, t)
  BY QueryIsStable
<1> QED BY <1>1, <1>2, <1>3, <1>4 DEF FeatureBars, ServingBars, RegimeBars, LabelBars

LEMMA FeaturesType ==
    ASSUME NEW s \in Seq(Bars)
    PROVE  Features(s) \in Seq(Bars)
<1>1. CASE Len(s) > Longest
  <2>1. Len(s) \in Nat /\ Longest \in Nat
    BY LongestIsNatural
  <2> DEFINE a == Len(s) - (Longest + 1) + 1
  <2>2. a \in Int /\ a \in 1..Len(s)
    BY <1>1, <2>1
  <2>3. \A n \in a..Len(s) : s[n] \in Bars
    BY <2>1, <2>2
  <2> HIDE DEF a
  <2>4. SubSeq(s, a, Len(s)) \in Seq(Bars)
    BY <2>1, <2>2, <2>3, SubSeqProperties
  <2>5. LastBars(s, Longest + 1) \in Seq(Bars)
    BY <2>4 DEF LastBars, a
  <2> QED BY <2>5 DEF Features
<1>2. CASE ~ (Len(s) > Longest)
  BY <1>2 DEF Features
<1> QED BY <1>1, <1>2

LEMMA LabelType ==
    ASSUME NEW s \in Seq(Bars), NEW l \in Label(s)
    PROVE  /\ l.label \in {0, 1} /\ l.return \in Int \X Nat
           /\ [label |-> l.label, return |-> l.return] = l
<1> DEFINE gain == s[Horizon + 1].close - s[1].close
<1>1. Len(s) > Horizon /\ Horizon \in Nat
  BY TrainingAssumption DEF Label
<1>2. 1 \in 1..Len(s) /\ Horizon + 1 \in 1..Len(s)
  BY <1>1
<1>3. s[1].close \in Nat /\ s[Horizon + 1].close \in Nat
  <2>1. s[1] \in Bars /\ s[Horizon + 1] \in Bars
    BY <1>2, ElementOfSeq
  <2> QED BY <2>1 DEF Bars
<1>4. l = [label |-> IF 100 * gain > Threshold * s[1].close THEN 1 ELSE 0,
           return |-> <<gain, s[1].close>>]
  BY DEF Label
<1>5. gain \in Int
  BY <1>3
<1> HIDE DEF gain
<1>6. /\ l.label = IF 100 * gain > Threshold * s[1].close THEN 1 ELSE 0
      /\ l.return = <<gain, s[1].close>>
  BY <1>4
<1>7. l.label \in {0, 1}
  BY <1>6
<1> QED BY <1>3, <1>4, <1>5, <1>6, <1>7

-----------------------------------------------------------------------------
(***************************************************************************)
(* The inductive invariant of the training set.  BuildInv is what a build  *)
(* has in hand: dates that are past, and features that a repetition of the *)
(* query would give.  SamplesInv and SkipsInv say that the answers behind  *)
(* what has been collected were as of past instants, so that they still    *)
(* stand.                                                                  *)
(***************************************************************************)
BuildInv ==
    /\ at # "idle" => /\ dataAsOf[inst] > 0
                      /\ \A n \in DOMAIN todo : todo[n] <= dataAsOf[inst]
    /\ at = "label" => features # <<>> /\ features = Features(FeatureBars(inst, Head(todo)))
    /\ split # <<>> => at = "idle"

SampleStands(s) ==
    /\ dataAsOf[s.inst] > 0 /\ s.asOf <= dataAsOf[s.inst]
    /\ s.features # <<>> /\ s.features = Features(FeatureBars(s.inst, s.asOf))
    /\ [label |-> s.label, return |-> s.return]
            \in Label(LabelBars(s.inst, s.asOf, dataAsOf[s.inst]))

SkipStands(s) ==
    /\ dataAsOf[s.inst] > 0 /\ s.asOf <= dataAsOf[s.inst]
    /\ IF s.why = "features" THEN Features(FeatureBars(s.inst, s.asOf)) = <<>>
       ELSE Label(LabelBars(s.inst, s.asOf, dataAsOf[s.inst])) = {}

SamplesInv == \A n \in DOMAIN samples : SampleStands(samples[n])
SkipsInv == \A n \in DOMAIN skipped : SkipStands(skipped[n])

TrainInv == TypeOK /\ BarsInv /\ BuildInv /\ SamplesInv /\ SkipsInv

LEMMA InitTrainInv == Init => TrainInv
<1> SUFFICES ASSUME Init PROVE TrainInv
  OBVIOUS
<1>1. BarsInv
  BY BarsInit
<1>2. TypeOK
  BY <1>1, TrainingAssumption DEF Init, TypeOK, BarsInv
<1> QED BY <1>1, <1>2 DEF TrainInv, BuildInv, SamplesInv, SkipsInv, Init

\* data_as_of of a build does not change once it is given.
LEMMA DataAsOfStays ==
    ASSUME TypeOK, [Next]_vars, NEW i \in Instruments
    PROVE  /\ dataAsOf[i] \in Nat /\ dataAsOf[i] < clock
           /\ dataAsOf[i] > 0 => dataAsOf'[i] = dataAsOf[i]
<1>1. clock \in Nat /\ dataAsOf \in [Instruments -> 0..(clock - 1)]
  BY TrainingAssumption DEF TypeOK
<1>2. dataAsOf[i] \in Nat /\ dataAsOf[i] < clock
  BY <1>1
<1>3. ASSUME NEW j \in Instruments, NEW dates \in Dates, NEW t \in 1..MaxTime,
             StartBuild(j, dates, t)
      PROVE  dataAsOf[i] > 0 => dataAsOf'[i] = dataAsOf[i]
  BY <1>1, <1>3 DEF StartBuild
<1>4. ~ (\E j \in Instruments, dates \in Dates, t \in 1..MaxTime : StartBuild(j, dates, t))
        => dataAsOf' = dataAsOf
  BY DEF Next, Tick, CommitBar, FetchFeatures, FetchLabel, Advance, Split, vars
<1> QED BY <1>2, <1>3, <1>4

LEMMA AnswersStand ==
    ASSUME TypeOK, BarsInv, [Next]_vars,
           NEW i \in Instruments, NEW d \in 1..MaxTime, dataAsOf[i] > 0, d <= dataAsOf[i]
    PROVE  /\ dataAsOf'[i] = dataAsOf[i]
           /\ FeatureBars(i, d)' = FeatureBars(i, d)
           /\ LabelBars(i, d, dataAsOf[i])' = LabelBars(i, d, dataAsOf[i])
<1>1. dataAsOf[i] \in Nat /\ dataAsOf[i] < clock /\ dataAsOf'[i] = dataAsOf[i]
  BY DataAsOfStays
<1>2. clock \in Nat /\ d \in Int /\ d < clock
  BY <1>1, TrainingAssumption DEF BarsInv
<1>3. FeatureBars(i, d)' = FeatureBars(i, d)
  BY <1>1, <1>2, WindowsAreStable
<1>4. LabelBars(i, d, dataAsOf[i])' = LabelBars(i, d, dataAsOf[i])
  <2> SUFFICES ASSUME NEW r, r = dataAsOf[i]
               PROVE  LabelBars(i, d, dataAsOf[i])' = LabelBars(i, d, r)
    OBVIOUS
  <2>0. r \in Int /\ r < clock
    BY <1>1
  <2>1. LabelBars(i, d, r)' = LabelBars(i, d, r)
    BY <1>2, <2>0, WindowsAreStable
  <2>2. LabelBars(i, d, dataAsOf[i])' = LabelBars(i, d, r)'
    BY <1>1 DEF LabelBars, BarsAsOf
  <2> QED BY <2>1, <2>2
<1> QED BY <1>1, <1>3, <1>4

LEMMA SampleStays ==
    ASSUME TypeOK, BarsInv, [Next]_vars, NEW s \in Sample, SampleStands(s)
    PROVE  SampleStands(s)'
<1>1. s.inst \in Instruments /\ s.asOf \in 1..MaxTime
  BY DEF Sample
<1>2. /\ dataAsOf'[s.inst] = dataAsOf[s.inst]
      /\ FeatureBars(s.inst, s.asOf)' = FeatureBars(s.inst, s.asOf)
      /\ LabelBars(s.inst, s.asOf, dataAsOf[s.inst])' = LabelBars(s.inst, s.asOf, dataAsOf[s.inst])
  BY <1>1, AnswersStand DEF SampleStands
<1> QED BY <1>2 DEF SampleStands

LEMMA SkipStays ==
    ASSUME TypeOK, BarsInv, [Next]_vars, NEW s \in Skipped, SkipStands(s)
    PROVE  SkipStands(s)'
<1>1. s.inst \in Instruments /\ s.asOf \in 1..MaxTime
  BY DEF Skipped
<1>2. /\ dataAsOf'[s.inst] = dataAsOf[s.inst]
      /\ FeatureBars(s.inst, s.asOf)' = FeatureBars(s.inst, s.asOf)
      /\ LabelBars(s.inst, s.asOf, dataAsOf[s.inst])' = LabelBars(s.inst, s.asOf, dataAsOf[s.inst])
  BY <1>1, AnswersStand DEF SkipStands
<1> QED BY <1>2 DEF SkipStands

\* What is collected stays as it is, and nothing false is added to it.
LEMMA CollectionStands ==
    ASSUME TrainInv, [Next]_vars,
           \/ samples' = samples
           \/ \E s \in Sample : samples' = Append(samples, s) /\ SampleStands(s),
           \/ skipped' = skipped
           \/ \E s \in Skipped : skipped' = Append(skipped, s) /\ SkipStands(s)
    PROVE  /\ samples' \in Seq(Sample) /\ skipped' \in Seq(Skipped)
           /\ SamplesInv' /\ SkipsInv'
<1>1. samples \in Seq(Sample) /\ skipped \in Seq(Skipped) /\ TypeOK /\ BarsInv
  BY DEF TrainInv, TypeOK
<1>2. samples' \in Seq(Sample) /\ skipped' \in Seq(Skipped)
  <2>1. \A s \in Sample : Append(samples, s) \in Seq(Sample)
    BY <1>1, AppendProperties
  <2>2. \A s \in Skipped : Append(skipped, s) \in Seq(Skipped)
    BY <1>1, AppendProperties
  <2> QED BY <1>1, <2>1, <2>2
<1>3. ASSUME NEW n \in DOMAIN samples' PROVE SampleStands(samples[n])'
  <2>1. samples'[n] \in Sample
    BY <1>2, <1>3
  <2>2. SampleStands(samples'[n])
    <3>1. CASE samples' = samples
      BY <1>3, <3>1 DEF TrainInv, SamplesInv
    <3>2. ASSUME NEW s \in Sample, samples' = Append(samples, s), SampleStands(s)
          PROVE  SampleStands(samples'[n])
      <4>1. CASE n \in DOMAIN samples
        <5>1. samples'[n] = samples[n]
          BY <1>1, <3>2, <4>1
        <5> QED BY <4>1, <5>1 DEF TrainInv, SamplesInv
      <4>2. CASE n \notin DOMAIN samples
        <5>1. samples'[n] = s
          BY <1>1, <1>3, <3>2, <4>2
        <5> QED BY <3>2, <5>1
      <4> QED BY <4>1, <4>2
    <3> QED BY <3>1, <3>2
  <2> SUFFICES ASSUME NEW s, s = samples'[n] PROVE SampleStands(samples[n])'
    OBVIOUS
  <2>3. SampleStands(s)'
    BY <1>1, <2>1, <2>2, SampleStays
  <2> QED BY <2>3 DEF SampleStands, FeatureBars, LabelBars, BarsAsOf
<1>4. ASSUME NEW n \in DOMAIN skipped' PROVE SkipStands(skipped[n])'
  <2>1. skipped'[n] \in Skipped
    BY <1>2, <1>4
  <2>2. SkipStands(skipped'[n])
    <3>1. CASE skipped' = skipped
      BY <1>4, <3>1 DEF TrainInv, SkipsInv
    <3>2. ASSUME NEW s \in Skipped, skipped' = Append(skipped, s), SkipStands(s)
          PROVE  SkipStands(skipped'[n])
      <4>1. CASE n \in DOMAIN skipped
        <5>1. skipped'[n] = skipped[n]
          BY <1>1, <3>2, <4>1
        <5> QED BY <4>1, <5>1 DEF TrainInv, SkipsInv
      <4>2. CASE n \notin DOMAIN skipped
        <5>1. skipped'[n] = s
          BY <1>1, <1>4, <3>2, <4>2
        <5> QED BY <3>2, <5>1
      <4> QED BY <4>1, <4>2
    <3> QED BY <3>1, <3>2
  <2> SUFFICES ASSUME NEW s, s = skipped'[n] PROVE SkipStands(skipped[n])'
    OBVIOUS
  <2>3. SkipStands(s)'
    BY <1>1, <2>1, <2>2, SkipStays
  <2> QED BY <2>3 DEF SkipStands, FeatureBars, LabelBars, BarsAsOf
<1> QED BY <1>2, <1>3, <1>4 DEF SamplesInv, SkipsInv

-----------------------------------------------------------------------------
(* time_ordered_split                                                       *)

\* s and t are at two places of all: no place is counted twice.
TwoOf(all, s, t) == \E j, k \in DOMAIN all : j # k /\ s = all[j] /\ t = all[k]

(***************************************************************************)
(* The sorted samples are the samples, by as_of.                           *)
(***************************************************************************)
LEMMA OrderedIsSorted ==
    ASSUME NEW all \in Seq(Sample)
    PROVE  /\ Ordered(all) \in Seq(Sample) /\ Len(Ordered(all)) = Len(all)
           /\ Range(Ordered(all)) = Range(all)
           /\ \A m, n \in 1..Len(all) : m < n => Ordered(all)[m].asOf <= Ordered(all)[n].asOf
           /\ \A m, n \in 1..Len(all) : m < n => TwoOf(all, Ordered(all)[m], Ordered(all)[n])
<1> DEFINE S == DOMAIN all
           R == Earlier(all)
           N == Cardinality(S)
           order == Ranked(S, R)
           o == Ordered(all)
<1>1. Len(all) \in Nat /\ S = 1..Len(all)
  OBVIOUS
<1>2. IsFiniteSet(S) /\ N = Len(all)
  <2>1. /\ IsFiniteSet(1..Len(all))
        /\ Cardinality(1..Len(all)) = IF 1 > Len(all) THEN 0 ELSE Len(all) - 1 + 1
    BY <1>1, FS_Interval
  <2> QED BY <1>1, <2>1
<1>3. \A n \in S : all[n].asOf \in Int
  <2> SUFFICES ASSUME NEW n \in S PROVE all[n].asOf \in Int
    OBVIOUS
  <2>1. all[n] \in Sample
    OBVIOUS
  <2> QED BY <2>1, TrainingAssumption DEF Sample
<1>4. \A m, n \in S : <<m, n>> \in R <=> \/ all[m].asOf < all[n].asOf
                                         \/ all[m].asOf = all[n].asOf /\ m < n
  BY DEF Earlier
<1>5. TotalOrder(S, R)
  <2> HIDE DEF R
  <2>1. \A n \in S : n \in Int
    BY <1>1
  <2> QED BY <1>3, <1>4, <2>1 DEF TotalOrder
<1>6. /\ order \in [1..N -> S]
      /\ \A n \in S : \E m \in 1..N : order[m] = n
      /\ \A m, n \in 1..N : m < n => <<order[m], order[n]>> \in R
  <2>1. /\ Ranked(S, R) \in [1..Cardinality(S) -> S]
        /\ \A n \in S : \E m \in 1..Cardinality(S) : Ranked(S, R)[m] = n
        /\ \A m, n \in 1..Cardinality(S) : m < n => <<Ranked(S, R)[m], Ranked(S, R)[n]>> \in R
    BY <1>2, <1>5, RankedIsInOrder
  <2> QED BY <2>1
<1>7. o = [n \in S |-> all[order[n]]]
  BY DEF Ordered
<1> HIDE DEF order, R, N, S, o
<1>8. \A n \in S : order[n] \in S /\ o[n] = all[order[n]]
  BY <1>1, <1>2, <1>6, <1>7
<1>9. \A n \in S : all[n] \in Sample
  BY DEF S
<1>10. o \in [1..Len(all) -> Sample]
  <2>1. DOMAIN o = 1..Len(all) /\ o = [n \in S |-> o[n]]
    BY <1>1, <1>7
  <2> QED BY <1>1, <1>8, <1>9, <2>1
<1>11. o \in Seq(Sample) /\ Len(o) = Len(all)
  BY <1>1, <1>10
<1>12. Range(o) = Range(all)
  <2>1. \A x : x \in Range(o) <=> \E n \in S : x = o[n]
    BY <1>1, <1>10 DEF Range
  <2>2. \A x : x \in Range(all) <=> \E n \in S : x = all[n]
    BY DEF Range, S
  <2>3. \A n \in S : \E m \in S : all[n] = o[m]
    BY <1>1, <1>2, <1>6, <1>8
  <2> QED BY <1>8, <2>1, <2>2, <2>3
<1>13. ASSUME NEW m \in 1..Len(all), NEW n \in 1..Len(all), m < n
       PROVE  o[m].asOf <= o[n].asOf
  <2>1. <<order[m], order[n]>> \in R /\ order[m] \in S /\ order[n] \in S
    BY <1>1, <1>2, <1>6, <1>8, <1>13
  <2>2. all[order[m]].asOf <= all[order[n]].asOf
    BY <1>3, <1>4, <2>1
  <2> QED BY <1>1, <1>8, <2>2
<1>14. ASSUME NEW m \in 1..Len(all), NEW n \in 1..Len(all), m < n
       PROVE  TwoOf(all, o[m], o[n])
  <2>1. <<order[m], order[n]>> \in R /\ order[m] \in S /\ order[n] \in S
    BY <1>1, <1>2, <1>6, <1>8, <1>14
  <2>2. order[m] # order[n]
    BY <1>5, <2>1 DEF TotalOrder
  <2> QED BY <1>1, <1>8, <2>1, <2>2 DEF TwoOf, S
<1> QED BY <1>11, <1>12, <1>13, <1>14 DEF o

LEMMA SplitIndexBounds ==
    ASSUME NEW size \in Nat, size >= 2, NEW f \in Fractions
    PROVE  SplitIndex(size, f) \in 1..(size - 1)
<1>1. f[1] \in Nat /\ f[2] \in Nat /\ f[1] < f[2] /\ f[2] > 0
  BY TrainingAssumption
<1> DEFINE a == size * (f[2] - f[1])
           b == f[2]
           index == Rounded(a, b)
<1>2. a \in Int /\ b \in Nat \ {0}
  BY <1>1
<1> HIDE DEF a, b
<1>3. index \in Int
  BY <1>2 DEF Rounded
<1> HIDE DEF index
<1>4. Max({index, 1}) \in {index, 1} /\ \A x \in {index, 1} : Max({index, 1}) >= x
  <2>1. \E x \in {index, 1} : \A y \in {index, 1} : x >= y
    BY <1>3
  <2> QED BY <2>1 DEF Max
<1> DEFINE up == Max({index, 1})
<1>5. up \in Int /\ up >= 1
  BY <1>3, <1>4
<1> HIDE DEF up
<1>6. Min({up, size - 1}) \in {up, size - 1} /\ \A x \in {up, size - 1} : Min({up, size - 1}) <= x
  <2>1. \E x \in {up, size - 1} : \A y \in {up, size - 1} : x <= y
    BY <1>5
  <2> QED BY <2>1 DEF Min
<1>7. SplitIndex(size, f) = Min({up, size - 1})
  BY DEF SplitIndex, up, index, a, b
<1> QED BY <1>5, <1>6, <1>7

LEMMA SplitHalves ==
    ASSUME NEW all \in Seq(Sample), NEW index \in 1..(Len(all) - 1)
    PROVE  LET train      == SubSeq(Ordered(all), 1, index)
               validation == SubSeq(Ordered(all), index + 1, Len(Ordered(all)))
           IN  /\ train \in Seq(Sample) /\ validation \in Seq(Sample)
               /\ train # <<>> /\ validation # <<>>
               /\ Len(train) + Len(validation) = Len(all)
               /\ Range(train) \cup Range(validation) = Range(all)
               /\ \A m \in DOMAIN train, n \in DOMAIN validation :
                    train[m].asOf <= validation[n].asOf /\ TwoOf(all, train[m], validation[n])
<1> DEFINE o == Ordered(all)
           N == Len(all)
           train == SubSeq(o, 1, index)
           validation == SubSeq(o, index + 1, Len(o))
<1>1. /\ o \in Seq(Sample) /\ Len(o) = N /\ Range(o) = Range(all)
      /\ \A m, n \in 1..N : m < n => o[m].asOf <= o[n].asOf
      /\ \A m, n \in 1..N : m < n => TwoOf(all, o[m], o[n])
  BY OrderedIsSorted
<1>2. N \in Nat /\ index \in Nat /\ index >= 1 /\ index < N
  OBVIOUS
<1> HIDE DEF o, N
<1>3. \A n \in 1..N : o[n] \in Sample
  BY <1>1, ElementOfSeq
<1>4. /\ train \in Seq(Sample) /\ Len(train) = index
      /\ \A n \in 1..index : train[n] = o[n]
  <2>1. 1 \in Int /\ index \in Int /\ \A n \in 1..index : o[n] \in Sample
    BY <1>2, <1>3
  <2>2. /\ SubSeq(o, 1, index) \in Seq(Sample)
        /\ Len(SubSeq(o, 1, index)) = IF 1 <= index THEN index - 1 + 1 ELSE 0
        /\ \A n \in 1..(index - 1 + 1) : SubSeq(o, 1, index)[n] = o[1 + n - 1]
    BY <2>1, SubSeqProperties
  <2>3. \A n \in 1..index : 1 + n - 1 = n
    BY <1>2
  <2>4. index - 1 + 1 = index /\ 1 <= index
    BY <1>2
  <2> QED BY <2>2, <2>3, <2>4
<1>5. /\ validation \in Seq(Sample) /\ Len(validation) = N - index
      /\ \A n \in 1..(N - index) : validation[n] = o[index + n]
  <2>1. index + 1 \in Int /\ N \in Int /\ \A n \in (index + 1)..N : o[n] \in Sample
    BY <1>2, <1>3
  <2>2. /\ SubSeq(o, index + 1, N) \in Seq(Sample)
        /\ Len(SubSeq(o, index + 1, N)) = IF index + 1 <= N THEN N - (index + 1) + 1 ELSE 0
        /\ \A n \in 1..(N - (index + 1) + 1) :
                SubSeq(o, index + 1, N)[n] = o[(index + 1) + n - 1]
    BY <2>1, SubSeqProperties
  <2>3. \A n \in 1..(N - index) : (index + 1) + n - 1 = index + n
    BY <1>2
  <2>4. N - (index + 1) + 1 = N - index /\ index + 1 <= N
    BY <1>2
  <2> QED BY <1>1, <2>2, <2>3, <2>4
<1> HIDE DEF train, validation
<1>6. DOMAIN train = 1..index /\ DOMAIN validation = 1..(N - index)
  BY <1>4, <1>5
<1>7. train # <<>> /\ validation # <<>>
  BY <1>2, <1>4, <1>5
<1>8. Range(train) \cup Range(validation) = Range(o)
  <2>1. DOMAIN o = 1..N
    BY <1>1
  <2>2. \A n \in 1..index : n \in 1..N
    BY <1>2
  <2>3. \A n \in 1..(N - index) : index + n \in 1..N
    BY <1>2
  <2>4. \A n \in 1..N : n \in 1..index \/ (n - index \in 1..(N - index) /\ index + (n - index) = n)
    BY <1>2
  <2>5. Range(train) \subseteq Range(o)
    BY <1>4, <1>6, <2>1, <2>2 DEF Range
  <2>6. Range(validation) \subseteq Range(o)
    BY <1>5, <1>6, <2>1, <2>3 DEF Range
  <2>7. ASSUME NEW n \in 1..N PROVE o[n] \in Range(train) \cup Range(validation)
    <3>1. CASE n \in 1..index
      BY <1>4, <1>6, <3>1 DEF Range
    <3>2. CASE n \notin 1..index
      <4> DEFINE k == n - index
      <4>1. k \in 1..(N - index) /\ index + k = n
        BY <2>4, <3>2
      <4> HIDE DEF k
      <4>2. validation[k] = o[n]
        BY <1>5, <4>1
      <4> QED BY <1>6, <4>1, <4>2 DEF Range
    <3> QED BY <3>1, <3>2
  <2>8. Range(o) \subseteq Range(train) \cup Range(validation)
    BY <2>1, <2>7 DEF Range
  <2> QED BY <2>5, <2>6, <2>8
<1>9. ASSUME NEW m \in 1..index, NEW n \in 1..(N - index)
      PROVE  train[m].asOf <= validation[n].asOf /\ TwoOf(all, train[m], validation[n])
  <2>1. m \in 1..N /\ index + n \in 1..N /\ m < index + n
    BY <1>2
  <2>2. o[m].asOf <= o[index + n].asOf /\ TwoOf(all, o[m], o[index + n])
    BY <1>1, <2>1
  <2> QED BY <1>4, <1>5, <2>2
<1>10. Len(train) + Len(validation) = N
  BY <1>2, <1>4, <1>5
<1> QED BY <1>1, <1>4, <1>5, <1>6, <1>7, <1>8, <1>9, <1>10 DEF train, validation, o, N

-----------------------------------------------------------------------------
(* The invariant is inductive.                                              *)

LEMMA DatesArePast ==
    ASSUME TrainInv, at # "idle"
    PROVE  /\ inst \in Instruments /\ dataAsOf[inst] > 0
           /\ Head(todo) \in 1..MaxTime /\ Head(todo) <= dataAsOf[inst]
<1>1. /\ inst \in Instruments /\ dataAsOf[inst] > 0
      /\ todo \in Seq(1..MaxTime) /\ todo # <<>>
      /\ \A n \in DOMAIN todo : todo[n] <= dataAsOf[inst]
  BY DEF TrainInv, TypeOK, BuildInv
<1>2. 1 \in DOMAIN todo
  BY <1>1
<1>3. Head(todo) = todo[1]
  BY <1>1
<1>4. Head(todo) \in 1..MaxTime
  BY <1>1, HeadTailProperties
<1> QED BY <1>1, <1>2, <1>3, <1>4

\* The bars move on, and no build with them.
LEMMA BarsMoveOn ==
    ASSUME TrainInv, [Next]_vars, BarsInv',
           UNCHANGED <<at, inst, dataAsOf, todo, features, samples, skipped, split>>
    PROVE  TrainInv'
<1>1. TypeOK /\ BarsInv
  BY DEF TrainInv
<1>2. clock \in Nat /\ clock' \in Nat /\ clock <= clock'
  BY <1>1, BarsStep
<1>3. SamplesInv' /\ SkipsInv'
  BY CollectionStands
<1>4. TypeOK'
  <2>1. dataAsOf' \in [Instruments -> 0..(clock' - 1)]
    BY <1>1, <1>2 DEF TypeOK
  <2> QED BY <1>1, <2>1 DEF TypeOK, BarsInv
<1>5. BuildInv'
  <2>1. ASSUME at = "label"
        PROVE  FeatureBars(inst, Head(todo))' = FeatureBars(inst, Head(todo))
    <3>1. /\ inst \in Instruments /\ dataAsOf[inst] > 0
          /\ Head(todo) \in 1..MaxTime /\ Head(todo) <= dataAsOf[inst]
      BY <2>1, DatesArePast
    <3> SUFFICES ASSUME NEW i, i = inst, NEW d, d = Head(todo)
                 PROVE  FeatureBars(inst, Head(todo))' = FeatureBars(i, d)
      OBVIOUS
    <3>3. FeatureBars(i, d)' = FeatureBars(i, d)
      BY <1>1, <3>1, AnswersStand
    <3>4. FeatureBars(inst, Head(todo))' = FeatureBars(i, d)'
      BY DEF FeatureBars, BarsAsOf
    <3> QED BY <3>3, <3>4
  <2> QED BY <2>1 DEF BuildInv, TrainInv
<1> QED BY <1>3, <1>4, <1>5 DEF TrainInv

\* A date is done with: a sample or a skip of it was collected.
LEMMA AdvanceStands ==
    ASSUME TrainInv, [Next]_vars, Advance, at # "idle",
           samples' \in Seq(Sample), skipped' \in Seq(Skipped), SamplesInv', SkipsInv'
    PROVE  TrainInv'
<1>1. /\ TypeOK /\ BarsInv /\ todo \in Seq(1..MaxTime) /\ todo # <<>>
      /\ \A n \in DOMAIN todo : todo[n] <= dataAsOf[inst]
      /\ split = <<>> /\ dataAsOf[inst] > 0 /\ inst \in Instruments
  BY DEF TrainInv, TypeOK, BuildInv
<1>2. BarsInv' /\ UNCHANGED <<clock, bars>>
  BY <1>1, BarsStep DEF Advance
<1>3. /\ Tail(todo) \in Seq(1..MaxTime)
      /\ \A n \in DOMAIN Tail(todo) : Tail(todo)[n] <= dataAsOf[inst]
  <2>1. Tail(todo) \in Seq(1..MaxTime) /\ Len(Tail(todo)) = Len(todo) - 1
    BY <1>1, HeadTailProperties
  <2>2. \A n \in 1..Len(Tail(todo)) : Tail(todo)[n] = todo[n + 1]
    BY <1>1, HeadTailProperties
  <2>3. ASSUME NEW n \in DOMAIN Tail(todo) PROVE Tail(todo)[n] <= dataAsOf[inst]
    <3>1. n + 1 \in DOMAIN todo /\ n \in 1..Len(Tail(todo))
      BY <1>1, <2>1
    <3> QED BY <1>1, <2>2, <3>1
  <2> QED BY <2>1, <2>3
<1>4. TypeOK'
  BY <1>1, <1>2, <1>3 DEF TypeOK, Advance
<1>5. BuildInv'
  BY <1>1, <1>3 DEF Advance, BuildInv
<1> QED BY <1>2, <1>4, <1>5 DEF TrainInv

LEMMA NextTrainInv == TrainInv /\ [Next]_vars => TrainInv'
<1> SUFFICES ASSUME TrainInv, [Next]_vars PROVE TrainInv'
  OBVIOUS
<1>1. TypeOK /\ BarsInv /\ BarsInv'
  BY BarsStep DEF TrainInv
<1>2. CASE Tick
  BY <1>1, <1>2, BarsMoveOn DEF Tick
<1>3. ASSUME NEW i \in Instruments, NEW ev \in 1..clock, NEW shape \in Shapes,
             CommitBar(i, ev, shape)
      PROVE  TrainInv'
  BY <1>1, <1>3, BarsMoveOn DEF CommitBar
<1>4. ASSUME NEW i \in Instruments, NEW dates \in Dates, NEW t \in 1..MaxTime,
             StartBuild(i, dates, t)
      PROVE  TrainInv'
  <2>1. dates \in Seq(1..MaxTime) /\ \A n \in DOMAIN dates : dates[n] <= t
    BY <1>4, TrainingAssumption DEF StartBuild
  <2>2. /\ dataAsOf' = [dataAsOf EXCEPT ![i] = t] /\ t < clock /\ UNCHANGED <<clock, bars>>
        /\ inst' = i /\ todo' = dates /\ split = <<>> /\ at = "idle"
        /\ at' = (IF dates = <<>> THEN "idle" ELSE "features")
        /\ UNCHANGED <<features, samples, skipped, split>>
    BY <1>4 DEF StartBuild
  <2>3. clock \in Nat /\ t \in 0..(clock - 1)
    BY <1>1, <2>2, TrainingAssumption DEF BarsInv
  <2>4. dataAsOf' \in [Instruments -> 0..(clock - 1)] /\ dataAsOf'[i] = t
    BY <1>1, <2>2, <2>3 DEF TypeOK
  <2>5. TypeOK'
    BY <1>1, <2>1, <2>2, <2>4 DEF TypeOK
  <2>6. BuildInv'
    BY <2>1, <2>2, <2>4 DEF BuildInv
  <2>7. SamplesInv' /\ SkipsInv'
    BY <2>2, CollectionStands
  <2> QED BY <1>1, <2>5, <2>6, <2>7 DEF TrainInv
<1>5. CASE FetchFeatures
  <2> DEFINE d == Head(todo)
             found == Features(FeatureBars(inst, d))
  <2>1. /\ at = "features" /\ inst \in Instruments /\ dataAsOf[inst] > 0
        /\ todo \in Seq(1..MaxTime) /\ todo # <<>>
        /\ \A n \in DOMAIN todo : todo[n] <= dataAsOf[inst]
    BY <1>1, <1>5 DEF FetchFeatures, TypeOK, TrainInv, BuildInv
  <2>2. d \in 1..MaxTime /\ d <= dataAsOf[inst]
    BY <2>1, DatesArePast
  <2>3. CASE found = <<>>
    <3> DEFINE s == [inst |-> inst, asOf |-> d, why |-> "features"]
    <3>1. Advance /\ skipped' = Append(skipped, s) /\ samples' = samples
      BY <1>5, <2>3 DEF FetchFeatures, Skip
    <3>2. s \in Skipped
      BY <2>1, <2>2 DEF Skipped
    <3>3. SkipStands(s)
      BY <2>1, <2>2, <2>3 DEF SkipStands
    <3> HIDE DEF s
    <3>4. /\ samples' \in Seq(Sample) /\ skipped' \in Seq(Skipped)
          /\ SamplesInv' /\ SkipsInv'
      BY <3>1, <3>2, <3>3, CollectionStands
    <3> QED BY <2>1, <3>1, <3>4, AdvanceStands
  <2>4. CASE found # <<>>
    <3>1. /\ at' = "label" /\ features' = found
          /\ UNCHANGED <<clock, bars, inst, dataAsOf, todo, samples, skipped, split>>
      BY <1>5, <2>4 DEF FetchFeatures
    <3>2. found \in Seq(Bars)
      <4>1. FeatureBars(inst, d) \in Seq(Bars)
        BY <1>1, QueryTypes DEF FeatureBars
      <4> QED BY <4>1, FeaturesType
    <3>3. SamplesInv' /\ SkipsInv'
      BY <3>1, CollectionStands
    <3>4. TypeOK'
      BY <1>1, <2>1, <3>1, <3>2 DEF TypeOK
    <3>5. FeatureBars(inst, Head(todo))' = FeatureBars(inst, Head(todo))
      BY <3>1 DEF FeatureBars, BarsAsOf
    <3>6. BuildInv'
      BY <2>1, <2>4, <3>1, <3>5 DEF BuildInv, TrainInv
    <3> QED BY <1>1, <3>3, <3>4, <3>6 DEF TrainInv
  <2> QED BY <2>3, <2>4
<1>6. CASE FetchLabel
  <2> DEFINE d == Head(todo)
             found == Label(LabelBars(inst, d, dataAsOf[inst]))
  <2>1. /\ at = "label" /\ inst \in Instruments /\ dataAsOf[inst] > 0
        /\ todo \in Seq(1..MaxTime) /\ todo # <<>> /\ Advance
        /\ \A n \in DOMAIN todo : todo[n] <= dataAsOf[inst]
        /\ features \in Seq(Bars) /\ features # <<>>
        /\ features = Features(FeatureBars(inst, d))
    BY <1>1, <1>6 DEF FetchLabel, TypeOK, TrainInv, BuildInv
  <2>2. d \in 1..MaxTime /\ d <= dataAsOf[inst]
    BY <2>1, DatesArePast
  <2>3. CASE found = {}
    <3> DEFINE s == [inst |-> inst, asOf |-> d, why |-> "label"]
    <3>1. skipped' = Append(skipped, s) /\ samples' = samples
      BY <1>6, <2>3 DEF FetchLabel, Skip
    <3>2. s \in Skipped
      BY <2>1, <2>2 DEF Skipped
    <3>3. SkipStands(s)
      BY <2>1, <2>2, <2>3 DEF SkipStands
    <3> HIDE DEF s
    <3>4. /\ samples' \in Seq(Sample) /\ skipped' \in Seq(Skipped)
          /\ SamplesInv' /\ SkipsInv'
      BY <3>1, <3>2, <3>3, CollectionStands
    <3> QED BY <2>1, <3>4, AdvanceStands
  <2>4. CASE found # {}
    <3>1. PICK l \in found :
            /\ samples' = Append(samples, [inst |-> inst, asOf |-> d, features |-> features,
                                           label |-> l.label, return |-> l.return])
            /\ skipped' = skipped
      BY <1>6, <2>4 DEF FetchLabel
    <3> DEFINE s == [inst |-> inst, asOf |-> d, features |-> features,
                     label |-> l.label, return |-> l.return]
    <3>2. LabelBars(inst, d, dataAsOf[inst]) \in Seq(Bars)
      BY <1>1, QueryTypes DEF LabelBars
    <3>3. /\ l.label \in {0, 1} /\ l.return \in Int \X Nat
          /\ [label |-> l.label, return |-> l.return] \in found
      BY <3>1, <3>2, LabelType
    <3>4. s \in Sample
      BY <2>1, <2>2, <3>3 DEF Sample
    <3>5. SampleStands(s)
      BY <2>1, <2>2, <3>3 DEF SampleStands
    <3> HIDE DEF s
    <3>6. samples' = Append(samples, s)
      BY <3>1 DEF s
    <3>7. /\ samples' \in Seq(Sample) /\ skipped' \in Seq(Skipped)
          /\ SamplesInv' /\ SkipsInv'
      BY <3>1, <3>4, <3>5, <3>6, CollectionStands
    <3> QED BY <2>1, <3>7, AdvanceStands
  <2> QED BY <2>3, <2>4
<1>7. ASSUME NEW f \in Fractions, Split(f)
      PROVE  TrainInv'
  <2> DEFINE index == SplitIndex(Len(samples), f)
  <2>1. /\ at = "idle" /\ Len(samples) >= 2
        /\ split' = <<SubSeq(Ordered(samples), 1, index),
                      SubSeq(Ordered(samples), index + 1, Len(Ordered(samples)))>>
        /\ UNCHANGED <<clock, bars, at, inst, dataAsOf, todo, features, samples, skipped>>
    BY <1>7 DEF Split
  <2>2. samples \in Seq(Sample) /\ Len(samples) \in Nat
    BY <1>1 DEF TypeOK
  <2>3. index \in 1..(Len(samples) - 1)
    BY <2>1, <2>2, SplitIndexBounds
  <2> HIDE DEF index
  <2>4. /\ SubSeq(Ordered(samples), 1, index) \in Seq(Sample)
        /\ SubSeq(Ordered(samples), index + 1, Len(Ordered(samples))) \in Seq(Sample)
    BY <2>2, <2>3, SplitHalves
  <2>5. TypeOK'
    BY <1>1, <2>1, <2>4 DEF TypeOK
  <2>6. BuildInv'
    BY <2>1 DEF BuildInv
  <2>7. SamplesInv' /\ SkipsInv'
    BY <2>1, CollectionStands
  <2> QED BY <1>1, <2>5, <2>6, <2>7 DEF TrainInv
<1>8. CASE UNCHANGED vars
  BY <1>1, <1>8, BarsMoveOn DEF vars
<1> QED BY <1>2, <1>3, <1>4, <1>5, <1>6, <1>7, <1>8 DEF Next

(***************************************************************************)
(* Every state of a training set has the types of TypeOK.                  *)
(***************************************************************************)
THEOREM TrainingTypes == Spec => []TypeOK
<1>1. TrainInv => TypeOK
  BY DEF TrainInv
<1> QED BY <1>1, InitTrainInv, NextTrainInv, PTL DEF Spec

(***************************************************************************)
(* A data set holds what the same build would give at any later time,      *)
(* whatever is corrected meanwhile (app/models/dataset.py:13-18).          *)
(***************************************************************************)
LEMMA TrainInvImpliesDataset == TrainInv => DatasetIsReproducible
BY DEF TrainInv, SamplesInv, SampleStands, SkipsInv, SkipStands, DatasetIsReproducible

THEOREM DatasetsAreReproducible == Spec => []DatasetIsReproducible
BY InitTrainInv, NextTrainInv, TrainInvImpliesDataset, PTL DEF Spec

(***************************************************************************)
(* The two sides of a split are parts of one sorted sequence, neither is   *)
(* empty, and nothing is collected after the split                         *)
(* (app/models/training.py:28-44).                                         *)
(***************************************************************************)
LEMMA NextSplit == TrainInv /\ SplitIsChronological /\ [Next]_vars => SplitIsChronological'
<1> SUFFICES ASSUME TrainInv, SplitIsChronological, [Next]_vars
             PROVE  SplitIsChronological'
  OBVIOUS
<1>1. samples \in Seq(Sample) /\ Len(samples) \in Nat
  BY DEF TrainInv, TypeOK
<1>2. CASE split' = split /\ samples' = samples
  BY <1>2 DEF SplitIsChronological
<1>3. CASE split' = <<>>
  BY <1>3 DEF SplitIsChronological
<1>4. CASE split # <<>>
  <2>1. at = "idle"
    BY <1>4 DEF TrainInv, BuildInv
  <2>2. split' = split /\ samples' = samples
    BY <1>4, <2>1 DEF Next, vars, Tick, CommitBar, StartBuild, FetchFeatures, FetchLabel, Split
  <2> QED BY <1>2, <2>2
<1>5. CASE split = <<>> /\ split' # <<>>
  <2>1. PICK f \in Fractions : Split(f)
    BY <1>5 DEF Next, vars, Tick, CommitBar, StartBuild, FetchFeatures, FetchLabel, Advance
  <2> DEFINE index == SplitIndex(Len(samples), f)
             train == SubSeq(Ordered(samples), 1, index)
             validation == SubSeq(Ordered(samples), index + 1, Len(Ordered(samples)))
  <2>2. Len(samples) >= 2 /\ split' = <<train, validation>> /\ samples' = samples
    BY <2>1 DEF Split
  <2>3. index \in 1..(Len(samples) - 1)
    BY <1>1, <2>2, SplitIndexBounds
  <2> HIDE DEF index
  <2>4. /\ train # <<>> /\ validation # <<>>
        /\ Len(train) + Len(validation) = Len(samples)
        /\ Range(train) \cup Range(validation) = Range(samples)
        /\ \A m \in DOMAIN train, n \in DOMAIN validation : train[m].asOf <= validation[n].asOf
    BY <1>1, <2>3, SplitHalves
  <2> HIDE DEF train, validation
  <2>5. split'[1] = train /\ split'[2] = validation
    BY <2>2
  <2> QED BY <2>2, <2>4, <2>5 DEF SplitIsChronological
<1> QED BY <1>3, <1>4, <1>5

(***************************************************************************)
(* time_ordered_split (app/models/training.py) loses no sample and repeats *)
(* none, leaves neither side empty, and trains on nothing later than what  *)
(* it validates on - for every order in which the builds collected the     *)
(* samples, and every fraction.                                            *)
(***************************************************************************)
THEOREM SplitsAreChronological == Spec => []SplitIsChronological
<1>1. Init => SplitIsChronological
  BY DEF Init, SplitIsChronological
<1> QED BY <1>1, InitTrainInv, NextTrainInv, NextSplit, PTL DEF Spec

(***************************************************************************)
(* Who shares a date: where no list of as_of_dates has a date twice, two   *)
(* samples of one instrument never do, since a second build of the         *)
(* instrument does not begin and a build goes down its list.               *)
(***************************************************************************)
DatesDistinct == \A d \in Dates : \A m, n \in DOMAIN d : m # n => d[m] # d[n]

DatesInv ==
    /\ \A m, n \in DOMAIN todo : m # n => todo[m] # todo[n]
    /\ at # "idle" => \A m \in DOMAIN samples, n \in DOMAIN todo :
                          samples[m].inst = inst => samples[m].asOf # todo[n]
    /\ \A m, n \in DOMAIN samples :
          m # n /\ samples[m].inst = samples[n].inst => samples[m].asOf # samples[n].asOf

\* A date is done with, and its sample, if any, collected.
LEMMA AdvanceKeepsDates ==
    ASSUME TrainInv, DatesInv, at # "idle", Advance,
           \/ samples' = samples
           \/ \E s \in Sample : /\ s.inst = inst /\ s.asOf = Head(todo)
                                /\ samples' = Append(samples, s)
    PROVE  DatesInv'
<1>1. /\ todo \in Seq(1..MaxTime) /\ todo # <<>> /\ samples \in Seq(Sample)
      /\ todo' = Tail(todo) /\ inst' = inst
  BY DEF TrainInv, TypeOK, Advance
<1>2. /\ DOMAIN todo' = 1..(Len(todo) - 1)
      /\ \A n \in DOMAIN todo' : n + 1 \in DOMAIN todo /\ todo'[n] = todo[n + 1] /\ n \in Nat
      /\ 1 \in DOMAIN todo /\ Head(todo) = todo[1]
  <2>1. Tail(todo) \in Seq(1..MaxTime) /\ Len(Tail(todo)) = Len(todo) - 1
        /\ \A n \in 1..Len(Tail(todo)) : Tail(todo)[n] = todo[n + 1]
    BY <1>1, HeadTailProperties
  <2> QED BY <1>1, <2>1
<1>3. \A n \in DOMAIN todo' : n + 1 # 1 /\ todo'[n] # Head(todo)
  <2>1. \A n \in DOMAIN todo' : n + 1 # 1
    BY <1>2
  <2> QED BY <1>2, <2>1 DEF DatesInv
<1>4. \A m, n \in DOMAIN todo' : m # n => todo'[m] # todo'[n]
  <2> SUFFICES ASSUME NEW m \in DOMAIN todo', NEW n \in DOMAIN todo', m # n
               PROVE  todo'[m] # todo'[n]
    OBVIOUS
  <2>1. m + 1 \in DOMAIN todo /\ n + 1 \in DOMAIN todo /\ m + 1 # n + 1
    BY <1>2
  <2> QED BY <1>2, <2>1 DEF DatesInv
<1>5. CASE samples' = samples
  <2>1. \A m \in DOMAIN samples, n \in DOMAIN todo' : samples[m].inst = inst => samples[m].asOf # todo'[n]
    BY <1>2 DEF DatesInv
  <2> QED BY <1>1, <1>4, <1>5, <2>1 DEF DatesInv
<1>6. ASSUME NEW s \in Sample, s.inst = inst, s.asOf = Head(todo), samples' = Append(samples, s)
      PROVE  DatesInv'
  <2>1. /\ DOMAIN samples' = 1..(Len(samples) + 1) /\ DOMAIN samples = 1..Len(samples)
        /\ Len(samples) \in Nat
        /\ samples'[Len(samples) + 1] = s
        /\ \A m \in DOMAIN samples : samples'[m] = samples[m]
    BY <1>1, <1>6
  <2>2. \A m \in DOMAIN samples' : (m \in DOMAIN samples /\ samples'[m] = samples[m])
                                     \/ (m = Len(samples) + 1 /\ samples'[m] = s)
    BY <2>1
  <2>3. \A m \in DOMAIN samples : samples[m].inst = s.inst => samples[m].asOf # s.asOf
    BY <1>2, <1>6 DEF DatesInv
  <2>4. \A m, n \in DOMAIN samples' :
            m # n /\ samples'[m].inst = samples'[n].inst => samples'[m].asOf # samples'[n].asOf
    <3> SUFFICES ASSUME NEW m \in DOMAIN samples', NEW n \in DOMAIN samples', m # n,
                        samples'[m].inst = samples'[n].inst
                 PROVE  samples'[m].asOf # samples'[n].asOf
      OBVIOUS
    <3>1. CASE m \in DOMAIN samples /\ n \in DOMAIN samples
      BY <2>1, <3>1 DEF DatesInv
    <3>2. CASE m \in DOMAIN samples /\ n = Len(samples) + 1
      BY <2>1, <2>3, <3>2
    <3>3. CASE n \in DOMAIN samples /\ m = Len(samples) + 1
      BY <2>1, <2>3, <3>3
    <3> QED BY <2>2, <3>1, <3>2, <3>3
  <2>5. \A m \in DOMAIN samples', n \in DOMAIN todo' :
            samples'[m].inst = inst => samples'[m].asOf # todo'[n]
    <3> SUFFICES ASSUME NEW m \in DOMAIN samples', NEW n \in DOMAIN todo', samples'[m].inst = inst
                 PROVE  samples'[m].asOf # todo'[n]
      OBVIOUS
    <3>1. CASE m \in DOMAIN samples /\ samples'[m] = samples[m]
      BY <1>2, <3>1 DEF DatesInv
    <3>2. CASE samples'[m] = s
      BY <1>3, <1>6, <3>2
    <3> QED BY <2>2, <3>1, <3>2
  <2> QED BY <1>1, <1>4, <2>4, <2>5 DEF DatesInv
<1> QED BY <1>5, <1>6

LEMMA NextDatesInv == ASSUME DatesDistinct, TrainInv, DatesInv, [Next]_vars PROVE DatesInv'
<1>1. CASE UNCHANGED <<at, inst, todo, samples>>
  BY <1>1 DEF DatesInv
<1>2. ASSUME NEW i \in Instruments, NEW dates \in Dates, NEW t \in 1..MaxTime,
             StartBuild(i, dates, t)
      PROVE  DatesInv'
  <2>1. dataAsOf[i] = 0 /\ inst' = i /\ todo' = dates /\ samples' = samples
    BY <1>2 DEF StartBuild
  <2>2. \A m \in DOMAIN samples : samples[m].inst # i
    <3> SUFFICES ASSUME NEW m \in DOMAIN samples, samples[m].inst = i PROVE FALSE
      OBVIOUS
    <3>1. SampleStands(samples[m])
      BY DEF TrainInv, SamplesInv
    <3>2. dataAsOf[samples[m].inst] > 0
      BY <3>1 DEF SampleStands
    <3> QED BY <2>1, <3>2
  <2> QED BY <2>1, <2>2 DEF DatesInv, DatesDistinct
<1>3. CASE FetchFeatures
  <2>1. at # "idle"
    BY <1>3 DEF FetchFeatures
  <2>2. CASE Advance /\ samples' = samples
    BY <2>1, <2>2, AdvanceKeepsDates
  <2>3. CASE at' = "label" /\ UNCHANGED <<inst, todo, samples>>
    BY <2>1, <2>3 DEF DatesInv
  <2> QED BY <1>3, <2>2, <2>3 DEF FetchFeatures, Skip
<1>4. CASE FetchLabel
  <2>1. at # "idle" /\ Advance /\ samples' \in Seq(Sample)
    BY <1>4, NextTrainInv DEF FetchLabel, TrainInv, TypeOK
  <2>2. CASE samples' = samples
    BY <2>1, <2>2, AdvanceKeepsDates
  <2>3. ASSUME NEW s, s.inst = inst, s.asOf = Head(todo), samples' = Append(samples, s)
        PROVE  DatesInv'
    <3>1. samples \in Seq(Sample)
      BY DEF TrainInv, TypeOK
    <3>2. Len(samples) + 1 \in DOMAIN samples' /\ samples'[Len(samples) + 1] = s
      BY <2>3, <3>1
    <3>3. s \in Sample
      BY <2>1, <3>2
    <3> QED BY <2>1, <2>3, <3>3, AdvanceKeepsDates
  <2> QED BY <1>4, <2>2, <2>3 DEF FetchLabel, Skip
<1> QED BY <1>1, <1>2, <1>3, <1>4 DEF Next, vars, Tick, CommitBar, Split

(***************************************************************************)
(* What ADR 0011:136-138 says of all samples, that training comes first,   *)
(* holds of each instrument's: those trained on precede those validated on,*)
(* strictly.  It is samples of different instruments that share a date     *)
(* across the split (MCTrainingSet).                                       *)
(***************************************************************************)
InstrumentsInOrder ==
    split # <<>> =>
        \A m \in DOMAIN split[1], n \in DOMAIN split[2] :
            split[1][m].inst = split[2][n].inst => split[1][m].asOf < split[2][n].asOf

LEMMA NextInOrder ==
    ASSUME TrainInv, DatesInv, InstrumentsInOrder, [Next]_vars
    PROVE  InstrumentsInOrder'
<1>1. CASE split' = split
  BY <1>1 DEF InstrumentsInOrder
<1>2. ASSUME NEW f \in Fractions, Split(f) PROVE InstrumentsInOrder'
  <2> DEFINE index == SplitIndex(Len(samples), f)
             train == SubSeq(Ordered(samples), 1, index)
             validation == SubSeq(Ordered(samples), index + 1, Len(Ordered(samples)))
  <2>1. samples \in Seq(Sample) /\ Len(samples) \in Nat
    BY DEF TrainInv, TypeOK
  <2>2. Len(samples) >= 2 /\ split' = <<train, validation>>
    BY <1>2 DEF Split
  <2>3. index \in 1..(Len(samples) - 1)
    BY <2>1, <2>2, SplitIndexBounds
  <2> HIDE DEF index
  <2>4. \A m \in DOMAIN train, n \in DOMAIN validation :
            train[m].asOf <= validation[n].asOf /\ TwoOf(samples, train[m], validation[n])
    BY <2>1, <2>3, SplitHalves
  <2> HIDE DEF train, validation
  <2>5. split'[1] = train /\ split'[2] = validation
    BY <2>2
  <2>6. ASSUME NEW m \in DOMAIN train, NEW n \in DOMAIN validation,
               train[m].inst = validation[n].inst
        PROVE  train[m].asOf < validation[n].asOf
    <3>1. PICK j \in DOMAIN samples, k \in DOMAIN samples :
                j # k /\ train[m] = samples[j] /\ validation[n] = samples[k]
      BY <2>4 DEF TwoOf
    <3>2. samples[j].asOf # samples[k].asOf
      BY <2>6, <3>1 DEF DatesInv
    <3>3. samples[j].asOf \in Int /\ samples[k].asOf \in Int
      <4>1. samples[j] \in Sample /\ samples[k] \in Sample
        BY <2>1
      <4> QED BY <4>1, TrainingAssumption DEF Sample
    <3> QED BY <2>4, <3>1, <3>2, <3>3
  <2> QED BY <2>5, <2>6 DEF InstrumentsInOrder
<1> QED BY <1>1, <1>2 DEF Next, vars, Tick, CommitBar, StartBuild, FetchFeatures, FetchLabel, Advance

(***************************************************************************)
(* What the split keeps of ADR 0011:136-138 for any number of instruments: *)
(* of one instrument, every training sample is strictly earlier than every *)
(* validation sample (time_ordered_split), if the build's dates differ.    *)
(***************************************************************************)
THEOREM InstrumentsAreSplitInOrder ==
    ASSUME DatesDistinct
    PROVE  Spec => []InstrumentsInOrder
<1>1. Init => DatesInv /\ InstrumentsInOrder
  BY DEF Init, DatesInv, InstrumentsInOrder
<1>2. TrainInv /\ DatesInv /\ InstrumentsInOrder /\ [Next]_vars => (DatesInv /\ InstrumentsInOrder)'
  BY NextDatesInv, NextInOrder
<1> QED BY <1>1, <1>2, InitTrainInv, NextTrainInv, PTL DEF Spec

(***************************************************************************)
(* With one instrument it holds as it is written.                          *)
(***************************************************************************)
THEOREM OneInstrumentTrainsFirst ==
    ASSUME DatesDistinct, \A i, j \in Instruments : i = j
    PROVE  Spec => []TrainPrecedesValidation
<1>1. ASSUME TypeOK, InstrumentsInOrder PROVE TrainPrecedesValidation
  <2> SUFFICES ASSUME split # <<>>, NEW m \in DOMAIN split[1], NEW n \in DOMAIN split[2]
               PROVE  split[1][m].asOf < split[2][n].asOf
    BY DEF TrainPrecedesValidation
  <2>1. split[1] \in Seq(Sample) /\ split[2] \in Seq(Sample)
    BY <1>1 DEF TypeOK
  <2>2. split[1][m] \in Sample /\ split[2][n] \in Sample
    BY <2>1
  <2>3. split[1][m].inst = split[2][n].inst
    BY <2>2 DEF Sample
  <2> QED BY <1>1, <2>3 DEF InstrumentsInOrder
<1> QED BY <1>1, TrainingTypes, InstrumentsAreSplitInOrder, PTL

-----------------------------------------------------------------------------
(* Signals.                                                                 *)

(***************************************************************************)
(* Building signals changes nothing of the training set: what is proved of *)
(* Spec holds beside the signal engine.                                    *)
(***************************************************************************)
THEOREM SignalsLeaveTrainingAlone == SignalSpec => Spec
<1>1. SignalInit => Init
  BY DEF SignalInit
<1>2. [SignalNext]_<<vars, signalVars>> => [Next]_vars
  BY DEF SignalNext
<1> QED BY <1>1, <1>2, PTL DEF SignalSpec, Spec

(***************************************************************************)
(* What a call in progress has read of a past instant, and what past       *)
(* signals say, would be read again.                                       *)
(***************************************************************************)
CallInv ==
    \/ call = NoCall
    \/ /\ call \in [at : {"regime", "quant"}, inst : Instruments, asOf : 1..MaxTime,
                    counts : Counts, past : BOOLEAN, regime : Regime]
       /\ call.asOf <= clock
       /\ Cardinality(signals) < MaxSignals
       /\ call.past => call.asOf < clock
       /\ call.past /\ call.at = "quant" =>
            call.regime = Classify(RegimeBars(call.asOf), call.counts)

SignalStands(s) ==
    /\ s.inst \in Instruments /\ s.asOf \in 1..MaxTime
    /\ s.regime \in Regime /\ s.quant \in Seq(Bars)
    /\ s.past => (s.asOf < clock /\ Reproducible(s))

SignalInv ==
    /\ TrainInv
    /\ CallInv
    /\ IsFiniteSet(signals) /\ Cardinality(signals) <= MaxSignals
    /\ \A s \in signals : SignalStands(s)

LEMMA ClassifyType ==
    ASSUME NEW s, NEW c
    PROVE  Classify(s, c) \in Regime
<1>1. Trend(s) \in States
  BY DEF Trend, States
<1>2. Volatility(s) \in States
  BY DEF Volatility, States
<1>3. Breadth(c) \in States
  BY DEF Breadth, States
<1> QED BY <1>1, <1>2, <1>3 DEF Classify, Regime

LEMMA SignalStays ==
    ASSUME BarsInv, [Next]_vars, NEW s, SignalStands(s)
    PROVE  SignalStands(s)'
<1>1. clock \in Nat /\ clock' \in Nat /\ clock <= clock'
  BY BarsStep
<1>2. s.asOf \in Int
  BY TrainingAssumption DEF SignalStands
<1>3. CASE s.past
  <2>1. s.asOf < clock /\ Reproducible(s)
    BY <1>3 DEF SignalStands
  <2>2. /\ ServingBars(s.inst, s.asOf)' = ServingBars(s.inst, s.asOf)
        /\ RegimeBars(s.asOf)' = RegimeBars(s.asOf)
    BY <1>2, <2>1, WindowsAreStable
  <2>3. Reproducible(s)'
    BY <2>1, <2>2 DEF Reproducible
  <2>4. s.asOf < clock'
    BY <1>1, <1>2, <2>1
  <2> QED BY <2>3, <2>4 DEF SignalStands
<1>4. CASE ~ s.past
  BY <1>4 DEF SignalStands
<1> QED BY <1>3, <1>4

LEMMA InitSignalInv == SignalInit => SignalInv
<1> SUFFICES ASSUME SignalInit PROVE SignalInv
  OBVIOUS
<1>1. IsFiniteSet({}) /\ Cardinality({}) = 0 /\ MaxSignals \in Nat
  BY FS_EmptySet, SignalAssumption
<1>2. IsFiniteSet(signals) /\ Cardinality(signals) <= MaxSignals
  BY <1>1 DEF SignalInit
<1> QED BY <1>2, InitTrainInv DEF SignalInit, SignalInv, CallInv

LEMMA NextSignalInv == SignalInv /\ [SignalNext]_<<vars, signalVars>> => SignalInv'
<1> SUFFICES ASSUME SignalInv, [SignalNext]_<<vars, signalVars>> PROVE SignalInv'
  OBVIOUS
<1>1. [Next]_vars /\ TrainInv /\ BarsInv
  BY DEF SignalNext, SignalInv, TrainInv
<1>2. TrainInv'
  BY <1>1, NextTrainInv
<1>3. clock \in Nat /\ clock' \in Nat /\ clock <= clock'
  BY <1>1, BarsStep
<1>4. \A s \in signals : SignalStands(s)'
  BY <1>1, SignalStays DEF SignalInv
<1>5. CASE UNCHANGED signalVars
  <2>1. call' = call /\ signals' = signals
    BY <1>5 DEF signalVars
  <2>2. CallInv'
    <3>1. CASE call = NoCall
      BY <2>1, <3>1 DEF CallInv
    <3>2. CASE call # NoCall
      <4>1. /\ call.asOf \in 1..MaxTime /\ call.asOf <= clock
            /\ call.past => call.asOf < clock
            /\ call.past /\ call.at = "quant" =>
                call.regime = Classify(RegimeBars(call.asOf), call.counts)
        BY <3>2 DEF SignalInv, CallInv
      <4>2. ASSUME call.past PROVE RegimeBars(call.asOf)' = RegimeBars(call.asOf)
        <5> SUFFICES ASSUME NEW t, t = call.asOf
                     PROVE  RegimeBars(call.asOf)' = RegimeBars(t)
          OBVIOUS
        <5>1. t \in Int /\ t < clock
          BY <4>1, <4>2, TrainingAssumption
        <5>2. RegimeBars(t)' = RegimeBars(t)
          BY <1>1, <5>1, WindowsAreStable
        <5>3. RegimeBars(call.asOf)' = RegimeBars(t)'
          BY <2>1 DEF RegimeBars, BarsAsOf
        <5> QED BY <5>2, <5>3
      <4>3. (call.past => call.asOf < clock') /\ call.asOf <= clock'
        BY <1>3, <4>1, TrainingAssumption
      <4> QED BY <2>1, <3>2, <4>1, <4>2, <4>3 DEF SignalInv, CallInv
    <3> QED BY <3>1, <3>2
  <2> QED BY <1>2, <1>4, <2>1, <2>2 DEF SignalInv
<1>6. ASSUME NEW q \in Requests, StartSignal(q), UNCHANGED vars
      PROVE  SignalInv'
  <2>1. q \in Request
    BY SignalAssumption
  <2>2. CallInv'
    <3> DEFINE c == [at |-> "regime", inst |-> q.inst, asOf |-> q.asOf, counts |-> q.counts,
                     past |-> q.asOf < clock, regime |-> Unread]
    <3>1. call' = c /\ clock' = clock
      BY <1>6 DEF StartSignal, vars
    <3>2. Unread \in Regime
      BY DEF Unread, Regime, States
    <3>3. c \in [at : {"regime", "quant"}, inst : Instruments, asOf : 1..MaxTime,
                 counts : Counts, past : BOOLEAN, regime : Regime]
      BY <2>1, <3>2 DEF Request
    <3>4. c.past = (q.asOf < clock) /\ c.asOf = q.asOf /\ c.at = "regime"
      OBVIOUS
    <3>5. q.asOf <= clock /\ Cardinality(signals) < MaxSignals /\ signals' = signals
      BY <1>6 DEF StartSignal
    <3> HIDE DEF c
    <3> QED BY <3>1, <3>3, <3>4, <3>5 DEF CallInv
  <2> QED BY <1>2, <1>4, <1>6, <2>2 DEF SignalInv, StartSignal
<1>7. CASE FetchRegime /\ UNCHANGED vars
  <2>1. CallInv'
    <3> DEFINE found == Classify(RegimeBars(call.asOf), call.counts)
    <3>1. /\ call' = [call EXCEPT !.at = "quant", !.regime = found]
          /\ call.at = "regime" /\ clock' = clock /\ bars' = bars /\ signals' = signals
      BY <1>7 DEF FetchRegime, vars
    <3>2. found \in Regime
      BY ClassifyType
    <3>3. /\ call \in [at : {"regime", "quant"}, inst : Instruments, asOf : 1..MaxTime,
                       counts : Counts, past : BOOLEAN, regime : Regime]
          /\ call.past => call.asOf < clock
          /\ call.asOf <= clock /\ Cardinality(signals) < MaxSignals
      BY <3>1 DEF SignalInv, CallInv, NoCall
    <3> DEFINE c == [call EXCEPT !.at = "quant", !.regime = found]
    <3>4. c \in [at : {"regime", "quant"}, inst : Instruments, asOf : 1..MaxTime,
                 counts : Counts, past : BOOLEAN, regime : Regime]
      BY <3>2, <3>3
    <3>5. /\ c.past = call.past /\ c.asOf = call.asOf /\ c.counts = call.counts
          /\ c.regime = found
      BY <3>3
    <3>6. RegimeBars(call.asOf)' = RegimeBars(call.asOf)
      BY <3>1, <3>5 DEF RegimeBars, BarsAsOf
    <3> HIDE DEF c
    <3>7. call' = c
      BY <3>1 DEF c
    <3> QED BY <3>1, <3>3, <3>4, <3>5, <3>6, <3>7 DEF CallInv
  <2> QED BY <1>2, <1>4, <1>7, <2>1 DEF SignalInv, FetchRegime
<1>8. CASE FetchQuant /\ UNCHANGED vars
  <2>1. PICK found \in {Features(ServingBars(call.inst, call.asOf)), <<>>} :
            signals' = signals \cup
              {[inst |-> call.inst, asOf |-> call.asOf, past |-> call.past,
                counts |-> call.counts, regime |-> call.regime, quant |-> found]}
    BY <1>8 DEF FetchQuant
  <2> DEFINE s == [inst |-> call.inst, asOf |-> call.asOf, past |-> call.past,
                   counts |-> call.counts, regime |-> call.regime, quant |-> found]
  <2>2. /\ call.inst \in Instruments /\ call.asOf \in 1..MaxTime
        /\ call.regime \in Regime /\ Cardinality(signals) < MaxSignals
        /\ call.past => /\ call.asOf < clock
                        /\ call.regime = Classify(RegimeBars(call.asOf), call.counts)
    BY <1>8 DEF FetchQuant, SignalInv, CallInv, NoCall
  <2>3. SignalStands(s)
    <3>1. ServingBars(call.inst, call.asOf) \in Seq(Bars)
      BY <1>1, QueryTypes DEF ServingBars
    <3>2. Features(ServingBars(call.inst, call.asOf)) \in Seq(Bars)
      BY <3>1, FeaturesType
    <3>3. found \in Seq(Bars)
      BY <3>2, EmptySeq
    <3> QED BY <2>2, <3>3 DEF SignalStands, Reproducible
  <2>4. ASSUME NEW r, r = s PROVE SignalStands(r)'
    <3>1. SignalStands(r)
      BY <2>3, <2>4
    <3> QED BY <1>1, <3>1, SignalStays
  <2> HIDE DEF s
  <2>5. CallInv'
    BY <1>8 DEF FetchQuant, CallInv
  <2>6. \A r \in signals' : r \in signals \/ r = s
    BY <2>1 DEF s
  <2>7. \A r \in signals' : SignalStands(r)'
    BY <1>4, <2>4, <2>6
  <2>8. IsFiniteSet(signals') /\ Cardinality(signals') <= MaxSignals
    <3>1. IsFiniteSet(signals) /\ Cardinality(signals) \in Nat /\ MaxSignals \in Nat
      BY FS_CardinalityType, SignalAssumption DEF SignalInv
    <3>2. /\ IsFiniteSet(signals \cup {s})
          /\ Cardinality(signals \cup {s})
               = IF s \in signals THEN Cardinality(signals) ELSE Cardinality(signals) + 1
      BY <3>1, FS_AddElement
    <3>3. signals' = signals \cup {s}
      BY <2>1 DEF s
    <3> QED BY <2>2, <3>1, <3>2, <3>3
  <2> QED BY <1>2, <2>5, <2>7, <2>8 DEF SignalInv
<1> QED BY <1>5, <1>6, <1>7, <1>8 DEF SignalNext

(***************************************************************************)
(* Every state of the signal engine has the types of SignalTypeOK.         *)
(***************************************************************************)
THEOREM SignalTypes == SignalSpec => []SignalTypeOK
<1>1. SignalInv => SignalTypeOK
  <2> SUFFICES ASSUME SignalInv PROVE SignalTypeOK
    OBVIOUS
  <2>1. clock \in Nat /\ TypeOK
    BY TrainingAssumption DEF SignalInv, TrainInv, BarsInv
  <2>2. CASE call # NoCall
    <3>1. /\ call \in [at : {"regime", "quant"}, inst : Instruments, asOf : 1..MaxTime,
                       counts : Counts, past : BOOLEAN, regime : Regime]
          /\ call.asOf <= clock
      BY <2>2 DEF SignalInv, CallInv
    <3>2. call.asOf \in 1..clock
      BY <2>1, <3>1
    <3>3. call \in [at : {"regime", "quant"}, inst : Instruments, asOf : 1..clock,
                   counts : Counts, past : BOOLEAN, regime : Regime]
      BY <3>1, <3>2
    <3> QED BY <2>1, <3>3 DEF SignalTypeOK, SignalInv, SignalStands
  <2>3. CASE call = NoCall
    BY <2>1, <2>3 DEF SignalTypeOK, SignalInv, SignalStands
  <2> QED BY <2>2, <2>3
<1> QED BY <1>1, InitSignalInv, NextSignalInv, PTL DEF SignalSpec

(***************************************************************************)
(* A signal as of a past instant is what the same call gives at any later  *)
(* time (app/regime/__init__.py:13-18, app/signals/__init__.py:8-11).      *)
(***************************************************************************)
THEOREM SignalsAreReproducible == SignalSpec => []SignalIsReproducible
<1>1. SignalInv => SignalIsReproducible
  BY DEF SignalInv, SignalStands, SignalIsReproducible
<1> QED BY <1>1, InitSignalInv, NextSignalInv, PTL DEF SignalSpec

(***************************************************************************)
(* The model is served the features it was trained on, for any widths of   *)
(* the two windows (ADR 0011:193-194): the features are those of the last  *)
(* bars, which the windows share, as of an instant whose answers stand.    *)
(***************************************************************************)
LEMMA SignalInvImpliesServed == SignalInv => ServedAsTrained
<1> SUFFICES ASSUME SignalInv, NEW s \in signals, NEW n \in DOMAIN samples,
                    s.inst = samples[n].inst, s.asOf = samples[n].asOf, s.past
             PROVE  s.quant \in {<<>>, samples[n].features}
  BY DEF ServedAsTrained
<1> DEFINE x == samples[n]
           i == s.inst
           d == s.asOf
<1>1. BarsInv /\ i \in Instruments /\ d \in Int
  BY TrainingAssumption DEF SignalInv, TrainInv, SignalStands
<1>2. s.quant \in {<<>>, Features(ServingBars(i, d))}
  BY DEF SignalInv, SignalStands, Reproducible
<1>3. x \in Sample /\ SampleStands(x)
  BY ElementOfSeq DEF SignalInv, TrainInv, TypeOK, SamplesInv
<1>4. x.features # <<>> /\ x.features = Features(FeatureBars(i, d))
  BY <1>3 DEF SampleStands
<1>5. FeatureBars(i, d) \in Seq(Bars) /\ ServingBars(i, d) \in Seq(Bars)
  BY <1>1, QueryTypes DEF FeatureBars, ServingBars
<1>6. FeatureDays \in Nat /\ ServingDays \in Nat
  BY TrainingAssumption, SignalAssumption
<1>7. \/ Features(ServingBars(i, d)) = <<>>
      \/ Features(FeatureBars(i, d)) = <<>>
      \/ Features(ServingBars(i, d)) = Features(FeatureBars(i, d))
  <2>1. CASE ServingDays <= FeatureDays
    <3>1. LET short == ServingBars(i, d)
              long  == FeatureBars(i, d)
          IN  /\ Len(short) <= Len(long)
              /\ Shifted(short, long, Len(short), Len(long) - Len(short))
      BY <1>1, <1>6, <2>1, WindowsAgree DEF FeatureBars, ServingBars
    <3> QED BY <1>5, <3>1, FeaturesAgree
  <2>2. CASE FeatureDays <= ServingDays
    <3>1. LET short == FeatureBars(i, d)
              long  == ServingBars(i, d)
          IN  /\ Len(short) <= Len(long)
              /\ Shifted(short, long, Len(short), Len(long) - Len(short))
      BY <1>1, <1>6, <2>2, WindowsAgree DEF FeatureBars, ServingBars
    <3> QED BY <1>5, <3>1, FeaturesAgree
  <2> QED BY <1>6, <2>1, <2>2
<1> QED BY <1>2, <1>4, <1>7

(***************************************************************************)
(* The features the signal engine computes for a past instant are those of *)
(* the training sample of that instant, or none, although the lookback     *)
(* windows of the two are configured apart (app/signals/engine.py:63-88,   *)
(* app/models/dataset.py:86-98).                                           *)
(***************************************************************************)
THEOREM ModelsAreServedAsTrained == SignalSpec => []ServedAsTrained
BY InitSignalInv, NextSignalInv, SignalInvImpliesServed, PTL DEF SignalSpec

(***************************************************************************)
(* Less history makes a trend unknown and never another                    *)
(* (app/regime/classifier.py:103-130): the trend is that of the last       *)
(* TrendLookback + 1 bars, which any suffix long enough has as well.       *)
(***************************************************************************)
LEMMA TrendOfLatest ==
    ASSUME NEW s \in Seq(Bars), NEW n \in 0..Len(s)
    PROVE  Trend(LatestBars(s, n)) \in {"unknown", Trend(s)}
<1> DEFINE a == Len(s) - n + 1
           latest == SubSeq(s, a, Len(s))
           k == n - (TrendLookback + 1) + 1
<1>1. Len(s) \in Nat /\ n \in Nat /\ n <= Len(s) /\ TrendLookback \in Nat
  BY SignalAssumption
<1>2. LatestBars(s, n) = latest
  BY DEF LatestBars
<1>3. latest \in Seq(Bars) /\ Len(latest) = n
  <2>1. a \in Int /\ Len(s) \in Int /\ \A m \in a..Len(s) : s[m] \in Bars
    <3>1. \A m \in a..Len(s) : m \in 1..Len(s)
      BY <1>1
    <3> QED BY <1>1, <3>1, ElementOfSeq
  <2>2. /\ SubSeq(s, a, Len(s)) \in Seq(Bars)
        /\ Len(SubSeq(s, a, Len(s))) = IF a <= Len(s) THEN Len(s) - a + 1 ELSE 0
    <3> HIDE DEF a
    <3> QED BY <2>1, SubSeqProperties
  <2>3. (IF a <= Len(s) THEN Len(s) - a + 1 ELSE 0) = n
    BY <1>1
  <2> QED BY <2>2, <2>3
<1>4. CASE n <= TrendLookback
  <2> HIDE DEF latest
  <2> QED BY <1>2, <1>3, <1>4 DEF Trend
<1>5. CASE n > TrendLookback
  <2>1. /\ a \in 1..Len(s) /\ Len(s) \in 1..Len(s)
        /\ k \in 1..(Len(s) - a + 1) /\ n \in 1..(Len(s) - a + 1)
    BY <1>1, <1>5
  <2>2. SubSeq(SubSeq(s, a, Len(s)), k, n) = SubSeq(s, a + k - 1, a + n - 1)
    <3> HIDE DEF a, k
    <3> QED BY <2>1, SubSeqOfSubSeq
  <2>3. a + k - 1 = Len(s) - (TrendLookback + 1) + 1 /\ a + n - 1 = Len(s)
    BY <1>1
  <2>4. LastBars(s, TrendLookback + 1)
          = SubSeq(s, Len(s) - (TrendLookback + 1) + 1, Len(s))
    BY DEF LastBars
  <2>5. LastBars(latest, TrendLookback + 1)
          = SubSeq(latest, n - (TrendLookback + 1) + 1, n)
    BY <1>3 DEF LastBars
  <2>6. LastBars(latest, TrendLookback + 1) = LastBars(s, TrendLookback + 1)
    BY <2>2, <2>3, <2>4, <2>5
  <2> HIDE DEF latest
  <2>7. Trend(latest) = Trend(s)
    BY <1>1, <1>3, <1>5, <2>6 DEF Trend
  <2> QED BY <1>2, <2>7
<1> QED BY <1>1, <1>4, <1>5

(***************************************************************************)
(* With fewer bars than it looks back over, the regime's trend is unknown; *)
(* it is never another than the whole history gives.                       *)
(***************************************************************************)
THEOREM TrendsAreNeverGuessed == SignalSpec => []TrendIsNeverGuessed
<1>1. BarsInv => TrendIsNeverGuessed
  <2> SUFFICES ASSUME BarsInv, NEW s \in signals, NEW n \in 0..Len(RegimeBars(s.asOf))
               PROVE  Trend(LatestBars(RegimeBars(s.asOf), n))
                        \in {"unknown", Trend(RegimeBars(s.asOf))}
    BY DEF TrendIsNeverGuessed
  <2>1. RegimeBars(s.asOf) \in Seq(Bars)
    BY QueryTypes DEF RegimeBars
  <2> QED BY <2>1, TrendOfLatest
<1>2. SignalInv => BarsInv
  BY DEF SignalInv, TrainInv
<1> QED BY <1>1, <1>2, InitSignalInv, NextSignalInv, PTL DEF SignalSpec

-----------------------------------------------------------------------------
(* Induction over a finite set, on a set Q of its subsets.                  *)

LEMMA OverSubsets ==
    ASSUME NEW S, IsFiniteSet(S), NEW Q,
           \A t \in SUBSET S : (\A u \in SUBSET t : u # t => u \in Q) => t \in Q
    PROVE  S \in Q
<1> SUFFICES ASSUME S \notin Q PROVE FALSE
  OBVIOUS
<1> DEFINE R == StrictSubsetOrdering(S)
           T == (SUBSET S) \ Q
<1>1. \A t \in SUBSET S : IsFiniteSet(t)
  BY FS_Subset
<1>2. T \subseteq FiniteSubsetsOf(S) /\ T # {}
  BY <1>1 DEF FiniteSubsetsOf
<1>3. PICK t \in T : \A u \in T : ~ (<<u, t>> \in R)
  <2>1. IsWellFoundedOn(R, FiniteSubsetsOf(S))
    BY FS_StrictSubsetOrderingWellFounded
  <2> HIDE DEF R, T
  <2> QED BY <1>2, <2>1, WFMin
<1>4. ASSUME NEW u \in SUBSET t, u # t PROVE u \in Q
  <2>1. <<u, t>> \in R
    BY <1>4 DEF StrictSubsetOrdering
  <2> QED BY <1>3, <1>4, <2>1
<1> QED BY <1>3, <1>4

(***************************************************************************)
(* What a sum is: the library's fold takes the elements of a set in an     *)
(* order of its own, by a function on the set's subsets.                   *)
(***************************************************************************)
First(s) == CHOOSE x \in s : TRUE

SumsOf(f, D, h) ==
    h = [s \in D |-> IF s = {} THEN 0 ELSE f[First(s)] + h[s \ {First(s)}]]

LEMMA FirstIsOne == ASSUME NEW s, s # {} PROVE First(s) \in s
  BY DEF First

LEMMA SumIsAFold ==
    ASSUME NEW f, NEW S
    PROVE  SumFunctionOnSet(f, S) = (CHOOSE h : SumsOf(f, SUBSET S, h))[S]
  BY DEF SumFunctionOnSet, FoldFunctionOnSet, MapThenFoldSet, SumsOf, First

Up(S, n) == {s \in SUBSET S : Cardinality(s) <= n}

LEMMA FoldsUpTo ==
    ASSUME NEW f, NEW S, IsFiniteSet(S), NEW n \in Nat PROVE \E h : SumsOf(f, Up(S, n), h)
<1> DEFINE Q == {m \in Nat : ~ \E h : SumsOf(f, Up(S, m), h)}
<1> SUFFICES ASSUME n \in Q PROVE FALSE
  OBVIOUS
<1>1. PICK m \in Q : \A k \in Q : ~ (<<k, m>> \in OpToRel(<, Nat))
  <2> HIDE DEF Q
  <2>1. Q \subseteq Nat
    BY DEF Q
  <2> QED BY <2>1, WFMin, NatLessThanWellFounded
<1>2. m \in Nat /\ ~ \E h : SumsOf(f, Up(S, m), h)
  OBVIOUS
<1>3. \A s \in SUBSET S : IsFiniteSet(s) /\ Cardinality(s) \in Nat
  BY FS_Subset, FS_CardinalityType
<1>4. CASE m = 0
  <2> DEFINE h == [s \in Up(S, 0) |-> 0]
  <2>1. \A s \in Up(S, 0) : s = {}
    BY <1>3, FS_EmptySet DEF Up
  <2>2. SumsOf(f, Up(S, 0), h)
    BY <2>1 DEF SumsOf
  <2> QED BY <1>2, <1>4, <2>2
<1>5. CASE m # 0
  <2>1. m - 1 \in Nat /\ m - 1 < m
    BY <1>2, <1>5
  <2>2. <<m - 1, m>> \in OpToRel(<, Nat)
    BY <1>2, <2>1, Zenon DEF OpToRel
  <2>3. PICK h : SumsOf(f, Up(S, m - 1), h)
    BY <1>1, <2>1, <2>2
  <2> DEFINE k == [s \in Up(S, m) |->
                      IF s = {} THEN 0 ELSE f[First(s)] + h[s \ {First(s)}]]
  <2>4. ASSUME NEW s \in Up(S, m), s # {}
        PROVE  s \ {First(s)} \in Up(S, m - 1) /\ s \ {First(s)} \in Up(S, m)
    <3>1. First(s) \in s
      BY <2>4, FirstIsOne
    <3>2. /\ s \ {First(s)} \in SUBSET S
          /\ Cardinality(s \ {First(s)}) = Cardinality(s) - 1
          /\ Cardinality(s) <= m /\ Cardinality(s) \in Nat
      BY <1>3, <3>1, FS_RemoveElement DEF Up
    <3> QED BY <1>2, <3>2 DEF Up
  <2>5. \A s \in Up(S, m - 1) : s \in Up(S, m)
    BY <1>2, <1>3 DEF Up
  <2>6. \A s \in Up(S, m - 1) : h[s] = IF s = {} THEN 0 ELSE f[First(s)] + h[s \ {First(s)}]
    BY <2>3 DEF SumsOf
  <2>7. \A s \in Up(S, m - 1) : k[s] = h[s]
    BY <2>5, <2>6
  <2>8. \A s \in Up(S, m) : k[s] = IF s = {} THEN 0 ELSE f[First(s)] + k[s \ {First(s)}]
    BY <2>4, <2>7
  <2>9. SumsOf(f, Up(S, m), k)
    <3>1. k = [s \in Up(S, m) |-> k[s]]
      OBVIOUS
    <3> HIDE DEF k
    <3> QED BY <2>8, <3>1 DEF SumsOf
  <2> QED BY <1>2, <2>9
<1> QED BY <1>4, <1>5

LEMMA FoldExists ==
    ASSUME NEW f, NEW S, IsFiniteSet(S) PROVE \E h : SumsOf(f, SUBSET S, h)
<1>1. Cardinality(S) \in Nat /\ \A s \in SUBSET S : Cardinality(s) <= Cardinality(S)
  BY FS_Subset, FS_CardinalityType
<1>2. SUBSET S = Up(S, Cardinality(S))
  BY <1>1 DEF Up
<1>3. PICK h : SumsOf(f, Up(S, Cardinality(S)), h)
  BY <1>1, FoldsUpTo
<1> QED BY <1>2, <1>3

LEMMA FoldIsUnique ==
    ASSUME NEW f, NEW S, NEW T, IsFiniteSet(T), T \subseteq S, NEW h, NEW k,
           SumsOf(f, SUBSET S, h), SumsOf(f, SUBSET T, k)
    PROVE  h[T] = k[T]
<1> DEFINE Q == {t \in SUBSET T : h[t] = k[t]}
<1>1. ASSUME NEW t \in SUBSET T, \A u \in SUBSET t : u # t => u \in Q PROVE t \in Q
  <2>1. /\ h[t] = IF t = {} THEN 0 ELSE f[First(t)] + h[t \ {First(t)}]
        /\ k[t] = IF t = {} THEN 0 ELSE f[First(t)] + k[t \ {First(t)}]
    <3>1. \A s \in SUBSET S : h[s] = IF s = {} THEN 0 ELSE f[First(s)] + h[s \ {First(s)}]
      BY DEF SumsOf
    <3>2. \A s \in SUBSET T : k[s] = IF s = {} THEN 0 ELSE f[First(s)] + k[s \ {First(s)}]
      BY DEF SumsOf
    <3> QED BY <3>1, <3>2
  <2>2. t # {} => h[t \ {First(t)}] = k[t \ {First(t)}]
    BY <1>1, FirstIsOne
  <2> QED BY <2>1, <2>2
<1> HIDE DEF Q
<1>2. T \in Q
  BY <1>1, OverSubsets
<1> QED BY <1>2 DEF Q

LEMMA SumUnfolds ==
    ASSUME NEW f, NEW S, IsFiniteSet(S)
    PROVE  SumFunctionOnSet(f, S) =
             IF S = {} THEN 0 ELSE f[First(S)] + SumFunctionOnSet(f, S \ {First(S)})
<1> DEFINE T == S \ {First(S)}
           h == CHOOSE h : SumsOf(f, SUBSET S, h)
           k == CHOOSE k : SumsOf(f, SUBSET T, k)
<1>1. IsFiniteSet(T) /\ T \subseteq S
  BY FS_RemoveElement
<1> HIDE DEF T
<1>2. SumsOf(f, SUBSET S, h)
  BY FoldExists
<1>3. SumsOf(f, SUBSET T, k)
  BY <1>1, FoldExists
<1>4. SumFunctionOnSet(f, S) = h[S] /\ SumFunctionOnSet(f, T) = k[T]
  BY SumIsAFold
<1> HIDE DEF h, k
<1>5. h[T] = k[T]
  BY <1>1, <1>2, <1>3, FoldIsUnique
<1>6. h[S] = IF S = {} THEN 0 ELSE f[First(S)] + h[S \ {First(S)}]
  BY <1>2 DEF SumsOf
<1> QED BY <1>4, <1>5, <1>6 DEF T

(***************************************************************************)
(* The algebra of sums of integers.                                        *)
(***************************************************************************)
Ints(f, S) == \A x \in S : f[x] \in Int

LEMMA SumInt ==
    ASSUME NEW S, IsFiniteSet(S), NEW f, Ints(f, S) PROVE SumFunctionOnSet(f, S) \in Int
<1> DEFINE Q == {t \in SUBSET S : SumFunctionOnSet(f, t) \in Int}
<1>1. ASSUME NEW t \in SUBSET S, \A u \in SUBSET t : u # t => u \in Q PROVE t \in Q
  <2>1. IsFiniteSet(t)
    BY FS_Subset
  <2>2. CASE t = {}
    <3>1. SumFunctionOnSet(f, t) = 0
      BY <2>1, <2>2, SumUnfolds
    <3> QED BY <3>1
  <2>3. CASE t # {}
    <3>1. First(t) \in t
      BY <2>3, FirstIsOne
    <3>2. f[First(t)] \in Int /\ SumFunctionOnSet(f, t \ {First(t)}) \in Int
      BY <1>1, <3>1 DEF Ints
    <3> QED BY <2>1, <2>3, <3>2, SumUnfolds
  <2> QED BY <2>2, <2>3
<1> HIDE DEF Q
<1>2. S \in Q
  BY <1>1, OverSubsets
<1> QED BY <1>2 DEF Q

LEMMA SumEmpty == ASSUME NEW f PROVE SumFunctionOnSet(f, {}) = 0
  BY SumUnfolds, FS_EmptySet

\* Any element may be taken out first.
Takes(f, t) ==
    \A x \in t : SumFunctionOnSet(f, t) = f[x] + SumFunctionOnSet(f, t \ {x})

LEMMA SumTakes ==
    ASSUME NEW S, IsFiniteSet(S), NEW f, Ints(f, S) PROVE Takes(f, S)
<1> DEFINE Q == {t \in SUBSET S : Takes(f, t)}
<1>1. ASSUME NEW t \in SUBSET S, \A u \in SUBSET t : u # t => u \in Q PROVE t \in Q
  <2> SUFFICES ASSUME NEW x \in t
               PROVE  SumFunctionOnSet(f, t) = f[x] + SumFunctionOnSet(f, t \ {x})
    BY DEF Takes
  <2> DEFINE c == First(t)
  <2>1. IsFiniteSet(t) /\ c \in t
    BY FS_Subset, FirstIsOne
  <2>2. SumFunctionOnSet(f, t) = f[c] + SumFunctionOnSet(f, t \ {c})
    BY <2>1, SumUnfolds
  <2> HIDE DEF c
  <2>3. CASE c = x
    BY <2>2, <2>3
  <2>4. CASE c # x
    <3> DEFINE u == (t \ {c}) \ {x}
    <3>1. Takes(f, t \ {c}) /\ Takes(f, t \ {x})
      BY <1>1, <2>1
    <3>2. SumFunctionOnSet(f, t \ {c}) = f[x] + SumFunctionOnSet(f, u)
      BY <2>4, <3>1 DEF Takes
    <3>3. SumFunctionOnSet(f, t \ {x}) = f[c] + SumFunctionOnSet(f, u)
      <4>1. u = (t \ {x}) \ {c}
        OBVIOUS
      <4> HIDE DEF u
      <4> QED BY <2>1, <2>4, <3>1, <4>1 DEF Takes
    <3>4. f[x] \in Int /\ f[c] \in Int /\ SumFunctionOnSet(f, u) \in Int
      <4>1. IsFiniteSet(u) /\ Ints(f, u)
        BY FS_Subset DEF Ints
      <4> HIDE DEF u
      <4> QED BY <2>1, <4>1, SumInt DEF Ints
    <3> HIDE DEF u
    <3> QED BY <2>2, <3>2, <3>3, <3>4
  <2> QED BY <2>3, <2>4
<1> HIDE DEF Q
<1>2. S \in Q
  BY <1>1, OverSubsets
<1> QED BY <1>2 DEF Q

(***************************************************************************)
(* What holds of sums since it holds of the summands: a sum of sums, of    *)
(* differences and multiples, and a sum that is no greater.                *)
(***************************************************************************)
Combines(f, g, h, k, t) ==
    SumFunctionOnSet(h, t) = SumFunctionOnSet(f, t) - k * SumFunctionOnSet(g, t)

LEMMA SumCombines ==
    ASSUME NEW S, IsFiniteSet(S), NEW f, NEW g, NEW h, NEW k \in Int, Ints(f, S), Ints(g, S),
           \A x \in S : h[x] = f[x] - k * g[x]
    PROVE  Combines(f, g, h, k, S)
<1> DEFINE Q == {t \in SUBSET S : Combines(f, g, h, k, t)}
<1>1. ASSUME NEW t \in SUBSET S, \A u \in SUBSET t : u # t => u \in Q PROVE t \in Q
  <2>1. /\ IsFiniteSet(t) /\ Ints(f, t) /\ Ints(g, t) /\ Ints(h, t)
        /\ \A x \in t : h[x] = f[x] - k * g[x]
    BY FS_Subset DEF Ints
  <2>2. CASE t = {}
    BY <2>2, SumEmpty DEF Combines
  <2>3. CASE t # {}
    <3> PICK x \in t : TRUE
      BY <2>3
    <3> DEFINE u == t \ {x}
    <3>1. Combines(f, g, h, k, u) /\ IsFiniteSet(u) /\ Ints(f, u) /\ Ints(g, u)
      BY <1>1, <2>1, FS_Subset DEF Ints
    <3>2. /\ SumFunctionOnSet(f, t) = f[x] + SumFunctionOnSet(f, u)
          /\ SumFunctionOnSet(g, t) = g[x] + SumFunctionOnSet(g, u)
          /\ SumFunctionOnSet(h, t) = h[x] + SumFunctionOnSet(h, u)
      BY <2>1, SumTakes DEF Takes
    <3>3. SumFunctionOnSet(f, u) \in Int /\ SumFunctionOnSet(g, u) \in Int
      BY <3>1, SumInt
    <3>4. f[x] \in Int /\ g[x] \in Int /\ h[x] = f[x] - k * g[x]
      BY <2>1 DEF Ints
    <3> HIDE DEF u
    <3>5. ASSUME NEW a \in Int, NEW b \in Int, NEW c \in Int, NEW d \in Int
          PROVE  (a - k * b) + (c - k * d) = (a + c) - k * (b + d)
      OBVIOUS
    <3>6. SumFunctionOnSet(h, t) = SumFunctionOnSet(f, t) - k * SumFunctionOnSet(g, t)
      BY <3>1, <3>2, <3>3, <3>4, <3>5 DEF Combines
    <3> QED BY <3>6 DEF Combines
  <2> QED BY <2>2, <2>3
<1> HIDE DEF Q
<1>2. S \in Q
  BY <1>1, OverSubsets
<1> QED BY <1>2 DEF Q

LEMMA SumsAlike ==
    ASSUME NEW S, IsFiniteSet(S), NEW f, NEW g, Ints(f, S), \A x \in S : f[x] = g[x]
    PROVE  SumFunctionOnSet(f, S) = SumFunctionOnSet(g, S)
<1>1. \A x \in S : g[x] = f[x] - 0 * f[x]
  BY DEF Ints
<1>2. Combines(f, f, g, 0, S)
  BY <1>1, SumCombines
<1>3. SumFunctionOnSet(f, S) \in Int
  BY SumInt
<1> QED BY <1>2, <1>3 DEF Combines

LEMMA SumsAdd ==
    ASSUME NEW S, IsFiniteSet(S), NEW f, NEW g, NEW h, Ints(f, S), Ints(g, S),
           \A x \in S : h[x] = f[x] + g[x]
    PROVE  SumFunctionOnSet(h, S) = SumFunctionOnSet(f, S) + SumFunctionOnSet(g, S)
<1>1. \A x \in S : h[x] = f[x] - (-1) * g[x]
  BY DEF Ints
<1>2. Combines(f, g, h, -1, S)
  BY <1>1, SumCombines
<1>3. SumFunctionOnSet(f, S) \in Int /\ SumFunctionOnSet(g, S) \in Int
  BY SumInt
<1> QED BY <1>2, <1>3 DEF Combines

LEMMA SumsLeq ==
    ASSUME NEW S, IsFiniteSet(S), NEW f, NEW g, Ints(f, S), Ints(g, S),
           \A x \in S : f[x] <= g[x]
    PROVE  SumFunctionOnSet(f, S) <= SumFunctionOnSet(g, S)
<1> DEFINE Q == {t \in SUBSET S : SumFunctionOnSet(f, t) <= SumFunctionOnSet(g, t)}
<1>1. ASSUME NEW t \in SUBSET S, \A u \in SUBSET t : u # t => u \in Q PROVE t \in Q
  <2>1. IsFiniteSet(t) /\ Ints(f, t) /\ Ints(g, t)
    BY FS_Subset DEF Ints
  <2>2. CASE t = {}
    BY <2>2, SumEmpty
  <2>3. CASE t # {}
    <3> PICK x \in t : TRUE
      BY <2>3
    <3> DEFINE u == t \ {x}
    <3>1. /\ SumFunctionOnSet(f, u) <= SumFunctionOnSet(g, u)
          /\ IsFiniteSet(u) /\ Ints(f, u) /\ Ints(g, u)
      BY <1>1, <2>1, FS_Subset DEF Ints
    <3>2. /\ SumFunctionOnSet(f, t) = f[x] + SumFunctionOnSet(f, u)
          /\ SumFunctionOnSet(g, t) = g[x] + SumFunctionOnSet(g, u)
      BY <2>1, SumTakes DEF Takes
    <3>3. SumFunctionOnSet(f, u) \in Int /\ SumFunctionOnSet(g, u) \in Int
      BY <3>1, SumInt
    <3>4. f[x] \in Int /\ g[x] \in Int /\ f[x] <= g[x]
      BY <2>1 DEF Ints
    <3> HIDE DEF u
    <3> QED BY <3>1, <3>2, <3>3, <3>4
  <2> QED BY <2>2, <2>3
<1> HIDE DEF Q
<1>2. S \in Q
  BY <1>1, OverSubsets
<1> QED BY <1>2 DEF Q

LEMMA SumOfUnion ==
    ASSUME NEW S, IsFiniteSet(S), NEW U, NEW V, S = U \cup V, U \cap V = {},
           NEW f, Ints(f, S)
    PROVE  SumFunctionOnSet(f, S) = SumFunctionOnSet(f, U) + SumFunctionOnSet(f, V)
<1> DEFINE Q == {t \in SUBSET V :
                   SumFunctionOnSet(f, U \cup t) = SumFunctionOnSet(f, U) + SumFunctionOnSet(f, t)}
<1>1. IsFiniteSet(U) /\ IsFiniteSet(V) /\ Ints(f, U) /\ SumFunctionOnSet(f, U) \in Int
  BY FS_Subset, SumInt DEF Ints
<1>2. ASSUME NEW t \in SUBSET V, \A u \in SUBSET t : u # t => u \in Q PROVE t \in Q
  <2>1. IsFiniteSet(t) /\ Ints(f, t) /\ IsFiniteSet(U \cup t) /\ Ints(f, U \cup t)
    BY FS_Subset DEF Ints
  <2>2. CASE t = {}
    BY <1>1, <2>2, SumEmpty
  <2>3. CASE t # {}
    <3> PICK x \in t : TRUE
      BY <2>3
    <3> DEFINE u == t \ {x}
    <3>1. SumFunctionOnSet(f, U \cup u) = SumFunctionOnSet(f, U) + SumFunctionOnSet(f, u)
      BY <1>2
    <3>2. IsFiniteSet(u) /\ Ints(f, u) /\ (U \cup t) \ {x} = U \cup u
      BY <2>1, FS_Subset DEF Ints
    <3>3. SumFunctionOnSet(f, t) = f[x] + SumFunctionOnSet(f, u)
      BY <2>1, SumTakes DEF Takes
    <3>4. SumFunctionOnSet(f, U \cup t) = f[x] + SumFunctionOnSet(f, U \cup u)
      BY <2>1, <3>2, SumTakes DEF Takes
    <3>5. SumFunctionOnSet(f, u) \in Int /\ f[x] \in Int
      BY <2>1, <3>2, SumInt DEF Ints
    <3> HIDE DEF u
    <3> QED BY <1>1, <3>1, <3>3, <3>4, <3>5
  <2> QED BY <2>2, <2>3
<1> HIDE DEF Q
<1>3. V \in Q
  BY <1>1, <1>2, OverSubsets
<1> QED BY <1>3 DEF Q

SumsOver(f, U, V) ==
    SumFunctionOnSet(f, U \cup V) = SumFunctionOnSet(f, U) + SumFunctionOnSet(f, V)

LEMMA SumOverBoth ==
    ASSUME NEW U, NEW V, IsFiniteSet(U \cup V), U \cap V = {}, NEW f, Ints(f, U \cup V)
    PROVE  SumsOver(f, U, V)
<1> PICK S : S = U \cup V
  OBVIOUS
<1>1. SumFunctionOnSet(f, S) = SumFunctionOnSet(f, U) + SumFunctionOnSet(f, V)
  BY SumOfUnion
<1> QED BY <1>1 DEF SumsOver

\* Summands that are zero may be left out.
LEMMA SumOfRest ==
    ASSUME NEW S, IsFiniteSet(S), NEW T, T \subseteq S, NEW f, Ints(f, S),
           \A x \in S \ T : f[x] = 0
    PROVE  SumFunctionOnSet(f, S) = SumFunctionOnSet(f, T)
<1> DEFINE R == S \ T
<1>1. IsFiniteSet(R) /\ IsFiniteSet(T) /\ Ints(f, R) /\ Ints(f, T) /\ S = T \cup R /\ T \cap R = {}
  BY FS_Subset DEF Ints
<1>2. \A x \in R : f[x] = f[x] - 1 * f[x]
  OBVIOUS
<1> HIDE DEF R
<1>3. Combines(f, f, f, 1, R)
  BY <1>1, <1>2, SumCombines
<1>4. SumFunctionOnSet(f, R) \in Int /\ SumFunctionOnSet(f, T) \in Int
  BY <1>1, SumInt
<1>5. SumFunctionOnSet(f, R) = 0
  BY <1>3, <1>4 DEF Combines
<1> QED BY <1>1, <1>4, <1>5, SumOfUnion

(***************************************************************************)
(* A measure of sets that is no greater for two together than for each is  *)
(* no greater for the whole than for the parts by any key; one that adds   *)
(* up, adds up over the parts.                                             *)
(***************************************************************************)
PartsBy(N, key, k) == {n \in N : key[n] = k}

Subadditive(e, N) ==
    \A U, V \in SUBSET N : U \cap V = {} => e[U \cup V] <= e[U] + e[V]

Additive(e, N) ==
    \A U, V \in SUBSET N : U \cap V = {} => e[U \cup V] = e[U] + e[V]

LEMMA WholeIsNoMore ==
    ASSUME NEW N, NEW K, IsFiniteSet(K), NEW key, \A n \in N : key[n] \in K,
           NEW e \in [SUBSET N -> Int], e[{}] = 0, Subadditive(e, N)
    PROVE  e[N] <= SumFunctionOnSet([k \in K |-> e[PartsBy(N, key, k)]], K)
<1> DEFINE part == [k \in K |-> e[PartsBy(N, key, k)]]
           Within(J) == {n \in N : key[n] \in J}
           Q == {J \in SUBSET K : e[Within(J)] <= SumFunctionOnSet(part, J)}
<1>1. Ints(part, K)
  BY DEF Ints, PartsBy
<1>2. ASSUME NEW J \in SUBSET K, \A I \in SUBSET J : I # J => I \in Q PROVE J \in Q
  <2>1. IsFiniteSet(J) /\ Ints(part, J)
    BY <1>1, FS_Subset DEF Ints
  <2>2. CASE J = {}
    <3>1. Within(J) = {}
      BY <2>2
    <3>2. SumFunctionOnSet(part, J) = 0
      <4> HIDE DEF part
      <4> QED BY <2>2, SumEmpty
    <3>3. e[Within(J)] <= SumFunctionOnSet(part, J)
      BY <3>1, <3>2
    <3> QED BY <3>3
  <2>3. CASE J # {}
    <3> PICK k \in J : TRUE
      BY <2>3
    <3> DEFINE I == J \ {k}
    <3>1. e[Within(I)] <= SumFunctionOnSet(part, I)
      BY <1>2
    <3>2. SumFunctionOnSet(part, J) = part[k] + SumFunctionOnSet(part, I)
      BY <2>1, SumTakes DEF Takes
    <3>3. /\ Within(J) = PartsBy(N, key, k) \cup Within(I)
          /\ PartsBy(N, key, k) \cap Within(I) = {}
      BY DEF PartsBy
    <3>4. PartsBy(N, key, k) \in SUBSET N /\ Within(I) \in SUBSET N
      BY DEF PartsBy
    <3>5. e[Within(J)] <= part[k] + e[Within(I)]
      BY <3>3, <3>4 DEF Subadditive
    <3>6. /\ e[Within(J)] \in Int /\ e[Within(I)] \in Int /\ part[k] \in Int
          /\ SumFunctionOnSet(part, I) \in Int
      <4>1. IsFiniteSet(I) /\ Ints(part, I)
        BY <2>1, FS_Subset DEF Ints
      <4>2. Within(J) \in SUBSET N
        OBVIOUS
      <4> HIDE DEF part, Within, I
      <4> QED BY <1>1, <3>4, <4>1, <4>2, SumInt DEF Ints
    <3> HIDE DEF part, Within, I
    <3>7. e[Within(J)] <= SumFunctionOnSet(part, J)
      BY <3>1, <3>2, <3>5, <3>6
    <3> QED BY <3>7
  <2> QED BY <2>2, <2>3
<1>3. K \in Q
  <2> HIDE DEF Q
  <2> QED BY <1>2, OverSubsets
<1>4. Within(K) = N
  OBVIOUS
<1> HIDE DEF part, Within
<1> QED BY <1>3, <1>4 DEF part

LEMMA WholeIsTheSum ==
    ASSUME NEW N, NEW K, IsFiniteSet(K), NEW key, \A n \in N : key[n] \in K,
           NEW e \in [SUBSET N -> Int], e[{}] = 0, Additive(e, N)
    PROVE  e[N] = SumFunctionOnSet([k \in K |-> e[PartsBy(N, key, k)]], K)
<1> DEFINE minus == [t \in SUBSET N |-> -e[t]]
           part == [k \in K |-> e[PartsBy(N, key, k)]]
           negated == [k \in K |-> minus[PartsBy(N, key, k)]]
<1>1. \A k : PartsBy(N, key, k) \in SUBSET N
  BY DEF PartsBy
<1>2. Ints(part, K) /\ Ints(negated, K) /\ \A k \in K : 0 = negated[k] - (-1) * part[k]
  BY <1>1 DEF Ints
<1>3. e[N] <= SumFunctionOnSet(part, K)
  <2>1. Subadditive(e, N)
    <3> SUFFICES ASSUME NEW U \in SUBSET N, NEW V \in SUBSET N, U \cap V = {}
                 PROVE  e[U \cup V] <= e[U] + e[V]
      BY DEF Subadditive
    <3>1. e[U \cup V] = e[U] + e[V] /\ e[U \cup V] \in Int
      BY DEF Additive
    <3> QED BY <3>1
  <2> QED BY <2>1, WholeIsNoMore
<1>4. minus[N] <= SumFunctionOnSet(negated, K)
  <2>1. minus \in [SUBSET N -> Int] /\ minus[{}] = 0
    OBVIOUS
  <2>2. Subadditive(minus, N)
    <3> SUFFICES ASSUME NEW U \in SUBSET N, NEW V \in SUBSET N, U \cap V = {}
                 PROVE  minus[U \cup V] <= minus[U] + minus[V]
      BY DEF Subadditive
    <3>1. e[U \cup V] = e[U] + e[V] /\ e[U] \in Int /\ e[V] \in Int
      BY DEF Additive
    <3>2. minus[U \cup V] = -e[U \cup V] /\ minus[U] = -e[U] /\ minus[V] = -e[V]
      OBVIOUS
    <3> HIDE DEF minus
    <3> QED BY <3>1, <3>2
  <2> HIDE DEF minus
  <2> QED BY <2>1, <2>2, WholeIsNoMore
<1>5. SumFunctionOnSet(negated, K) = -SumFunctionOnSet(part, K)
  <2> DEFINE zero == [k \in K |-> 0]
  <2>1. Ints(zero, K) /\ \A k \in K : zero[k] = negated[k] - (-1) * part[k]
    BY <1>2 DEF Ints
  <2>2. SumFunctionOnSet(zero, K) = 0
    <3> PICK none : none = {}
      OBVIOUS
    <3>1. none \subseteq K /\ \A k \in K \ none : zero[k] = 0
      OBVIOUS
    <3> HIDE DEF zero
    <3>2. SumFunctionOnSet(zero, K) = SumFunctionOnSet(zero, none)
      BY <2>1, <3>1, SumOfRest
    <3> QED BY <3>2, SumEmpty
  <2> HIDE DEF zero, part, negated
  <2>3. Combines(negated, part, zero, -1, K)
    BY <1>2, <2>1, SumCombines
  <2>4. SumFunctionOnSet(part, K) \in Int /\ SumFunctionOnSet(negated, K) \in Int
    BY <1>2, SumInt
  <2> QED BY <2>2, <2>3, <2>4 DEF Combines
<1>6. SumFunctionOnSet(part, K) \in Int /\ minus[N] = -e[N] /\ e[N] \in Int
  <2> HIDE DEF part
  <2> QED BY <1>2, SumInt
<1> HIDE DEF part, negated, minus
<1>7. e[N] = SumFunctionOnSet(part, K)
  BY <1>3, <1>4, <1>5, <1>6
<1> QED BY <1>7 DEF part

-----------------------------------------------------------------------------
(* Bins.                                                                    *)

LEMMA ProductsOrder ==
    ASSUME NEW a \in Int, NEW b \in Int, NEW c \in Nat \ {0}
    PROVE  /\ a * c < b * c => a < b
           /\ a <= b => a * c <= b * c
  OBVIOUS

LEMMA Division ==
    ASSUME NEW p \in Nat, NEW c \in Nat \ {0}
    PROVE  /\ p \div c \in Nat
           /\ (p \div c) * c <= p
           /\ p < ((p \div c) + 1) * c
  OBVIOUS

LEMMA BinsAreTheCurves ==
    ASSUME NEW x \in Scored
    PROVE  /\ BinOf(x) \in 0..(Bins - 1)
           /\ \A b \in 0..(Bins - 1) : InBin(x, b) <=> BinOf(x) = b
<1> DEFINE p == x.prob * Bins
           q == p \div Scale
<1>1. Scale \in Nat \ {0} /\ Bins \in Nat \ {0} /\ x.prob \in 0..Scale
  BY EvaluationAssumption DEF Scored
<1>2. CASE x.prob = Scale
  <2>1. \A b \in 0..(Bins - 1) :
          b * Scale <= p /\ (p < (b + 1) * Scale => b = Bins - 1)
    <3> SUFFICES ASSUME NEW b \in 0..(Bins - 1)
                 PROVE  b * Scale <= p /\ (p < (b + 1) * Scale => b = Bins - 1)
      OBVIOUS
    <3>1. p = Bins * Scale /\ b \in Int /\ b + 1 \in Int /\ b <= Bins /\ Bins \in Int
      BY <1>1, <1>2
    <3> HIDE DEF p
    <3>2. b * Scale <= p
      BY <1>1, <3>1, ProductsOrder
    <3>3. p < (b + 1) * Scale => Bins < b + 1
      BY <1>1, <3>1, ProductsOrder
    <3> QED BY <1>1, <3>1, <3>2, <3>3
  <2> QED BY <1>1, <1>2, <2>1 DEF BinOf, InBin
<1>3. CASE x.prob # Scale
  <2>1. p \in Nat /\ p < Bins * Scale
    <3>1. x.prob + 1 <= Scale /\ x.prob \in Int
      BY <1>1, <1>3
    <3>2. (x.prob + 1) * Bins <= Scale * Bins
      BY <1>1, <3>1, ProductsOrder
    <3>3. (x.prob + 1) * Bins = p + Bins /\ Scale * Bins = Bins * Scale /\ p \in Nat
      BY <1>1
    <3> HIDE DEF p
    <3> QED BY <1>1, <3>2, <3>3
  <2> HIDE DEF p
  <2>2. q \in Nat /\ q * Scale <= p /\ p < (q + 1) * Scale
    BY <1>1, <2>1, Division
  <2> HIDE DEF q
  <2>3. q < Bins
    <3>1. q * Scale \in Int /\ Bins * Scale \in Int
      BY <1>1, <2>2
    <3>2. q * Scale < Bins * Scale
      BY <2>1, <2>2, <3>1
    <3> QED BY <1>1, <2>2, <3>2, ProductsOrder
  <2>4. ASSUME NEW b \in 0..(Bins - 1), b * Scale <= p, p < (b + 1) * Scale
        PROVE  b = q
    <3>1. b \in Int /\ b * Scale \in Int /\ (b + 1) * Scale \in Int
          /\ q * Scale \in Int /\ (q + 1) * Scale \in Int
      BY <1>1, <2>2
    <3>2. q * Scale < (b + 1) * Scale /\ b * Scale < (q + 1) * Scale
      BY <2>1, <2>2, <2>4, <3>1
    <3>3. q < b + 1 /\ b < q + 1
      BY <1>1, <2>2, <3>1, <3>2, ProductsOrder
    <3> QED BY <2>2, <3>1, <3>3
  <2>5. BinOf(x) = q
    BY <1>3 DEF BinOf, q, p
  <2>6. \A b \in 0..(Bins - 1) : InBin(x, b) <=> b * Scale <= p /\ p < (b + 1) * Scale
    BY <1>3 DEF InBin, p
  <2> QED BY <1>1, <2>2, <2>3, <2>4, <2>5, <2>6
<1> QED BY <1>2, <1>3

(***************************************************************************)
(* The samples.                                                            *)
(***************************************************************************)
LEMMA Samples ==
    ASSUME NEW s \in Seq(Scored)
    PROVE  /\ IsFiniteSet(DOMAIN s)
           /\ \A n \in DOMAIN s : s[n] \in Scored
           /\ \A n \in DOMAIN s : s[n].prob \in Int /\ s[n].label \in Int
<1>1. DOMAIN s = 1..Len(s) /\ Len(s) \in Nat /\ \A n \in 1..Len(s) : s[n] \in Scored
  OBVIOUS
<1>2. IsFiniteSet(DOMAIN s)
  BY <1>1, FS_Interval
<1>3. Scale \in Nat
  BY EvaluationAssumption
<1> QED BY <1>1, <1>2, <1>3 DEF Scored

Gaps(s) == [n \in DOMAIN s |-> s[n].prob - Scale * s[n].label]
Mask(s, N, b) == {n \in N : InBin(s[n], b)}

LEMMA BinErrorOfGaps ==
    ASSUME NEW s \in Seq(Scored), NEW N \in SUBSET DOMAIN s, NEW b
    PROVE  /\ BinError(s, N, b) = Abs(SumFunctionOnSet(Gaps(s), Mask(s, N, b)))
           /\ SumFunctionOnSet(Gaps(s), Mask(s, N, b)) \in Int
           /\ IsFiniteSet(Mask(s, N, b)) /\ Ints(Gaps(s), Mask(s, N, b))
<1> DEFINE probs == [n \in DOMAIN s |-> s[n].prob]
           labels == [n \in DOMAIN s |-> s[n].label]
           M == Mask(s, N, b)
           gaps == Gaps(s)
<1>1. M \in SUBSET DOMAIN s /\ IsFiniteSet(M)
  BY Samples, FS_Subset DEF Mask
<1>2. Scale \in Int
  BY EvaluationAssumption
<1>3. Ints(probs, M) /\ Ints(labels, M) /\ \A n \in M : gaps[n] = probs[n] - Scale * labels[n]
  BY <1>1, Samples DEF Ints, Gaps
<1>4. BinError(s, N, b) = Abs(SumFunctionOnSet(probs, M) - Scale * SumFunctionOnSet(labels, M))
  BY DEF BinError, Mask
<1>5. Ints(gaps, M)
  <2>1. \A n \in M : s[n].prob \in Int /\ s[n].label \in Int
    BY <1>1, Samples
  <2>2. \A n \in M : gaps[n] = s[n].prob - Scale * s[n].label
    BY <1>1 DEF Gaps
  <2> HIDE DEF gaps, M
  <2> QED BY <1>2, <2>1, <2>2 DEF Ints
<1> HIDE DEF probs, labels, M, gaps
<1>6. Combines(probs, labels, gaps, Scale, M)
  BY <1>1, <1>2, <1>3, SumCombines
<1>7. SumFunctionOnSet(gaps, M) \in Int
  BY <1>1, <1>5, SumInt
<1> QED BY <1>1, <1>4, <1>5, <1>6, <1>7 DEF Combines, M, gaps

(***************************************************************************)
(* The calibration error is the reliability curve's.                       *)
(***************************************************************************)
LEMMA CalibrationIsTheCurves ==
    ASSUME NEW s \in Seq(Scored)
    PROVE  CalibrationError(s, DOMAIN s) = ReferenceError(s)
<1> DEFINE N == DOMAIN s
           S == 0..(Bins - 1)
           T == {BinOf(s[n]) : n \in N}
           f == [b \in S |-> BinError(s, N, b)]
           g == [b \in T |-> Abs(SumFunctionOnSet(Gaps(s), {n \in N : BinOf(s[n]) = b}))]
<1>1. IsFiniteSet(S)
  BY EvaluationAssumption, FS_Interval
<1>2. T \subseteq S
  BY Samples, BinsAreTheCurves
<1>3. \A b \in S : Mask(s, N, b) = {n \in N : BinOf(s[n]) = b}
  BY Samples, BinsAreTheCurves DEF Mask
<1>4. \A b \in S : f[b] = Abs(SumFunctionOnSet(Gaps(s), Mask(s, N, b))) /\ f[b] \in Int
  BY BinErrorOfGaps DEF Abs
<1>5. \A b \in T : f[b] = g[b]
  BY <1>2, <1>3, <1>4
<1>6. \A b \in S \ T : f[b] = 0
  <2> SUFFICES ASSUME NEW b \in S \ T PROVE f[b] = 0
    OBVIOUS
  <2>1. Mask(s, N, b) = {}
    BY <1>3
  <2>2. SumFunctionOnSet(Gaps(s), Mask(s, N, b)) = 0
    BY <2>1, SumEmpty
  <2> QED BY <1>4, <2>2 DEF Abs
<1>7. CalibrationError(s, N) = SumFunctionOnSet(f, S) /\ ReferenceError(s) = SumFunctionOnSet(g, T)
  BY DEF CalibrationError, ReferenceError, SumFunction, Gaps
<1> HIDE DEF f, g, S, T
<1>8. Ints(f, S) /\ IsFiniteSet(T) /\ Ints(f, T)
  BY <1>1, <1>2, <1>4, FS_Subset DEF Ints
<1> QED BY <1>1, <1>2, <1>5, <1>6, <1>7, <1>8, SumOfRest, SumsAlike

(***************************************************************************)
(* Errors of opposite sign cancel when samples are put together: never the *)
(* other way round.                                                        *)
(***************************************************************************)
LEMMA ErrorIsANumber ==
    ASSUME NEW s \in Seq(Scored), NEW U \in SUBSET DOMAIN s
    PROVE  CalibrationError(s, U) \in Int
<1> DEFINE S == 0..(Bins - 1)
           f == [b \in S |-> BinError(s, U, b)]
<1>1. IsFiniteSet(S)
  BY EvaluationAssumption, FS_Interval
<1>2. Ints(f, S)
  BY BinErrorOfGaps DEF Abs, Ints
<1>3. CalibrationError(s, U) = SumFunctionOnSet(f, S)
  BY DEF CalibrationError, SumFunction
<1> HIDE DEF f, S
<1> QED BY <1>1, <1>2, <1>3, SumInt

LEMMA ErrorsCancel ==
    ASSUME NEW s \in Seq(Scored), NEW U \in SUBSET DOMAIN s, NEW V \in SUBSET DOMAIN s,
           U \cap V = {}
    PROVE  CalibrationError(s, U \cup V) <= CalibrationError(s, U) + CalibrationError(s, V)
<1> DEFINE S == 0..(Bins - 1)
           E(M) == [b \in S |-> BinError(s, M, b)]
           both == [b \in S |-> BinError(s, U, b) + BinError(s, V, b)]
<1>1. IsFiniteSet(S)
  BY EvaluationAssumption, FS_Interval
<1>2. \A M : CalibrationError(s, M) = SumFunctionOnSet(E(M), S)
  BY DEF CalibrationError, SumFunction
<1>3. ASSUME NEW M \in SUBSET DOMAIN s PROVE \A b \in S : BinError(s, M, b) \in Int
  BY BinErrorOfGaps DEF Abs
<1>4. \A b \in S : BinError(s, U \cup V, b) <= BinError(s, U, b) + BinError(s, V, b)
  <2> SUFFICES ASSUME NEW b \in S
               PROVE  BinError(s, U \cup V, b) <= BinError(s, U, b) + BinError(s, V, b)
    OBVIOUS
  <2> DEFINE sum(M) == SumFunctionOnSet(Gaps(s), Mask(s, M, b))
  <2>1. /\ Mask(s, U \cup V, b) = Mask(s, U, b) \cup Mask(s, V, b)
        /\ Mask(s, U, b) \cap Mask(s, V, b) = {}
    BY DEF Mask
  <2>2. U \cup V \in SUBSET DOMAIN s
    OBVIOUS
  <2>3. sum(U \cup V) = sum(U) + sum(V)
    <3>1. IsFiniteSet(Mask(s, U \cup V, b)) /\ Ints(Gaps(s), Mask(s, U \cup V, b))
      BY <2>2, BinErrorOfGaps
    <3>2. SumsOver(Gaps(s), Mask(s, U, b), Mask(s, V, b))
      BY <2>1, <3>1, SumOverBoth
    <3> QED BY <2>1, <3>2 DEF SumsOver
  <2>4. /\ BinError(s, U \cup V, b) = Abs(sum(U \cup V))
        /\ BinError(s, U, b) = Abs(sum(U)) /\ BinError(s, V, b) = Abs(sum(V))
        /\ sum(U) \in Int /\ sum(V) \in Int
    BY <2>2, BinErrorOfGaps
  <2> HIDE DEF sum
  <2> QED BY <2>3, <2>4 DEF Abs
<1>5. Ints(E(U), S) /\ Ints(E(V), S) /\ Ints(E(U \cup V), S) /\ Ints(both, S)
  <2>1. U \cup V \in SUBSET DOMAIN s
    OBVIOUS
  <2> QED BY <1>3, <2>1 DEF Ints
<1>6. /\ \A b \in S : both[b] = E(U)[b] + E(V)[b]
      /\ \A b \in S : E(U \cup V)[b] <= both[b]
  BY <1>4
<1> HIDE DEF E, both, S
<1>7. SumFunctionOnSet(both, S) = SumFunctionOnSet(E(U), S) + SumFunctionOnSet(E(V), S)
  BY <1>1, <1>5, <1>6, SumsAdd
<1>8. SumFunctionOnSet(E(U \cup V), S) <= SumFunctionOnSet(both, S)
  BY <1>1, <1>5, <1>6, SumsLeq
<1> QED BY <1>2, <1>7, <1>8
LEMMA NoSamplesNoError ==
    ASSUME NEW s \in Seq(Scored) PROVE CalibrationError(s, {}) = 0
<1> PICK none : none = {}
  OBVIOUS
<1> DEFINE S == 0..(Bins - 1)
           f == [b \in S |-> BinError(s, none, b)]
<1>1. \A b \in S : f[b] = 0
  <2> SUFFICES ASSUME NEW b \in S PROVE BinError(s, none, b) = 0
    OBVIOUS
  <2>1. Mask(s, none, b) = {}
    BY DEF Mask
  <2>2. SumFunctionOnSet(Gaps(s), Mask(s, none, b)) = 0
    BY <2>1, SumEmpty
  <2>3. BinError(s, none, b) = Abs(SumFunctionOnSet(Gaps(s), Mask(s, none, b)))
    BY BinErrorOfGaps
  <2> QED BY <2>2, <2>3 DEF Abs
<1>2. IsFiniteSet(S)
  BY EvaluationAssumption, FS_Interval
<1>3. CalibrationError(s, none) = SumFunctionOnSet(f, S)
  BY DEF CalibrationError, SumFunction
<1> HIDE DEF f, S
<1>4. Ints(f, S) /\ none \subseteq S /\ \A b \in S \ none : f[b] = 0
  BY <1>1 DEF Ints
<1>5. SumFunctionOnSet(f, S) = SumFunctionOnSet(f, none)
  BY <1>2, <1>4, SumOfRest
<1> QED BY <1>3, <1>5, SumEmpty

(***************************************************************************)
(* The groups part the samples.                                            *)
(***************************************************************************)
Keys(s) == {s[n].group : n \in DOMAIN s}
KeyOf(s) == [n \in DOMAIN s |-> s[n].group]

LEMMA GroupsArePartsBy ==
    ASSUME NEW s \in Seq(Scored)
    PROVE  /\ IsFiniteSet(Keys(s))
           /\ \A n \in DOMAIN s : KeyOf(s)[n] \in Keys(s)
           /\ \A g : PartsBy(DOMAIN s, KeyOf(s), g) = Group(s, g)
<1>1. KeyOf(s) \in Surjection(DOMAIN s, Keys(s))
  BY DEF KeyOf, Keys, Surjection
<1>2. IsFiniteSet(Keys(s))
  BY <1>1, Samples, FS_Surjection
<1>3. \A g : PartsBy(DOMAIN s, KeyOf(s), g) = Group(s, g)
  BY DEF PartsBy, KeyOf, Group
<1> QED BY <1>2, <1>3 DEF KeyOf, Keys

LEMMA CountsAddUp ==
    ASSUME NEW s \in Seq(Scored), NEW H \in SUBSET DOMAIN s
    PROVE  Cardinality(H) =
             SumFunctionOnSet([g \in Keys(s) |-> Cardinality(Group(s, g) \cap H)], Keys(s))
<1> DEFINE N == DOMAIN s
           e == [t \in SUBSET N |-> Cardinality(t \cap H)]
           counts == [g \in Keys(s) |-> Cardinality(Group(s, g) \cap H)]
           parts == [g \in Keys(s) |-> e[PartsBy(N, KeyOf(s), g)]]
<1>1. \A t \in SUBSET N : IsFiniteSet(t \cap H) /\ Cardinality(t \cap H) \in Nat
  BY Samples, FS_Subset, FS_CardinalityType
<1>2. e \in [SUBSET N -> Int] /\ e[{}] = 0
  BY <1>1, FS_EmptySet
<1>3. Additive(e, N)
  <2> SUFFICES ASSUME NEW U \in SUBSET N, NEW V \in SUBSET N, U \cap V = {}
               PROVE  Cardinality((U \cup V) \cap H) = Cardinality(U \cap H) + Cardinality(V \cap H)
    BY DEF Additive
  <2>1. Cardinality((U \cap H) \cup (V \cap H)) =
          Cardinality(U \cap H) + Cardinality(V \cap H) - Cardinality((U \cap H) \cap (V \cap H))
    BY <1>1, FS_Union
  <2>2. (U \cap H) \cup (V \cap H) = (U \cup V) \cap H /\ (U \cap H) \cap (V \cap H) = {}
    OBVIOUS
  <2>3. Cardinality((U \cap H) \cap (V \cap H)) = 0
    BY <2>2, FS_EmptySet
  <2>4. Cardinality((U \cup V) \cap H) = Cardinality((U \cap H) \cup (V \cap H))
    BY <2>2
  <2>5. Cardinality(U \cap H) \in Nat /\ Cardinality(V \cap H) \in Nat
    BY <1>1
  <2> QED BY <2>1, <2>3, <2>4, <2>5
<1>4. parts = counts
  <2>1. \A g : PartsBy(N, KeyOf(s), g) = Group(s, g) /\ Group(s, g) \in SUBSET N
    BY GroupsArePartsBy DEF Group
  <2>2. \A g \in Keys(s) : e[PartsBy(N, KeyOf(s), g)] = Cardinality(Group(s, g) \cap H)
    BY <2>1
  <2> HIDE DEF e
  <2> QED BY <2>2
<1>5. e[N] = Cardinality(H)
  <2>1. N \cap H = H
    OBVIOUS
  <2> QED BY <2>1
<1> HIDE DEF e
<1>6. e[N] = SumFunctionOnSet(parts, Keys(s))
  <2> PICK K, key : K = Keys(s) /\ key = KeyOf(s)
    OBVIOUS
  <2>1. IsFiniteSet(K) /\ \A n \in N : key[n] \in K
    BY GroupsArePartsBy
  <2> HIDE DEF N
  <2>2. e[N] = SumFunctionOnSet([k \in K |-> e[PartsBy(N, key, k)]], K)
    BY <1>2, <1>3, <2>1, WholeIsTheSum
  <2> QED BY <2>2
<1> QED BY <1>4, <1>5, <1>6

LEMMA GroupsHideNoError ==
    ASSUME NEW s \in Seq(Scored)
    PROVE  CalibrationError(s, DOMAIN s) <=
             SumFunctionOnSet([g \in Keys(s) |-> CalibrationError(s, Group(s, g))], Keys(s))
<1> DEFINE N == DOMAIN s
           e == [t \in SUBSET N |-> CalibrationError(s, t)]
           errors == [g \in Keys(s) |-> CalibrationError(s, Group(s, g))]
           parts == [g \in Keys(s) |-> e[PartsBy(N, KeyOf(s), g)]]
<1>1. e \in [SUBSET N -> Int]
  <2>1. \A t \in SUBSET N : CalibrationError(s, t) \in Int
    BY ErrorIsANumber
  <2> QED BY <2>1
<1>2. Subadditive(e, N)
  BY ErrorsCancel DEF Subadditive
<1>3. e[{}] = 0
  BY NoSamplesNoError
<1>4. parts = errors
  <2>1. \A g : PartsBy(N, KeyOf(s), g) = Group(s, g) /\ Group(s, g) \in SUBSET N
    BY GroupsArePartsBy DEF Group
  <2>2. \A g \in Keys(s) : e[PartsBy(N, KeyOf(s), g)] = CalibrationError(s, Group(s, g))
    BY <2>1
  <2> HIDE DEF e
  <2> QED BY <2>2
<1>5. e[N] = CalibrationError(s, N)
  OBVIOUS
<1> HIDE DEF e
<1>6. e[N] <= SumFunctionOnSet(parts, Keys(s))
  <2> PICK K, key : K = Keys(s) /\ key = KeyOf(s)
    OBVIOUS
  <2>1. IsFiniteSet(K) /\ \A n \in N : key[n] \in K
    BY GroupsArePartsBy
  <2> HIDE DEF N
  <2>2. e[N] <= SumFunctionOnSet([k \in K |-> e[PartsBy(N, key, k)]], K)
    BY <1>1, <1>2, <1>3, <2>1, WholeIsNoMore
  <2> QED BY <2>2
<1> QED BY <1>4, <1>5, <1>6

Positive(s, M) == {n \in M : s[n].label = 1}
Predicted(s, M) == {n \in M : s[n].prob >= Decision}
Confirmed(s, M) == Positive(s, M) \cap Predicted(s, M)

LEMMA MetricsAre ==
    ASSUME NEW s, NEW M
    PROVE  /\ Metrics(s, M)["sample_count"] = Cardinality(M)
           /\ Metrics(s, M)["positives"] = Cardinality(Positive(s, M))
           /\ Metrics(s, M)["predicted"] = Cardinality(Predicted(s, M))
           /\ Metrics(s, M)["confirmed"] = Cardinality(Confirmed(s, M))
           /\ Metrics(s, M)["ece"] = CalibrationError(s, M)
  BY DEF Metrics, Positive, Predicted, Confirmed

LEMMA MetricsOfGroups ==
    ASSUME NEW s, NEW g \in Keys(s)
    PROVE  MetricsByGroup(s)[g] = Metrics(s, Group(s, g))
  BY DEF MetricsByGroup, Keys

LEMMA AucIfBothClasses ==
    ASSUME NEW s, NEW M
    PROVE  Metrics(s, M).has_auc <=> Cardinality({s[n].label : n \in M}) > 1
  BY DEF Metrics

LEMMA MetricsAddUp ==
    ASSUME NEW s \in Seq(Scored) PROVE AddsUp(s)
<1> DEFINE N == DOMAIN s
           whole == Metrics(s, N)
           groups == MetricsByGroup(s)
           sum(f) == SumFunction([g \in DOMAIN groups |-> groups[g][f]])
<1>1. DOMAIN groups = Keys(s) /\ \A g \in Keys(s) : groups[g] = Metrics(s, Group(s, g))
  BY DEF MetricsByGroup, Keys
<1>2. whole.ece = ReferenceError(s)
  BY CalibrationIsTheCurves DEF Metrics
<1>3. ASSUME NEW f, NEW H \in SUBSET N, whole[f] = Cardinality(H),
             \A g \in Keys(s) : groups[g][f] = Cardinality(Group(s, g) \cap H)
      PROVE  sum(f) = whole[f]
  <2>1. [g \in DOMAIN groups |-> groups[g][f]]
          = [g \in Keys(s) |-> Cardinality(Group(s, g) \cap H)]
    BY <1>1, <1>3
  <2>2. sum(f) = SumFunctionOnSet([g \in Keys(s) |-> Cardinality(Group(s, g) \cap H)], Keys(s))
    BY <2>1 DEF SumFunction
  <2> QED BY <1>3, <2>2, CountsAddUp
<1>4. sum("sample_count") = whole["sample_count"]
  <2>1. ASSUME NEW g \in Keys(s) PROVE groups[g]["sample_count"] = Cardinality(Group(s, g) \cap N)
    <3>1. Group(s, g) = Group(s, g) \cap N
      BY DEF Group
    <3>2. Metrics(s, Group(s, g))["sample_count"] = Cardinality(Group(s, g) \cap N)
      BY <3>1, MetricsAre
    <3> QED BY <3>2, MetricsOfGroups
  <2>2. N \in SUBSET N /\ whole["sample_count"] = Cardinality(N)
    BY MetricsAre
  <2> HIDE DEF sum, whole, groups
  <2> QED BY <1>3, <2>1, <2>2
<1>5. sum("positives") = whole["positives"]
  <2>1. ASSUME NEW g \in Keys(s) PROVE groups[g]["positives"] = Cardinality(Group(s, g) \cap Positive(s, N))
    <3>1. Positive(s, Group(s, g)) = Group(s, g) \cap Positive(s, N)
      BY DEF Group, Positive
    <3>2. Metrics(s, Group(s, g))["positives"] = Cardinality(Positive(s, Group(s, g)))
      BY MetricsAre
    <3>3. groups[g] = Metrics(s, Group(s, g))
      BY MetricsOfGroups
    <3> HIDE DEF groups
    <3> QED BY <3>1, <3>2, <3>3
  <2>2. Positive(s, N) \in SUBSET N /\ whole["positives"] = Cardinality(Positive(s, N))
    BY MetricsAre DEF Positive
  <2> HIDE DEF sum, whole, groups
  <2> QED BY <1>3, <2>1, <2>2
<1>6. sum("predicted") = whole["predicted"]
  <2>1. ASSUME NEW g \in Keys(s) PROVE groups[g]["predicted"] = Cardinality(Group(s, g) \cap Predicted(s, N))
    <3>1. Predicted(s, Group(s, g)) = Group(s, g) \cap Predicted(s, N)
      BY DEF Group, Predicted
    <3>2. Metrics(s, Group(s, g))["predicted"] = Cardinality(Predicted(s, Group(s, g)))
      BY MetricsAre
    <3>3. groups[g] = Metrics(s, Group(s, g))
      BY MetricsOfGroups
    <3> HIDE DEF groups
    <3> QED BY <3>1, <3>2, <3>3
  <2>2. Predicted(s, N) \in SUBSET N /\ whole["predicted"] = Cardinality(Predicted(s, N))
    BY MetricsAre DEF Predicted
  <2> HIDE DEF sum, whole, groups
  <2> QED BY <1>3, <2>1, <2>2
<1>7. sum("confirmed") = whole["confirmed"]
  <2>1. ASSUME NEW g \in Keys(s) PROVE groups[g]["confirmed"] = Cardinality(Group(s, g) \cap Confirmed(s, N))
    <3>1. Confirmed(s, Group(s, g)) = Group(s, g) \cap Confirmed(s, N)
      BY DEF Group, Confirmed, Positive, Predicted
    <3>2. Metrics(s, Group(s, g))["confirmed"] = Cardinality(Confirmed(s, Group(s, g)))
      BY MetricsAre
    <3>3. groups[g] = Metrics(s, Group(s, g))
      BY MetricsOfGroups
    <3> HIDE DEF groups
    <3> QED BY <3>1, <3>2, <3>3
  <2>2. Confirmed(s, N) \in SUBSET N /\ whole["confirmed"] = Cardinality(Confirmed(s, N))
    BY MetricsAre DEF Confirmed, Positive
  <2> HIDE DEF sum, whole, groups
  <2> QED BY <1>3, <2>1, <2>2
<1>8. whole.ece <= sum("ece")
  <2>1. [g \in DOMAIN groups |-> groups[g]["ece"]]
          = [g \in Keys(s) |-> CalibrationError(s, Group(s, g))]
    <3>1. \A g \in Keys(s) : groups[g]["ece"] = CalibrationError(s, Group(s, g))
      BY MetricsAre, MetricsOfGroups
    <3> HIDE DEF groups
    <3> QED BY <1>1, <3>1
  <2>2. sum("ece") = SumFunctionOnSet([g \in Keys(s) |-> CalibrationError(s, Group(s, g))], Keys(s))
    BY <2>1 DEF SumFunction
  <2>3. whole.ece = CalibrationError(s, N)
    BY DEF Metrics
  <2> QED BY <2>2, <2>3, GroupsHideNoError
<1>9. ASSUME NEW g \in DOMAIN groups, groups[g].has_auc PROVE whole.has_auc
  <2> DEFINE labels(M) == {s[n].label : n \in M}
  <2>1. Metrics(s, Group(s, g)).has_auc /\ Cardinality(labels(Group(s, g))) > 1
    <3>1. groups[g] = Metrics(s, Group(s, g))
      BY <1>1
    <3>2. Metrics(s, Group(s, g)).has_auc
      <4> HIDE DEF groups
      <4> QED BY <1>9, <3>1
    <3> QED BY <3>2, AucIfBothClasses
  <2>2. whole.has_auc <=> Cardinality(labels(N)) > 1
    BY AucIfBothClasses
  <2>3. labels(Group(s, g)) \subseteq labels(N) /\ labels(N) \subseteq {0, 1}
    <3>1. \A n \in N : s[n].label \in {0, 1}
      BY Samples DEF Scored
    <3> QED BY <3>1 DEF Group
  <2>4. IsFiniteSet({0, 1})
    <3>1. IsFiniteSet({0}) /\ IsFiniteSet({1})
      BY FS_Singleton
    <3>2. IsFiniteSet({0} \cup {1})
      BY <3>1, FS_Union
    <3>3. {0, 1} = {0} \cup {1}
      OBVIOUS
    <3> QED BY <3>2, <3>3
  <2>5. IsFiniteSet(labels(N)) /\ IsFiniteSet(labels(Group(s, g)))
    BY <2>3, <2>4, FS_Subset
  <2>6. /\ Cardinality(labels(Group(s, g))) <= Cardinality(labels(N))
        /\ Cardinality(labels(Group(s, g))) \in Nat /\ Cardinality(labels(N)) \in Nat
    BY <2>3, <2>5, FS_Subset, FS_CardinalityType
  <2>7. Cardinality(labels(N)) > 1
    <3> HIDE DEF labels
    <3> QED BY <2>1, <2>6
  <2> QED BY <2>2, <2>7
<1> HIDE DEF sum, whole, groups
<1>10. \A f \in {"sample_count", "positives", "predicted", "confirmed"} : sum(f) = whole[f]
  BY <1>4, <1>5, <1>6, <1>7
<1> USE DEF sum, whole, groups
<1> QED BY <1>2, <1>8, <1>9, <1>10 DEF AddsUp

\* Of any evaluation, the calibration error is the reliability curve's and the groups add up
\* to the whole (compute_classification_metrics, compute_metrics_by_group).
THEOREM MetricsAddUpAlways == EvaluationSpec => []EvaluationAddsUp
<1> DEFINE Inv == scored \in Seq(Scored)
<1>1. EvaluationInit => Inv
  BY DEF EvaluationInit
<1>2. Inv /\ [Score]_scored => Inv'
  BY DEF Score
<1>3. Inv => EvaluationAddsUp
  BY MetricsAddUp DEF EvaluationAddsUp
<1> QED BY <1>1, <1>2, <1>3, PTL DEF EvaluationSpec
=============================================================================
