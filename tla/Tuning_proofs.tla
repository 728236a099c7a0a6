--------------------------- MODULE Tuning_proofs ---------------------------
(***************************************************************************)
(* The walk-forward and the guard of its holdout, for any months, grids,       *)
(* outcomes, firms, processes and hashes: no session is scored twice, the      *)
(* ranking is of the admissible in the order of their best firms, and the      *)
(* record of a hash is written once.  What the folds promise is arithmetic of  *)
(* dates; what the ranking promises rests on an order of the survivors, in     *)
(* which each of finitely many has a place of his own.  And what is tuned, the *)
(* backtester with its overlays: a trade walked bar by bar ends as all the     *)
(* bars of the day at once say; and its filters and gates: a day is decided    *)
(* by its past and its morning, in any history and in any fold.                *)
(***************************************************************************)
EXTENDS WalkForward, HoldoutGuard, ORBOverlays, RegimeFolds, FiniteSetTheorems,
        WellFoundedInduction, TLAPS

\* Every nonempty set of naturals has a least element.
LEMMA LeastNatural ==
    ASSUME NEW T, T \subseteq Nat, T # {}
    PROVE  \E x \in T : \A y \in T : x <= y
<1>1. PICK x \in T : \A y \in T : ~ (<<y, x>> \in OpToRel(<, Nat))
  BY NatLessThanWellFounded, WFMin, Zenon
<1>2. \A y \in T : <<y, x>> \in OpToRel(<, Nat) <=> y < x
  BY DEF OpToRel
<1>3. \A y \in T : x \in Nat /\ y \in Nat /\ ~(y < x)
  BY <1>1, <1>2
<1> QED BY <1>3

-----------------------------------------------------------------------------
(* Orders, as sets of pairs <<above, below>>                                  *)

Irreflexive(S, R) == \A x \in S : <<x, x>> \notin R
Transitive(S, R) == \A x, y, z \in S : <<x, y>> \in R /\ <<y, z>> \in R => <<x, z>> \in R
\* Who stands above another stands above a third, or the third above the other.
Splitting(S, R) == \A x, y, z \in S : <<x, z>> \in R => <<x, y>> \in R \/ <<y, z>> \in R
Total(S, R) == \A x, y \in S : x = y \/ <<x, y>> \in R \/ <<y, x>> \in R

AboveIn(S, R, x) == {y \in S : <<y, x>> \in R}

\* A proper part of a finite set is smaller.
LEMMA SmallerPart ==
    ASSUME NEW B, IsFiniteSet(B), NEW A \in SUBSET B, NEW x \in B, x \notin A
    PROVE  Cardinality(A) \in Nat /\ Cardinality(B) \in Nat /\ Cardinality(A) < Cardinality(B)
<1>1. /\ IsFiniteSet(A) /\ Cardinality(A) <= Cardinality(B)
      /\ Cardinality(B) = Cardinality(A) => A = B
  BY FS_Subset
<1>2. Cardinality(A) \in Nat /\ Cardinality(B) \in Nat
  BY <1>1, FS_CardinalityType
<1> QED BY <1>1, <1>2

\* Fewer stand above who stands above another.
LEMMA FewerAbove ==
    ASSUME NEW S, IsFiniteSet(S), NEW R, Irreflexive(S, R), Transitive(S, R)
    PROVE  /\ \A x \in S : Cardinality(AboveIn(S, R, x)) \in Nat
           /\ \A x, y \in S : <<y, x>> \in R =>
                 Cardinality(AboveIn(S, R, y)) < Cardinality(AboveIn(S, R, x))
<1>1. \A x \in S : IsFiniteSet(AboveIn(S, R, x))
  BY FS_Subset DEF AboveIn
<1>2. \A x \in S : Cardinality(AboveIn(S, R, x)) \in Nat
  BY <1>1, FS_CardinalityType
<1>3. ASSUME NEW x \in S, NEW y \in S, <<y, x>> \in R
      PROVE  Cardinality(AboveIn(S, R, y)) < Cardinality(AboveIn(S, R, x))
  <2>1. AboveIn(S, R, y) \subseteq AboveIn(S, R, x)
    BY <1>3 DEF AboveIn, Transitive
  <2>2. y \in AboveIn(S, R, x) /\ y \notin AboveIn(S, R, y)
    BY <1>3 DEF AboveIn, Irreflexive
  <2> QED BY <1>1, <2>1, <2>2, SmallerPart
<1> QED BY <1>2, <1>3

\* Of finitely many there is one that none stands above.
LEMMA Topmost ==
    ASSUME NEW S, IsFiniteSet(S), S # {}, NEW R, Irreflexive(S, R), Transitive(S, R)
    PROVE  \E x \in S : \A y \in S : <<y, x>> \notin R
<1> DEFINE T == {Cardinality(AboveIn(S, R, x)) : x \in S}
<1>1. T \subseteq Nat /\ T # {}
  BY FewerAbove
<1>2. PICK c \in T : \A d \in T : c <= d
  <2> HIDE DEF T
  <2> QED BY <1>1, LeastNatural
<1>3. PICK x \in S : c = Cardinality(AboveIn(S, R, x))
  BY <1>2
<1>4. ASSUME NEW y \in S, <<y, x>> \in R PROVE FALSE
  <2>1. Cardinality(AboveIn(S, R, y)) \in T
    OBVIOUS
  <2>2. /\ c \in Nat /\ Cardinality(AboveIn(S, R, y)) \in Nat
        /\ Cardinality(AboveIn(S, R, y)) < c
    BY <1>3, <1>4, FewerAbove
  <2> QED BY <1>2, <2>1, <2>2
<1> QED BY <1>4

\* A place, counted from the top.
PlaceOf(S, R, i) == Cardinality(AboveIn(S, R, i)) + 1

Placed(S, R) ==
    /\ \A i, j \in S : PlaceOf(S, R, i) < PlaceOf(S, R, j) => <<i, j>> \in R
    /\ \A i, j \in S : PlaceOf(S, R, i) = PlaceOf(S, R, j) => i = j
    /\ \A i \in S : PlaceOf(S, R, i) \in 1..Cardinality(S)
    /\ \A k \in 1..Cardinality(S) : \E i \in S : PlaceOf(S, R, i) = k

\* Among finitely many in a row, each has a place of its own.
LEMMA Places ==
    ASSUME NEW S, IsFiniteSet(S), NEW R, Irreflexive(S, R), Transitive(S, R), Total(S, R)
    PROVE  Placed(S, R)
<1> DEFINE n == Cardinality(S)
           p == [i \in S |-> PlaceOf(S, R, i)]
<1>0. p \in [S -> Nat] /\ \A i \in S : p[i] = PlaceOf(S, R, i) /\ p[i] = Cardinality(AboveIn(S, R, i)) + 1
  BY FewerAbove DEF PlaceOf
<1> HIDE DEF p
<1>1. n \in Nat
  BY FS_CardinalityType
<1>2. \A i, j \in S : <<i, j>> \in R => p[i] < p[j]
  <2> SUFFICES ASSUME NEW i \in S, NEW j \in S, <<i, j>> \in R PROVE p[i] < p[j]
    OBVIOUS
  <2>1. /\ Cardinality(AboveIn(S, R, i)) \in Nat /\ Cardinality(AboveIn(S, R, j)) \in Nat
        /\ Cardinality(AboveIn(S, R, i)) < Cardinality(AboveIn(S, R, j))
    BY FewerAbove
  <2> QED BY <1>0, <2>1
<1>3. \A i, j \in S : p[i] < p[j] => <<i, j>> \in R
  <2> SUFFICES ASSUME NEW i \in S, NEW j \in S, p[i] < p[j] PROVE <<i, j>> \in R
    OBVIOUS
  <2>1. p[i] \in Nat /\ p[j] \in Nat
    BY <1>0
  <2>2. i # j /\ ~(<<j, i>> \in R)
    BY <1>2, <2>1
  <2> QED BY <2>2 DEF Total
<1>4. ASSUME NEW i \in S PROVE p[i] \in 1..n
  <2>1. AboveIn(S, R, i) \subseteq S /\ i \notin AboveIn(S, R, i)
    BY DEF AboveIn, Irreflexive
  <2>2. /\ Cardinality(AboveIn(S, R, i)) \in Nat
        /\ Cardinality(AboveIn(S, R, i)) < n
    BY <2>1, SmallerPart
  <2> QED BY <1>0, <1>1, <2>2
<1>5. p \in Injection(S, 1..n)
  <2>1. p \in [S -> 1..n]
    BY <1>0, <1>4
  <2>2. \A i, j \in S : p[i] = p[j] => i = j
    <3> SUFFICES ASSUME NEW i \in S, NEW j \in S, p[i] = p[j], i # j PROVE FALSE
      OBVIOUS
    <3>1. p[i] \in Nat /\ p[j] \in Nat
      BY <1>0
    <3>2. <<i, j>> \in R \/ <<j, i>> \in R
      BY DEF Total
    <3> QED BY <1>2, <3>1, <3>2
  <2> QED BY <2>1, <2>2 DEF Injection, IsInjective
<1>6. IsFiniteSet(1..n) /\ Cardinality(1..n) = n
  <2> HIDE DEF n
  <2> QED BY <1>1, FS_Interval
<1>7. p \in Surjection(S, 1..n)
  BY <1>5, <1>6, FS_Injection
<1> QED BY <1>0, <1>3, <1>4, <1>5, <1>7 DEF Placed, Surjection, Injection, IsInjective

-----------------------------------------------------------------------------
(* What SortedDown sorts by an order: equals stay in their order               *)

InRow(S, A) == {w \in S \X S : w \in A \/ (<<w[2], w[1]>> \notin A /\ w[1] < w[2])}
PlaceIn(S, A, i) == PlaceOf(S, InRow(S, A), i)

\* The order of who comes first in the sorted list.
LEMMA RowIsTotal ==
    ASSUME NEW S \in SUBSET Int, NEW A, Irreflexive(S, A), Transitive(S, A), Splitting(S, A)
    PROVE  Irreflexive(S, InRow(S, A)) /\ Transitive(S, InRow(S, A)) /\ Total(S, InRow(S, A))
<1>1. \A x, y \in S : <<x, y>> \in InRow(S, A) <=> <<x, y>> \in A \/ (<<y, x>> \notin A /\ x < y)
  BY DEF InRow
<1>2. ASSUME NEW x \in S PROVE <<x, x>> \notin InRow(S, A)
  <2>1. <<x, x>> \notin A /\ ~(x < x)
    BY DEF Irreflexive
  <2> QED BY <1>1, <2>1
<1>3. ASSUME NEW x \in S, NEW y \in S, NEW z \in S, <<x, y>> \in InRow(S, A), <<y, z>> \in InRow(S, A)
      PROVE  <<x, z>> \in InRow(S, A)
  <2>1. /\ <<x, y>> \in A \/ (<<y, x>> \notin A /\ x < y)
        /\ <<y, z>> \in A \/ (<<z, y>> \notin A /\ y < z)
    BY <1>1, <1>3
  <2>2. CASE <<x, y>> \in A
    <3>1. <<x, z>> \in A
      BY <2>1, <2>2 DEF Transitive, Splitting
    <3> QED BY <1>1, <3>1
  <2>3. CASE <<y, z>> \in A
    <3>1. <<x, z>> \in A
      BY <2>1, <2>3 DEF Transitive, Splitting
    <3> QED BY <1>1, <3>1
  <2>4. CASE <<x, y>> \notin A /\ <<y, z>> \notin A
    <3>1. <<z, x>> \notin A
      BY <2>1, <2>4 DEF Splitting
    <3>2. x < z
      BY <2>1, <2>4
    <3> QED BY <1>1, <3>1, <3>2
  <2> QED BY <2>2, <2>3, <2>4
<1>4. ASSUME NEW x \in S, NEW y \in S, x # y PROVE <<x, y>> \in InRow(S, A) \/ <<y, x>> \in InRow(S, A)
  <2>1. x < y \/ y < x
    BY <1>4
  <2>2. CASE <<x, y>> \in A \/ <<y, x>> \in A
    BY <1>1, <2>2
  <2>3. CASE <<x, y>> \notin A /\ <<y, x>> \notin A
    BY <1>1, <2>1, <2>3
  <2> QED BY <2>2, <2>3
<1>5. Transitive(S, InRow(S, A))
  BY <1>3 DEF Transitive
<1> QED BY <1>2, <1>4, <1>5 DEF Irreflexive, Total

\* A list of them with, at each place, who belongs there.
ListsPlaces(f, S, A) ==
    /\ f = [k \in 1..Cardinality(S) |-> f[k]]
    /\ \A k \in 1..Cardinality(S) :
          (\E i \in S : PlaceIn(S, A, i) = k) => f[k] \in S /\ PlaceIn(S, A, f[k]) = k

\* A list of them all, of which none is below one that it stands above.
SortedBy(f, S, A) ==
    /\ f \in [1..Cardinality(S) -> S]
    /\ \A i \in S : \E k \in 1..Cardinality(S) : f[k] = i
    /\ \A x, y \in 1..Cardinality(S) : x < y => <<f[y], f[x]>> \notin A

\* Who is at the place that is his, in a list of finitely many, is in the right one.
LEMMA Sorted ==
    ASSUME NEW S, S \subseteq Int, IsFiniteSet(S),
           NEW A, Irreflexive(S, A), Transitive(S, A), Splitting(S, A),
           NEW f, ListsPlaces(f, S, A)
    PROVE  Cardinality(S) \in Nat /\ SortedBy(f, S, A)
<1> DEFINE n == Cardinality(S)
           R == InRow(S, A)
<1>1. n \in Nat
  BY FS_CardinalityType
<1>2. Irreflexive(S, R) /\ Transitive(S, R) /\ Total(S, R)
  BY RowIsTotal
<1> HIDE DEF R
<1>3. \A i \in S : PlaceIn(S, A, i) = PlaceOf(S, R, i)
  BY DEF PlaceIn, R
<1>4. /\ \A i, j \in S : PlaceOf(S, R, i) < PlaceOf(S, R, j) => <<i, j>> \in R
      /\ \A i, j \in S : PlaceOf(S, R, i) = PlaceOf(S, R, j) => i = j
      /\ \A i \in S : PlaceOf(S, R, i) \in 1..n
      /\ \A k \in 1..n : \E i \in S : PlaceOf(S, R, i) = k
  <2>1. Placed(S, R)
    BY <1>2, Places
  <2> QED BY <2>1 DEF Placed
<1> HIDE DEF n
<1>5. ASSUME NEW k \in 1..n PROVE f[k] \in S /\ PlaceOf(S, R, f[k]) = k
  <2>1. PICK i \in S : PlaceOf(S, R, i) = k
    BY <1>4
  <2>2. PlaceIn(S, A, i) = k
    BY <1>3, <2>1
  <2>3. f[k] \in S /\ PlaceIn(S, A, f[k]) = k
    BY <2>2 DEF ListsPlaces, n
  <2> QED BY <1>3, <2>3
<1>6. \A i \in S : PlaceOf(S, R, i) \in 1..n /\ f[PlaceOf(S, R, i)] = i
  BY <1>4, <1>5
<1>7. ASSUME NEW x \in 1..n, NEW y \in 1..n, x < y PROVE <<f[y], f[x]>> \notin A
  <2>1. f[x] \in S /\ f[y] \in S /\ PlaceOf(S, R, f[x]) = x /\ PlaceOf(S, R, f[y]) = y
    BY <1>5
  <2>2. <<f[x], f[y]>> \in R
    BY <1>4, <1>7, <2>1
  <2>3. <<f[x], f[y]>> \in A \/ <<f[y], f[x]>> \notin A
    BY <2>2 DEF R, InRow
  <2> QED BY <2>1, <2>3 DEF Transitive, Irreflexive
<1>8. f \in [1..n -> S]
  <2>1. f = [k \in 1..n |-> f[k]]
    BY DEF ListsPlaces, n
  <2> QED BY <1>5, <2>1
<1> QED BY <1>1, <1>6, <1>7, <1>8 DEF SortedBy, n

-----------------------------------------------------------------------------
(* The folds                                                                 *)

Dates == Int \X Int
FoldRecord == [warmup : Dates, isStart : Dates, isEnd : Dates, oosStart : Dates, oosEnd : Dates]

PlanOK == plan \in [start : {1} \X StartDays, is : Lengths, oos : Lengths, step : Lengths, holdout : Dates]

\* The folds so far are the first ones, and each is within the data and before the holdout.
FoldsOK ==
    /\ folds \in Seq(FoldRecord)
    /\ \A k \in 1..Len(folds) : folds[k] = Fold(k - 1) /\ ~TooLate(folds[k])

\* A month has days, and none fewer than the shortest.
LEMMA MonthsHaveDays ==
    ASSUME NEW m \in Int
    PROVE  DaysIn(m) \in Nat /\ Shortest \in Nat /\ Shortest <= DaysIn(m)
<1> DEFINE L == Len(MonthDays)
           i == ((m - 1) % L) + 1
           T == {MonthDays[k] : k \in DOMAIN MonthDays}
<1>1. L \in Nat \ {0} /\ DOMAIN MonthDays = 1..L /\ MonthDays \in [1..L -> Nat \ {0}]
  BY WalkForwardAssumption
<1>2. i \in 1..L
  <2> HIDE DEF L
  <2>1. (m - 1) % L \in 0..(L - 1)
    BY <1>1
  <2> QED BY <1>1, <2>1
<1>3. DaysIn(m) = MonthDays[i]
  BY DEF DaysIn
<1> HIDE DEF i
<1> HIDE DEF L
<1>4. T \subseteq Nat /\ T # {} /\ MonthDays[i] \in T
  BY <1>1, <1>2
<1>5. Shortest = Min(T)
  BY DEF Shortest
<1> HIDE DEF T
<1>6. \E x \in T : \A y \in T : x <= y
  BY <1>4, LeastNatural
<1>7. Min(T) \in T /\ \A y \in T : Min(T) <= y
  BY <1>6 DEF Min
<1> QED BY <1>3, <1>4, <1>5, <1>7

\* Adding months gives a date, and keeps a day that every month has.
LEMMA PlusMonths ==
    ASSUME NEW d \in Dates, NEW n \in Int
    PROVE  /\ Plus(d, n) \in Dates
           /\ d[2] <= Shortest => Plus(d, n) = <<d[1] + n, d[2]>>
<1>1. d[1] \in Int /\ d[2] \in Int /\ d[1] + n \in Int
  BY DEF Dates
<1>2. DaysIn(d[1] + n) \in Nat /\ Shortest \in Nat /\ Shortest <= DaysIn(d[1] + n)
  BY <1>1, MonthsHaveDays
<1>3. CASE d[2] <= DaysIn(d[1] + n)
  <2>1. Plus(d, n) = <<d[1] + n, d[2]>>
    BY <1>3 DEF Plus
  <2> QED BY <1>1, <2>1 DEF Dates
<1>4. CASE ~(d[2] <= DaysIn(d[1] + n))
  <2>1. Plus(d, n) = <<d[1] + n, DaysIn(d[1] + n)>> /\ ~(d[2] <= Shortest)
    BY <1>1, <1>2, <1>4 DEF Plus
  <2> QED BY <1>1, <1>2, <2>1 DEF Dates
<1> QED BY <1>3, <1>4

\* The dates of a fold; those of a start on a day that every month has.
LEMMA FoldDates ==
    ASSUME PlanOK, NEW k \in Nat
    PROVE  /\ Fold(k) \in FoldRecord
           /\ Fold(k).oosStart = Fold(k).isEnd
           /\ plan.start[2] <= Shortest =>
                 /\ Fold(k).oosStart = <<1 + plan.step * k + plan.is, plan.start[2]>>
                 /\ Fold(k).oosEnd = <<1 + plan.step * k + plan.is + plan.oos, plan.start[2]>>
<1>1. /\ plan.start \in Dates /\ plan.start[1] = 1
      /\ plan.is \in Nat \ {0} /\ plan.oos \in Nat \ {0} /\ plan.step \in Nat \ {0}
  <2>1. /\ plan.start \in {1} \X StartDays
        /\ plan.is \in Lengths /\ plan.oos \in Lengths /\ plan.step \in Lengths
    BY DEF PlanOK
  <2>2. StartDays \subseteq Int /\ Lengths \subseteq Nat \ {0}
    BY WalkForwardAssumption
  <2>3. PICK s \in StartDays : plan.start = <<1, s>>
    BY <2>1
  <2>4. plan.start \in Int \X Int /\ plan.start[1] = 1
    BY <2>2, <2>3
  <2> QED BY <2>1, <2>2, <2>4 DEF Dates
<1> DEFINE n == plan.step * k
           a == Plus(plan.start, n)
           b == Plus(a, plan.is)
           c == Plus(b, plan.oos)
           w == Plus(a, -WarmupMonths)
<1>2. n \in Int /\ -WarmupMonths \in Int
  BY <1>1, WalkForwardAssumption
<1>3. Fold(k) = [warmup |-> IF Before(w, plan.start) THEN plan.start ELSE w, isStart |-> a,
                 isEnd |-> b, oosStart |-> b, oosEnd |-> c]
  BY DEF Fold
<1> HIDE DEF n
<1>4. a \in Dates /\ (plan.start[2] <= Shortest => a = <<1 + n, plan.start[2]>>)
  BY <1>1, <1>2, PlusMonths
<1> HIDE DEF a
<1>5. b \in Dates /\ w \in Dates
  BY <1>1, <1>2, <1>4, PlusMonths
<1>6. plan.start[2] <= Shortest => b = <<1 + n + plan.is, plan.start[2]>>
  <2> HAVE plan.start[2] <= Shortest
  <2>1. a[1] = 1 + n /\ a[2] = plan.start[2]
    BY <1>4
  <2>2. a[2] <= Shortest /\ plan.is \in Int
    BY <1>1, <2>1
  <2>3. b = <<a[1] + plan.is, a[2]>>
    BY <1>4, <2>2, PlusMonths DEF b
  <2> QED BY <2>1, <2>3
<1> HIDE DEF b
<1> HIDE DEF w
<1>7. c \in Dates
  BY <1>1, <1>5, PlusMonths
<1>8. plan.start[2] <= Shortest => c = <<1 + n + plan.is + plan.oos, plan.start[2]>>
  <2> HAVE plan.start[2] <= Shortest
  <2>1. b[1] = 1 + n + plan.is /\ b[2] = plan.start[2]
    BY <1>6
  <2>2. b[2] <= Shortest /\ plan.oos \in Int
    BY <1>1, <2>1
  <2>3. c = <<b[1] + plan.oos, b[2]>>
    BY <1>5, <2>2, PlusMonths DEF c
  <2> QED BY <2>1, <2>3
<1> HIDE DEF c
<1>9. Fold(k) \in FoldRecord
  BY <1>1, <1>3, <1>4, <1>5, <1>7 DEF FoldRecord
<1> QED BY <1>3, <1>6, <1>8, <1>9 DEF n

\* Dates are in a row.
LEMMA DatesInRow ==
    ASSUME NEW a \in Dates, NEW b \in Dates, NEW c \in Dates
    PROVE  /\ Before(a, b) /\ ~Before(c, b) => Before(a, c)
           /\ Before(a, b) => ~Before(b, a)
           /\ Before(a, b) => a[1] <= b[1]
           /\ a[1] <= b[1] /\ a[2] = b[2] => ~Before(b, a)
  BY DEF Before, Dates

\* A day of the data is a date.
LEMMA DaysAreDates ==
    ASSUME NEW d \in UNION {{m} \X (1..DaysIn(m)) : m \in 1..Months}
    PROVE  d \in Dates
<1>1. PICK m \in 1..Months : d \in {m} \X (1..DaysIn(m))
  OBVIOUS
<1>2. m \in Int
  BY WalkForwardAssumption
<1>3. DaysIn(m) \in Nat
  BY <1>2, MonthsHaveDays
<1> QED BY <1>1, <1>2, <1>3 DEF Dates

\* What the folds promise of the days they score.
LEMMA FoldsScoreOnce ==
    ASSUME PlanOK, FoldsOK
    PROVE  SessionsScoredOnce
<1> DEFINE Days == UNION {{m} \X (1..DaysIn(m)) : m \in 1..Months}
           Scored(k) == {d \in Days : In(d, folds[k].oosStart, folds[k].oosEnd)}
<1>1. \A k \in DOMAIN folds :
          /\ k \in 1..Len(folds) /\ k - 1 \in Nat /\ folds[k] = Fold(k - 1) /\ folds[k] \in FoldRecord
          /\ ~TooLate(folds[k])
  BY DEF FoldsOK
<1>2. ASSUME NEW k \in DOMAIN folds, NEW d \in Scored(k)
      PROVE  Before(d, plan.holdout) /\ ~In(d, folds[k].warmup, folds[k].isEnd)
  <2>1. /\ d \in Dates /\ plan.holdout \in Dates /\ folds[k].oosEnd \in Dates
        /\ ~Before(d, folds[k].oosStart) /\ Before(d, folds[k].oosEnd)
    BY <1>1, <1>2, DaysAreDates DEF In, FoldRecord, PlanOK
  <2>2. ~Before(plan.holdout, folds[k].oosEnd)
    BY <1>1 DEF TooLate
  <2>3. folds[k].oosStart = folds[k].isEnd
    BY <1>1, FoldDates
  <2> QED BY <2>1, <2>2, <2>3, DatesInRow DEF In
<1>3. ASSUME plan.step >= plan.oos, plan.start[2] <= Shortest,
             NEW k \in DOMAIN folds, NEW j \in 1..k - 1, NEW d \in Scored(j), d \in Scored(k)
      PROVE  FALSE
  <2>1. j \in DOMAIN folds /\ k - 1 \in Nat /\ j - 1 \in Nat /\ j - 1 < k - 1
    BY <1>1, <1>3 DEF FoldsOK
  <2> DEFINE s == folds[k].oosStart
             e == folds[j].oosEnd
  <2>2. d \in Dates /\ s \in Dates /\ e \in Dates /\ ~Before(d, s) /\ Before(d, e)
    BY <1>1, <1>3, <2>1, DaysAreDates DEF In, FoldRecord
  <2>4. /\ s = <<1 + plan.step * (k - 1) + plan.is, plan.start[2]>>
        /\ e = <<1 + plan.step * (j - 1) + plan.is + plan.oos, plan.start[2]>>
    BY <1>1, <1>3, <2>1, FoldDates
  <2>5. plan.step \in Nat /\ plan.oos \in Nat /\ plan.is \in Nat
    BY WalkForwardAssumption DEF PlanOK
  <2>6. plan.step * (j - 1) + plan.step <= plan.step * (k - 1)
    BY <2>1, <2>5
  <2>7. e[1] <= s[1] /\ e[2] = s[2]
    BY <1>3, <2>1, <2>4, <2>5, <2>6
  <2> HIDE DEF s
  <2> HIDE DEF e
  <2>8. ~Before(s, e)
    BY <2>2, <2>7, DatesInRow
  <2> QED BY <2>2, <2>8 DEF Before, Dates
<1>4. ASSUME NEW k \in DOMAIN folds, plan.step >= plan.oos, plan.start[2] <= Shortest,
             NEW j \in 1..k - 1
      PROVE  Scored(j) \cap Scored(k) = {} /\ j \in DOMAIN folds
  <2>1. j \in DOMAIN folds
    BY <1>1, <1>4 DEF FoldsOK
  <2> HIDE DEF Scored
  <2> QED BY <1>3, <1>4, <2>1
<1> QED BY <1>2, <1>4 DEF SessionsScoredOnce

-----------------------------------------------------------------------------
(* The selection                                                             *)

\* The smaller of two numbers, the greater, and the one of one.
LEMMA OfTwo ==
    ASSUME NEW a \in Int, NEW b \in Int
    PROVE  /\ Min({a, b}) \in {a, b} /\ Min({a, b}) <= a /\ Min({a, b}) <= b
           /\ Max({a, b}) \in {a, b} /\ Max({a, b}) >= a /\ Max({a, b}) >= b
<1>1. \E x \in {a, b} : \A y \in {a, b} : x <= y
  OBVIOUS
<1>2. \E x \in {a, b} : \A y \in {a, b} : x >= y
  OBVIOUS
<1>3. Min({a, b}) \in {a, b} /\ \A y \in {a, b} : Min({a, b}) <= y
  BY <1>1 DEF Min
<1>4. Max({a, b}) \in {a, b} /\ \A y \in {a, b} : Max({a, b}) >= y
  BY <1>2 DEF Max
<1> QED BY <1>3, <1>4

\* Pruning keeps the best: who scores more than one that is kept is kept before it.
LEMMA PrunedKeepsBest ==
    ASSUME scores \in Seq(Int)
    PROVE  /\ Pruned \in Seq(DOMAIN scores)
           /\ \A r \in DOMAIN Pruned, i \in DOMAIN scores :
                 scores[i] > scores[Pruned[r]] => \E q \in 1..r : Pruned[q] = i
<1> DEFINE S == DOMAIN scores
           A == {w \in S \X S : scores[w[1]] > scores[w[2]]}
           Place(i) == Cardinality({j \in S : scores[j] > scores[i] \/ (~(scores[i] > scores[j]) /\ j < i)}) + 1
           best == SortedDown(DOMAIN scores, LAMBDA i, j : scores[i] > scores[j])
           n == Len(scores)
<1>1. n \in Nat /\ S = 1..n /\ (\A i \in S : scores[i] \in Int) /\ S \subseteq Int
  OBVIOUS
<1>2. IsFiniteSet(S) /\ Cardinality(S) = n
  <2> HIDE DEF S
  <2> HIDE DEF n
  <2> QED BY <1>1, FS_Interval
<1>3. best = [k \in 1..Cardinality(S) |-> CHOOSE i \in S : Place(i) = k]
  BY DEF SortedDown
<1>4. \A i, j \in S : <<i, j>> \in A <=> scores[i] > scores[j]
  OBVIOUS
<1> HIDE DEF A
<1>5. ASSUME NEW i \in S PROVE Place(i) = PlaceIn(S, A, i)
  <2>1. \A j \in S : <<j, i>> \in InRow(S, A) <=> scores[j] > scores[i] \/ (~(scores[i] > scores[j]) /\ j < i)
    BY <1>4 DEF InRow
  <2> HIDE DEF S
  <2>2. AboveIn(S, InRow(S, A), i) = {j \in S : scores[j] > scores[i] \/ (~(scores[i] > scores[j]) /\ j < i)}
    BY <2>1 DEF AboveIn
  <2> QED BY <2>2 DEF PlaceIn, PlaceOf
<1> HIDE DEF S
<1> HIDE DEF Place
<1> HIDE DEF best
<1>6. Irreflexive(S, A) /\ Transitive(S, A) /\ Splitting(S, A)
  <2>1. Irreflexive(S, A)
    BY <1>1, <1>4 DEF Irreflexive
  <2>2. ASSUME NEW x \in S, NEW y \in S, NEW z \in S, <<x, y>> \in A, <<y, z>> \in A
        PROVE <<x, z>> \in A
    <3>1. scores[x] \in Int /\ scores[y] \in Int /\ scores[z] \in Int
      BY <1>1
    <3>2. scores[x] > scores[y] /\ scores[y] > scores[z]
      BY <1>4, <2>2
    <3> QED BY <1>4, <3>1, <3>2
  <2>3. ASSUME NEW x \in S, NEW y \in S, NEW z \in S, <<x, z>> \in A
        PROVE <<x, y>> \in A \/ <<y, z>> \in A
    <3>1. scores[x] \in Int /\ scores[y] \in Int /\ scores[z] \in Int
      BY <1>1
    <3>2. scores[x] > scores[z]
      BY <1>4, <2>3
    <3> QED BY <1>4, <3>1, <3>2
  <2> QED BY <2>1, <2>2, <2>3 DEF Transitive, Splitting
<1>7. \A k \in 1..Cardinality(S) :
          (\E i \in S : PlaceIn(S, A, i) = k) => best[k] \in S /\ PlaceIn(S, A, best[k]) = k
  <2>1. ASSUME NEW k \in 1..Cardinality(S), \E i \in S : PlaceIn(S, A, i) = k
        PROVE  best[k] \in S /\ PlaceIn(S, A, best[k]) = k
    <3>1. \E i \in S : Place(i) = k
      BY <1>5, <2>1
    <3>2. best[k] = CHOOSE i \in S : Place(i) = k
      BY <1>3
    <3>3. best[k] \in S /\ Place(best[k]) = k
      BY <3>1, <3>2
    <3> QED BY <1>5, <3>3
  <2> QED BY <2>1
<1>8. best = [k \in 1..Cardinality(S) |-> best[k]]
  BY <1>3
<1> HIDE DEF n
<1>9. /\ best \in [1..n -> S]
      /\ \A i \in S : \E k \in 1..n : best[k] = i
      /\ \A x, y \in 1..n : x < y => <<best[y], best[x]>> \notin A
  <2>1. ListsPlaces(best, S, A)
    BY <1>7, <1>8 DEF ListsPlaces
  <2>2. SortedBy(best, S, A)
    BY <1>1, <1>2, <1>6, <2>1, Sorted
  <2> QED BY <1>2, <2>2 DEF SortedBy
<1>10. best \in Seq(S) /\ Len(best) = n
  BY <1>1, <1>9
<1> DEFINE m == Min({TopK, Len(best)})
<1>11. m \in Nat /\ m <= n
  <2>1. TopK \in Nat /\ Len(best) \in Nat /\ TopK \in Int /\ Len(best) \in Int
    BY <1>1, <1>10, WalkForwardAssumption
  <2>2. m \in {TopK, Len(best)} /\ m <= TopK /\ m <= Len(best)
    BY <2>1, OfTwo
  <2> QED BY <1>10, <2>1, <2>2
<1>12. Pruned = SubSeq(best, 1, m)
  BY DEF Pruned, best
<1> HIDE DEF m
<1>13. Pruned \in Seq(S) /\ Len(Pruned) = m /\ DOMAIN Pruned = 1..m /\ \A k \in 1..m : Pruned[k] = best[k]
  BY <1>10, <1>11, <1>12
<1>14. ASSUME NEW r \in DOMAIN Pruned, NEW i \in S, scores[i] > scores[Pruned[r]]
       PROVE  \E q \in 1..r : Pruned[q] = i
  <2>1. r \in 1..m
    BY <1>13
  <2>2. r \in 1..n /\ best[r] = Pruned[r] /\ best[r] \in S
    <3>1. r \in 1..n
      BY <1>1, <1>11, <2>1
    <3>2. best[r] \in S
      BY <1>9, <3>1
    <3> QED BY <1>13, <2>1, <3>1, <3>2
  <2>3. PICK k \in 1..n : best[k] = i
    BY <1>9
  <2>4. <<best[k], best[r]>> \in A
    BY <1>4, <1>14, <2>2, <2>3
  <2>5. ~(r < k)
    BY <1>9, <2>2, <2>4
  <2>6. k \in 1..r /\ k \in 1..m
    BY <1>1, <1>11, <2>1, <2>5
  <2> QED BY <1>13, <2>3, <2>6
<1> QED BY <1>13, <1>14 DEF S

\* The results so far are outcomes of the survivors, which are params of the grid.
ResultsOK == results \in Seq(Outcomes) /\ survivors \in Seq(DOMAIN Grid)

\* What a survivor achieved, fold by fold.
LEMMA OutcomesAreMarked ==
    ASSUME ResultsOK, NEW r \in DOMAIN results
    PROVE  /\ Traded(r) \subseteq Int /\ IsFiniteSet(Traded(r))
           /\ \A i \in Traded(r) :
                 /\ results[r][i].low \in [Firms -> Int]
                 /\ results[r][i].mean \in [Firms -> Int]
<1> DEFINE Marks == [trades : Nat, low : [Firms -> Int], mean : [Firms -> Int]]
<1>1. results[r] \in Seq(Marks)
  <2>1. results[r] \in Outcomes
    BY DEF ResultsOK
  <2> QED BY <2>1, WalkForwardAssumption
<1>2. Traded(r) \subseteq 1..Len(results[r]) /\ Len(results[r]) \in Nat
  BY <1>1 DEF Traded
<1>3. \A i \in 1..Len(results[r]) : results[r][i] \in Marks
  <2> HIDE DEF Marks
  <2> QED BY <1>1
<1>4. IsFiniteSet(1..Len(results[r]))
  BY <1>2, FS_Interval
<1>5. IsFiniteSet(Traded(r))
  BY <1>2, <1>4, FS_Subset
<1>6. Traded(r) \subseteq Int
  BY <1>2
<1>7. ASSUME NEW i \in Traded(r)
      PROVE  results[r][i].low \in [Firms -> Int] /\ results[r][i].mean \in [Firms -> Int]
  <2>1. results[r][i] \in Marks
    BY <1>2, <1>3
  <2> QED BY <2>1
<1> QED BY <1>5, <1>6, <1>7

\* The image of a finite set under a function is finite.
LEMMA FiniteRange ==
    ASSUME NEW S, IsFiniteSet(S), NEW g, g = [x \in S |-> g[x]]
    PROVE  IsFiniteSet({g[x] : x \in S})
<1>1. g \in Surjection(S, {g[x] : x \in S})
  BY DEF Surjection
<1> QED BY <1>1, FS_Surjection

\* A firm's median and its worst fold are numbers.
LEMMA MarksAreNumbers ==
    ASSUME ResultsOK, NEW r \in DOMAIN results, NEW f \in Firms, Traded(r) # {}
    PROVE  Median(r, f) \in Int /\ Worst(r, f) \in Int
<1> DEFINE S == Traded(r)
           Low(i) == results[r][i].low[f]
           up == SortedDown(Traded(r), LAMBDA i, j : Low(i) < Low(j))
           A == {w \in S \X S : Low(w[1]) < Low(w[2])}
           Place(i) == Cardinality({j \in S : Low(j) < Low(i) \/ (~(Low(i) < Low(j)) /\ j < i)}) + 1
<1>1. /\ S \subseteq Int /\ IsFiniteSet(S) /\ S # {}
      /\ \A i \in S : Low(i) \in Int /\ results[r][i].mean[f] \in Int
  BY OutcomesAreMarked
<1>2. up = [k \in 1..Cardinality(S) |-> CHOOSE i \in S : Place(i) = k]
  BY DEF SortedDown
<1>3. Median(r, f) = Low(up[(Len(up) + 1) \div 2]) + Low(up[(Len(up) + 2) \div 2])
  BY DEF Median
<1> HIDE DEF Low
<1>4. \A i, j \in S : <<i, j>> \in A <=> Low(i) < Low(j)
  OBVIOUS
<1> HIDE DEF A
<1> HIDE DEF up
<1>5. ASSUME NEW i \in S PROVE Place(i) = PlaceIn(S, A, i)
  <2>1. \A j \in S : <<j, i>> \in InRow(S, A) <=> Low(j) < Low(i) \/ (~(Low(i) < Low(j)) /\ j < i)
    BY <1>4 DEF InRow
  <2> HIDE DEF S
  <2>2. AboveIn(S, InRow(S, A), i) = {j \in S : Low(j) < Low(i) \/ (~(Low(i) < Low(j)) /\ j < i)}
    BY <2>1 DEF AboveIn
  <2> QED BY <2>2 DEF PlaceIn, PlaceOf
<1> HIDE DEF Place
<1> HIDE DEF S
<1>6. Irreflexive(S, A) /\ Transitive(S, A) /\ Splitting(S, A)
  <2>1. Irreflexive(S, A)
    BY <1>1, <1>4 DEF Irreflexive
  <2>2. ASSUME NEW x \in S, NEW y \in S, NEW z \in S, <<x, y>> \in A, <<y, z>> \in A
        PROVE <<x, z>> \in A
    <3>1. Low(x) \in Int /\ Low(y) \in Int /\ Low(z) \in Int /\ Low(x) < Low(y) /\ Low(y) < Low(z)
      BY <1>1, <1>4, <2>2
    <3> QED BY <1>4, <3>1
  <2>3. ASSUME NEW x \in S, NEW y \in S, NEW z \in S, <<x, z>> \in A
        PROVE <<x, y>> \in A \/ <<y, z>> \in A
    <3>1. Low(x) \in Int /\ Low(y) \in Int /\ Low(z) \in Int /\ Low(x) < Low(z)
      BY <1>1, <1>4, <2>3
    <3> QED BY <1>4, <3>1
  <2> QED BY <2>1, <2>2, <2>3 DEF Transitive, Splitting
<1>7. ListsPlaces(up, S, A)
  <2>1. ASSUME NEW k \in 1..Cardinality(S), \E i \in S : PlaceIn(S, A, i) = k
        PROVE  up[k] \in S /\ PlaceIn(S, A, up[k]) = k
    <3>1. \E i \in S : Place(i) = k
      BY <1>5, <2>1
    <3>2. up[k] = CHOOSE i \in S : Place(i) = k
      BY <1>2
    <3>3. up[k] \in S /\ Place(up[k]) = k
      BY <3>1, <3>2
    <3> QED BY <1>5, <3>3
  <2>2. up = [k \in 1..Cardinality(S) |-> up[k]]
    BY <1>2
  <2> QED BY <2>1, <2>2 DEF ListsPlaces
<1>8. Cardinality(S) \in Nat /\ SortedBy(up, S, A)
  BY <1>1, <1>6, <1>7, Sorted
<1> DEFINE n == Cardinality(S)
<1>9. n \in Nat \ {0} /\ up \in [1..n -> S]
  BY <1>1, <1>8, FS_EmptySet DEF SortedBy
<1> HIDE DEF n
<1>10. up \in Seq(S) /\ Len(up) = n
  BY <1>9
<1>11. (n + 1) \div 2 \in 1..n /\ (n + 2) \div 2 \in 1..n
  BY <1>9
<1>12. Median(r, f) \in Int
  <2>1. up[(n + 1) \div 2] \in S /\ up[(n + 2) \div 2] \in S
    BY <1>9, <1>11
  <2>2. Low(up[(n + 1) \div 2]) \in Int /\ Low(up[(n + 2) \div 2]) \in Int
    BY <1>1, <2>1
  <2> QED BY <1>3, <1>10, <2>2
<1>13. Worst(r, f) \in Int
  <2> DEFINE g == [i \in S |-> results[r][i].mean[f]]
             T == {g[i] : i \in S}
             D == {w \in T \X T : w[1] < w[2]}
  <2>1. Worst(r, f) = Min(T)
    BY DEF Worst, S
  <2>2. T \subseteq Int /\ T # {} /\ g = [i \in S |-> g[i]]
    BY <1>1
  <2> HIDE DEF g
  <2>3. IsFiniteSet(T)
    BY <1>1, <2>2, FiniteRange
  <2> HIDE DEF T
  <2>4. \A x, y \in T : <<x, y>> \in D <=> x < y
    OBVIOUS
  <2> HIDE DEF D
  <2>5. Irreflexive(T, D) /\ Transitive(T, D)
    BY <2>2, <2>4 DEF Irreflexive, Transitive
  <2>6. PICK x \in T : \A y \in T : <<y, x>> \notin D
    BY <2>2, <2>3, <2>5, Topmost
  <2>7. ASSUME NEW y \in T PROVE x <= y
    <3>1. ~(y < x) /\ x \in Int /\ y \in Int
      BY <2>2, <2>4, <2>6
    <3> QED BY <3>1
  <2> QED BY <2>1, <2>2, <2>7 DEF Min
<1> QED BY <1>12, <1>13

\* What a firm says of a survivor.
ScoreFor(r, f) == <<Median(r, f), OrNegInf(Worst(r, f))>>

\* Scores are in a row.
LEMMA ScoresInRow ==
    ASSUME NEW a \in Dates, NEW b \in Dates, NEW c \in Dates
    PROVE  /\ ~AboveScore(a, a)
           /\ AboveScore(a, b) /\ AboveScore(b, c) => AboveScore(a, c)
           /\ AboveScore(a, c) => AboveScore(a, b) \/ AboveScore(b, c)
           /\ a = b \/ AboveScore(a, b) \/ AboveScore(b, a)
  BY DEF AboveScore, Dates

\* An admissible survivor's best score is a firm's, and no admissible firm says better.
LEMMA BestScoreIsBest ==
    ASSUME ResultsOK, NEW r \in Admissible
    PROVE  /\ BestScore(r) \in Dates
           /\ \E f \in AdmissibleFirms(r) : BestScore(r) = ScoreFor(r, f)
           /\ \A f \in AdmissibleFirms(r) :
                 /\ ScoreFor(r, f) \in Dates /\ Worst(r, f) \in Int
                 /\ ~AboveScore(ScoreFor(r, f), BestScore(r))
<1> DEFINE F == AdmissibleFirms(r)
           g == [f \in F |-> ScoreFor(r, f)]
           all == {g[f] : f \in F}
           D == {w \in all \X all : AboveScore(w[1], w[2])}
<1>1. r \in DOMAIN results /\ F # {} /\ F \subseteq Firms /\ (Traded(r) = {} => F = {})
  BY DEF Admissible, AdmissibleFirms
<1>2. BestScore(r) = CHOOSE x \in all : \A y \in all : ~AboveScore(y, x)
  <2>1. all = {<<Median(r, f), OrNegInf(Worst(r, f))>> : f \in AdmissibleFirms(r)}
    BY DEF ScoreFor
  <2> QED BY <2>1 DEF BestScore
<1> HIDE DEF F
<1>3. ASSUME NEW f \in F PROVE ScoreFor(r, f) \in Dates /\ Worst(r, f) \in Int
  <2>1. Median(r, f) \in Int /\ Worst(r, f) \in Int
    BY <1>1, MarksAreNumbers
  <2> QED BY <2>1 DEF ScoreFor, OrNegInf, NegInf, Dates
<1>4. IsFiniteSet(F)
  BY <1>1, FS_Subset, WalkForwardAssumption
<1>5. all \subseteq Dates /\ all # {} /\ g = [f \in F |-> g[f]]
  BY <1>1, <1>3
<1>6. \A f \in F : g[f] = ScoreFor(r, f) /\ ScoreFor(r, f) \in all
  OBVIOUS
<1> HIDE DEF g
<1>7. IsFiniteSet(all)
  BY <1>4, <1>5, FiniteRange
<1>8. \A x \in all : \E f \in F : x = ScoreFor(r, f)
  BY <1>6
<1> HIDE DEF all
<1>9. \A x, y \in all : <<x, y>> \in D <=> AboveScore(x, y)
  OBVIOUS
<1> HIDE DEF D
<1>10. Irreflexive(all, D)
  BY <1>5, <1>9, ScoresInRow DEF Irreflexive
<1>11. ASSUME NEW x \in all, NEW y \in all, NEW z \in all, <<x, y>> \in D, <<y, z>> \in D
       PROVE  <<x, z>> \in D
  <2>1. AboveScore(x, z)
    BY <1>5, <1>9, <1>11, ScoresInRow
  <2> QED BY <1>9, <2>1
<1>12. PICK x \in all : \A y \in all : <<y, x>> \notin D
  <2>1. Transitive(all, D)
    BY <1>11 DEF Transitive
  <2> QED BY <1>5, <1>7, <1>10, <2>1, Topmost
<1>13. \A y \in all : ~AboveScore(y, x)
  BY <1>9, <1>12
<1>14. BestScore(r) \in all /\ \A y \in all : ~AboveScore(y, BestScore(r))
  BY <1>2, <1>13
<1> QED BY <1>3, <1>5, <1>6, <1>8, <1>14 DEF F

\* Shares are in a row: a of b is more than c of d.
LEMMA SharesInRow ==
    ASSUME NEW a \in Nat, NEW b \in Nat \ {0}, NEW c \in Nat, NEW d \in Nat \ {0},
           NEW e \in Nat, NEW f \in Nat \ {0}
    PROVE  /\ a * d > c * b /\ c * f > e * d => a * f > e * b
           /\ a * f > e * b => a * d > c * b \/ c * f > e * d
<1>1. \A x, y \in Int, z \in Nat \ {0} : x > y <=> x * z > y * z
  OBVIOUS
<1>2. \A x, y, z \in Int : (x * y) * z = (x * z) * y
  OBVIOUS
<1>3. a * d > c * b <=> (a * d) * f > (c * b) * f
  BY <1>1
<1>4. c * f > e * d <=> (c * f) * b > (e * d) * b
  BY <1>1
<1>5. a * f > e * b <=> (a * f) * d > (e * b) * d
  BY <1>1
<1>6. (a * f) * d = (a * d) * f /\ (c * f) * b = (c * b) * f /\ (e * d) * b = (e * b) * d
  BY <1>2
<1> DEFINE p == (a * d) * f
           q == (c * b) * f
           s == (e * b) * d
<1>7. p \in Int /\ q \in Int /\ s \in Int
  OBVIOUS
<1>8. /\ a * d > c * b <=> p > q
      /\ c * f > e * d <=> q > s
      /\ a * f > e * b <=> p > s
  BY <1>3, <1>4, <1>5, <1>6
<1> HIDE DEF p
<1> HIDE DEF q
<1> HIDE DEF s
<1>9. (p > q /\ q > s => p > s) /\ (p > s => p > q \/ q > s)
  BY <1>7
<1> QED BY <1>8, <1>9

\* Of a survivor's neighbors: how many are admissible, and of how many, or 1.
GoodOf(r) == Cardinality(Neighbors(r) \cap Admissible)
OfAll(r) == Max({1, Cardinality(Neighbors(r))})

\* The neighbors are counted.
LEMMA NeighborsAreCounted ==
    ASSUME ResultsOK, NEW r
    PROVE  GoodOf(r) \in Nat /\ OfAll(r) \in Nat \ {0}
<1>1. Neighbors(r) \subseteq 1..Len(survivors) /\ Len(survivors) \in Nat
  BY DEF Neighbors, ResultsOK
<1>2. IsFiniteSet(1..Len(survivors))
  BY <1>1, FS_Interval
<1>3. IsFiniteSet(Neighbors(r)) /\ IsFiniteSet(Neighbors(r) \cap Admissible)
  BY <1>1, <1>2, FS_Subset
<1>4. Cardinality(Neighbors(r)) \in Nat /\ GoodOf(r) \in Nat
  BY <1>3, FS_CardinalityType DEF GoodOf
<1> DEFINE c == Cardinality(Neighbors(r))
<1>5. c \in Int /\ 1 \in Int
  BY <1>4
<1> HIDE DEF c
<1>6. Max({1, c}) \in {1, c} /\ Max({1, c}) >= 1
  BY <1>5, OfTwo
<1>7. Max({1, c}) \in Nat \ {0}
  BY <1>5, <1>6
<1> QED BY <1>4, <1>7 DEF OfAll, c

Ahead == {w \in Admissible \X Admissible : RanksAbove(w[1], w[2])}

\* What ranks above is an order of the admissible survivors.
LEMMA RanksAreAnOrder ==
    ASSUME ResultsOK
    PROVE  Irreflexive(Admissible, Ahead) /\ Transitive(Admissible, Ahead) /\ Splitting(Admissible, Ahead)
<1>1. ASSUME NEW r \in Admissible, NEW q \in Admissible
      PROVE  <<r, q>> \in Ahead <=>
                \/ AboveScore(BestScore(r), BestScore(q))
                \/ BestScore(r) = BestScore(q) /\ GoodOf(r) * OfAll(q) > GoodOf(q) * OfAll(r)
  <2>1. <<r, q>> \in Ahead <=> RanksAbove(r, q)
    BY DEF Ahead
  <2> QED BY <2>1 DEF RanksAbove, GoodOf, OfAll
<1>2. \A r \in Admissible : BestScore(r) \in Dates /\ GoodOf(r) \in Nat /\ OfAll(r) \in Nat \ {0}
  BY BestScoreIsBest, NeighborsAreCounted
<1>3. ASSUME NEW r \in Admissible PROVE <<r, r>> \notin Ahead
  <2>1. ~AboveScore(BestScore(r), BestScore(r))
    BY <1>2, ScoresInRow
  <2>2. ~(GoodOf(r) * OfAll(r) > GoodOf(r) * OfAll(r))
    BY <1>2
  <2> QED BY <1>1, <2>1, <2>2
<1>4. ASSUME NEW x \in Admissible, NEW y \in Admissible, NEW z \in Admissible
      PROVE  /\ <<x, y>> \in Ahead /\ <<y, z>> \in Ahead => <<x, z>> \in Ahead
             /\ <<x, z>> \in Ahead => <<x, y>> \in Ahead \/ <<y, z>> \in Ahead
  <2> DEFINE a == BestScore(x)
             b == BestScore(y)
             c == BestScore(z)
             P == GoodOf(x) * OfAll(y) > GoodOf(y) * OfAll(x)
             Q == GoodOf(y) * OfAll(z) > GoodOf(z) * OfAll(y)
             R == GoodOf(x) * OfAll(z) > GoodOf(z) * OfAll(x)
  <2>1. (P /\ Q => R) /\ (R => P \/ Q)
    BY <1>2, SharesInRow
  <2>2. /\ AboveScore(a, b) /\ AboveScore(b, c) => AboveScore(a, c)
        /\ AboveScore(a, c) => AboveScore(a, b) \/ AboveScore(b, c)
        /\ a = b \/ AboveScore(a, b) \/ AboveScore(b, a)
        /\ b = c \/ AboveScore(b, c) \/ AboveScore(c, b)
        /\ ~(AboveScore(a, b) /\ AboveScore(b, a)) /\ ~(AboveScore(b, c) /\ AboveScore(c, b))
    BY <1>2, ScoresInRow
  <2>3. /\ <<x, y>> \in Ahead <=> AboveScore(a, b) \/ (a = b /\ P)
        /\ <<y, z>> \in Ahead <=> AboveScore(b, c) \/ (b = c /\ Q)
        /\ <<x, z>> \in Ahead <=> AboveScore(a, c) \/ (a = c /\ R)
    BY <1>1
  <2> HIDE DEF a
  <2> HIDE DEF b
  <2> HIDE DEF c
  <2> HIDE DEF P
  <2> HIDE DEF Q
  <2> HIDE DEF R
  <2>4. ASSUME <<x, y>> \in Ahead, <<y, z>> \in Ahead PROVE <<x, z>> \in Ahead
    <3>1. CASE a = b
      BY <2>1, <2>2, <2>3, <2>4, <3>1
    <3>2. CASE a # b
      BY <2>1, <2>2, <2>3, <2>4, <3>2
    <3> QED BY <3>1, <3>2
  <2>5. ASSUME <<x, z>> \in Ahead, <<x, y>> \notin Ahead, <<y, z>> \notin Ahead PROVE FALSE
    <3>1. CASE a = b
      BY <2>1, <2>2, <2>3, <2>5, <3>1
    <3>2. CASE a # b
      BY <2>1, <2>2, <2>3, <2>5, <3>2
    <3> QED BY <3>1, <3>2
  <2> QED BY <2>4, <2>5
<1> QED BY <1>3, <1>4 DEF Irreflexive, Transitive, Splitting

\* The admissible survivors are finitely many.
LEMMA AdmissibleAreFew == ASSUME ResultsOK PROVE IsFiniteSet(Admissible) /\ Admissible \subseteq Int
<1>1. Admissible \subseteq 1..Len(results) /\ Len(results) \in Nat
  BY DEF Admissible, ResultsOK
<1>2. IsFiniteSet(1..Len(results))
  BY <1>1, FS_Interval
<1>3. IsFiniteSet(Admissible)
  BY <1>1, <1>2, FS_Subset
<1>4. Admissible \subseteq Int
  BY <1>1
<1> QED BY <1>3, <1>4

\* The ranking has at each place who belongs there.
LEMMA RankingLists ==
    ASSUME ResultsOK
    PROVE  ListsPlaces(SortedDown(Admissible, RanksAbove), Admissible, Ahead)
<1> DEFINE ranked == SortedDown(Admissible, RanksAbove)
           S == Admissible
           Place(i) == Cardinality({j \in S : RanksAbove(j, i) \/ (~RanksAbove(i, j) /\ j < i)}) + 1
<1>1. ranked = [k \in 1..Cardinality(S) |-> CHOOSE i \in S : Place(i) = k]
  BY DEF SortedDown
<1> HIDE DEF ranked
<1> HIDE DEF S
<1>4. \A i, j \in S : <<i, j>> \in Ahead <=> RanksAbove(i, j)
  BY DEF Ahead, S
<1>5. ASSUME NEW i \in S PROVE Place(i) = PlaceIn(S, Ahead, i)
  <2>1. \A j \in S : <<j, i>> \in InRow(S, Ahead) <=> RanksAbove(j, i) \/ (~RanksAbove(i, j) /\ j < i)
    BY <1>4 DEF InRow
  <2>2. AboveIn(S, InRow(S, Ahead), i) = {j \in S : RanksAbove(j, i) \/ (~RanksAbove(i, j) /\ j < i)}
    BY <2>1 DEF AboveIn
  <2> QED BY <2>2 DEF PlaceIn, PlaceOf
<1> HIDE DEF Place
<1>7. ListsPlaces(ranked, S, Ahead)
  <2>1. ASSUME NEW k \in 1..Cardinality(S), \E i \in S : PlaceIn(S, Ahead, i) = k
        PROVE  ranked[k] \in S /\ PlaceIn(S, Ahead, ranked[k]) = k
    <3>1. \E i \in S : Place(i) = k
      BY <1>5, <2>1
    <3>2. ranked[k] = CHOOSE i \in S : Place(i) = k
      BY <1>1
    <3>3. ranked[k] \in S /\ Place(ranked[k]) = k
      BY <3>1, <3>2
    <3> QED BY <1>5, <3>3
  <2>2. ranked = [k \in 1..Cardinality(S) |-> ranked[k]]
    BY <1>1
  <2> QED BY <2>1, <2>2 DEF ListsPlaces
<1> QED BY <1>7 DEF S, ranked

\* What the selection promises, once it has ranked.
LEMMA RankedSoundly ==
    ASSUME ResultsOK, scores \in Seq(Int), Len(scores) = Len(Grid), survivors = Pruned,
           ListsPlaces(ranking, Admissible, Ahead)
    PROVE  SelectionSound
<1> DEFINE Likes(r, f) == <<Median(r, f), Worst(r, f)>>
           Zero(r) == \E f \in AdmissibleFirms(r) : Worst(r, f) = 0
           n == Cardinality(Admissible)
<1>1. /\ n \in Nat /\ DOMAIN ranking = 1..n /\ ranking \in [1..n -> Admissible]
      /\ \A i \in Admissible : \E k \in 1..n : ranking[k] = i
      /\ \A x, y \in 1..n : x < y => <<ranking[y], ranking[x]>> \notin Ahead
  <2>1. SortedBy(ranking, Admissible, Ahead) /\ n \in Nat
    BY AdmissibleAreFew, RanksAreAnOrder, Sorted
  <2> QED BY <2>1 DEF SortedBy
<1> HIDE DEF n
<1>2. {ranking[x] : x \in DOMAIN ranking} = Admissible
  BY <1>1
<1>3. ASSUME NEW r \in Admissible, ~Zero(r), NEW f \in AdmissibleFirms(r)
      PROVE  Likes(r, f) = ScoreFor(r, f)
  <2>1. Worst(r, f) # 0
    BY <1>3
  <2> QED BY <2>1 DEF ScoreFor, OrNegInf
<1>4. ASSUME NEW x \in DOMAIN ranking, NEW y \in DOMAIN ranking, x < y,
             ~Zero(ranking[x]), ~Zero(ranking[y])
      PROVE  \E f \in AdmissibleFirms(ranking[x]) : \A g \in AdmissibleFirms(ranking[y]) :
                ~AboveScore(Likes(ranking[y], g), Likes(ranking[x], f))
  <2> DEFINE r == ranking[x]
             q == ranking[y]
  <2>1. r \in Admissible /\ q \in Admissible /\ <<q, r>> \notin Ahead
    BY <1>1, <1>4
  <2>2. ~Zero(r) /\ ~Zero(q)
    BY <1>4
  <2> HIDE DEF Likes
  <2> HIDE DEF Zero
  <2> HIDE DEF r
  <2> HIDE DEF q
  <2>3. ~AboveScore(BestScore(q), BestScore(r))
    <3>1. ~RanksAbove(q, r)
      BY <2>1 DEF Ahead
    <3> QED BY <3>1 DEF RanksAbove
  <2>4. PICK f \in AdmissibleFirms(r) : BestScore(r) = ScoreFor(r, f)
    BY <2>1, BestScoreIsBest
  <2>5. Likes(r, f) = BestScore(r)
    BY <1>3, <2>1, <2>2, <2>4
  <2>6. ASSUME NEW g \in AdmissibleFirms(q) PROVE ~AboveScore(Likes(q, g), Likes(r, f))
    <3>1. Likes(q, g) = ScoreFor(q, g)
      BY <1>3, <2>1, <2>2
    <3>2. /\ ScoreFor(q, g) \in Dates /\ BestScore(q) \in Dates /\ BestScore(r) \in Dates
          /\ ~AboveScore(ScoreFor(q, g), BestScore(q))
      BY <2>1, BestScoreIsBest
    <3>3. ~AboveScore(ScoreFor(q, g), BestScore(r))
      BY <2>3, <3>2, ScoresInRow
    <3> QED BY <2>5, <3>1, <3>3
  <2>7. \E h \in AdmissibleFirms(r) : \A g \in AdmissibleFirms(q) : ~AboveScore(Likes(q, g), Likes(r, h))
    BY <2>6
  <2> QED BY <2>7 DEF r, q
<1>5. DOMAIN scores = DOMAIN Grid /\ Pruned \in Seq(DOMAIN Grid)
  BY WalkForwardAssumption, PrunedKeepsBest
<1>6. ASSUME NEW r \in DOMAIN survivors, NEW i \in DOMAIN Grid, scores[i] > scores[survivors[r]]
      PROVE  \E q \in 1..r : survivors[q] = i
  BY <1>5, <1>6, PrunedKeepsBest
<1>7. ASSUME NEW r \in DOMAIN survivors,
             \A i \in DOMAIN Grid : Hash(i) = Hash(survivors[r]) => i = survivors[r]
      PROVE  ScoreOfHash(Hash(survivors[r])) = scores[survivors[r]]
  <2> DEFINE s == survivors[r]
             T == {i \in DOMAIN Grid : Hash(i) = Hash(s)}
  <2>1. s \in DOMAIN Grid /\ s \in Int
    BY <1>5, WalkForwardAssumption
  <2>2. T = {s}
    BY <1>7, <2>1
  <2>3. ScoreOfHash(Hash(s)) = scores[Max(T)]
    BY DEF ScoreOfHash
  <2> HIDE DEF s
  <2> HIDE DEF T
  <2>4. Max({s}) = s
    BY <2>1 DEF Max
  <2>5. ScoreOfHash(Hash(s)) = scores[s]
    BY <2>2, <2>3, <2>4
  <2> QED BY <2>5 DEF s
<1> QED BY <1>2, <1>4, <1>6, <1>7 DEF SelectionSound

-----------------------------------------------------------------------------
(* The invariant of the walk-forward                                           *)

\* Nothing is pruned before all is scored, nor ranked before all is evaluated.
StageOK ==
    /\ stage \in {"folds", "no folds", "score", "evaluate", "ranked"}
    /\ scores \in Seq(Int) /\ Len(scores) <= Len(Grid)
    /\ stage \in {"folds", "no folds", "score"} => survivors = <<>> /\ results = <<>>
    /\ stage \in {"evaluate", "ranked"} => Len(scores) = Len(Grid) /\ survivors = Pruned

RankedOK == stage = "ranked" => ListsPlaces(ranking, Admissible, Ahead)

TuneInv == PlanOK /\ FoldsOK /\ ResultsOK /\ StageOK /\ RankedOK

\* A walk-forward begins without folds.
LEMMA TuneStarts == TuneInit => TuneInv
<1> SUFFICES ASSUME TuneInit PROVE TuneInv
  OBVIOUS
<1>1. PlanOK
  <2>1. {<<Months - 2, 1>>, <<Months + 2, 1>>} \subseteq Dates
    BY WalkForwardAssumption DEF Dates
  <2> QED BY <2>1 DEF TuneInit, PlanOK
<1>2. FoldsOK
  BY DEF TuneInit, FoldsOK
<1>3. ResultsOK
  BY DEF TuneInit, ResultsOK
<1>4. StageOK
  BY WalkForwardAssumption DEF TuneInit, StageOK
<1>5. RankedOK
  BY DEF TuneInit, RankedOK
<1> QED BY <1>1, <1>2, <1>3, <1>4, <1>5 DEF TuneInv

\* What is pruned of the same scores is the same.
LEMMA PrunedKept == ASSUME scores' = scores PROVE Pruned' = Pruned
  BY DEF Pruned, SortedDown

\* A step that leaves the plan and the folds alone keeps what holds of them.
LEMMA FoldsKept == ASSUME PlanOK, FoldsOK, plan' = plan, folds' = folds PROVE PlanOK' /\ FoldsOK'
<1>1. \A k \in Nat : Fold(k)' = Fold(k) 
  BY DEF Fold
<1>2. \A f : TooLate(f)' <=> TooLate(f)
  BY DEF TooLate
<1>3. PlanOK'
  BY DEF PlanOK
<1>4. \A k \in 1..Len(folds) : k - 1 \in Nat
  BY DEF FoldsOK
<1>5. FoldsOK'
  BY <1>1, <1>2, <1>4 DEF FoldsOK
<1> QED BY <1>3, <1>5

\* A turn of make_folds.
LEMMA FoldKeeps == TuneInv /\ FoldNext => TuneInv'
<1> SUFFICES ASSUME TuneInv, FoldNext PROVE TuneInv'
  OBVIOUS
<1>1. /\ plan' = plan /\ scores' = scores /\ survivors' = survivors /\ results' = results
      /\ stage = "folds" /\ survivors = <<>> /\ results = <<>>
      /\ PlanOK /\ FoldsOK /\ ResultsOK /\ StageOK
  BY DEF FoldNext, TuneInv, StageOK
<1>2. \A k \in Nat : Fold(k)' = Fold(k)
  BY <1>1 DEF Fold
<1>3. \A f : TooLate(f)' <=> TooLate(f)
  BY <1>1 DEF TooLate
<1> DEFINE n == Len(folds)
<1>4. n \in Nat /\ Fold(n) \in FoldRecord
  BY <1>1, FoldDates DEF FoldsOK
<1>5. PlanOK' /\ FoldsOK'
  <2>1. PlanOK'
    BY <1>1 DEF PlanOK
  <2>2. CASE TooLate(Fold(n))
    <3>1. folds' = folds
      BY <2>2 DEF FoldNext
    <3> QED BY <1>1, <3>1, FoldsKept
  <2>3. CASE ~TooLate(Fold(n))
    <3>1. folds' = Append(folds, Fold(n))
      BY <2>3 DEF FoldNext
    <3>2. folds' \in Seq(FoldRecord) /\ Len(folds') = n + 1
      BY <1>1, <1>4, <3>1 DEF FoldsOK
    <3>3. ASSUME NEW k \in 1..Len(folds') PROVE (folds[k] = Fold(k - 1) /\ ~TooLate(folds[k]))'
      <4>1. k - 1 \in Nat
        BY <1>4, <3>2
      <4>2. CASE k = n + 1
        <5>1. folds'[k] = Fold(n) /\ k - 1 = n
          BY <1>1, <1>4, <3>1, <4>2 DEF FoldsOK
        <5> QED BY <1>1, <1>2, <1>4, <2>3, <5>1 DEF TooLate
      <4>3. CASE k # n + 1
        <5>1. k \in 1..n /\ folds'[k] = folds[k]
          BY <1>1, <1>4, <3>1, <3>2, <4>3 DEF FoldsOK
        <5>2. folds[k] = Fold(k - 1) /\ ~TooLate(folds[k])
          BY <1>1, <5>1 DEF FoldsOK
        <5> QED BY <1>1, <1>2, <4>1, <5>1, <5>2 DEF TooLate
      <4> QED BY <4>2, <4>3
    <3> QED BY <2>1, <3>2, <3>3 DEF FoldsOK
  <2> QED BY <2>1, <2>2, <2>3
<1>6. stage' \in {"folds", "no folds", "score"}
  BY <1>1 DEF FoldNext
<1>7. ResultsOK' /\ StageOK' /\ RankedOK'
  BY <1>1, <1>6 DEF ResultsOK, StageOK, RankedOK
<1> QED BY <1>5, <1>7 DEF TuneInv

\* The next params are scored.
LEMMA ScoreKeeps == TuneInv /\ ScoreNext => TuneInv'
<1> SUFFICES ASSUME TuneInv, ScoreNext PROVE TuneInv'
  OBVIOUS
<1>1. /\ plan' = plan /\ folds' = folds /\ stage' = stage /\ survivors' = survivors /\ results' = results
      /\ stage = "score" /\ Len(scores) < Len(Grid)
      /\ PlanOK /\ FoldsOK /\ ResultsOK /\ StageOK
  BY DEF ScoreNext, TuneInv
<1>2. PICK s \in IsScores : scores' = Append(scores, s)
  BY DEF ScoreNext
<1>3. scores' \in Seq(Int) /\ Len(scores') = Len(scores) + 1 /\ Len(scores) \in Nat
  BY <1>1, <1>2, WalkForwardAssumption DEF StageOK
<1>4. Len(scores') <= Len(Grid)
  BY <1>1, <1>3, WalkForwardAssumption
<1>5. StageOK'
  BY <1>1, <1>3, <1>4 DEF StageOK
<1>6. ResultsOK' /\ RankedOK'
  BY <1>1 DEF ResultsOK, RankedOK
<1> QED BY <1>1, <1>5, <1>6, FoldsKept DEF TuneInv

\* The grid is pruned.
LEMMA PruneKeeps == TuneInv /\ Prune => TuneInv'
<1> SUFFICES ASSUME TuneInv, Prune PROVE TuneInv'
  OBVIOUS
<1>1. /\ plan' = plan /\ folds' = folds /\ scores' = scores /\ results' = results
      /\ stage' = "evaluate" /\ survivors' = Pruned
      /\ stage = "score" /\ Len(scores) = Len(Grid) /\ results = <<>>
      /\ PlanOK /\ FoldsOK /\ StageOK
  BY DEF Prune, TuneInv, StageOK
<1>2. scores \in Seq(Int) /\ DOMAIN scores = DOMAIN Grid
  BY <1>1, WalkForwardAssumption DEF StageOK
<1>3. Pruned \in Seq(DOMAIN Grid) /\ Pruned' = Pruned
  BY <1>1, <1>2, PrunedKeepsBest, PrunedKept
<1>4. ResultsOK'
  BY <1>1, <1>3 DEF ResultsOK
<1>5. StageOK'
  BY <1>1, <1>3 DEF StageOK
<1>6. RankedOK'
  BY <1>1 DEF RankedOK
<1> QED BY <1>1, <1>4, <1>5, <1>6, FoldsKept DEF TuneInv

\* The next survivor is evaluated.
LEMMA EvaluateKeeps == TuneInv /\ EvaluateNext => TuneInv'
<1> SUFFICES ASSUME TuneInv, EvaluateNext PROVE TuneInv'
  OBVIOUS
<1>1. /\ plan' = plan /\ folds' = folds /\ scores' = scores /\ stage' = stage /\ survivors' = survivors
      /\ stage = "evaluate" /\ PlanOK /\ FoldsOK /\ ResultsOK /\ StageOK
  BY DEF EvaluateNext, TuneInv
<1>2. PICK o \in Outcomes : results' = Append(results, o)
  BY DEF EvaluateNext
<1>3. ResultsOK'
  BY <1>1, <1>2 DEF ResultsOK
<1>4. Pruned' = Pruned
  BY <1>1, PrunedKept
<1>5. StageOK'
  BY <1>1, <1>4 DEF StageOK
<1>6. RankedOK'
  BY <1>1 DEF RankedOK
<1> QED BY <1>1, <1>3, <1>5, <1>6, FoldsKept DEF TuneInv

\* Of the same results the same are admissible, in the same order.
LEMMA RankingKept ==
    ASSUME survivors' = survivors, results' = results
    PROVE  Admissible' = Admissible /\ Ahead' = Ahead
<1>1. \A r : Traded(r)' = Traded(r)
  BY DEF Traded
<1>2. \A r : TotalTrades(r)' = TotalTrades(r)
  BY DEF TotalTrades, MapThenSumSet, MapThenFoldSet
<1>3. \A r, f : Median(r, f)' = Median(r, f)
  BY DEF Median, SortedDown, Traded
<1>4. \A r, f : Worst(r, f)' = Worst(r, f)
  BY DEF Worst, Traded
<1>5. \A r : AdmissibleFirms(r)' = AdmissibleFirms(r)
  BY <1>1, <1>2, <1>3, <1>4 DEF AdmissibleFirms
<1>6. Admissible' = Admissible
  BY <1>5 DEF Admissible
<1>7. \A r : BestScore(r)' = BestScore(r)
  BY <1>3, <1>4, <1>5 DEF BestScore
<1>8. \A r : Neighbors(r)' = Neighbors(r)
  BY DEF Neighbors
<1>9. \A r, q : RanksAbove(r, q)' <=> RanksAbove(r, q)
  BY <1>6, <1>7, <1>8 DEF RanksAbove
<1> QED BY <1>6, <1>9 DEF Ahead

\* The survivors are ranked.
LEMMA RankKeeps == TuneInv /\ RankAll => TuneInv'
<1> SUFFICES ASSUME TuneInv, RankAll PROVE TuneInv'
  OBVIOUS
<1>1. /\ plan' = plan /\ folds' = folds /\ scores' = scores /\ survivors' = survivors /\ results' = results
      /\ stage = "evaluate" /\ stage' = "ranked" /\ PlanOK /\ FoldsOK /\ ResultsOK /\ StageOK
  BY DEF RankAll, TuneInv
<1>2. ranking' = SortedDown(Admissible, RanksAbove)
  BY DEF RankAll
<1>7. ListsPlaces(ranking', Admissible, Ahead)
  BY <1>1, <1>2, RankingLists
<1>3. RankedOK'
  BY <1>1, <1>7, RankingKept DEF RankedOK
<1>4. ResultsOK'
  BY <1>1 DEF ResultsOK
<1>5. Pruned' = Pruned
  BY <1>1, PrunedKept
<1>6. StageOK'
  BY <1>1, <1>5 DEF StageOK
<1> QED BY <1>1, <1>3, <1>4, <1>6, FoldsKept DEF TuneInv

\* The invariant holds throughout: the folds are make_folds' and end before the holdout,
\* what survives is what the pruning keeps, and what is ranked is what was evaluated.
THEOREM TuneInvariant == TuneSpec => []TuneInv
<1>1. TuneInv /\ [TuneNext]_tuneVars => TuneInv'
  <2> SUFFICES ASSUME TuneInv, [TuneNext]_tuneVars PROVE TuneInv'
    OBVIOUS
  <2>1. CASE TuneNext
    BY <2>1, FoldKeeps, ScoreKeeps, PruneKeeps, EvaluateKeeps, RankKeeps DEF TuneNext
  <2>2. CASE UNCHANGED tuneVars
    <3>1. /\ plan' = plan /\ folds' = folds /\ scores' = scores /\ survivors' = survivors
          /\ results' = results /\ stage' = stage /\ ranking' = ranking
          /\ PlanOK /\ FoldsOK /\ ResultsOK /\ StageOK /\ RankedOK
      BY <2>2 DEF tuneVars, TuneInv
    <3>2. Pruned' = Pruned
      BY <3>1, PrunedKept
    <3>3. StageOK'
      BY <3>1, <3>2 DEF StageOK
    <3>4. RankedOK'
      BY <3>1, RankingKept DEF RankedOK
    <3>5. ResultsOK'
      BY <3>1 DEF ResultsOK
    <3> QED BY <3>1, <3>3, <3>4, <3>5, FoldsKept DEF TuneInv
  <2> QED BY <2>1, <2>2
<1> QED BY <1>1, TuneStarts, PTL DEF TuneSpec

\* No session is scored out of sample by two folds, within a fold it was tuned on or in
\* the holdout, for any months, starts and lengths (make_folds, walk_forward.py).
THEOREM SessionsAlwaysScoredOnce == TuneSpec => []SessionsScoredOnce
<1>1. TuneInv => SessionsScoredOnce
  BY FoldsScoreOnce DEF TuneInv
<1> QED BY <1>1, TuneInvariant, PTL

\* The ranking is of the admissible survivors, in the order of their best firms, and no
\* params were pruned for worse ones, for any grid, scores, outcomes and firms
\* (run_walk_forward, rank_plateau).
THEOREM SelectionAlwaysSound == TuneSpec => []SelectionSound
<1>1. TuneInv => SelectionSound
  <2> SUFFICES ASSUME TuneInv, stage = "ranked" PROVE SelectionSound
    BY DEF SelectionSound
  <2> QED BY RankedSoundly DEF TuneInv, StageOK, RankedOK
<1> QED BY <1>1, TuneInvariant, PTL

-----------------------------------------------------------------------------
(* The guard of the holdout.  Of a hash that no two runs met over and no run   *)
(* died over, at most one run is in the evaluation, and a record is covered:   *)
(* by the run that is about to write the sentinel, or by the sentinel.         *)

Pcs == {"start", "refused", "evaluate", "record", "done", "dead"}
HashAt(r) == HashOf[run[r].params]

GuardTypeOK ==
    /\ run \in [Runs -> [pc : Pcs, params : Params, firm : HoldFirms]]
    /\ records \in [Hashes -> Nat]
    /\ excused \subseteq Hashes

\* One run at a time is in the evaluation of a hash, and none once it is locked.
Alone(h) ==
    \A r \in Running(h) : <<h>> \notin locked /\ \A q \in Running(h) : q = r

\* How often the record is written, by how far its run and its sentinel are.
Covered(h) ==
    /\ records[h] <= 1
    /\ records[h] = 1 => <<h>> \in locked \/ \E r \in Running(h) : run[r].pc = "record"
    /\ \A r \in Running(h) : run[r].pc = "evaluate" => records[h] = 0

GuardInv == GuardTypeOK /\ \A h \in Hashes \ excused : Alone(h) /\ Covered(h)

\* What is hashed has a hash.
LEMMA HashTyped ==
    ASSUME GuardTypeOK
    PROVE  /\ \A p \in Params : HashOf[p] \in Hashes
           /\ \A r \in Runs : HashAt(r) \in Hashes
  BY DEF GuardTypeOK, Hashes, HashAt

\* The invariant holds of the empty output directory.
LEMMA GuardInitially == GuardInit => GuardInv
  <1> SUFFICES ASSUME GuardInit PROVE GuardInv
    OBVIOUS
  <1>1. GuardTypeOK
    BY GuardAssumption DEF GuardInit, GuardTypeOK, Pcs
  <1>2. \A h \in Hashes : Running(h) = {} /\ records[h] = 0
    BY DEF GuardInit, Running, Hashes
  <1> QED
    BY <1>1, <1>2 DEF GuardInv, Alone, Covered

\* A run that is refused changes nothing; one that begins meets no record.
LEMMA CheckKeeps ==
    ASSUME GuardInv, NEW r \in Runs, NEW p \in Params, NEW f \in HoldFirms, Check(r, p, f)
    PROVE  GuardInv'
  <1>1. GuardTypeOK'
    BY HashTyped DEF GuardInv, GuardTypeOK, Check, Pcs
  <1>2. ASSUME NEW h \in (Hashes \ excused)' PROVE (Alone(h) /\ Covered(h))'
    <2>1. h \in Hashes /\ h \notin excused /\ Alone(h) /\ Covered(h) /\ records' = records /\ locked' = locked
      BY <1>2 DEF GuardInv, Check, Hashes
    <2>2. \A q \in Runs : q # r => run'[q] = run[q]
      BY DEF Check, GuardInv, GuardTypeOK
    <2>3. run[r].pc = "start" /\ run'[r].params = p
          /\ run'[r].pc = IF <<HashOf[p]>> \in locked THEN "refused" ELSE "evaluate"
      BY DEF Check, GuardInv, GuardTypeOK, Sentinel
    <2>4. CASE HashOf[p] = h /\ <<h>> \notin locked
      <3>1. Running(h) = {}
        BY <1>2, <2>1, <2>4 DEF Check
      <3>2. Running(h)' = {r}
        BY <2>2, <2>3, <2>4, <3>1 DEF Running
      <3>3. records[h] = 0
        BY <2>1, <2>4, <3>1 DEF Covered, GuardInv, GuardTypeOK
      <3> QED
        BY <2>1, <2>3, <2>4, <3>2, <3>3 DEF Alone, Covered
    <2>5. CASE HashOf[p] # h \/ <<h>> \in locked
      <3>1. Running(h)' = Running(h)
        BY <2>2, <2>3, <2>5 DEF Running
      <3>2. \A q \in Running(h) : run'[q] = run[q]
        BY <2>2, <2>3 DEF Running
      <3> QED
        BY <2>1, <3>1, <3>2 DEF Alone, Covered
    <2> QED
      BY <2>4, <2>5
  <1> QED
    BY <1>1, <1>2 DEF GuardInv

\* The record is the first one of its hash.
LEMMA WriteRecordKeeps ==
    ASSUME GuardInv, NEW r \in Runs, WriteRecord(r)
    PROVE  GuardInv'
  <1>1. GuardTypeOK'
    BY HashTyped DEF GuardInv, GuardTypeOK, WriteRecord, Pcs, HashAt
  <1>2. ASSUME NEW h \in (Hashes \ excused)' PROVE (Alone(h) /\ Covered(h))'
    <2>1. h \in Hashes /\ h \notin excused /\ Alone(h) /\ Covered(h) /\ locked' = locked
      BY <1>2 DEF GuardInv, WriteRecord, Hashes
    <2>2. \A q \in Runs : q # r => run'[q] = run[q]
      BY DEF WriteRecord, GuardInv, GuardTypeOK
    <2>3. run[r].pc = "evaluate" /\ run'[r].pc = "record" /\ run'[r].params = run[r].params
      BY DEF WriteRecord, GuardInv, GuardTypeOK
    <2>4. Running(h)' = Running(h)
      BY <2>2, <2>3 DEF Running
    <2>5. Alone(h)'
      BY <2>1, <2>4 DEF Alone
    <2>6. CASE HashAt(r) = h
      <3>1. r \in Running(h)
        BY <2>3, <2>6 DEF Running, HashAt
      <3>2. records[h] = 0 /\ records'[h] = records[h] + 1
        BY <2>1, <2>3, <2>6, <3>1 DEF Covered, WriteRecord, HashAt, GuardInv, GuardTypeOK
      <3>3. \A q \in Running(h) : q = r
        BY <2>1, <3>1 DEF Alone
      <3> QED
        BY <2>1, <2>3, <2>4, <2>5, <3>1, <3>2, <3>3 DEF Covered
    <2>7. CASE HashAt(r) # h
      <3>1. records'[h] = records[h]
        BY <2>1, <2>7 DEF WriteRecord, HashAt, GuardInv, GuardTypeOK
      <3>2. \A q \in Running(h) : run'[q] = run[q]
        BY <2>2, <2>7 DEF Running, HashAt
      <3> QED
        BY <2>1, <2>4, <2>5, <3>1, <3>2 DEF Covered
    <2> QED
      BY <2>6, <2>7
  <1> QED
    BY <1>1, <1>2 DEF GuardInv

\* The sentinel takes over from its run.
LEMMA WriteSentinelKeeps ==
    ASSUME GuardInv, NEW r \in Runs, WriteSentinel(r)
    PROVE  GuardInv'
  <1>1. GuardTypeOK'
    BY DEF GuardInv, GuardTypeOK, WriteSentinel, Pcs, Hashes
  <1>2. ASSUME NEW h \in (Hashes \ excused)' PROVE (Alone(h) /\ Covered(h))'
    <2>1. h \in Hashes /\ h \notin excused /\ Alone(h) /\ Covered(h) /\ records' = records
      BY <1>2 DEF GuardInv, WriteSentinel, Hashes
    <2>2. \A q \in Runs : q # r => run'[q] = run[q]
      BY DEF WriteSentinel, GuardInv, GuardTypeOK
    <2>3. run[r].pc = "record" /\ run'[r].pc = "done" /\ locked' = locked \union {<<HashAt(r)>>}
      BY DEF WriteSentinel, GuardInv, GuardTypeOK, Sentinel, HashAt
    <2>4. CASE HashAt(r) = h
      <3>1. r \in Running(h)
        BY <2>3, <2>4 DEF Running, HashAt
      <3>2. Running(h)' = {}
        BY <2>1, <2>2, <2>3, <3>1 DEF Alone, Running
      <3>3. <<h>> \in locked'
        BY <2>3, <2>4
      <3> QED
        BY <2>1, <3>2, <3>3 DEF Alone, Covered
    <2>5. CASE HashAt(r) # h
      <3>1. Running(h)' = Running(h) /\ \A q \in Running(h) : run'[q] = run[q]
        BY <2>2, <2>3, <2>5 DEF Running, HashAt
      <3>2. <<h>> \in locked' <=> <<h>> \in locked
        BY <2>3, <2>5
      <3> QED
        BY <2>1, <3>1, <3>2 DEF Alone, Covered
    <2> QED
      BY <2>4, <2>5
  <1> QED
    BY <1>1, <1>2 DEF GuardInv

\* A run that dies takes its hash out of the claim.
LEMMA DieKeeps ==
    ASSUME GuardInv, NEW r \in Runs, Die(r)
    PROVE  GuardInv'
  <1>1. GuardTypeOK'
    BY HashTyped DEF GuardInv, GuardTypeOK, Die, Pcs, Hashes, HashAt
  <1>2. ASSUME NEW h \in (Hashes \ excused)' PROVE (Alone(h) /\ Covered(h))'
    <2>1. h \in Hashes /\ h \notin excused /\ h # HashAt(r) /\ Alone(h) /\ Covered(h)
          /\ records' = records /\ locked' = locked
      BY <1>2 DEF GuardInv, Die, Hashes, HashAt
    <2>2. \A q \in Runs : q # r => run'[q] = run[q]
      BY DEF Die, GuardInv, GuardTypeOK
    <2>3. run'[r].pc = "dead"
      BY DEF Die, GuardInv, GuardTypeOK
    <2>4. Running(h)' = Running(h) /\ \A q \in Running(h) : run'[q] = run[q]
      BY <2>1, <2>2, <2>3 DEF Running, HashAt
    <2> QED
      BY <2>1, <2>4 DEF Alone, Covered
  <1> QED
    BY <1>1, <1>2 DEF GuardInv

\* Every step of a guard keeps its invariant.
LEMMA GuardStep == GuardInv /\ [GuardNext]_guardVars => GuardInv'
  <1> SUFFICES ASSUME GuardInv, [GuardNext]_guardVars PROVE GuardInv'
    OBVIOUS
  <1>1. CASE UNCHANGED guardVars
    BY <1>1 DEF guardVars, GuardInv, GuardTypeOK, Alone, Covered, Running, Hashes
  <1>2. CASE GuardNext
    BY <1>2, CheckKeeps, WriteRecordKeeps, WriteSentinelKeeps, DieKeeps DEF GuardNext
  <1> QED
    BY <1>1, <1>2

\* The record of a hash is written once, for any number of processes, whichever
\* params share the hash and whichever firms they are asked for
\* (evaluate_holdout, src/optimizer/walk_forward.py).
THEOREM HoldoutAlwaysOnce == GuardSpec => []HoldoutOnce
  <1>1. GuardInv => HoldoutOnce
    BY DEF GuardInv, Covered, HoldoutOnce
  <1> QED
    BY <1>1, GuardInitially, GuardStep, PTL DEF GuardSpec

-----------------------------------------------------------------------------
(* The overlaid walk against the exit from all the bars at once              *)

\* The rules of ORBOverlays, of a walk w under the parameters q over the bars bs; a minute t
\* is the bar bs[t + 1].
EarnedBy(w, bs, h, t) == \E s \in w.since..t : 2 * Sign(w.dir) * (bs[s + 1].close - w.entry) >= h * w.risk
SumOf(bs, t) ==
    LET sum[n \in 0..t] == IF n = 0 THEN 0 ELSE sum[n - 1] + bs[n].high + bs[n].low + bs[n].close
    IN  sum[t]
Trails(q, w, bs, t) ==
    /\ q.trail > 0 /\ EarnedBy(w, bs, q.trail, t)
    /\ LET level == 3 * t * bs[t + 1].close IN
       IF w.dir = "long" THEN level < SumOf(bs, t) ELSE level > SumOf(bs, t)
Late(q, w, bs, t) == q.time > 0 /\ t >= w.since + q.time /\ ~EarnedBy(w, bs, 2, t)
Due(q, w, bs, t) == \E s \in w.since..t - 1 : Trails(q, w, bs, s) \/ Late(q, w, bs, s)

\* The minute hold_into_close looks at, and whether it has given the target up.
HoldMinute(w) == IF w.since >= HoldFrom THEN w.since ELSE HoldFrom
HasLooked(q, w, bs) == q.hold /\ HoldMinute(w) <= Len(bs) - 1
GaveUp(q, w, bs) == HasLooked(q, w, bs) /\ Sign(w.dir) * (bs[HoldMinute(w) + 1].open - w.entry) > 0

Level(q, w) == w.entry + Sign(w.dir) * q.target * w.risk
Stops(w, bs, t) == Loses(w.dir, bs[t + 1], w.stop)
Touches(q, w, bs, t) == q.target > 0 /\ Wins(w.dir, bs[t + 1], Level(q, w))
Targets(q, w, bs, t) == Touches(q, w, bs, t) /\ ~(GaveUp(q, w, bs) /\ t >= HoldMinute(w))

\* A partial has been earned by minute t, and t is the first minute after one was.
Halved(q, w, bs, t) == q.partial > 0 /\ EarnedBy(w, bs, q.partial, t)
Fires(q, w, bs, t) == t > w.since /\ Halved(q, w, bs, t - 1) /\ ~Halved(q, w, bs, t - 2)

Waited(q, w, bs) ==
    /\ GaveUp(q, w, bs) /\ Touches(q, w, bs, HoldMinute(w))
    /\ Due(q, w, bs, HoldMinute(w)) \/ Fires(q, w, bs, HoldMinute(w))

-----------------------------------------------------------------------------
(* The invariant of a walk                                                   *)

\* Nothing has ended the trade before minute t.
Lasts(q, w, bs, t) ==
    \A s \in w.since..t - 1 : ~Stops(w, bs, s) /\ ~Targets(q, w, bs, s) /\ ~Due(q, w, bs, s)

\* What the last close has scheduled.
Scheduled(q, w, bs) ==
    w.pending = IF Trails(q, w, bs, Len(bs) - 1) THEN "vwap_trail"
                ELSE IF Late(q, w, bs, Len(bs) - 1) THEN "time_stop" ELSE "no"
FiredAt(w, bs, t) == w.partial = "fired" /\ w.partialAt = ExitFill(w.dir, bs[t + 1].open)
Partly(q, w, bs) ==
    \/ ~Halved(q, w, bs, Len(bs) - 1) /\ w.partial = "no"
    \/ Fires(q, w, bs, Len(bs)) /\ w.partial = "pending"
    \/ \E t \in w.since + 1..Len(bs) - 1 : Fires(q, w, bs, t) /\ FiredAt(w, bs, t)

\* What the walk remembers.
Remembers(q, w, bs) ==
    /\ w.earned = {h \in {2, q.trail, q.partial} : EarnedBy(w, bs, h, Len(bs) - 1)}
    /\ w.decided = HasLooked(q, w, bs) /\ w.cancelled = GaveUp(q, w, bs)

InTrade(q, w, bs) ==
    /\ w.at = "in" /\ w.dir \in {"long", "short"} /\ w.since \in OrMinutes..Len(bs)
    /\ Remembers(q, w, bs)
    /\ Waited(q, w, bs) \/ (Lasts(q, w, bs, Len(bs)) /\ Scheduled(q, w, bs) /\ Partly(q, w, bs))

\* The trade ended with the last bar, at minute e.
TheExit(q, w, bs, e) ==
    LET Exit(price, reason) == Trade(w.dir, w.since, w.entry, e, price, reason) IN
    IF Stops(w, bs, e) THEN Exit(ExitFill(w.dir, w.stop), "stop")
    ELSE IF Targets(q, w, bs, e) THEN Exit(ExitFill(w.dir, Level(q, w)), "target")
    ELSE IF Due(q, w, bs, e)
         THEN Exit(ExitFill(w.dir, bs[e + 1].open), IF Trails(q, w, bs, e - 1) THEN "vwap_trail" ELSE "time_stop")
    ELSE Exit(bs[e + 1].close, "eod")
\* A partial that fires on a bar that does not end the trade at the stop or the target.
Partials(q, w, bs, e, t) == Fires(q, w, bs, t) /\ (t = e => ~Stops(w, bs, e) /\ ~Targets(q, w, bs, e))
PartialDone(q, w, bs, e) ==
    \/ w.partial # "fired" /\ \A t \in w.since + 1..e : ~Partials(q, w, bs, e, t)
    \/ \E t \in w.since + 1..e : Partials(q, w, bs, e, t) /\ FiredAt(w, bs, t)
Ends(q, w, bs, e) == Stops(w, bs, e) \/ Targets(q, w, bs, e) \/ Due(q, w, bs, e) \/ e + 1 = DayMinutes
OutOfTrade(q, w, bs) ==
    LET e == Len(bs) - 1 IN
    /\ w.dir \in {"long", "short"} /\ w.since \in OrMinutes..e
    /\ \/ Waited(q, w, bs)
       \/ /\ Lasts(q, w, bs, e) /\ Ends(q, w, bs, e)
          /\ w.exit = TheExit(q, w, bs, e) /\ PartialDone(q, w, bs, e)

\* The fields of a walk; a price is whatever the bars make it.
IsWalk(w) ==
    w \in [at : {"range", "in", "out"}, dir : {"none", "long", "short"}, since : Nat, entry : {w.entry},
           stop : {w.stop}, risk : {w.risk}, cancelled : BOOLEAN, decided : BOOLEAN,
           earned : {w.earned}, vwap : {w.vwap}, pending : {"no", "vwap_trail", "time_stop"},
           partial : {"no", "pending", "fired"}, partialAt : {w.partialAt}, exit : {w.exit}]

\* The walk before a trade.
Idle(w) ==
    /\ IsWalk(w) /\ w.at = "range" /\ w.dir = "none" /\ w.pending = "no" /\ w.partial = "no"
    /\ w.earned = {} /\ ~w.decided /\ ~w.cancelled

WalkOK ==
    /\ prm \in Overlaid /\ bars \in Seq(Bar) /\ IsWalk(walk)
    /\ \A i \in 1..Len(bars) : bars[i].at = i - 1
    /\ Len(bars) <= DayMinutes /\ walk.vwap = SumOf(bars, Len(bars))
    /\ walk.at = "range" => Idle(walk) /\ Len(bars) < DayMinutes
    /\ walk.at = "in" => InTrade(prm, walk, bars) /\ Len(bars) < DayMinutes
    /\ walk.at = "out" /\ walk.dir # "none" => OutOfTrade(prm, walk, bars)

-----------------------------------------------------------------------------
(* The sum over the bars                                                     *)

PlusBar(x, bar) == x + bar.high + bar.low + bar.close
Adds(f, bs, t) == f = [n \in 0..t |-> IF n = 0 THEN 0 ELSE PlusBar(f[n - 1], bs[n])]

\* What a function that adds up has for its values.
LEMMA AddsValues ==
    ASSUME NEW f, NEW bs, NEW t \in Nat, Adds(f, bs, t)
    PROVE  f[0] = 0 /\ \A n \in 1..t : f[n] = PlusBar(f[n - 1], bs[n])
<1>1. f = [n \in 0..t |-> IF n = 0 THEN 0 ELSE PlusBar(f[n - 1], bs[n])]
  BY DEF Adds
<1>2. 0 \in 0..t /\ \A n \in 1..t : n \in 0..t /\ n # 0
  OBVIOUS
<1>3. f[0] = 0
  BY <1>1, <1>2
<1>4. \A n \in 1..t : f[n] = PlusBar(f[n - 1], bs[n])
  BY <1>1, <1>2
<1> QED BY <1>3, <1>4

\* There is one: otherwise there would be a least number of bars without.
LEMMA AddsExists ==
    ASSUME NEW bs, NEW t \in Nat
    PROVE  \E f : Adds(f, bs, t)
<1> DEFINE Without == {n \in Nat : ~ \E f : Adds(f, bs, n)}
<1> SUFFICES ASSUME t \in Without PROVE FALSE
  OBVIOUS
<1>1. PICK m \in Without : \A n \in Without : m <= n
  <2>1. Without \subseteq Nat /\ Without # {}
    OBVIOUS
  <2> HIDE DEF Without
  <2> QED BY <2>1, LeastNatural
<1>2. m \in Nat /\ ~ \E f : Adds(f, bs, m)
  BY <1>1
<1>3. m # 0
  <2> DEFINE f == [n \in 0..0 |-> 0]
  <2>1. \A n \in 0..0 : n = 0
    OBVIOUS
  <2>2. f = [n \in 0..0 |-> IF n = 0 THEN 0 ELSE PlusBar(f[n - 1], bs[n])]
    BY <2>1
  <2>3. Adds(f, bs, 0)
    BY <2>2 DEF Adds
  <2> HIDE DEF f
  <2> QED BY <1>2, <2>3
<1>4. m - 1 \in Nat /\ m - 1 \notin Without
  BY <1>1, <1>2, <1>3
<1>5. PICK g : Adds(g, bs, m - 1)
  BY <1>4
<1>6. g[0] = 0 /\ \A n \in 1..m - 1 : g[n] = PlusBar(g[n - 1], bs[n])
  BY <1>4, <1>5, AddsValues
<1> DEFINE h == [n \in 0..m |-> IF n = m THEN PlusBar(g[m - 1], bs[m]) ELSE g[n]]
<1>7. \A n \in 0..m : h[n] = IF n = 0 THEN 0 ELSE PlusBar(h[n - 1], bs[n])
  <2> SUFFICES ASSUME NEW n \in 0..m PROVE h[n] = IF n = 0 THEN 0 ELSE PlusBar(h[n - 1], bs[n])
    OBVIOUS
  <2>1. CASE n = 0
    BY <1>2, <1>3, <1>6, <2>1
  <2>2. CASE n = m
    <3>1. m - 1 \in 0..m /\ m - 1 # m
      BY <1>2, <1>3
    <3>2. h[m - 1] = g[m - 1]
      BY <3>1
    <3> QED BY <1>3, <2>2, <3>2
  <2>3. CASE n # 0 /\ n # m
    <3>1. n \in 1..m - 1 /\ n - 1 \in 0..m /\ n - 1 # m
      BY <1>2, <2>3
    <3>2. h[n] = g[n] /\ h[n - 1] = g[n - 1]
      BY <2>3, <3>1
    <3> QED BY <1>6, <2>3, <3>1, <3>2
  <2> QED BY <2>1, <2>2, <2>3
<1>8. h = [n \in 0..m |-> h[n]]
  OBVIOUS
<1> HIDE DEF h
<1>9. h = [n \in 0..m |-> IF n = 0 THEN 0 ELSE PlusBar(h[n - 1], bs[n])]
  BY <1>7, <1>8
<1> QED BY <1>2, <1>9 DEF Adds

\* What two of them have in common is the same.
LEMMA AddsUnique ==
    ASSUME NEW f, NEW g, NEW bs, NEW t \in Nat, NEW u \in Nat, Adds(f, bs, t), Adds(g, bs, u), t <= u
    PROVE  f[t] = g[t]
<1> DEFINE Differs == {n \in 0..t : f[n] # g[n]}
<1> SUFFICES ASSUME f[t] # g[t] PROVE FALSE
  OBVIOUS
<1>0. t \in Differs
  OBVIOUS
<1>1. PICK m \in Differs : \A n \in Differs : m <= n
  <2>1. Differs \subseteq Nat /\ Differs # {}
    BY <1>0
  <2> HIDE DEF Differs
  <2> QED BY <2>1, LeastNatural
<1>2. m \in 0..t /\ f[m] # g[m]
  BY <1>1
<1>3. m # 0
  BY <1>2, AddsValues
<1>4. m \in 1..t /\ m \in 1..u /\ m - 1 \in 0..t /\ m - 1 < m
  BY <1>2, <1>3
<1>5. f[m - 1] = g[m - 1]
  <2>1. m - 1 \notin Differs
    BY <1>1, <1>4
  <2> QED BY <1>4, <2>1
<1>6. f[m] = PlusBar(f[m - 1], bs[m]) /\ g[m] = PlusBar(g[m - 1], bs[m])
  BY <1>4, AddsValues
<1> QED BY <1>2, <1>5, <1>6

\* The sum grows bar by bar.
LEMMA SumIs ==
    ASSUME NEW bs, NEW t \in Nat
    PROVE  SumOf(bs, 0) = 0 /\ SumOf(bs, t + 1) = PlusBar(SumOf(bs, t), bs[t + 1])
<1>1. \A u : SumOf(bs, u) = (CHOOSE f : Adds(f, bs, u))[u]
  BY DEF SumOf, Adds, PlusBar
<1> DEFINE f(u) == CHOOSE g : Adds(g, bs, u)
<1>2. \A u \in Nat : Adds(f(u), bs, u)
  BY AddsExists
<1> HIDE DEF f
<1>3. \A u : SumOf(bs, u) = f(u)[u]
  BY <1>1 DEF f
<1>4. f(0)[0] = 0
  BY <1>2, AddsValues
<1>5. t + 1 \in Nat /\ t + 1 \in 1..t + 1 /\ t <= t + 1 /\ t + 1 - 1 = t
  OBVIOUS
<1>6. f(t + 1)[t + 1] = PlusBar(f(t + 1)[t], bs[t + 1])
  BY <1>2, <1>5, AddsValues
<1>7. f(t)[t] = f(t + 1)[t]
  BY <1>2, <1>5, AddsUnique
<1> QED BY <1>3, <1>4, <1>6, <1>7

\* Of bars with prices it is a price, and no later bar changes it.
LEMMA SumGrows ==
    ASSUME NEW bs \in Seq(Bar), NEW bar \in Bar
    PROVE  \A t \in 0..Len(bs) : SumOf(bs, t) \in Int /\ SumOf(Append(bs, bar), t) = SumOf(bs, t)
<1> DEFINE grown == Append(bs, bar)
           Odd == {t \in 0..Len(bs) : ~(SumOf(bs, t) \in Int /\ SumOf(grown, t) = SumOf(bs, t))}
<1> SUFFICES ASSUME Odd # {} PROVE FALSE
  OBVIOUS
<1>1. PICK m \in Odd : \A n \in Odd : m <= n
  <2>1. Odd \subseteq Nat
    OBVIOUS
  <2> HIDE DEF Odd
  <2> QED BY <2>1, LeastNatural
<1>2. m \in 0..Len(bs) /\ Len(bs) \in Nat /\ ~(SumOf(bs, m) \in Int /\ SumOf(grown, m) = SumOf(bs, m))
  BY <1>1
<1>3. m # 0
  <2>1. SumOf(bs, 0) = 0 /\ SumOf(grown, 0) = 0
    BY SumIs
  <2> QED BY <1>2, <2>1
<1>4. m - 1 \in 0..Len(bs) /\ m - 1 < m /\ m - 1 \in Nat /\ m - 1 + 1 = m /\ m \in 1..Len(bs)
  BY <1>2, <1>3
<1>5. SumOf(bs, m - 1) \in Int /\ SumOf(grown, m - 1) = SumOf(bs, m - 1)
  <2>1. m - 1 \notin Odd
    BY <1>1, <1>4
  <2> HIDE DEF grown
  <2> QED BY <1>4, <2>1
<1>6. grown[m] = bs[m] /\ bs[m] \in Bar
  BY <1>4
<1> HIDE DEF grown, Odd
<1>7. SumOf(bs, m) = PlusBar(SumOf(bs, m - 1), bs[m]) /\ SumOf(grown, m) = PlusBar(SumOf(grown, m - 1), grown[m])
  BY <1>4, SumIs
<1>8. PlusBar(SumOf(bs, m - 1), bs[m]) \in Int
  <2>1. bs[m].high \in Int /\ bs[m].low \in Int /\ bs[m].close \in Int
    BY <1>6 DEF Bar
  <2> QED BY <1>5, <2>1 DEF PlusBar
<1> QED BY <1>2, <1>5, <1>6, <1>7, <1>8

-----------------------------------------------------------------------------
(* What the rules read                                                       *)

\* The same trade.
Same(v, w) ==
    v.dir = w.dir /\ v.since = w.since /\ v.entry = w.entry /\ v.stop = w.stop /\ v.risk = w.risk

\* The rules read of a walk its trade only.
LEMMA SameRules ==
    ASSUME NEW q, NEW v, NEW w, NEW bs, Same(v, w)
    PROVE  /\ \A h, t : EarnedBy(v, bs, h, t) = EarnedBy(w, bs, h, t)
           /\ \A t : Trails(q, v, bs, t) = Trails(q, w, bs, t) /\ Late(q, v, bs, t) = Late(q, w, bs, t)
           /\ \A t : Due(q, v, bs, t) = Due(q, w, bs, t)
           /\ HoldMinute(v) = HoldMinute(w) /\ HasLooked(q, v, bs) = HasLooked(q, w, bs)
           /\ GaveUp(q, v, bs) = GaveUp(q, w, bs)
           /\ \A t : Stops(v, bs, t) = Stops(w, bs, t) /\ Targets(q, v, bs, t) = Targets(q, w, bs, t)
           /\ \A t : Halved(q, v, bs, t) = Halved(q, w, bs, t) /\ Fires(q, v, bs, t) = Fires(q, w, bs, t)
           /\ Waited(q, v, bs) = Waited(q, w, bs)
           /\ \A t : Lasts(q, v, bs, t) = Lasts(q, w, bs, t)
<1>0. v.dir = w.dir /\ v.since = w.since /\ v.entry = w.entry /\ v.stop = w.stop /\ v.risk = w.risk
  BY DEF Same
<1>1. \A h, t : EarnedBy(v, bs, h, t) = EarnedBy(w, bs, h, t)
  BY <1>0 DEF EarnedBy
<1>2. \A t : Trails(q, v, bs, t) = Trails(q, w, bs, t) /\ Late(q, v, bs, t) = Late(q, w, bs, t)
  BY <1>0, <1>1 DEF Trails, Late
<1>3. \A t : Due(q, v, bs, t) = Due(q, w, bs, t)
  BY <1>0, <1>2 DEF Due
<1>4. HoldMinute(v) = HoldMinute(w)
  BY <1>0 DEF HoldMinute
<1>5. HasLooked(q, v, bs) = HasLooked(q, w, bs)
  BY <1>4 DEF HasLooked
<1>6. GaveUp(q, v, bs) = GaveUp(q, w, bs)
  BY <1>0, <1>4, <1>5 DEF GaveUp
<1>7. \A t : Stops(v, bs, t) = Stops(w, bs, t) /\ Touches(q, v, bs, t) = Touches(q, w, bs, t)
  BY <1>0 DEF Stops, Touches, Level
<1>8. \A t : Targets(q, v, bs, t) = Targets(q, w, bs, t)
  BY <1>4, <1>6, <1>7 DEF Targets
<1>9. \A t : Halved(q, v, bs, t) = Halved(q, w, bs, t)
  BY <1>1 DEF Halved
<1>10. \A t : Fires(q, v, bs, t) = Fires(q, w, bs, t)
  BY <1>0, <1>9 DEF Fires
<1>11. Waited(q, v, bs) = Waited(q, w, bs)
  BY <1>3, <1>4, <1>6, <1>7, <1>10 DEF Waited
<1>12. \A t : Lasts(q, v, bs, t) = Lasts(q, w, bs, t)
  BY <1>0, <1>3, <1>7, <1>8 DEF Lasts
<1> QED BY <1>1, <1>2, <1>3, <1>4, <1>5, <1>6, <1>7, <1>8, <1>9, <1>10, <1>11, <1>12

\* The bars bs, and then the bar b of minute n.
Grown(grown, bs, b, n) == bs \in Seq(Bar) /\ b \in Bar /\ grown = Append(bs, b) /\ n = Len(bs)

\* What a new bar, of minute n, leaves as it was.
LEMMA RulesGrow ==
    ASSUME NEW q \in Overlaid, NEW w, w.since \in Nat,
           NEW bs, NEW b, NEW grown, NEW n, Grown(grown, bs, b, n)
    PROVE  /\ \A h : \A t \in Int : t <= n - 1 => EarnedBy(w, grown, h, t) = EarnedBy(w, bs, h, t)
           /\ \A h : w.since <= n =>
                 EarnedBy(w, grown, h, n) <=>
                    (EarnedBy(w, bs, h, n - 1) \/ 2 * Sign(w.dir) * (b.close - w.entry) >= h * w.risk)
           /\ \A t \in w.since..n - 1 : /\ Trails(q, w, grown, t) = Trails(q, w, bs, t)
                                        /\ Late(q, w, grown, t) = Late(q, w, bs, t)
           /\ \A t \in Int : t <= n => Due(q, w, grown, t) = Due(q, w, bs, t)
           /\ \A t \in w.since..n - 1 : /\ Stops(w, grown, t) = Stops(w, bs, t)
                                        /\ Touches(q, w, grown, t) = Touches(q, w, bs, t)
                                        /\ Targets(q, w, grown, t) = Targets(q, w, bs, t)
           /\ \A t \in Int : t <= n - 1 => Halved(q, w, grown, t) = Halved(q, w, bs, t)
           /\ \A t \in Int : t <= n => Fires(q, w, grown, t) = Fires(q, w, bs, t)
           /\ Lasts(q, w, grown, n) = Lasts(q, w, bs, n)
           /\ Waited(q, w, bs) => Waited(q, w, grown)
           /\ HoldMinute(w) \in Nat /\ HoldMinute(w) >= w.since
           /\ HoldMinute(w) <= n - 1 => GaveUp(q, w, grown) = GaveUp(q, w, bs)
<1>00. bs \in Seq(Bar) /\ b \in Bar /\ grown = Append(bs, b) /\ n = Len(bs)
  BY DEF Grown
<1>0. /\ n \in Nat /\ Len(grown) = n + 1 /\ grown[n + 1] = b
      /\ \A i \in 1..n : grown[i] = bs[i]
  BY <1>00
<1>1. \A h : \A t \in Int : t <= n - 1 => EarnedBy(w, grown, h, t) = EarnedBy(w, bs, h, t)
  <2> SUFFICES ASSUME NEW h, NEW t \in Int, t <= n - 1 PROVE EarnedBy(w, grown, h, t) = EarnedBy(w, bs, h, t)
    OBVIOUS
  <2>1. \A s \in w.since..t : s + 1 \in 1..n
    BY <1>0
  <2>2. \A s \in w.since..t : grown[s + 1] = bs[s + 1]
    BY <1>0, <2>1
  <2> QED BY <2>2 DEF EarnedBy
<1>2. \A h : w.since <= n =>
         EarnedBy(w, grown, h, n) <=>
            (EarnedBy(w, bs, h, n - 1) \/ 2 * Sign(w.dir) * (b.close - w.entry) >= h * w.risk)
  <2> SUFFICES ASSUME NEW h, w.since <= n
               PROVE EarnedBy(w, grown, h, n) <=>
                        (EarnedBy(w, bs, h, n - 1) \/ 2 * Sign(w.dir) * (b.close - w.entry) >= h * w.risk)
    OBVIOUS
  <2> DEFINE G(bar) == 2 * Sign(w.dir) * (bar.close - w.entry) >= h * w.risk
  <2>1. EarnedBy(w, grown, h, n) <=> \E s \in w.since..n : G(grown[s + 1])
    BY DEF EarnedBy
  <2>2. EarnedBy(w, bs, h, n - 1) <=> \E s \in w.since..n - 1 : G(bs[s + 1])
    BY DEF EarnedBy
  <2> HIDE DEF G
  <2>3. \A s \in w.since..n - 1 : s \in w.since..n /\ s + 1 \in 1..n
    BY <1>0
  <2>4. \A s \in w.since..n : s = n \/ s \in w.since..n - 1
    BY <1>0
  <2>5. n \in w.since..n
    BY <1>0
  <2>6. EarnedBy(w, grown, h, n) <=> (EarnedBy(w, bs, h, n - 1) \/ G(b))
    BY <1>0, <2>1, <2>2, <2>3, <2>4, <2>5
  <2> QED BY <2>6 DEF G
<1>3. \A t \in w.since..n - 1 : t \in 0..n - 1 /\ t \in Int /\ t \in 0..Len(bs) /\ t + 1 \in 1..n /\ grown[t + 1] = bs[t + 1]
  BY <1>00, <1>0
<1>4. \A t \in w.since..n - 1 : /\ Trails(q, w, grown, t) = Trails(q, w, bs, t)
                                /\ Late(q, w, grown, t) = Late(q, w, bs, t)
  <2> SUFFICES ASSUME NEW t \in w.since..n - 1
               PROVE /\ Trails(q, w, grown, t) = Trails(q, w, bs, t) /\ Late(q, w, grown, t) = Late(q, w, bs, t)
    OBVIOUS
  <2>1. SumOf(grown, t) = SumOf(bs, t)
    BY <1>00, <1>3, SumGrows
  <2>2. \A h : EarnedBy(w, grown, h, t) = EarnedBy(w, bs, h, t)
    BY <1>0, <1>1, <1>3
  <2> QED BY <1>3, <2>1, <2>2 DEF Trails, Late
<1>5. \A t \in Int : t <= n => Due(q, w, grown, t) = Due(q, w, bs, t)
  <2> SUFFICES ASSUME NEW t \in Int, t <= n PROVE Due(q, w, grown, t) = Due(q, w, bs, t)
    OBVIOUS
  <2>1. \A s \in w.since..t - 1 : s \in w.since..n - 1
    BY <1>0
  <2> QED BY <1>4, <2>1 DEF Due
<1>6. \A t \in w.since..n - 1 : /\ Stops(w, grown, t) = Stops(w, bs, t)
                                /\ Touches(q, w, grown, t) = Touches(q, w, bs, t)
  BY <1>3 DEF Stops, Touches
<1>7. HoldMinute(w) \in Nat /\ HoldMinute(w) >= w.since
  BY OverlaysAssumption DEF HoldMinute
<1>8. HoldMinute(w) <= n - 1 => GaveUp(q, w, grown) = GaveUp(q, w, bs)
  <2> SUFFICES ASSUME HoldMinute(w) <= n - 1 PROVE GaveUp(q, w, grown) = GaveUp(q, w, bs)
    OBVIOUS
  <2>1. HoldMinute(w) \in w.since..n - 1 /\ HoldMinute(w) <= Len(grown) - 1
    BY <1>00, <1>0, <1>7
  <2> QED BY <1>00, <1>3, <2>1 DEF GaveUp, HasLooked
<1>9. HoldMinute(w) > n - 1 => ~GaveUp(q, w, bs) /\ \A t \in w.since..n - 1 : ~(t >= HoldMinute(w))
  BY <1>00, <1>0, <1>7 DEF GaveUp, HasLooked
<1>10. \A t \in w.since..n - 1 : Targets(q, w, grown, t) = Targets(q, w, bs, t)
  <2>1. CASE HoldMinute(w) <= n - 1
    BY <1>6, <1>8, <2>1 DEF Targets
  <2>2. CASE HoldMinute(w) > n - 1
    BY <1>6, <1>9, <2>2 DEF Targets
  <2> QED BY <1>0, <1>7, <2>1, <2>2
<1>11. \A t \in Int : t <= n - 1 => Halved(q, w, grown, t) = Halved(q, w, bs, t)
  BY <1>1 DEF Halved
<1>12. \A t \in Int : t <= n => Fires(q, w, grown, t) = Fires(q, w, bs, t)
  <2> SUFFICES ASSUME NEW t \in Int, t <= n PROVE Fires(q, w, grown, t) = Fires(q, w, bs, t)
    OBVIOUS
  <2>1. t - 1 \in Int /\ t - 2 \in Int /\ t - 1 <= n - 1 /\ t - 2 <= n - 1
    BY <1>0
  <2> QED BY <1>11, <2>1 DEF Fires
<1>13. Lasts(q, w, grown, n) = Lasts(q, w, bs, n)
  <2>1. \A s \in w.since..n - 1 : s \in Int /\ s <= n
    BY <1>0
  <2> QED BY <1>5, <1>6, <1>10, <2>1 DEF Lasts
<1>14. Waited(q, w, bs) => Waited(q, w, grown)
  <2> SUFFICES ASSUME Waited(q, w, bs) PROVE Waited(q, w, grown)
    OBVIOUS
  <2>1. HoldMinute(w) <= n - 1 /\ GaveUp(q, w, bs)
    BY <1>00 DEF Waited, GaveUp, HasLooked
  <2>2. HoldMinute(w) \in w.since..n - 1 /\ HoldMinute(w) \in Int /\ HoldMinute(w) <= n
    BY <1>0, <1>7, <2>1
  <2> QED BY <1>5, <1>6, <1>8, <1>12, <2>1, <2>2 DEF Waited
<1> QED BY <1>1, <1>2, <1>4, <1>5, <1>6, <1>7, <1>8, <1>10, <1>11, <1>12, <1>13, <1>14

\* A level of half R once reached stays reached, so a partial fires on one minute.
LEMMA FiresOnce ==
    ASSUME NEW q, NEW w, w.since \in Nat, NEW bs
    PROVE  /\ \A t, u \in Int : t <= u /\ Halved(q, w, bs, t) => Halved(q, w, bs, u)
           /\ \A t, u \in Int : Fires(q, w, bs, t) /\ Fires(q, w, bs, u) => t = u
           /\ \A t, u \in Int : Fires(q, w, bs, t) /\ t <= u + 1 => Halved(q, w, bs, u)
<1>1. \A t, u \in Int : t <= u /\ Halved(q, w, bs, t) => Halved(q, w, bs, u)
  <2> SUFFICES ASSUME NEW t \in Int, NEW u \in Int, t <= u, Halved(q, w, bs, t) PROVE Halved(q, w, bs, u)
    OBVIOUS
  <2>1. \A s \in w.since..t : s \in w.since..u
    OBVIOUS
  <2> QED BY <2>1 DEF Halved, EarnedBy
<1>2. \A t, u \in Int : Fires(q, w, bs, t) /\ t <= u + 1 => Halved(q, w, bs, u)
  <2> SUFFICES ASSUME NEW t \in Int, NEW u \in Int, Fires(q, w, bs, t), t <= u + 1 PROVE Halved(q, w, bs, u)
    OBVIOUS
  <2>1. t - 1 \in Int /\ t - 1 <= u /\ Halved(q, w, bs, t - 1)
    BY DEF Fires
  <2> QED BY <1>1, <2>1
<1>3. \A t, u \in Int : Fires(q, w, bs, t) /\ Fires(q, w, bs, u) => ~(t < u)
  <2> SUFFICES ASSUME NEW t \in Int, NEW u \in Int, Fires(q, w, bs, t), Fires(q, w, bs, u), t < u PROVE FALSE
    OBVIOUS
  <2>1. u - 2 \in Int /\ t <= (u - 2) + 1
    OBVIOUS
  <2>2. Halved(q, w, bs, u - 2)
    BY <1>2, <2>1
  <2> QED BY <2>2 DEF Fires
<1>4. \A t, u \in Int : Fires(q, w, bs, t) /\ Fires(q, w, bs, u) => t = u
  <2> SUFFICES ASSUME NEW t \in Int, NEW u \in Int, Fires(q, w, bs, t), Fires(q, w, bs, u) PROVE t = u
    OBVIOUS
  <2>1. ~(t < u) /\ ~(u < t)
    BY <1>3
  <2> QED BY <2>1
<1> QED BY <1>1, <1>2, <1>4

-----------------------------------------------------------------------------
(* What each part of a step changes                                          *)

\* Exited closes the trade and leaves the rest.
LEMMA ExitedIs ==
    ASSUME NEW w, IsWalk(w), NEW b, NEW price, NEW reason,
           NEW v, v = Exited(w, b, price, reason)
    PROVE  /\ IsWalk(v) /\ Same(v, w) /\ v.at = "out" /\ v.vwap = w.vwap
           /\ v.partial = w.partial /\ v.partialAt = w.partialAt
           /\ v.exit = Trade(w.dir, w.since, w.entry, b.at, price, reason)
<1> DEFINE trade == Trade(w.dir, w.since, w.entry, b.at, price, reason)
<1>1. v = [w EXCEPT !.at = "out", !.exit = trade]
  BY DEF Exited
<1> HIDE DEF trade
<1>2. /\ v.at = "out" /\ v.exit = trade /\ v.dir = w.dir /\ v.since = w.since /\ v.entry = w.entry
      /\ v.stop = w.stop /\ v.risk = w.risk /\ v.partial = w.partial /\ v.partialAt = w.partialAt
      /\ v.vwap = w.vwap
  BY <1>1 DEF IsWalk
<1>3. IsWalk(v)
  BY <1>1, <1>2 DEF IsWalk
<1> QED BY <1>2, <1>3 DEF Same, trade

\* v is w with its pending partial filled by bar b, if it may.
Fills(v, w, b) ==
    /\ w.partial = "pending" /\ ~Loses(w.dir, b, w.stop) /\ ~HitsTarget(w, b) =>
          v.partial = "fired" /\ v.partialAt = ExitFill(w.dir, b.open)
    /\ ~(w.partial = "pending" /\ ~Loses(w.dir, b, w.stop) /\ ~HitsTarget(w, b)) => v = w

\* A pending partial fills at the open, unless the bar reaches the stop or the target.
LEMMA FillPartialIs ==
    ASSUME NEW w, IsWalk(w), NEW b, NEW v, v = FillPartial(w, b)
    PROVE  /\ IsWalk(v) /\ Same(v, w) /\ v.at = w.at /\ v.vwap = w.vwap /\ v.pending = w.pending
           /\ v.decided = w.decided /\ v.cancelled = w.cancelled /\ v.earned = w.earned
           /\ Fills(v, w, b)
<1>1. CASE w.partial = "pending" /\ ~Loses(w.dir, b, w.stop) /\ ~HitsTarget(w, b)
  <2> DEFINE fill == ExitFill(w.dir, b.open)
  <2>1. v = [w EXCEPT !.partial = "fired", !.partialAt = fill]
    BY <1>1 DEF FillPartial
  <2> HIDE DEF fill
  <2>2. /\ v.partial = "fired" /\ v.partialAt = fill /\ v.at = w.at /\ v.dir = w.dir /\ v.since = w.since
        /\ v.entry = w.entry /\ v.stop = w.stop /\ v.risk = w.risk /\ v.pending = w.pending
        /\ v.decided = w.decided /\ v.cancelled = w.cancelled /\ v.earned = w.earned /\ v.vwap = w.vwap
    BY <2>1 DEF IsWalk
  <2>3. IsWalk(v)
    BY <2>1, <2>2 DEF IsWalk
  <2> QED BY <1>1, <2>2, <2>3 DEF Same, Fills, fill
<1>2. CASE ~(w.partial = "pending" /\ ~Loses(w.dir, b, w.stop) /\ ~HitsTarget(w, b))
  <2>1. v = w
    BY <1>2 DEF FillPartial
  <2> QED BY <1>2, <2>1 DEF Same, Fills
<1> QED BY <1>1, <1>2

\* The look at the target comes once.
LEMMA DecideHoldIs ==
    ASSUME NEW w, IsWalk(w), NEW b, NEW v, v = DecideHold(w, b)
    PROVE  /\ IsWalk(v) /\ Same(v, w) /\ v.at = w.at /\ v.vwap = w.vwap /\ v.pending = w.pending
           /\ v.partial = w.partial /\ v.partialAt = w.partialAt /\ v.earned = w.earned
           /\ prm.hold /\ ~w.decided /\ b.at >= HoldFrom =>
                 v.decided /\ (v.cancelled <=> Sign(w.dir) * (b.open - w.entry) > 0)
           /\ ~(prm.hold /\ ~w.decided /\ b.at >= HoldFrom) => v = w
<1>1. CASE prm.hold /\ ~w.decided /\ b.at >= HoldFrom
  <2> DEFINE ahead == Sign(w.dir) * (b.open - w.entry) > 0
  <2>1. v = [w EXCEPT !.decided = TRUE, !.cancelled = ahead]
    BY <1>1 DEF DecideHold
  <2>2. ahead \in BOOLEAN
    OBVIOUS
  <2> HIDE DEF ahead
  <2>3. /\ v.decided = TRUE /\ v.cancelled = ahead /\ v.at = w.at /\ v.dir = w.dir /\ v.since = w.since
        /\ v.entry = w.entry /\ v.stop = w.stop /\ v.risk = w.risk /\ v.pending = w.pending
        /\ v.partial = w.partial /\ v.partialAt = w.partialAt /\ v.earned = w.earned /\ v.vwap = w.vwap
    BY <2>1 DEF IsWalk
  <2>4. IsWalk(v)
    BY <2>1, <2>2, <2>3 DEF IsWalk
  <2> QED BY <1>1, <2>3, <2>4 DEF Same, ahead
<1>2. CASE ~(prm.hold /\ ~w.decided /\ b.at >= HoldFrom)
  <2>1. v = w
    BY <1>2 DEF DecideHold
  <2> QED BY <1>2, <2>1 DEF Same
<1> QED BY <1>1, <1>2

\* What a close leads to: the levels reached, the trail breached, the trade too late.
EarnedThen(w, b) == w.earned \union Earns(w, b)
BreachedThen(w, b) ==
    /\ prm.trail > 0 /\ prm.trail \in EarnedThen(w, b)
    /\ LET level == 3 * Len(bars) * b.close IN
       IF w.dir = "long" THEN level < w.vwap ELSE level > w.vwap
LateThen(w, b) == prm.time > 0 /\ 2 \notin EarnedThen(w, b) /\ b.at >= w.since + prm.time

\* The close schedules the exit of the next open, and the partial.
LEMMA ScheduleIs ==
    ASSUME NEW w, IsWalk(w), NEW b, NEW v, v = Schedule(w, b)
    PROVE  /\ IsWalk(v) /\ Same(v, w) /\ v.at = w.at /\ v.vwap = w.vwap
           /\ v.decided = w.decided /\ v.cancelled = w.cancelled /\ v.earned = EarnedThen(w, b)
           /\ v.partialAt = w.partialAt
           /\ v.pending = IF BreachedThen(w, b) THEN "vwap_trail"
                          ELSE IF w.pending = "no" /\ LateThen(w, b) THEN "time_stop" ELSE w.pending
           /\ v.partial = IF w.partial = "no" /\ prm.partial > 0 /\ prm.partial \in EarnedThen(w, b)
                          THEN "pending" ELSE w.partial
<1> DEFINE earned == EarnedThen(w, b)
           breach == BreachedThen(w, b)
           late == LateThen(w, b)
<1>a. earned = w.earned \union Earns(w, b)
  BY DEF EarnedThen
<1>b. breach <=> (/\ prm.trail > 0 /\ prm.trail \in earned
                  /\ LET level == 3 * Len(bars) * b.close IN
                     IF w.dir = "long" THEN level < w.vwap ELSE level > w.vwap)
  BY DEF BreachedThen
<1>c. late <=> (prm.time > 0 /\ 2 \notin earned /\ b.at >= w.since + prm.time)
  BY DEF LateThen
<1> HIDE DEF earned, breach, late
<1> DEFINE e == [w EXCEPT !.earned = earned]
           next == IF breach THEN "vwap_trail"
                   ELSE IF w.pending = "no" /\ late THEN "time_stop" ELSE w.pending
           part == IF w.partial = "no" /\ prm.partial > 0 /\ prm.partial \in earned
                   THEN "pending" ELSE w.partial
<1>1. /\ e.earned = earned /\ e.at = w.at /\ e.dir = w.dir /\ e.since = w.since /\ e.entry = w.entry
      /\ e.stop = w.stop /\ e.risk = w.risk /\ e.pending = w.pending /\ e.partial = w.partial
      /\ e.partialAt = w.partialAt /\ e.vwap = w.vwap /\ e.decided = w.decided /\ e.cancelled = w.cancelled
      /\ e.exit = w.exit
  BY DEF IsWalk
<1>2. IsWalk(e)
  <2>1. e \in [at : {"range", "in", "out"}, dir : {"none", "long", "short"}, since : Nat, entry : {w.entry},
               stop : {w.stop}, risk : {w.risk}, cancelled : BOOLEAN, decided : BOOLEAN,
               earned : {earned}, vwap : {w.vwap}, pending : {"no", "vwap_trail", "time_stop"},
               partial : {"no", "pending", "fired"}, partialAt : {w.partialAt}, exit : {w.exit}]
    BY DEF IsWalk
  <2> HIDE DEF e
  <2> QED BY <1>1, <2>1 DEF IsWalk
<1>3. Breaches(e, b) <=> breach
  <2> HIDE DEF e
  <2> QED BY <1>b, <1>1 DEF Breaches
<1>4. v = [e EXCEPT !.pending = next, !.partial = part]
  <2>1. v = [e EXCEPT
           !.pending = CASE Breaches(e, b) -> "vwap_trail"
                         [] ~Breaches(e, b) /\ e.pending = "no" /\ late -> "time_stop"
                         [] OTHER -> e.pending,
           !.partial = IF e.partial = "no" /\ prm.partial > 0 /\ prm.partial \in e.earned
                       THEN "pending" ELSE e.partial]
    BY <1>a, <1>c, <1>1 DEF Schedule
  <2> HIDE DEF e
  <2>2. (CASE Breaches(e, b) -> "vwap_trail"
           [] ~Breaches(e, b) /\ e.pending = "no" /\ late -> "time_stop"
           [] OTHER -> e.pending) = next
    BY <1>1, <1>3
  <2>3. (IF e.partial = "no" /\ prm.partial > 0 /\ prm.partial \in e.earned
         THEN "pending" ELSE e.partial) = part
    BY <1>1
  <2> HIDE DEF next, part
  <2> QED BY <2>1, <2>2, <2>3
<1>5. next \in {"no", "vwap_trail", "time_stop"} /\ part \in {"no", "pending", "fired"}
  BY DEF IsWalk
<1> HIDE DEF e, next, part
<1>6. /\ v.pending = next /\ v.partial = part /\ v.at = e.at /\ v.dir = e.dir /\ v.since = e.since
      /\ v.entry = e.entry /\ v.stop = e.stop /\ v.risk = e.risk /\ v.partialAt = e.partialAt
      /\ v.vwap = e.vwap /\ v.decided = e.decided /\ v.cancelled = e.cancelled /\ v.earned = e.earned
      /\ v.exit = e.exit
  BY <1>2, <1>4 DEF IsWalk
<1>7. IsWalk(v)
  BY <1>2, <1>4, <1>5, <1>6 DEF IsWalk
<1> QED BY <1>1, <1>6, <1>7 DEF Same, next, part, earned, breach, late

-----------------------------------------------------------------------------
(* A bar of a trade                                                          *)

\* The walk comes to bar b, of minute n.
NextBar(grown, b, n) ==
    /\ prm \in Overlaid /\ bars \in Seq(Bar) /\ b \in Bar /\ b.at = n
    /\ grown = Append(bars, b) /\ n = Len(bars)

\* What the walk sees of the new bar is what the rules say of it.
LEMMA AtTheBar ==
    ASSUME NEW b, NEW grown, NEW n, NextBar(grown, b, n),
           NEW w, IsWalk(w), w.since <= n, Remembers(prm, w, bars),
           NEW v, IsWalk(v), Same(v, w), v.decided = w.decided, v.cancelled = w.cancelled,
           NEW d, d = DecideHold(v, b)
    PROVE  /\ Loses(w.dir, b, w.stop) = Stops(w, grown, n)
           /\ Targets(prm, w, grown, n) => HitsTarget(w, b)
           /\ HitsTarget(w, b) /\ ~Targets(prm, w, grown, n) =>
                 HoldMinute(w) = n /\ GaveUp(prm, w, grown) /\ Touches(prm, w, grown, n)
           /\ d.decided = HasLooked(prm, w, grown) /\ d.cancelled = GaveUp(prm, w, grown)
           /\ HitsTarget(d, b) = Targets(prm, w, grown, n)
<1>00. /\ prm \in Overlaid /\ bars \in Seq(Bar) /\ b \in Bar /\ b.at = n
       /\ grown = Append(bars, b) /\ n = Len(bars)
  BY DEF NextBar
<1>a. Grown(grown, bars, b, n)
  BY <1>00 DEF Grown
<1>0. /\ n \in Nat /\ Len(grown) = n + 1 /\ grown[n + 1] = b /\ w.since \in Nat
      /\ prm.hold \in BOOLEAN /\ HoldFrom \in Int
  BY <1>00, OverlaysAssumption DEF IsWalk
<1>1. /\ HoldMinute(w) \in Nat /\ HoldMinute(w) >= w.since
      /\ HoldMinute(w) <= n - 1 => GaveUp(prm, w, grown) = GaveUp(prm, w, bars)
  BY <1>00, <1>0, <1>a, RulesGrow
<1>2. HoldMinute(w) <= n <=> n >= HoldFrom
  BY <1>0 DEF HoldMinute
<1>3. w.decided = HasLooked(prm, w, bars) /\ w.cancelled = GaveUp(prm, w, bars)
  BY <1>00 DEF Remembers
<1>4. /\ HasLooked(prm, w, bars) <=> prm.hold /\ HoldMinute(w) <= n - 1
      /\ HasLooked(prm, w, grown) <=> prm.hold /\ HoldMinute(w) <= n
  BY <1>00, <1>0, <1>1 DEF HasLooked
<1>5. GaveUp(prm, w, bars) => HasLooked(prm, w, bars)
  BY DEF GaveUp
<1>6. GaveUp(prm, w, grown) => HasLooked(prm, w, grown)
  BY DEF GaveUp
<1>7. Targets(prm, w, grown, n) <=> Touches(prm, w, grown, n) /\ ~GaveUp(prm, w, grown)
  BY <1>0, <1>1, <1>4, <1>6 DEF Targets
<1>8. \A x : Same(x, w) => (HitsTarget(x, b) <=> Touches(prm, w, grown, n) /\ ~x.cancelled)
  BY <1>0 DEF HitsTarget, Touches, TargetPrice, Level, Same
<1>9. GaveUp(prm, w, bars) => GaveUp(prm, w, grown)
  BY <1>1, <1>4, <1>5
<1>10. Same(w, w)
  BY DEF Same
<1>11. Loses(w.dir, b, w.stop) = Stops(w, grown, n)
  BY <1>0 DEF Stops
<1>12. Targets(prm, w, grown, n) => HitsTarget(w, b)
  BY <1>3, <1>7, <1>8, <1>9, <1>10
<1>13. ASSUME HitsTarget(w, b), ~Targets(prm, w, grown, n)
       PROVE  HoldMinute(w) = n /\ GaveUp(prm, w, grown) /\ Touches(prm, w, grown, n)
  <2>1. Touches(prm, w, grown, n) /\ ~GaveUp(prm, w, bars) /\ GaveUp(prm, w, grown)
    BY <1>3, <1>7, <1>8, <1>10, <1>13
  <2>2. HoldMinute(w) <= n /\ ~(HoldMinute(w) <= n - 1)
    BY <1>1, <1>4, <1>6, <2>1
  <2> QED BY <1>0, <1>1, <2>1, <2>2
<1>14. /\ d.decided = HasLooked(prm, w, grown) /\ d.cancelled = GaveUp(prm, w, grown)
       /\ HitsTarget(d, b) = Targets(prm, w, grown, n)
  <2>1. Same(d, w) /\ v.dir = w.dir /\ v.entry = w.entry
    BY DecideHoldIs DEF Same
  <2>a. IsWalk(v) /\ d = DecideHold(v, b)
    OBVIOUS
  <2>b. prm.hold /\ ~v.decided /\ b.at >= HoldFrom =>
           d.decided /\ (d.cancelled <=> Sign(v.dir) * (b.open - v.entry) > 0)
    BY ONLY <2>a, DecideHoldIs
  <2>c. ~(prm.hold /\ ~v.decided /\ b.at >= HoldFrom) => d = v
    BY <2>a DEF DecideHold
  <2>00. n >= HoldFrom <=> b.at >= HoldFrom
    BY <1>00
  <2>2. d.decided = HasLooked(prm, w, grown) /\ d.cancelled = GaveUp(prm, w, grown)
    <3>1. CASE prm.hold /\ ~w.decided /\ n >= HoldFrom
      <4>1. d.decided /\ (d.cancelled <=> Sign(w.dir) * (b.open - w.entry) > 0)
        BY <2>b, <2>c, <2>00, <2>1, <3>1
      <4>2. HasLooked(prm, w, grown) /\ HoldMinute(w) = n
        BY <1>0, <1>1, <1>2, <1>3, <1>4, <3>1
      <4>3. GaveUp(prm, w, grown) = (Sign(w.dir) * (b.open - w.entry) > 0)
        BY <1>0, <4>2 DEF GaveUp
      <4>4. d.decided \in BOOLEAN /\ d.cancelled \in BOOLEAN
        <5>1. IsWalk(d)
          BY ONLY <2>a, DecideHoldIs
        <5> QED BY ONLY <5>1 DEF IsWalk
      <4>5. d.decided <=> HasLooked(prm, w, grown)
        BY <4>1, <4>2
      <4>6. d.cancelled <=> GaveUp(prm, w, grown)
        BY <4>1, <4>3, <4>4
      <4> QED BY <4>4, <4>5, <4>6 DEF GaveUp, HasLooked
    <3>2. CASE ~(prm.hold /\ ~w.decided /\ n >= HoldFrom)
      <4>1. d = v
        BY <2>b, <2>c, <2>00, <3>2
      <4>2. HasLooked(prm, w, grown) = HasLooked(prm, w, bars)
        <5>1. HasLooked(prm, w, grown) <=> HasLooked(prm, w, bars)
          BY <1>0, <1>1, <1>2, <1>3, <1>4, <3>2
        <5> QED BY <5>1 DEF HasLooked
      <4>3. GaveUp(prm, w, grown) = GaveUp(prm, w, bars)
        <5>1. CASE HoldMinute(w) <= n - 1
          BY <1>1, <5>1
        <5>2. CASE ~(HoldMinute(w) <= n - 1)
          <6>1. ~GaveUp(prm, w, grown) /\ ~GaveUp(prm, w, bars)
            BY <1>4, <1>5, <1>6, <4>2, <5>2
          <6> QED BY <6>1 DEF GaveUp, HasLooked
        <5> QED BY <5>1, <5>2
      <4> QED BY <1>3, <4>1, <4>2, <4>3
    <3> QED BY <3>1, <3>2
  <2>3. HitsTarget(d, b) <=> Targets(prm, w, grown, n)
    BY <1>7, <1>8, <2>1, <2>2
  <2> QED BY <2>2, <2>3 DEF HitsTarget, Targets, Touches
<1> QED BY <1>11, <1>12, <1>13, <1>14

\* What waits for the bar is what the rules say is due there.
LEMMA DueNow ==
    ASSUME NEW q \in Overlaid, NEW w, IsWalk(w), NEW bs \in Seq(Bar), w.since <= Len(bs),
           Lasts(q, w, bs, Len(bs)), Scheduled(q, w, bs)
    PROVE  /\ (w.pending # "no") <=> Due(q, w, bs, Len(bs))
           /\ w.pending # "no" =>
                 w.pending = IF Trails(q, w, bs, Len(bs) - 1) THEN "vwap_trail" ELSE "time_stop"
<1> DEFINE n == Len(bs)
<1>0. n \in Nat /\ w.since \in Nat /\ q.time \in Nat /\ w.since <= n
  BY OverlaysAssumption DEF IsWalk
<1>1. w.pending = IF Trails(q, w, bs, n - 1) THEN "vwap_trail"
                  ELSE IF Late(q, w, bs, n - 1) THEN "time_stop" ELSE "no"
  BY DEF Scheduled
<1>2. Lasts(q, w, bs, n)
  OBVIOUS
<1> HIDE DEF n
<1>3. Trails(q, w, bs, n - 1) \/ Late(q, w, bs, n - 1) => n - 1 \in w.since..n - 1
  <2>1. CASE w.since <= n - 1
    BY <1>0, <2>1
  <2>2. CASE ~(w.since <= n - 1)
    <3>1. \A s \in w.since..n - 1 : FALSE
      BY <1>0, <2>2
    <3>2. ~Trails(q, w, bs, n - 1)
      BY <3>1 DEF Trails, EarnedBy
    <3>3. ~(n - 1 >= w.since + q.time)
      BY <1>0, <2>2
    <3> QED BY <3>2, <3>3 DEF Late
  <2> QED BY <2>1, <2>2
<1>4. Trails(q, w, bs, n - 1) \/ Late(q, w, bs, n - 1) => Due(q, w, bs, n)
  BY <1>3 DEF Due
<1>5. ASSUME Due(q, w, bs, n) PROVE Trails(q, w, bs, n - 1) \/ Late(q, w, bs, n - 1)
  <2>1. PICK s \in w.since..n - 1 : Trails(q, w, bs, s) \/ Late(q, w, bs, s)
    BY <1>5 DEF Due
  <2>2. CASE s = n - 1
    BY <2>1, <2>2
  <2>3. CASE s # n - 1
    <3>1. n - 1 \in w.since..n - 1 /\ s \in w.since..n - 1 - 1
      BY <1>0, <2>3
    <3>2. Due(q, w, bs, n - 1)
      BY <2>1, <3>1 DEF Due
    <3> QED BY <1>2, <3>1, <3>2 DEF Lasts
  <2> QED BY <2>2, <2>3
<1>6. (w.pending # "no") <=> Due(q, w, bs, n)
  BY <1>1, <1>4, <1>5
<1>7. w.pending # "no" => w.pending = IF Trails(q, w, bs, n - 1) THEN "vwap_trail" ELSE "time_stop"
  BY <1>1
<1> QED BY <1>6, <1>7 DEF n

\* A bar in which a trade is held: what waits fills, or the bar is looked at.
LEMMA WalkedIs ==
    ASSUME NEW b, NEW w, IsWalk(w), w.at = "in",
           NEW f, f = FillPartial(w, b), NEW d, d = DecideHold(f, b), NEW v, v = Walked(w, b)
    PROVE  /\ w.pending # "no" /\ ~Loses(w.dir, b, w.stop) /\ ~HitsTarget(w, b) =>
                 v = Exited(f, b, ExitFill(w.dir, b.open), w.pending)
           /\ ~(w.pending # "no" /\ ~Loses(w.dir, b, w.stop) /\ ~HitsTarget(w, b)) =>
                 /\ Loses(w.dir, b, w.stop) => v = Exited(d, b, ExitFill(w.dir, w.stop), "stop")
                 /\ ~Loses(w.dir, b, w.stop) /\ HitsTarget(d, b) =>
                       v = Exited(d, b, ExitFill(w.dir, TargetPrice(d)), "target")
                 /\ ~Loses(w.dir, b, w.stop) /\ ~HitsTarget(d, b) => v = Schedule(d, b)
<1>1. IsWalk(f) /\ Same(f, w) /\ f.at = "in"
  BY FillPartialIs
<1>2. IsWalk(d) /\ Same(d, f) /\ d.at = "in"
  BY <1>1, DecideHoldIs
<1>3. d.dir = w.dir /\ d.stop = w.stop
  BY <1>1, <1>2 DEF Same
<1> DEFINE filled == FillPending(w, b)
           done == StopOrTarget(DecideHold(filled, b), b)
<1>4. v = IF filled.at = "out" THEN filled ELSE IF done.at = "out" THEN done ELSE Schedule(done, b)
  BY DEF Walked
<1> HIDE DEF filled, done
<1>5. ASSUME w.pending # "no" /\ ~Loses(w.dir, b, w.stop) /\ ~HitsTarget(w, b)
      PROVE  v = Exited(f, b, ExitFill(w.dir, b.open), w.pending)
  <2>1. filled = Exited(f, b, ExitFill(w.dir, b.open), w.pending)
    BY <1>5 DEF filled, FillPending
  <2>2. filled.at = "out"
    BY <1>1, <2>1, ExitedIs
  <2> QED BY <1>4, <2>1, <2>2
<1>6. ASSUME ~(w.pending # "no" /\ ~Loses(w.dir, b, w.stop) /\ ~HitsTarget(w, b))
      PROVE  /\ Loses(w.dir, b, w.stop) => v = Exited(d, b, ExitFill(w.dir, w.stop), "stop")
             /\ ~Loses(w.dir, b, w.stop) /\ HitsTarget(d, b) =>
                   v = Exited(d, b, ExitFill(w.dir, TargetPrice(d)), "target")
             /\ ~Loses(w.dir, b, w.stop) /\ ~HitsTarget(d, b) => v = Schedule(d, b)
  <2>1. filled = f
    BY <1>6 DEF filled, FillPending
  <2>2. done = StopOrTarget(d, b)
    BY <2>1 DEF done
  <2>3. CASE Loses(w.dir, b, w.stop)
    <3>1. done = Exited(d, b, ExitFill(w.dir, w.stop), "stop")
      BY <1>3, <2>2, <2>3 DEF StopOrTarget
    <3>2. done.at = "out"
      BY <1>2, <3>1, ExitedIs
    <3> QED BY <1>1, <1>4, <2>1, <2>3, <3>1, <3>2
  <2>4. CASE ~Loses(w.dir, b, w.stop) /\ HitsTarget(d, b)
    <3>1. done = Exited(d, b, ExitFill(w.dir, TargetPrice(d)), "target")
      BY <1>3, <2>2, <2>4 DEF StopOrTarget
    <3>2. done.at = "out"
      BY <1>2, <3>1, ExitedIs
    <3> QED BY <1>1, <1>4, <2>1, <2>4, <3>1, <3>2
  <2>5. CASE ~Loses(w.dir, b, w.stop) /\ ~HitsTarget(d, b)
    <3>1. done = d
      BY <1>3, <2>2, <2>5 DEF StopOrTarget
    <3> QED BY <1>1, <1>2, <1>4, <2>1, <2>5, <3>1
  <2> QED BY <2>3, <2>4, <2>5
<1> QED BY <1>5, <1>6

\* After a bar that does not end the trade, the walk remembers what the rules say up to it.
LEMMA ScheduledOn ==
    ASSUME NEW b, NEW grown, NEW n, NextBar(grown, b, n),
           NEW w, IsWalk(w), w.since <= n, Remembers(prm, w, bars), w.vwap = SumOf(bars, n),
           NEW f, f = FillPartial(w, b), NEW d, d = DecideHold(f, b), NEW v, v = Schedule(d, b)
    PROVE  /\ IsWalk(v) /\ Same(v, w) /\ v.at = w.at /\ v.vwap = w.vwap /\ Remembers(prm, v, grown)
           /\ v.pending = IF Trails(prm, w, grown, n) THEN "vwap_trail"
                          ELSE IF w.pending = "no" /\ Late(prm, w, grown, n) THEN "time_stop" ELSE w.pending
           /\ HitsTarget(d, b) = Targets(prm, w, grown, n)
           /\ v.partialAt = f.partialAt
           /\ v.partial = IF f.partial = "no" /\ Halved(prm, w, grown, n) THEN "pending" ELSE f.partial
<1>00. /\ prm \in Overlaid /\ bars \in Seq(Bar) /\ b \in Bar /\ b.at = n
       /\ grown = Append(bars, b) /\ n = Len(bars)
  BY DEF NextBar
<1>a. Grown(grown, bars, b, n)
  BY <1>00 DEF Grown
<1>0. /\ n \in Nat /\ w.since \in Nat /\ Len(grown) = n + 1 /\ grown[n + 1] = b
      /\ prm.trail \in Nat /\ prm.partial \in Nat /\ prm.time \in Nat
  BY <1>00, OverlaysAssumption DEF IsWalk
<1>1. /\ IsWalk(f) /\ Same(f, w) /\ f.at = w.at /\ f.vwap = w.vwap /\ f.pending = w.pending
      /\ f.decided = w.decided /\ f.cancelled = w.cancelled /\ f.earned = w.earned
  BY FillPartialIs
<1>2. /\ IsWalk(d) /\ Same(d, f) /\ d.at = f.at /\ d.vwap = f.vwap /\ d.pending = f.pending
      /\ d.partial = f.partial /\ d.partialAt = f.partialAt /\ d.earned = f.earned
  <2>1. IsWalk(f) /\ d = DecideHold(f, b)
    BY <1>1
  <2> QED BY ONLY <2>1, DecideHoldIs
<1>3. /\ d.decided = HasLooked(prm, w, grown) /\ d.cancelled = GaveUp(prm, w, grown)
      /\ HitsTarget(d, b) = Targets(prm, w, grown, n)
  BY <1>1, AtTheBar
<1> DEFINE Levels == {2, prm.trail, prm.partial}
           earned == EarnedThen(d, b)
           breach == BreachedThen(d, b)
           late == LateThen(d, b)
<1>4. d.dir = w.dir /\ d.since = w.since /\ d.entry = w.entry /\ d.risk = w.risk /\ Same(d, w)
  BY <1>1, <1>2 DEF Same
<1>5. w.earned = {h \in Levels : EarnedBy(w, bars, h, n - 1)}
  BY <1>00 DEF Remembers
<1>6. Earns(d, b) = {h \in Levels : 2 * Sign(w.dir) * (b.close - w.entry) >= h * w.risk}
  BY <1>4 DEF Earns
<1>7. \A h : EarnedBy(w, grown, h, n) <=>
                (EarnedBy(w, bars, h, n - 1) \/ 2 * Sign(w.dir) * (b.close - w.entry) >= h * w.risk)
  BY <1>00, <1>0, <1>a, RulesGrow
<1>8. earned = {h \in Levels : EarnedBy(w, grown, h, n)}
  <2>1. earned = {h \in Levels : EarnedBy(w, bars, h, n - 1)}
                 \union {h \in Levels : 2 * Sign(w.dir) * (b.close - w.entry) >= h * w.risk}
    BY <1>1, <1>2, <1>5, <1>6 DEF EarnedThen
  <2> HIDE DEF earned, Levels
  <2> QED BY <1>7, <2>1
<1>9. breach <=> Trails(prm, w, grown, n)
  <2>1. prm.trail \in earned <=> EarnedBy(w, grown, prm.trail, n)
    BY <1>8
  <2>2. d.vwap = SumOf(grown, n)
    <3>1. n \in 0..Len(bars)
      BY <1>00, <1>0
    <3> QED BY <1>00, <1>1, <1>2, <3>1, SumGrows
  <2> QED BY <1>00, <1>0, <1>4, <2>1, <2>2 DEF Trails, BreachedThen
<1>10. late <=> Late(prm, w, grown, n)
  <2>1. 2 \in earned <=> EarnedBy(w, grown, 2, n)
    BY <1>8
  <2> QED BY <1>00, <1>0, <1>4, <2>1 DEF Late, LateThen
<1>11. prm.partial > 0 /\ prm.partial \in earned <=> Halved(prm, w, grown, n)
  BY <1>8 DEF Halved
<1>12. /\ IsWalk(v) /\ Same(v, d) /\ v.at = d.at /\ v.vwap = d.vwap
       /\ v.decided = d.decided /\ v.cancelled = d.cancelled /\ v.earned = earned
       /\ v.partialAt = d.partialAt
       /\ v.pending = IF breach THEN "vwap_trail"
                      ELSE IF d.pending = "no" /\ late THEN "time_stop" ELSE d.pending
       /\ v.partial = IF d.partial = "no" /\ prm.partial > 0 /\ prm.partial \in earned
                      THEN "pending" ELSE d.partial
  BY <1>2, ScheduleIs
<1> HIDE DEF earned, breach, late
<1>13. Same(v, w)
  BY <1>4, <1>12 DEF Same
<1>14. Remembers(prm, v, grown)
  <2>1. \A h : EarnedBy(v, grown, h, n) = EarnedBy(w, grown, h, n)
    BY ONLY <1>13, SameRules
  <2>2. HasLooked(prm, v, grown) = HasLooked(prm, w, grown) /\ GaveUp(prm, v, grown) = GaveUp(prm, w, grown)
    BY ONLY <1>13, SameRules
  <2>3. v.earned = {h \in Levels : EarnedBy(v, grown, h, n)}
    BY <1>8, <1>12, <2>1
  <2> HIDE DEF Levels
  <2>4. Len(grown) - 1 = n
    BY <1>0
  <2>5. v.earned = {h \in Levels : EarnedBy(v, grown, h, Len(grown) - 1)}
    BY <2>3, <2>4
  <2> QED BY <1>3, <1>12, <2>2, <2>5 DEF Remembers, Levels
<1> QED BY <1>1, <1>2, <1>3, <1>9, <1>10, <1>11, <1>12, <1>13, <1>14


\* How a trade ends depends on the trade, its fills aside.
LEMMA SameEnds ==
    ASSUME NEW q, NEW v, NEW w, NEW bs, NEW e, Same(v, w)
    PROVE  TheExit(q, v, bs, e) = TheExit(q, w, bs, e) /\ Ends(q, v, bs, e) = Ends(q, w, bs, e)
<1>0. v.dir = w.dir /\ v.since = w.since /\ v.entry = w.entry /\ v.stop = w.stop /\ v.risk = w.risk
  BY DEF Same
<1>1. \A t : /\ Stops(v, bs, t) = Stops(w, bs, t) /\ Targets(q, v, bs, t) = Targets(q, w, bs, t)
             /\ Due(q, v, bs, t) = Due(q, w, bs, t) /\ Trails(q, v, bs, t) = Trails(q, w, bs, t)
  BY ONLY SameRules, Same(v, w)
<1>2. Level(q, v) = Level(q, w)
  BY <1>0 DEF Level
<1>3. TheExit(q, v, bs, e) = TheExit(q, w, bs, e)
  BY ONLY <1>0, <1>1, <1>2 DEF TheExit
<1>4. Ends(q, v, bs, e) = Ends(q, w, bs, e)
  BY ONLY <1>1 DEF Ends
<1> QED BY <1>3, <1>4

\* And so does whether a partial fires on a minute.
LEMMA SamePartials ==
    ASSUME NEW q, NEW v, NEW w, NEW bs, NEW e, NEW t, Same(v, w)
    PROVE  Partials(q, v, bs, e, t) = Partials(q, w, bs, e, t)
<1>1. \A u : /\ Stops(v, bs, u) = Stops(w, bs, u) /\ Targets(q, v, bs, u) = Targets(q, w, bs, u)
             /\ Fires(q, v, bs, u) = Fires(q, w, bs, u)
  BY ONLY SameRules, Same(v, w)
<1> QED BY ONLY <1>1 DEF Partials

\* A partial that waits for the bar fills, unless the bar reaches the stop or the target.
LEMMA PartialAtTheBar ==
    ASSUME NEW b, NEW grown, NEW n, NextBar(grown, b, n),
           NEW w, IsWalk(w), w.since <= n, Partly(prm, w, bars),
           Targets(prm, w, grown, n) => HitsTarget(w, b),
           NEW f, f = FillPartial(w, b), NEW v, Same(v, w), v.partialAt = f.partialAt
    PROVE  /\ /\ Stops(w, grown, n) \/ Targets(prm, w, grown, n) \/ ~HitsTarget(w, b)
              /\ v.partial = f.partial
              => PartialDone(prm, v, grown, n)
           /\ /\ ~Stops(w, grown, n) /\ (~HitsTarget(w, b) \/ ~Fires(prm, w, grown, n))
              /\ v.partial = IF f.partial = "no" /\ Halved(prm, w, grown, n) THEN "pending" ELSE f.partial
              => Partly(prm, v, grown)
<1>00. /\ prm \in Overlaid /\ bars \in Seq(Bar) /\ b \in Bar /\ b.at = n
       /\ grown = Append(bars, b) /\ n = Len(bars)
  BY DEF NextBar
<1>a. Grown(grown, bars, b, n)
  BY <1>00 DEF Grown
<1>0. /\ n \in Nat /\ w.since \in Nat /\ Len(grown) = n + 1 /\ grown[n + 1] = b
      /\ \A i \in 1..n : grown[i] = bars[i]
  BY <1>00 DEF IsWalk
<1>1. \A t \in Int : /\ t <= n - 1 => Halved(prm, w, grown, t) = Halved(prm, w, bars, t)
                     /\ t <= n => Fires(prm, w, grown, t) = Fires(prm, w, bars, t)
  BY <1>00, <1>0, <1>a, RulesGrow
<1>2. /\ \A t, u \in Int : t <= u /\ Halved(prm, w, grown, t) => Halved(prm, w, grown, u)
      /\ \A t, u \in Int : Fires(prm, w, grown, t) /\ Fires(prm, w, grown, u) => t = u
      /\ \A t, u \in Int : Fires(prm, w, grown, t) /\ t <= u + 1 => Halved(prm, w, grown, u)
  BY <1>0, FiresOnce
<1>3. /\ \A t : Partials(prm, v, grown, n, t) = Partials(prm, w, grown, n, t)
      /\ \A t : FiredAt(v, grown, t) <=> v.partial = "fired" /\ v.partialAt = ExitFill(w.dir, grown[t + 1].open)
  <2>1. \A t : Partials(prm, v, grown, n, t) = Partials(prm, w, grown, n, t)
    BY ONLY SamePartials, Same(v, w)
  <2>2. v.dir = w.dir
    BY DEF Same
  <2> QED BY ONLY <2>1, <2>2 DEF FiredAt
<1>4. /\ \A t : Halved(prm, v, grown, t) = Halved(prm, w, grown, t) /\ Fires(prm, v, grown, t) = Fires(prm, w, grown, t)
      /\ v.since = w.since
  BY SameRules DEF Same
<1>5. Loses(w.dir, b, w.stop) = Stops(w, grown, n)
  BY <1>0 DEF Stops
<1>6. /\ w.partial = "pending" /\ ~Stops(w, grown, n) /\ ~HitsTarget(w, b) =>
            f.partial = "fired" /\ f.partialAt = ExitFill(w.dir, b.open)
      /\ ~(w.partial = "pending" /\ ~Stops(w, grown, n) /\ ~HitsTarget(w, b)) => f = w
  <2>1. IsWalk(w) /\ f = FillPartial(w, b)
    OBVIOUS
  <2>2. Fills(f, w, b)
    BY ONLY <2>1, FillPartialIs
  <2> QED BY <1>5, <2>2 DEF Fills
<1>7. ASSUME Stops(w, grown, n) \/ Targets(prm, w, grown, n) \/ ~HitsTarget(w, b), v.partial = f.partial
      PROVE  PartialDone(prm, v, grown, n)
  <2>1. CASE ~Halved(prm, w, bars, n - 1) /\ w.partial = "no"
    <3>1. ~Halved(prm, w, grown, n - 1) /\ n - 1 \in Int
      BY <1>0, <1>1, <2>1
    <3>2. \A t \in w.since + 1..n : ~Fires(prm, w, grown, t)
      BY <1>0, <1>2, <3>1
    <3>3. v.partial # "fired"
      BY <1>6, <1>7, <2>1
    <3> QED BY <1>3, <1>4, <3>2, <3>3 DEF PartialDone, Partials
  <2>2. CASE Fires(prm, w, bars, n) /\ w.partial = "pending"
    <3>1. Fires(prm, w, grown, n) /\ n \in w.since + 1..n
      BY <1>0, <1>1, <2>2 DEF Fires
    <3>2. \A t \in w.since + 1..n : Fires(prm, w, grown, t) => t = n
      BY <1>0, <1>2, <3>1
    <3>3. CASE ~Stops(w, grown, n) /\ ~HitsTarget(w, b)
      <4>1. Partials(prm, v, grown, n, n)
        BY <1>3, <3>1, <3>3 DEF Partials
      <4>2. FiredAt(v, grown, n)
        BY <1>0, <1>3, <1>6, <1>7, <2>2, <3>3
      <4> QED BY <1>4, <3>1, <4>1, <4>2 DEF PartialDone
    <3>4. CASE Stops(w, grown, n) \/ Targets(prm, w, grown, n)
      <4>1. v.partial # "fired"
        BY <1>6, <1>7, <2>2, <3>4
      <4>2. \A t \in w.since + 1..n : ~Partials(prm, v, grown, n, t)
        BY <1>3, <3>2, <3>4 DEF Partials
      <4> QED BY <1>4, <4>1, <4>2 DEF PartialDone
    <3> QED BY <1>7, <3>3, <3>4
  <2>3. CASE \E t \in w.since + 1..n - 1 : Fires(prm, w, bars, t) /\ FiredAt(w, bars, t)
    <3>1. PICK t \in w.since + 1..n - 1 : Fires(prm, w, bars, t) /\ FiredAt(w, bars, t)
      BY <2>3
    <3>2. t \in w.since + 1..n /\ t # n /\ t \in Int /\ t <= n /\ t + 1 \in 1..n
      BY <1>0
    <3>3. Partials(prm, v, grown, n, t)
      BY <1>1, <1>3, <3>1, <3>2 DEF Partials
    <3>4. FiredAt(v, grown, t)
      BY <1>0, <1>3, <1>6, <1>7, <3>1, <3>2 DEF FiredAt
    <3> QED BY <1>4, <3>2, <3>3, <3>4 DEF PartialDone
  <2> QED BY <1>00, <2>1, <2>2, <2>3 DEF Partly
<1>8. ASSUME ~Stops(w, grown, n), ~HitsTarget(w, b) \/ ~Fires(prm, w, grown, n),
             v.partial = IF f.partial = "no" /\ Halved(prm, w, grown, n) THEN "pending" ELSE f.partial
      PROVE  Partly(prm, v, grown)
  <2>0. Len(grown) - 1 = n /\ n + 1 - 1 = n /\ n + 1 - 2 = n - 1 /\ n - 1 \in Int
    BY <1>0
  <2>1. CASE ~Halved(prm, w, bars, n - 1) /\ w.partial = "no"
    <3>1. ~Halved(prm, w, grown, n - 1)
      BY <1>0, <1>1, <2>0, <2>1
    <3>2. f.partial = "no"
      BY <1>6, <2>1
    <3>3. CASE Halved(prm, w, grown, n)
      <4>1. Fires(prm, v, grown, n + 1)
        BY <1>0, <1>4, <2>0, <3>1, <3>3 DEF Fires
      <4> QED BY <1>0, <1>8, <3>2, <3>3, <4>1 DEF Partly
    <3>4. CASE ~Halved(prm, w, grown, n)
      BY <1>4, <1>8, <2>0, <3>2, <3>4 DEF Partly
    <3> QED BY <3>3, <3>4
  <2>2. CASE Fires(prm, w, bars, n) /\ w.partial = "pending"
    <3>1. Fires(prm, w, grown, n) /\ n \in w.since + 1..n
      BY <1>0, <1>1, <2>2 DEF Fires
    <3>2. f.partial = "fired" /\ f.partialAt = ExitFill(w.dir, b.open)
      BY <1>6, <1>8, <2>2, <3>1
    <3>3. FiredAt(v, grown, n)
      BY <1>0, <1>3, <1>8, <3>2
    <3> QED BY <1>4, <2>0, <3>1, <3>3 DEF Partly
  <2>3. CASE \E t \in w.since + 1..n - 1 : Fires(prm, w, bars, t) /\ FiredAt(w, bars, t)
    <3>1. PICK t \in w.since + 1..n - 1 : Fires(prm, w, bars, t) /\ FiredAt(w, bars, t)
      BY <2>3
    <3>2. t \in w.since + 1..n /\ t \in Int /\ t <= n /\ t + 1 \in 1..n
      BY <1>0
    <3>3. Fires(prm, v, grown, t)
      BY <1>1, <1>4, <3>1, <3>2
    <3>4. FiredAt(v, grown, t)
      BY <1>0, <1>3, <1>6, <1>8, <3>1, <3>2 DEF FiredAt
    <3> QED BY <1>4, <2>0, <3>2, <3>3, <3>4 DEF Partly
  <2> QED BY <1>00, <2>1, <2>2, <2>3 DEF Partly
<1> QED BY <1>7, <1>8

\* v is the trade w, closed at minute n, with the partial that x has.
Closed(v, x, w, n, price, reason) ==
    /\ IsWalk(v) /\ Same(v, w) /\ v.at = "out" /\ v.vwap = w.vwap
    /\ v.partial = x.partial /\ v.partialAt = x.partialAt
    /\ v.exit = Trade(w.dir, w.since, w.entry, n, price, reason)

\* Exited closes the trade that its walk holds.
LEMMA ExitedCloses ==
    ASSUME NEW x, IsWalk(x), NEW w, Same(x, w), x.vwap = w.vwap, NEW b, NEW price, NEW reason
    PROVE  Closed(Exited(x, b, price, reason), x, w, b.at, price, reason)
<1> DEFINE v == Exited(x, b, price, reason)
<1> HIDE DEF v
<1>0. v = Exited(x, b, price, reason)
  BY DEF v
<1>1. /\ IsWalk(v) /\ Same(v, x) /\ v.at = "out" /\ v.vwap = x.vwap
      /\ v.partial = x.partial /\ v.partialAt = x.partialAt
      /\ v.exit = Trade(x.dir, x.since, x.entry, b.at, price, reason)
  BY ONLY <1>0, IsWalk(x), ExitedIs
<1>2. Same(v, w) /\ x.dir = w.dir /\ x.since = w.since /\ x.entry = w.entry
  BY <1>1 DEF Same
<1>3. Closed(v, x, w, b.at, price, reason)
  BY <1>1, <1>2 DEF Closed
<1> QED BY <1>0, <1>3

\* A bar takes a trade on, or ends it, as the rules say.
LEMMA WalkedOn ==
    ASSUME NEW b, NEW grown, NEW n, NextBar(grown, b, n),
           NEW w, IsWalk(w), InTrade(prm, w, bars), w.vwap = SumOf(bars, n),
           NEW v, v = Walked(w, b)
    PROVE  /\ IsWalk(v) /\ Same(v, w) /\ v.vwap = w.vwap
           /\ (v.at = "in" /\ InTrade(prm, v, grown)) \/ (v.at = "out" /\ OutOfTrade(prm, v, grown))
<1>00. /\ prm \in Overlaid /\ bars \in Seq(Bar) /\ b \in Bar /\ b.at = n
       /\ grown = Append(bars, b) /\ n = Len(bars)
  BY DEF NextBar
<1>a. Grown(grown, bars, b, n)
  BY <1>00 DEF Grown
<1>b. /\ w.at = "in" /\ w.dir \in {"long", "short"} /\ w.since \in OrMinutes..n
      /\ Remembers(prm, w, bars)
      /\ Waited(prm, w, bars) \/ (Lasts(prm, w, bars, n) /\ Scheduled(prm, w, bars) /\ Partly(prm, w, bars))
  BY <1>00 DEF InTrade
<1>0. /\ n \in Nat /\ w.since \in Nat /\ w.since <= n /\ Len(grown) = n + 1 /\ grown[n + 1] = b
      /\ \A i \in 1..n : grown[i] = bars[i]
      /\ w.since \in OrMinutes..n + 1 /\ Len(grown) - 1 = n
  BY <1>00, <1>b, ORBAssumption DEF IsWalk
<1> DEFINE f == FillPartial(w, b)
           d == DecideHold(f, b)
<1> HIDE DEF f, d
<1>1. f = FillPartial(w, b) /\ d = DecideHold(f, b)
  BY DEF f, d
<1>2. IsWalk(f) /\ Same(f, w) /\ f.at = "in" /\ f.vwap = w.vwap /\ f.decided = w.decided /\ f.cancelled = w.cancelled
  BY ONLY <1>1, <1>b, IsWalk(w), FillPartialIs
<1>3. IsWalk(d) /\ Same(d, f) /\ d.at = "in" /\ d.vwap = f.vwap /\ d.partial = f.partial /\ d.partialAt = f.partialAt
  <2>1. /\ IsWalk(d) /\ Same(d, f) /\ d.at = f.at /\ d.vwap = f.vwap
        /\ d.partial = f.partial /\ d.partialAt = f.partialAt
    <3>1. IsWalk(f) /\ d = DecideHold(f, b)
      BY <1>1, <1>2
    <3> QED BY ONLY <3>1, DecideHoldIs
  <2> QED BY <1>2, <2>1
<1>4. Same(d, w) /\ f.dir = w.dir /\ f.since = w.since /\ f.entry = w.entry
  BY <1>2, <1>3 DEF Same
<1> DEFINE S == Stops(w, grown, n)
           T == Targets(prm, w, grown, n)
           D == Due(prm, w, grown, n)
           H == HitsTarget(w, b)
           Waits == w.pending # "no" /\ ~S /\ ~H
<1>5. /\ Loses(w.dir, b, w.stop) = S /\ (T => H)
      /\ H /\ ~T => HoldMinute(w) = n /\ GaveUp(prm, w, grown) /\ Touches(prm, w, grown, n)
      /\ HitsTarget(d, b) = T
  BY ONLY <1>0, <1>1, <1>2, <1>b, IsWalk(w), NextBar(grown, b, n), AtTheBar
<1>6. /\ Waits => v = Exited(f, b, ExitFill(w.dir, b.open), w.pending)
      /\ ~Waits /\ S => v = Exited(d, b, ExitFill(w.dir, w.stop), "stop")
      /\ ~Waits /\ ~S /\ T => v = Exited(d, b, ExitFill(w.dir, TargetPrice(d)), "target")
      /\ ~Waits /\ ~S /\ ~T => v = Schedule(d, b)
  <2>1. /\ w.pending # "no" /\ ~Loses(w.dir, b, w.stop) /\ ~HitsTarget(w, b) =>
             v = Exited(f, b, ExitFill(w.dir, b.open), w.pending)
        /\ ~(w.pending # "no" /\ ~Loses(w.dir, b, w.stop) /\ ~HitsTarget(w, b)) =>
             /\ Loses(w.dir, b, w.stop) => v = Exited(d, b, ExitFill(w.dir, w.stop), "stop")
             /\ ~Loses(w.dir, b, w.stop) /\ HitsTarget(d, b) =>
                   v = Exited(d, b, ExitFill(w.dir, TargetPrice(d)), "target")
             /\ ~Loses(w.dir, b, w.stop) /\ ~HitsTarget(d, b) => v = Schedule(d, b)
    BY ONLY <1>1, <1>b, IsWalk(w), v = Walked(w, b), WalkedIs
  <2> QED BY ONLY <1>5, <2>1
<1> HIDE DEF S, T, D, H
<1>7. /\ Due(prm, w, grown, n) = Due(prm, w, bars, n) /\ Lasts(prm, w, grown, n) = Lasts(prm, w, bars, n)
      /\ Waited(prm, w, bars) => Waited(prm, w, grown)
      /\ \A t \in w.since..n - 1 : Trails(prm, w, grown, t) = Trails(prm, w, bars, t)
  <2>1. n \in Int /\ n <= n
    BY <1>0
  <2> QED BY ONLY <1>0, <1>00, <1>a, <2>1, RulesGrow
<1> DEFINE Ongoing == Lasts(prm, w, bars, n) /\ Scheduled(prm, w, bars) /\ Partly(prm, w, bars)
<1>8. ~Waited(prm, w, grown) => Ongoing
  BY <1>b, <1>7
<1>9. Ongoing => /\ (w.pending # "no") <=> D
                 /\ w.pending # "no" => w.pending = IF Trails(prm, w, bars, n - 1) THEN "vwap_trail" ELSE "time_stop"
  <2> SUFFICES ASSUME Lasts(prm, w, bars, n), Scheduled(prm, w, bars)
               PROVE  /\ (w.pending # "no") <=> Due(prm, w, grown, n)
                      /\ w.pending # "no" =>
                            w.pending = IF Trails(prm, w, bars, n - 1) THEN "vwap_trail" ELSE "time_stop"
    BY DEF D
  <2>1. prm \in Overlaid /\ bars \in Seq(Bar) /\ w.since <= Len(bars) /\ Lasts(prm, w, bars, Len(bars))
    BY <1>00, <1>0
  <2>2. /\ (w.pending # "no") <=> Due(prm, w, bars, Len(bars))
        /\ w.pending # "no" =>
              w.pending = IF Trails(prm, w, bars, Len(bars) - 1) THEN "vwap_trail" ELSE "time_stop"
    BY ONLY <2>1, IsWalk(w), Scheduled(prm, w, bars), DueNow
  <2> QED BY <1>00, <1>7, <2>2
<1>10. ASSUME NEW x, NEW price, NEW reason, v = Exited(x, b, price, reason), x = f \/ x = d
       PROVE  Closed(v, f, w, n, price, reason)
  <2>1. IsWalk(x) /\ Same(x, w) /\ x.vwap = w.vwap
    BY <1>2, <1>3, <1>4, <1>10
  <2>2. Closed(v, x, w, b.at, price, reason)
    <3>1. Closed(Exited(x, b, price, reason), x, w, b.at, price, reason)
      BY ONLY <2>1, ExitedCloses
    <3> QED BY <1>10, <3>1
  <2>3. x.partial = f.partial /\ x.partialAt = f.partialAt
    BY <1>3, <1>10
  <2> QED BY <1>00, <2>2, <2>3 DEF Closed
<1>11. ASSUME NEW price, NEW reason, Closed(v, f, w, n, price, reason),
              Ongoing => /\ S \/ T \/ (~H /\ D)
                         /\ Trade(w.dir, w.since, w.entry, n, price, reason) = TheExit(prm, w, grown, n)
       PROVE  /\ IsWalk(v) /\ Same(v, w) /\ v.vwap = w.vwap
              /\ v.at = "out" /\ OutOfTrade(prm, v, grown)
  <2>1. /\ IsWalk(v) /\ Same(v, w) /\ v.at = "out" /\ v.vwap = w.vwap
        /\ v.partial = f.partial /\ v.partialAt = f.partialAt
        /\ v.exit = Trade(w.dir, w.since, w.entry, n, price, reason)
    BY <1>11 DEF Closed
  <2>2. v.dir \in {"long", "short"} /\ v.since \in OrMinutes..n
    BY <1>b, <2>1 DEF Same
  <2>3. CASE Waited(prm, w, grown)
    <3>1. Waited(prm, v, grown)
      BY ONLY <2>1, <2>3, SameRules
    <3> QED BY <1>0, <2>1, <2>2, <3>1 DEF OutOfTrade
  <2>4. CASE ~Waited(prm, w, grown)
    <3>1. Ongoing
      BY <1>8, <2>4
    <3>2. S \/ T \/ (~H /\ D)
      BY <1>11, <3>1
    <3>3. v.exit = TheExit(prm, v, grown, n)
      <4>1. TheExit(prm, v, grown, n) = TheExit(prm, w, grown, n)
        BY ONLY <2>1, SameEnds
      <4> QED BY <1>11, <2>1, <3>1, <4>1
    <3>4. PartialDone(prm, v, grown, n)
      <4>1. /\ Stops(w, grown, n) \/ Targets(prm, w, grown, n) \/ ~HitsTarget(w, b)
            /\ Targets(prm, w, grown, n) => HitsTarget(w, b)
        BY <1>5, <3>2 DEF S, T, H
      <4>2. Partly(prm, w, bars)
        BY <3>1
      <4> QED BY ONLY <1>0, <1>1, <2>1, <4>1, <4>2, IsWalk(w), NextBar(grown, b, n), PartialAtTheBar
    <3>5. Lasts(prm, v, grown, n) /\ Ends(prm, v, grown, n)
      <4>1. Lasts(prm, v, grown, n) = Lasts(prm, w, grown, n)
        BY ONLY <2>1, SameRules
      <4>2. Ends(prm, v, grown, n) = Ends(prm, w, grown, n)
        BY ONLY <2>1, SameEnds
      <4>3. Ends(prm, w, grown, n)
        BY <3>2 DEF Ends, S, T, D
      <4> QED BY <1>7, <3>1, <4>1, <4>2, <4>3
    <3> QED BY <1>0, <2>1, <2>2, <3>3, <3>4, <3>5 DEF OutOfTrade
  <2> QED BY <2>3, <2>4
<1> HIDE DEF Ongoing
<1>12. CASE Waits
  <2>1. Closed(v, f, w, n, ExitFill(w.dir, b.open), w.pending)
    BY <1>6, <1>10, <1>12
  <2>2. ASSUME Ongoing
        PROVE  /\ ~S /\ ~T /\ ~H /\ D
               /\ Trade(w.dir, w.since, w.entry, n, ExitFill(w.dir, b.open), w.pending) = TheExit(prm, w, grown, n)
    <3>1. ~S /\ ~T /\ ~H /\ D /\ w.pending # "no"
      BY <1>5, <1>9, <1>12, <2>2
    <3>2. Trails(prm, w, grown, n - 1) = Trails(prm, w, bars, n - 1)
      <4>1. PICK s \in w.since..n - 1 : Trails(prm, w, grown, s) \/ Late(prm, w, grown, s)
        BY <3>1 DEF D, Due
      <4>2. n - 1 \in w.since..n - 1
        BY <1>0, <4>1
      <4> QED BY <1>7, <4>2
    <3>3. w.pending = IF Trails(prm, w, grown, n - 1) THEN "vwap_trail" ELSE "time_stop"
      BY <1>9, <2>2, <3>1, <3>2
    <3>4. ~Stops(w, grown, n) /\ ~Targets(prm, w, grown, n) /\ Due(prm, w, grown, n)
      BY <3>1 DEF S, T, D
    <3>5. TheExit(prm, w, grown, n) =
             Trade(w.dir, w.since, w.entry, n, ExitFill(w.dir, grown[n + 1].open),
                   IF Trails(prm, w, grown, n - 1) THEN "vwap_trail" ELSE "time_stop")
      BY ONLY <3>4 DEF TheExit
    <3> QED BY <1>0, <3>1, <3>3, <3>5
  <2> QED BY <1>11, <2>1, <2>2
<1>13. CASE ~Waits /\ S
  <2>1. Closed(v, f, w, n, ExitFill(w.dir, w.stop), "stop")
    BY <1>6, <1>10, <1>13
  <2>2. Trade(w.dir, w.since, w.entry, n, ExitFill(w.dir, w.stop), "stop") = TheExit(prm, w, grown, n)
    BY <1>13 DEF TheExit, S
  <2>3. S \/ T \/ (~H /\ D)
    BY <1>13
  <2> QED BY ONLY <1>11, <2>1, <2>2, <2>3
<1>14. CASE ~Waits /\ ~S /\ T
  <2>1. Closed(v, f, w, n, ExitFill(w.dir, TargetPrice(d)), "target")
    BY <1>6, <1>10, <1>14
  <2>2. TargetPrice(d) = Level(prm, w)
    BY <1>4 DEF TargetPrice, Level, Same
  <2>3. Trade(w.dir, w.since, w.entry, n, ExitFill(w.dir, TargetPrice(d)), "target") = TheExit(prm, w, grown, n)
    BY <1>14, <2>2 DEF TheExit, S, T
  <2>4. S \/ T \/ (~H /\ D)
    BY <1>14
  <2> QED BY ONLY <1>11, <2>1, <2>3, <2>4
<1>15. CASE ~Waits /\ ~S /\ ~T
  <2>1. v = Schedule(d, b)
    BY <1>6, <1>15
  <2>2. /\ IsWalk(v) /\ Same(v, w) /\ v.at = w.at /\ v.vwap = w.vwap /\ Remembers(prm, v, grown)
        /\ v.pending = IF Trails(prm, w, grown, n) THEN "vwap_trail"
                       ELSE IF w.pending = "no" /\ Late(prm, w, grown, n) THEN "time_stop" ELSE w.pending
        /\ v.partialAt = f.partialAt
        /\ v.partial = IF f.partial = "no" /\ Halved(prm, w, grown, n) THEN "pending" ELSE f.partial
    BY ONLY <1>0, <1>1, <1>b, <2>1, IsWalk(w), NextBar(grown, b, n), w.vwap = SumOf(bars, n), ScheduledOn
  <2>3. v.at = "in" /\ v.dir \in {"long", "short"} /\ v.since \in OrMinutes..Len(grown)
    BY <1>0, <1>b, <2>2 DEF Same
  <2>4. CASE Waited(prm, w, grown)
    <3>1. Waited(prm, v, grown)
      BY ONLY <2>2, <2>4, SameRules
    <3> QED BY <2>2, <2>3, <3>1 DEF InTrade
  <2>5. CASE ~Waited(prm, w, grown)
    <3>1. Lasts(prm, w, bars, n) /\ Partly(prm, w, bars) /\ ((w.pending # "no") <=> D)
      BY <1>8, <1>9, <2>5 DEF Ongoing
    <3>2. ~D /\ w.pending = "no" /\ (~H \/ ~Fires(prm, w, grown, n))
      <4>1. CASE H
        <5>1. HoldMinute(w) = n /\ GaveUp(prm, w, grown) /\ Touches(prm, w, grown, n)
          BY <1>5, <1>15, <4>1
        <5>2. ~Due(prm, w, grown, n) /\ ~Fires(prm, w, grown, n)
          BY <2>5, <5>1 DEF Waited
        <5> QED BY <3>1, <5>2 DEF D
      <4>2. CASE ~H
        BY <1>15, <3>1, <4>2
      <4> QED BY <4>1, <4>2
    <3>3. Partly(prm, v, grown)
      <4>1. /\ ~Stops(w, grown, n) /\ (~HitsTarget(w, b) \/ ~Fires(prm, w, grown, n))
            /\ Targets(prm, w, grown, n) => HitsTarget(w, b)
        BY <1>5, <1>15, <3>2 DEF S, T, H
      <4> QED BY ONLY <1>0, <1>1, <2>2, <3>1, <4>1, IsWalk(w), NextBar(grown, b, n), PartialAtTheBar
    <3>4. Scheduled(prm, v, grown)
      <4>1. v.pending = IF Trails(prm, w, grown, n) THEN "vwap_trail"
                        ELSE IF Late(prm, w, grown, n) THEN "time_stop" ELSE "no"
        BY <2>2, <3>2
      <4>2. Trails(prm, v, grown, n) = Trails(prm, w, grown, n) /\ Late(prm, v, grown, n) = Late(prm, w, grown, n)
        BY ONLY <2>2, SameRules
      <4> QED BY <1>0, <4>1, <4>2 DEF Scheduled
    <3>5. Lasts(prm, v, grown, n + 1)
      <4>1. Lasts(prm, w, grown, n)
        BY <1>7, <3>1
      <4>2. ~Stops(w, grown, n) /\ ~Targets(prm, w, grown, n) /\ ~Due(prm, w, grown, n)
        BY <1>15, <3>2 DEF S, T, D
      <4>3. \A s \in w.since..n + 1 - 1 : s = n \/ s \in w.since..n - 1
        BY <1>0
      <4>4. Lasts(prm, w, grown, n + 1)
        <5>1. ASSUME NEW s \in w.since..n + 1 - 1
              PROVE  ~Stops(w, grown, s) /\ ~Targets(prm, w, grown, s) /\ ~Due(prm, w, grown, s)
          <6>1. CASE s = n
            BY <4>2, <6>1
          <6>2. CASE s # n
            BY <4>1, <4>3, <6>2 DEF Lasts
          <6> QED BY <6>1, <6>2
        <5> QED BY <1>0, <5>1 DEF Lasts
      <4>5. Lasts(prm, v, grown, n + 1) = Lasts(prm, w, grown, n + 1)
        BY ONLY <2>2, SameRules
      <4> QED BY <4>4, <4>5
    <3> QED BY <1>0, <2>2, <2>3, <3>3, <3>4, <3>5 DEF InTrade
  <2> QED BY <2>4, <2>5
<1> QED BY <1>12, <1>13, <1>14, <1>15

-----------------------------------------------------------------------------
(* A bar of the day                                                          *)

\* v is x, but for the sum.
Carries(v, x) ==
    /\ IsWalk(v) /\ Same(v, x) /\ v.at = x.at /\ v.pending = x.pending
    /\ v.partial = x.partial /\ v.partialAt = x.partialAt /\ v.exit = x.exit
    /\ v.earned = x.earned /\ v.decided = x.decided /\ v.cancelled = x.cancelled

\* The sum goes on, and the trade with it.
LEMMA SumCarries ==
    ASSUME NEW x, IsWalk(x), NEW sum
    PROVE  Carries([x EXCEPT !.vwap = sum], x) /\ [x EXCEPT !.vwap = sum].vwap = sum
<1> DEFINE v == [x EXCEPT !.vwap = sum]
<1>1. /\ v.at = x.at /\ v.dir = x.dir /\ v.since = x.since /\ v.entry = x.entry /\ v.stop = x.stop
      /\ v.risk = x.risk /\ v.pending = x.pending /\ v.partial = x.partial /\ v.partialAt = x.partialAt
      /\ v.exit = x.exit /\ v.earned = x.earned /\ v.decided = x.decided /\ v.cancelled = x.cancelled
      /\ v.vwap = sum
  BY DEF IsWalk
<1>2. v \in [at : {"range", "in", "out"}, dir : {"none", "long", "short"}, since : Nat, entry : {x.entry},
             stop : {x.stop}, risk : {x.risk}, cancelled : BOOLEAN, decided : BOOLEAN,
             earned : {x.earned}, vwap : {sum}, pending : {"no", "vwap_trail", "time_stop"},
             partial : {"no", "pending", "fired"}, partialAt : {x.partialAt}, exit : {x.exit}]
  BY DEF IsWalk
<1> HIDE DEF v
<1>3. IsWalk(v)
  BY <1>1, <1>2 DEF IsWalk
<1>4. Carries(v, x) /\ v.vwap = sum
  BY <1>1, <1>3 DEF Carries, Same
<1> QED BY <1>4 DEF v

\* A walk that carries a trade on is where the trade was.
LEMMA CarriesOn ==
    ASSUME NEW q, NEW bs, NEW v, NEW x, Carries(v, x)
    PROVE  /\ InTrade(q, x, bs) => InTrade(q, v, bs)
           /\ OutOfTrade(q, x, bs) => OutOfTrade(q, v, bs)
<1>1. /\ Same(v, x) /\ v.at = x.at /\ v.pending = x.pending
      /\ v.partial = x.partial /\ v.partialAt = x.partialAt /\ v.exit = x.exit
      /\ v.earned = x.earned /\ v.decided = x.decided /\ v.cancelled = x.cancelled
      /\ v.dir = x.dir /\ v.since = x.since
  BY DEF Carries, Same
<1>2. /\ \A h, t : EarnedBy(v, bs, h, t) = EarnedBy(x, bs, h, t)
      /\ \A t : Trails(q, v, bs, t) = Trails(q, x, bs, t) /\ Late(q, v, bs, t) = Late(q, x, bs, t)
      /\ HasLooked(q, v, bs) = HasLooked(q, x, bs) /\ GaveUp(q, v, bs) = GaveUp(q, x, bs)
      /\ \A t : Halved(q, v, bs, t) = Halved(q, x, bs, t) /\ Fires(q, v, bs, t) = Fires(q, x, bs, t)
      /\ Waited(q, v, bs) = Waited(q, x, bs)
      /\ \A t : Lasts(q, v, bs, t) = Lasts(q, x, bs, t)
  BY ONLY <1>1, SameRules
<1>3. \A t : FiredAt(v, bs, t) = FiredAt(x, bs, t)
  BY <1>1 DEF FiredAt
<1>4. ASSUME InTrade(q, x, bs) PROVE InTrade(q, v, bs)
  <2>1. Remembers(q, x, bs) => Remembers(q, v, bs)
    BY ONLY <1>1, <1>2 DEF Remembers
  <2>2. Scheduled(q, x, bs) => Scheduled(q, v, bs)
    BY ONLY <1>1, <1>2 DEF Scheduled
  <2>3. Partly(q, x, bs) => Partly(q, v, bs)
    BY ONLY <1>1, <1>2, <1>3 DEF Partly
  <2> QED BY ONLY <1>1, <1>2, <1>4, <2>1, <2>2, <2>3 DEF InTrade
<1>5. ASSUME OutOfTrade(q, x, bs) PROVE OutOfTrade(q, v, bs)
  <2> DEFINE e == Len(bs) - 1
  <2> HIDE DEF e
  <2>1. \A t : Partials(q, v, bs, e, t) = Partials(q, x, bs, e, t)
    BY ONLY <1>1, SamePartials
  <2>2. PartialDone(q, x, bs, e) => PartialDone(q, v, bs, e)
    BY ONLY <1>1, <1>3, <2>1 DEF PartialDone
  <2>3. TheExit(q, v, bs, e) = TheExit(q, x, bs, e) /\ Ends(q, v, bs, e) = Ends(q, x, bs, e)
    BY ONLY <1>1, SameEnds
  <2> QED BY ONLY <1>1, <1>2, <1>5, <2>2, <2>3 DEF OutOfTrade, e
<1> QED BY <1>4, <1>5

\* A trade that the last bar finds open is closed there.
LEMMA EodIs ==
    ASSUME NEW q, NEW x, IsWalk(x), NEW bs \in Seq(Bar), InTrade(q, x, bs), NEW n \in Nat, Len(bs) = n + 1,
           n + 1 = DayMinutes, x.since <= n,
           NEW v, Closed(v, x, x, n, bs[n + 1].close, "eod")
    PROVE  OutOfTrade(q, v, bs)
<1>1. /\ IsWalk(v) /\ Same(v, x) /\ v.partial = x.partial /\ v.partialAt = x.partialAt
      /\ v.exit = Trade(x.dir, x.since, x.entry, n, bs[n + 1].close, "eod")
      /\ v.dir = x.dir /\ v.since = x.since
  BY DEF Closed, Same
<1>2. /\ x.dir \in {"long", "short"} /\ x.since \in OrMinutes..n + 1 /\ x.since \in Nat
      /\ Waited(q, x, bs) \/ (Lasts(q, x, bs, n + 1) /\ Partly(q, x, bs))
  BY DEF InTrade, IsWalk
<1>3. v.dir \in {"long", "short"} /\ v.since \in OrMinutes..n /\ Len(bs) - 1 = n
  BY <1>1, <1>2, ORBAssumption
<1>4. CASE Waited(q, x, bs)
  <2>1. Waited(q, v, bs)
    BY ONLY <1>1, <1>4, SameRules
  <2> QED BY <1>3, <2>1 DEF OutOfTrade
<1>5. CASE Lasts(q, x, bs, n + 1) /\ Partly(q, x, bs)
  <2>1. n \in x.since..n + 1 - 1 /\ \A s \in x.since..n - 1 : s \in x.since..n + 1 - 1
    BY <1>2
  <2>2. ~Stops(x, bs, n) /\ ~Targets(q, x, bs, n) /\ ~Due(q, x, bs, n)
    BY <1>5, <2>1 DEF Lasts
  <2>3. Lasts(q, v, bs, n)
    <3>1. Lasts(q, x, bs, n)
      BY <1>5, <2>1 DEF Lasts
    <3> QED BY ONLY <1>1, <3>1, SameRules
  <2>4. v.exit = TheExit(q, v, bs, n)
    <3>1. TheExit(q, v, bs, n) = TheExit(q, x, bs, n)
      BY ONLY <1>1, SameEnds
    <3>2. TheExit(q, x, bs, n) = Trade(x.dir, x.since, x.entry, n, bs[n + 1].close, "eod")
      BY ONLY <2>2 DEF TheExit
    <3> QED BY <1>1, <3>1, <3>2
  <2>5. Ends(q, v, bs, n)
    BY DEF Ends
  <2>6. PartialDone(q, v, bs, n)
    <3>1. \A t : Partials(q, v, bs, n, t) = Partials(q, x, bs, n, t)
      BY ONLY <1>1, SamePartials
    <3>2. \A t : Partials(q, v, bs, n, t) <=> Fires(q, x, bs, t)
      BY <2>2, <3>1 DEF Partials
    <3>3. /\ \A t, u \in Int : Fires(q, x, bs, t) /\ Fires(q, x, bs, u) => t = u
          /\ \A t, u \in Int : Fires(q, x, bs, t) /\ t <= u + 1 => Halved(q, x, bs, u)
      BY <1>2, FiresOnce
    <3>4. CASE ~Halved(q, x, bs, n) /\ x.partial = "no"
      <4>1. \A t \in v.since + 1..n : ~Fires(q, x, bs, t)
        BY <1>1, <1>2, <3>3, <3>4
      <4> QED BY <1>1, <3>2, <3>4, <4>1 DEF PartialDone
    <3>5. CASE Fires(q, x, bs, n + 1) /\ x.partial = "pending"
      <4>1. \A t \in v.since + 1..n : ~Fires(q, x, bs, t)
        BY <1>1, <1>2, <3>3, <3>5
      <4> QED BY <1>1, <3>2, <3>5, <4>1 DEF PartialDone
    <3>6. CASE \E t \in x.since + 1..n : Fires(q, x, bs, t) /\ FiredAt(x, bs, t)
      <4>1. PICK t \in x.since + 1..n : Fires(q, x, bs, t) /\ FiredAt(x, bs, t)
        BY <3>6
      <4>2. FiredAt(v, bs, t)
        BY <1>1, <4>1 DEF FiredAt
      <4> QED BY <1>1, <3>2, <4>1, <4>2 DEF PartialDone
    <3> QED BY <1>3, <1>5, <3>4, <3>5, <3>6 DEF Partly
  <2> QED BY <1>3, <2>3, <2>4, <2>5, <2>6 DEF OutOfTrade
<1> QED BY <1>2, <1>4, <1>5

\* A bar opens a trade that has nothing behind it yet, or none.
LEMMA EnteredIs ==
    ASSUME NEW b, NEW grown, NEW n, NextBar(grown, b, n), OrMinutes <= n, Idle(walk),
           NEW x, x = Entered(b)
    PROVE  /\ IsWalk(x) /\ x.vwap = walk.vwap
           /\ x = walk \/ (x.at = "out" /\ x.dir = "none") \/ InTrade(prm, x, bars)
<1>00. /\ prm \in Overlaid /\ bars \in Seq(Bar) /\ b \in Bar /\ b.at = n /\ n = Len(bars) /\ n \in Nat
  BY DEF NextBar, Bar
<1>0. /\ IsWalk(walk) /\ walk.at = "range" /\ walk.dir = "none" /\ walk.pending = "no" /\ walk.partial = "no"
      /\ walk.earned = {} /\ walk.decided = FALSE /\ walk.cancelled = FALSE
  BY DEF Idle, IsWalk
<1> DEFINE dir == EntrySide(b)
           entry == EntryPrice(dir, b)
           stop == StopPrice(dir, entry)
           risk == Size(entry - stop)
           opened == [walk EXCEPT !.at = "in", !.dir = dir, !.since = b.at,
                                  !.entry = entry, !.stop = stop, !.risk = risk]
<1>1. dir \in {"none", "long", "short", "wait"}
  <2>1. CandleDir \in {"none", "long", "short"}
    BY DEF CandleDir
  <2>2. CASE prm.entry = "first_candle"
    BY <2>1, <2>2 DEF EntrySide
  <2>3. CASE prm.entry # "first_candle"
    <3>1. dir = CASE HitsLong(b) /\ HitsShort(b) -> "none"
                  [] HitsLong(b) /\ ~HitsShort(b) -> "long"
                  [] ~HitsLong(b) /\ HitsShort(b) -> "short"
                  [] OTHER -> "wait"
      BY <2>3 DEF EntrySide
    <3> QED BY <3>1
  <2> QED BY <2>2, <2>3
<1>2. x = IF dir = "wait" THEN walk ELSE IF dir = "none" \/ risk = 0 THEN [walk EXCEPT !.at = "out"] ELSE opened
  BY DEF Entered
<1>3. \/ x = walk
      \/ x = [walk EXCEPT !.at = "out"]
      \/ dir \in {"long", "short"} /\ x = opened
  <2> HIDE DEF dir, risk, opened
  <2> QED BY <1>1, <1>2
<1>4. CASE x = walk
  BY <1>0, <1>4
<1>5. CASE x = [walk EXCEPT !.at = "out"]
  <2>1. x.at = "out" /\ x.dir = "none" /\ x.vwap = walk.vwap
    BY <1>0, <1>5 DEF IsWalk
  <2>2. IsWalk(x)
    BY <1>0, <1>5 DEF IsWalk
  <2> QED BY <2>1, <2>2
<1>6. CASE dir \in {"long", "short"} /\ x = opened
  <2> HIDE DEF dir, entry, stop, risk
  <2>1. /\ x.at = "in" /\ x.dir = dir /\ x.since = n /\ x.vwap = walk.vwap /\ x.pending = "no"
        /\ x.partial = "no" /\ x.earned = {} /\ x.decided = FALSE /\ x.cancelled = FALSE
    BY <1>00, <1>0, <1>6 DEF IsWalk
  <2>2. x \in [at : {"range", "in", "out"}, dir : {"none", "long", "short"}, since : Nat, entry : {entry},
               stop : {stop}, risk : {risk}, cancelled : BOOLEAN, decided : BOOLEAN,
               earned : {walk.earned}, vwap : {walk.vwap}, pending : {"no", "vwap_trail", "time_stop"},
               partial : {"no", "pending", "fired"}, partialAt : {walk.partialAt}, exit : {walk.exit}]
    <3>1. walk \in [at : {"range", "in", "out"}, dir : {"none", "long", "short"}, since : Nat, entry : {walk.entry},
                     stop : {walk.stop}, risk : {walk.risk}, cancelled : BOOLEAN, decided : BOOLEAN,
                     earned : {walk.earned}, vwap : {walk.vwap}, pending : {"no", "vwap_trail", "time_stop"},
                     partial : {"no", "pending", "fired"}, partialAt : {walk.partialAt}, exit : {walk.exit}]
      BY <1>0 DEF IsWalk
    <3>2. dir \in {"none", "long", "short"} /\ b.at \in Nat
      BY <1>00, <1>6
    <3>3. x = [walk EXCEPT !.at = "in", !.dir = dir, !.since = b.at, !.entry = entry, !.stop = stop, !.risk = risk]
      BY <1>6
    <3> QED BY ONLY <3>1, <3>2, <3>3
  <2>3. IsWalk(x)
    BY <2>2 DEF IsWalk
  <2>4. x.since \in OrMinutes..n /\ n - 1 \in Int /\ \A s : s \notin n..n - 1
    BY <1>00, <2>1, ORBAssumption
  <2>5. \A h : ~EarnedBy(x, bars, h, n - 1)
    BY <2>1, <2>4 DEF EarnedBy
  <2>6. HoldMinute(x) \in Nat /\ HoldMinute(x) >= n
    BY <1>00, <2>1, OverlaysAssumption DEF HoldMinute
  <2>7. ~HasLooked(prm, x, bars) /\ ~GaveUp(prm, x, bars)
    BY <1>00, <2>6 DEF HasLooked, GaveUp
  <2>8. Remembers(prm, x, bars)
    <3>1. x.earned = {h \in {2, prm.trail, prm.partial} : EarnedBy(x, bars, h, n - 1)}
      BY <2>1, <2>5
    <3>2. x.decided = HasLooked(prm, x, bars)
      <4>1. HasLooked(prm, x, bars) \in BOOLEAN
        BY DEF HasLooked
      <4> QED BY <2>1, <2>7, <4>1
    <3>3. x.cancelled = GaveUp(prm, x, bars)
      <4>1. GaveUp(prm, x, bars) \in BOOLEAN
        BY DEF GaveUp
      <4> QED BY <2>1, <2>7, <4>1
    <3> QED BY <1>00, <3>1, <3>2, <3>3 DEF Remembers
  <2>9. ~Trails(prm, x, bars, n - 1)
    BY <2>5 DEF Trails
  <2>10. ~Late(prm, x, bars, n - 1)
    <3>1. prm.time \in Nat
      BY <1>00, OverlaysAssumption
    <3> QED BY <1>00, <2>1, <3>1 DEF Late
  <2>11. Lasts(prm, x, bars, n) /\ Scheduled(prm, x, bars) /\ Partly(prm, x, bars)
    <3>1. Lasts(prm, x, bars, n)
      BY <2>1, <2>4 DEF Lasts
    <3>2. Scheduled(prm, x, bars)
      BY <1>00, <2>1, <2>9, <2>10 DEF Scheduled
    <3>3. Partly(prm, x, bars)
      BY <1>00, <2>1, <2>5 DEF Partly, Halved
    <3> QED BY <3>1, <3>2, <3>3
  <2>12. InTrade(prm, x, bars)
    BY <1>00, <1>6, <2>1, <2>4, <2>8, <2>11 DEF InTrade
  <2> QED BY <2>1, <2>3, <2>12
<1> QED BY <1>3, <1>4, <1>5, <1>6

-----------------------------------------------------------------------------
(* The invariant is kept                                                     *)

\* The market's next bar.
LEMMA DayBarIs ==
    ASSUME bars \in Seq(Bar), NEW shape \in DayShapes, NEW b, b = DayBar(shape)
    PROVE  b \in Bar /\ b.at = Len(bars)
<1>1. shape.gap \in Int /\ shape.up \in Int /\ shape.down \in Int /\ shape.move \in Int
  BY OverlaysAssumption
<1> DEFINE open == IF bars = <<>> THEN 0 ELSE bars[Len(bars)].close + shape.gap
<1>2. open \in Int
  <2>1. CASE bars = <<>>
    BY <2>1
  <2>2. CASE bars # <<>>
    <3>1. Len(bars) \in 1..Len(bars)
      BY <2>2
    <3>2. bars[Len(bars)] \in Bar
      BY <3>1
    <3>3. bars[Len(bars)].close \in Int
      BY <3>2 DEF Bar
    <3> QED BY <1>1, <2>2, <3>3
  <2> QED BY <2>1, <2>2
<1>3. b = [at |-> Len(bars), open |-> open, high |-> open + shape.up,
           low |-> open - shape.down, close |-> open + shape.move]
  BY DEF DayBar
<1> HIDE DEF open
<1>4. Len(bars) \in Nat
  OBVIOUS
<1> QED BY <1>1, <1>2, <1>3, <1>4 DEF Bar

\* Where a bar leaves the walk, before the end of the day is looked at.
WalksOn(x, grown, n) ==
    \/ Idle(x)
    \/ x.at = "in" /\ InTrade(prm, x, grown) /\ x.since <= n
    \/ x.at = "out" /\ (x.dir = "none" \/ OutOfTrade(prm, x, grown))

\* A bar of the range, one that may enter, or one of a trade.
LEMMA BarWalks ==
    ASSUME WalkOK, walk.at # "out", NEW b, NEW grown, NEW n, NextBar(grown, b, n),
           NEW w, w = IF Len(bars) < OrMinutes THEN walk ELSE IF walk.at = "in" THEN walk ELSE Entered(b),
           NEW x, x = IF w.at = "in" THEN Walked(w, b) ELSE w
    PROVE  IsWalk(x) /\ x.vwap = walk.vwap /\ WalksOn(x, grown, n)
<1>00. bars \in Seq(Bar) /\ n = Len(bars) /\ n \in Nat
  BY DEF NextBar
<1>0. /\ IsWalk(walk) /\ walk.vwap = SumOf(bars, n) /\ walk.at \in {"range", "in"}
      /\ walk.at = "range" => Idle(walk)
      /\ walk.at = "in" => InTrade(prm, walk, bars)
  BY <1>00 DEF WalkOK, IsWalk
<1>1. ASSUME w.at = "in", IsWalk(w), InTrade(prm, w, bars), w.vwap = walk.vwap
      PROVE  IsWalk(x) /\ x.vwap = walk.vwap /\ WalksOn(x, grown, n)
  <2>1. x = Walked(w, b) /\ w.vwap = SumOf(bars, n)
    BY <1>0, <1>1
  <2>2. /\ IsWalk(x) /\ Same(x, w) /\ x.vwap = w.vwap
        /\ (x.at = "in" /\ InTrade(prm, x, grown)) \/ (x.at = "out" /\ OutOfTrade(prm, x, grown))
    BY ONLY <1>1, <2>1, NextBar(grown, b, n), WalkedOn
  <2>3. x.since <= n
    <3>1. w.since \in OrMinutes..n /\ x.since = w.since
      BY <1>00, <1>1, <2>2 DEF InTrade, Same
    <3> QED BY <1>00, <3>1, ORBAssumption
  <2> QED BY <1>1, <2>2, <2>3 DEF WalksOn
<1>2. CASE walk.at = "in"
  <2>1. w = walk
    BY <1>2
  <2> QED BY <1>0, <1>1, <1>2, <2>1
<1>3. CASE walk.at = "range" /\ n < OrMinutes
  <2>1. w = walk /\ x = walk
    BY <1>00, <1>3
  <2> QED BY <1>0, <1>3, <2>1 DEF WalksOn
<1>4. CASE walk.at = "range" /\ ~(n < OrMinutes)
  <2>1. w = Entered(b) /\ OrMinutes <= n /\ Idle(walk)
    BY <1>00, <1>0, <1>4, ORBAssumption
  <2>2. /\ IsWalk(w) /\ w.vwap = walk.vwap
        /\ w = walk \/ (w.at = "out" /\ w.dir = "none") \/ InTrade(prm, w, bars)
    BY ONLY <2>1, NextBar(grown, b, n), EnteredIs
  <2>3. CASE w = walk
    <3>1. x = walk
      BY <1>4, <2>3
    <3> QED BY <1>0, <2>1, <3>1 DEF WalksOn
  <2>4. CASE w.at = "out" /\ w.dir = "none"
    <3>1. x = w
      BY <2>4
    <3> QED BY <2>2, <2>4, <3>1 DEF WalksOn
  <2>5. CASE InTrade(prm, w, bars)
    <3>1. w.at = "in"
      BY <2>5 DEF InTrade
    <3> QED BY <1>1, <2>2, <2>5, <3>1
  <2> QED BY <2>2, <2>3, <2>4, <2>5
<1> QED BY <1>0, <1>2, <1>3, <1>4

\* What the end of the day leaves: a walk v with this sum, of the bars grown.
DayKept(v, grown, n, sum) ==
    /\ IsWalk(v) /\ v.vwap = sum
    /\ v.at = "range" => Idle(v) /\ n + 1 < DayMinutes
    /\ v.at = "in" => InTrade(prm, v, grown) /\ n + 1 < DayMinutes
    /\ v.at = "out" /\ v.dir # "none" => OutOfTrade(prm, v, grown)

\* The end of the day closes what is open.
LEMMA DayEnds ==
    ASSUME NEW b, NEW grown, NEW n, NextBar(grown, b, n), n < DayMinutes,
           NEW x, IsWalk(x), WalksOn(x, grown, n), NEW sum,
           NEW v, v = EndOfDay([x EXCEPT !.vwap = sum], b)
    PROVE  DayKept(v, grown, n, sum)
<1>00. /\ bars \in Seq(Bar) /\ b \in Bar /\ b.at = n /\ grown = Append(bars, b) /\ n = Len(bars) /\ n \in Nat
       /\ DayMinutes \in Nat
  BY OverlaysAssumption DEF NextBar
<1>0. grown \in Seq(Bar) /\ Len(grown) = n + 1 /\ grown[n + 1] = b
  BY <1>00
<1> DEFINE c == [x EXCEPT !.vwap = sum]
<1>1. v = IF n + 1 < DayMinutes THEN c
          ELSE IF c.at = "in" THEN Exited(c, b, b.close, "eod") ELSE [c EXCEPT !.at = "out"]
  BY <1>00 DEF EndOfDay
<1>2. Carries(c, x) /\ c.vwap = sum
  BY SumCarries
<1> HIDE DEF c
<1>3. /\ IsWalk(c) /\ c.at = x.at /\ c.dir = x.dir /\ c.since = x.since
      /\ InTrade(prm, x, grown) => InTrade(prm, c, grown)
      /\ OutOfTrade(prm, x, grown) => OutOfTrade(prm, c, grown)
  <2>1. /\ InTrade(prm, x, grown) => InTrade(prm, c, grown)
        /\ OutOfTrade(prm, x, grown) => OutOfTrade(prm, c, grown)
    BY ONLY <1>2, CarriesOn
  <2> QED BY <1>2, <2>1 DEF Carries, Same
<1>4. Idle(x) => Idle(c)
  BY <1>2 DEF Idle, Carries, Same
<1> USE DEF DayKept
<1>5. CASE Idle(x)
  <2>1. Idle(c) /\ c.at = "range"
    BY <1>4, <1>5 DEF Idle
  <2>2. CASE n + 1 < DayMinutes
    <3>1. v = c
      BY <1>1, <2>2
    <3> QED BY <1>2, <1>3, <2>1, <2>2, <3>1
  <2>3. CASE ~(n + 1 < DayMinutes)
    <3>1. v = [c EXCEPT !.at = "out"]
      BY <1>1, <2>1, <2>3
    <3>2. IsWalk(v) /\ v.at = "out" /\ v.dir = c.dir /\ v.vwap = c.vwap
      BY <1>3, <3>1 DEF IsWalk
    <3> QED BY <1>2, <2>1, <3>2 DEF Idle
  <2> QED BY <2>2, <2>3
<1>6. CASE x.at = "in" /\ InTrade(prm, x, grown) /\ x.since <= n
  <2>1. CASE n + 1 < DayMinutes
    <3>1. v = c
      BY <1>1, <2>1
    <3> QED BY <1>2, <1>3, <1>6, <2>1, <3>1
  <2>2. CASE ~(n + 1 < DayMinutes)
    <3>1. v = Exited(c, b, b.close, "eod") /\ n + 1 = DayMinutes
      BY <1>00, <1>1, <1>3, <1>6, <2>2
    <3>2. Closed(v, c, c, b.at, b.close, "eod")
      <4>1. Same(c, c)
        BY DEF Same
      <4>2. Closed(Exited(c, b, b.close, "eod"), c, c, b.at, b.close, "eod")
        BY ONLY <1>3, <4>1, ExitedCloses
      <4> QED BY <3>1, <4>2
    <3>3. Closed(v, c, c, n, grown[n + 1].close, "eod")
      BY <1>00, <1>0, <3>2
    <3>4. OutOfTrade(prm, v, grown)
      BY ONLY <1>00, <1>0, <1>3, <1>6, <3>1, <3>3, EodIs
    <3>5. IsWalk(v) /\ v.at = "out" /\ v.vwap = sum
      BY <1>2, <3>3 DEF Closed
    <3> QED BY <3>4, <3>5
  <2> QED BY <2>1, <2>2
<1>7. CASE x.at = "out" /\ (x.dir = "none" \/ OutOfTrade(prm, x, grown))
  <2>1. v = c
    <3>1. c.at = "out"
      BY <1>3, <1>7
    <3>2. [c EXCEPT !.at = "out"] = c
      BY <1>3, <3>1 DEF IsWalk
    <3> QED BY <1>1, <3>1, <3>2
  <2> QED BY <1>2, <1>3, <1>7, <2>1
<1> QED BY <1>5, <1>6, <1>7 DEF WalksOn, DayKept

\* The day starts without a bar.
LEMMA WalkInitOK == ASSUME WalkInit PROVE WalkOK
<1>1. prm \in Overlaid /\ bars = <<>> /\ walk = Seeking
  BY DEF WalkInit
<1>2. bars \in Seq(Bar) /\ Len(bars) = 0
  BY <1>1
<1>3. IsWalk(walk) /\ Idle(walk) /\ walk.at = "range" /\ walk.vwap = 0
  BY <1>1 DEF Seeking, Idle, IsWalk
<1>4. SumOf(bars, 0) = 0
  BY SumIs
<1>5. DayMinutes \in Nat /\ 0 < DayMinutes
  BY OverlaysAssumption, ORBAssumption
<1> QED BY <1>1, <1>2, <1>3, <1>4, <1>5 DEF WalkOK

\* And each bar keeps what the walk and the bars have in common.
LEMMA WalkBarOK == ASSUME WalkOK, WalkBar PROVE WalkOK'
<1> DEFINE n == Len(bars)
<1>1. PICK shape \in DayShapes :
        LET b == DayBar(shape)
            w == IF Len(bars) < OrMinutes THEN walk
                 ELSE IF walk.at = "in" THEN walk ELSE Entered(b)
            next == IF w.at = "in" THEN Walked(w, b) ELSE w
        IN  /\ bars' = Append(bars, b)
            /\ walk' = EndOfDay([next EXCEPT !.vwap = @ + b.high + b.low + b.close], b)
  BY DEF WalkBar
<1>2. walk.at # "out" /\ n < DayMinutes /\ prm' = prm
  BY DEF WalkBar
<1> DEFINE b == DayBar(shape)
           w == IF Len(bars) < OrMinutes THEN walk ELSE IF walk.at = "in" THEN walk ELSE Entered(b)
           x == IF w.at = "in" THEN Walked(w, b) ELSE w
           sum == x.vwap + b.high + b.low + b.close
<1>3. bars' = Append(bars, b) /\ walk' = EndOfDay([x EXCEPT !.vwap = sum], b)
  BY <1>1
<1>4. /\ prm \in Overlaid /\ bars \in Seq(Bar) /\ walk.vwap = SumOf(bars, n) /\ n \in Nat
      /\ \A i \in 1..n : bars[i].at = i - 1
  BY DEF WalkOK
<1>5. b \in Bar /\ b.at = n
  BY <1>4, DayBarIs
<1>6. /\ w = IF Len(bars) < OrMinutes THEN walk ELSE IF walk.at = "in" THEN walk ELSE Entered(b)
      /\ x = IF w.at = "in" THEN Walked(w, b) ELSE w
      /\ sum = x.vwap + b.high + b.low + b.close
  OBVIOUS
<1> HIDE DEF b, w, x, sum
<1>7. NextBar(bars', b, n)
  BY <1>3, <1>4, <1>5 DEF NextBar
<1>8. IsWalk(x) /\ x.vwap = walk.vwap /\ WalksOn(x, bars', n)
  BY ONLY <1>2, <1>6, <1>7, WalkOK, BarWalks
<1>9. /\ IsWalk(walk') /\ walk'.vwap = sum
      /\ walk'.at = "range" => Idle(walk') /\ n + 1 < DayMinutes
      /\ walk'.at = "in" => InTrade(prm, walk', bars') /\ n + 1 < DayMinutes
      /\ walk'.at = "out" /\ walk'.dir # "none" => OutOfTrade(prm, walk', bars')
  <2>1. DayKept(walk', bars', n, sum)
    BY ONLY <1>2, <1>3, <1>7, <1>8, DayEnds
  <2> QED BY ONLY <1>2, <2>1 DEF DayKept
<1>10. /\ bars' \in Seq(Bar) /\ Len(bars') = n + 1 /\ bars'[n + 1] = b
       /\ \A i \in 1..n : bars'[i] = bars[i]
  BY <1>3, <1>4, <1>5
<1>11. \A i \in 1..n + 1 : bars'[i].at = i - 1
  <2>1. \A i \in 1..n + 1 : i = n + 1 \/ i \in 1..n
    BY <1>4
  <2> QED BY <1>4, <1>5, <1>10, <2>1
<1>12. sum = SumOf(bars', n + 1)
  <2>1. SumOf(bars', n + 1) = PlusBar(SumOf(bars', n), bars'[n + 1])
    BY <1>4, SumIs
  <2>2. SumOf(bars', n) = SumOf(bars, n)
    <3>1. n \in 0..Len(bars)
      BY <1>4
    <3> QED BY <1>3, <1>4, <1>5, <3>1, SumGrows
  <2> QED BY <1>4, <1>6, <1>8, <1>10, <2>1, <2>2 DEF PlusBar
<1>13. n + 1 <= DayMinutes
  BY <1>2, <1>4, OverlaysAssumption
<1> HIDE DEF n
<1> QED BY <1>2, <1>4, <1>9, <1>10, <1>11, <1>12, <1>13 DEF WalkOK

-----------------------------------------------------------------------------
(* The exit from all the bars at once                                        *)

\* The least and the greatest element of a set of integers.
LEMMA MinIs ==
    ASSUME NEW S, S \subseteq Int, NEW m \in S, \A y \in S : m <= y
    PROVE  Min(S) = m
<1> DEFINE c == CHOOSE x \in S : \A y \in S : x <= y
<1>1. c \in S /\ \A y \in S : c <= y
  OBVIOUS
<1> HIDE DEF c
<1>2. c = m
  BY <1>1
<1> QED BY <1>2 DEF Min, c

\* See MinIs.
LEMMA MaxIs ==
    ASSUME NEW S, S \subseteq Int, NEW m \in S, \A y \in S : m >= y
    PROVE  Max(S) = m
<1> DEFINE c == CHOOSE x \in S : \A y \in S : x >= y
<1>1. c \in S /\ \A y \in S : c >= y
  OBVIOUS
<1> HIDE DEF c
<1>2. c = m
  BY <1>1
<1> QED BY <1>2 DEF Max, c

\* ORBOverlays states the same rules of the walk as it stands.
LEMMA RulesAre ==
    ASSUME prm \in Overlaid, walk.since \in Nat, NEW e \in Nat, Len(bars) = e + 1, walk.since <= e
    PROVE  /\ \A t : Stops(walk, bars, t) <=> StopAt(t)
           /\ \A t : Touches(prm, walk, bars, t) <=> TouchesAt(t)
           /\ \A t : Trails(prm, walk, bars, t) <=> TrailAt(t)
           /\ \A t : Due(prm, walk, bars, t) <=> DueAt(t)
           /\ GaveUp(prm, walk, bars) <=> GivesUp
           /\ GivesUp => Min(HoldAt) = HoldMinute(walk) /\ HoldMinute(walk) \in walk.since..e
           /\ \A t : Targets(prm, walk, bars, t) <=> TargetAt(t)
<1>1. \A h, t : EarnedBy(walk, bars, h, t) <=> Reached(h, t)
  BY DEF EarnedBy, Reached, Bar0
<1>2. \A t : SumOf(bars, t) = Vwap3(t)
  BY DEF SumOf, Vwap3
<1>3. \A t : Trails(prm, walk, bars, t) <=> TrailAt(t)
  BY <1>1, <1>2 DEF Trails, TrailAt, Bar0
<1>4. \A t : Late(prm, walk, bars, t) <=> LateAt(t)
  BY <1>1 DEF Late, LateAt
<1>5. \A t : Due(prm, walk, bars, t) <=> DueAt(t)
  BY <1>3, <1>4 DEF Due, DueAt
<1>6. \A t : Stops(walk, bars, t) <=> StopAt(t)
  BY DEF Stops, StopAt, Bar0
<1>7. \A t : Touches(prm, walk, bars, t) <=> TouchesAt(t)
  BY DEF Touches, TouchesAt, Level, TargetPrice, Bar0
<1>8. Held = walk.since..e /\ HoldFrom \in Int
  BY OverlaysAssumption DEF Held
<1>9. /\ HoldMinute(walk) \in Nat /\ HoldMinute(walk) >= walk.since /\ HoldMinute(walk) >= HoldFrom
      /\ \A t \in walk.since..e : t >= HoldFrom => t >= HoldMinute(walk)
  BY <1>8 DEF HoldMinute
<1>10. HoldAt # {} <=> HoldMinute(walk) <= e
  <2>1. ASSUME HoldMinute(walk) <= e PROVE HoldMinute(walk) \in HoldAt
    BY <1>8, <1>9, <2>1 DEF HoldAt
  <2>2. ASSUME NEW t \in HoldAt PROVE HoldMinute(walk) <= e
    BY <1>8, <1>9, <2>2 DEF HoldAt
  <2> QED BY <2>1, <2>2
<1>11. ASSUME HoldMinute(walk) <= e
       PROVE  Min(HoldAt) = HoldMinute(walk) /\ HoldMinute(walk) \in walk.since..e
  <2>1. HoldMinute(walk) \in walk.since..e
    BY <1>9, <1>11
  <2>2. HoldAt \subseteq Int /\ HoldMinute(walk) \in HoldAt /\ \A y \in HoldAt : HoldMinute(walk) <= y
    BY <1>8, <1>9, <2>1 DEF HoldAt
  <2>3. Min(HoldAt) = HoldMinute(walk)
    BY ONLY <2>2, MinIs
  <2> QED BY <2>1, <2>3
<1>12. HasLooked(prm, walk, bars) <=> prm.hold /\ HoldAt # {}
  BY <1>9, <1>10 DEF HasLooked
<1>13. GaveUp(prm, walk, bars) <=> GivesUp
  <2>1. CASE HoldAt # {}
    BY <1>10, <1>11, <1>12, <2>1 DEF GaveUp, GivesUp, Bar0
  <2>2. CASE HoldAt = {}
    BY <1>12, <2>2 DEF GaveUp, GivesUp
  <2> QED BY <2>1, <2>2
<1>14. GivesUp => Min(HoldAt) = HoldMinute(walk) /\ HoldMinute(walk) \in walk.since..e
  BY <1>10, <1>11 DEF GivesUp
<1>15. \A t : Targets(prm, walk, bars, t) <=> TargetAt(t)
  BY <1>7, <1>13, <1>14 DEF Targets, TargetAt
<1> QED BY <1>3, <1>5, <1>6, <1>7, <1>13, <1>14, <1>15

\* The first minute that PartialAt holds is the one on which a partial fires.
LEMMA FirstPartial ==
    ASSUME prm \in Overlaid, walk.since \in Nat, NEW e \in Nat, Len(bars) = e + 1
    PROVE  /\ \A t \in walk.since + 1..e :
                 Fires(prm, walk, bars, t) => PartialAt # {} /\ Min(PartialAt) = t
           /\ PartialAt # {} => /\ Min(PartialAt) \in walk.since + 1..e
                                /\ Fires(prm, walk, bars, Min(PartialAt))
<1>0. Held = walk.since..e
  BY DEF Held
<1>1. \A h, t : EarnedBy(walk, bars, h, t) <=> Reached(h, t)
  BY DEF EarnedBy, Reached, Bar0
<1>2. PartialAt = {t \in walk.since + 1..e : Halved(prm, walk, bars, t - 1)}
  BY <1>0, <1>1 DEF PartialAt, Halved
<1>3. \A t, u \in Int : t <= u /\ Halved(prm, walk, bars, t) => Halved(prm, walk, bars, u)
  BY FiresOnce
<1>4. \A t \in Int : Halved(prm, walk, bars, t) => t >= walk.since
  BY DEF Halved, EarnedBy
<1>5. ASSUME NEW t \in walk.since + 1..e, Fires(prm, walk, bars, t)
      PROVE  PartialAt # {} /\ Min(PartialAt) = t
  <2>1. t \in PartialAt /\ PartialAt \subseteq Int
    BY <1>2, <1>5 DEF Fires
  <2>2. ASSUME NEW u \in PartialAt PROVE t <= u
    <3>1. u \in Int /\ t \in Int /\ Halved(prm, walk, bars, u - 1) /\ ~Halved(prm, walk, bars, t - 2)
      BY <1>2, <1>5, <2>2 DEF Fires
    <3>2. ~(u - 1 <= t - 2)
      BY <1>3, <3>1
    <3> QED BY <3>1, <3>2
  <2>3. Min(PartialAt) = t
    BY ONLY <2>1, <2>2, MinIs
  <2> QED BY <2>1, <2>3
<1>6. ASSUME PartialAt # {}
      PROVE  Min(PartialAt) \in walk.since + 1..e /\ Fires(prm, walk, bars, Min(PartialAt))
  <2>1. PartialAt \subseteq Nat
    BY <1>2
  <2>2. PICK m \in PartialAt : \A y \in PartialAt : m <= y
    BY ONLY <1>6, <2>1, LeastNatural
  <2>3. Min(PartialAt) = m
    <3>1. PartialAt \subseteq Int
      BY <2>1
    <3> QED BY ONLY <2>2, <3>1, MinIs
  <2>4. m \in walk.since + 1..e /\ Halved(prm, walk, bars, m - 1)
    BY <1>2, <2>2
  <2>5. ~Halved(prm, walk, bars, m - 2)
    <3> SUFFICES ASSUME Halved(prm, walk, bars, m - 2) PROVE FALSE
      OBVIOUS
    <3>1. m - 1 \in walk.since + 1..e /\ m - 1 - 1 = m - 2 /\ ~(m <= m - 1)
      BY <1>4, <2>4
    <3>2. m - 1 \in PartialAt
      BY <1>2, <3>1
    <3> QED BY <2>2, <3>1, <3>2
  <2>6. Fires(prm, walk, bars, m)
    BY <2>4, <2>5 DEF Fires
  <2> QED BY <2>3, <2>4, <2>6
<1> QED BY <1>5, <1>6

\* The exit of a trade that lasts until minute e.
LEMMA ExitAtIs ==
    ASSUME prm \in Overlaid, walk.since \in Nat, NEW e \in Nat, Len(bars) = e + 1, walk.since <= e,
           Lasts(prm, walk, bars, e), Ends(prm, walk, bars, e)
    PROVE  /\ ExitAt = TheExit(prm, walk, bars, e) /\ ExitAt.exitAt = e
           /\ ExitAt.reason \in {"stop", "target"} <=> Stops(walk, bars, e) \/ Targets(prm, walk, bars, e)
<1>0. Held = walk.since..e
  BY DEF Held
<1>1. /\ \A t : Stops(walk, bars, t) <=> StopAt(t)
      /\ \A t : Trails(prm, walk, bars, t) <=> TrailAt(t)
      /\ \A t : Due(prm, walk, bars, t) <=> DueAt(t)
      /\ \A t : Targets(prm, walk, bars, t) <=> TargetAt(t)
  BY RulesAre
<1> DEFINE ends == {t \in Held : StopAt(t) \/ TargetAt(t) \/ DueAt(t)}
           at == IF ends = {} THEN Max(Held) ELSE Min(ends)
           Exit(price, reason) == Trade(walk.dir, walk.since, walk.entry, at, price, reason)
<1>2. ExitAt = CASE ends = {} -> Exit(Bar0(at).close, "eod")
                 [] ends # {} /\ StopAt(at) -> Exit(ExitFill(walk.dir, walk.stop), "stop")
                 [] ends # {} /\ ~StopAt(at) /\ TargetAt(at) ->
                      Exit(ExitFill(walk.dir, TargetPrice(walk)), "target")
                 [] OTHER -> Exit(ExitFill(walk.dir, Bar0(at).open),
                                  IF TrailAt(at - 1) THEN "vwap_trail" ELSE "time_stop")
  BY DEF ExitAt
<1>3. \A t \in ends : t = e
  <2> SUFFICES ASSUME NEW t \in ends, t # e PROVE FALSE
    OBVIOUS
  <2>1. t \in walk.since..e - 1
    BY <1>0
  <2> QED BY <1>1, <2>1 DEF Lasts
<1>4. e \in ends <=> Stops(walk, bars, e) \/ Targets(prm, walk, bars, e) \/ Due(prm, walk, bars, e)
  BY <1>0, <1>1
<1>5. at = e
  <2>1. CASE ends = {}
    <3>1. Held \subseteq Int /\ e \in Held /\ \A y \in Held : e >= y
      BY <1>0
    <3>2. Max(Held) = e
      BY ONLY <3>1, MaxIs
    <3> QED BY <2>1, <3>2
  <2>2. CASE ends # {}
    <3>1. ends \subseteq Int /\ e \in ends /\ \A y \in ends : e <= y
      BY <1>3, <2>2
    <3> HIDE DEF ends
    <3>2. Min(ends) = e
      BY ONLY <3>1, MinIs
    <3> QED BY <2>2, <3>2
  <2> QED BY <2>1, <2>2
<1>6. ends = {} <=> e \notin ends
  BY <1>3
<1> HIDE DEF ends, at
<1>7. TargetPrice(walk) = Level(prm, walk)
  BY DEF TargetPrice, Level
<1> DEFINE S == Stops(walk, bars, e)
           T == Targets(prm, walk, bars, e)
           D == Due(prm, walk, bars, e)
           Ex(price, reason) == Trade(walk.dir, walk.since, walk.entry, e, price, reason)
<1>8. \A price, reason : Ex(price, reason).exitAt = e /\ Ex(price, reason).reason = reason
  BY DEF Trade
<1>9. CASE S
  <2>1. ExitAt = Ex(ExitFill(walk.dir, walk.stop), "stop")
    BY <1>1, <1>2, <1>4, <1>5, <1>6, <1>9
  <2>2. TheExit(prm, walk, bars, e) = Ex(ExitFill(walk.dir, walk.stop), "stop")
    BY <1>9 DEF TheExit
  <2> QED BY <1>8, <1>9, <2>1, <2>2
<1>10. CASE ~S /\ T
  <2>1. ExitAt = Ex(ExitFill(walk.dir, Level(prm, walk)), "target")
    BY <1>1, <1>2, <1>4, <1>5, <1>6, <1>7, <1>10
  <2>2. TheExit(prm, walk, bars, e) = Ex(ExitFill(walk.dir, Level(prm, walk)), "target")
    BY <1>10 DEF TheExit
  <2> QED BY <1>8, <1>10, <2>1, <2>2
<1>11. CASE ~S /\ ~T /\ D
  <2> DEFINE why == IF Trails(prm, walk, bars, e - 1) THEN "vwap_trail" ELSE "time_stop"
  <2>1. ExitAt = Ex(ExitFill(walk.dir, bars[e + 1].open), why)
    BY <1>1, <1>2, <1>4, <1>5, <1>6, <1>11 DEF Bar0
  <2>2. TheExit(prm, walk, bars, e) = Ex(ExitFill(walk.dir, bars[e + 1].open), why)
    BY <1>11 DEF TheExit
  <2>3. why \notin {"stop", "target"}
    OBVIOUS
  <2> HIDE DEF why
  <2> QED BY <1>8, <1>11, <2>1, <2>2, <2>3
<1>12. CASE ~S /\ ~T /\ ~D
  <2>1. ExitAt = Ex(bars[e + 1].close, "eod")
    BY <1>2, <1>4, <1>5, <1>6, <1>12 DEF Bar0
  <2>2. TheExit(prm, walk, bars, e) = Ex(bars[e + 1].close, "eod")
    BY <1>12 DEF TheExit
  <2> QED BY <1>8, <1>12, <2>1, <2>2
<1> QED BY <1>9, <1>10, <1>11, <1>12

\* OverlaysExitOnTime, from the invariant.
LEMMA WalkOKExits == ASSUME WalkOK PROVE OverlaysExitOnTime
<1> SUFFICES ASSUME walk.at = "out", walk.dir # "none", ~Postponed
             PROVE  /\ walk.exit = ExitAt
                    /\ walk.partial = "fired" <=>
                          /\ PartialAt # {} /\ Min(PartialAt) <= ExitAt.exitAt
                          /\ Min(PartialAt) = ExitAt.exitAt => ExitAt.reason \notin {"stop", "target"}
                    /\ walk.partial = "fired" =>
                          walk.partialAt = ExitFill(walk.dir, Bar0(Min(PartialAt)).open)
  BY DEF OverlaysExitOnTime
<1> DEFINE e == Len(bars) - 1
<1>1. /\ prm \in Overlaid /\ bars \in Seq(Bar) /\ walk.since \in Nat /\ OutOfTrade(prm, walk, bars)
      /\ e \in Int /\ e + 1 = Len(bars)
  BY DEF WalkOK, IsWalk
<1> HIDE DEF e
<1>2. /\ walk.since \in OrMinutes..e
      /\ \/ Waited(prm, walk, bars)
         \/ /\ Lasts(prm, walk, bars, e) /\ Ends(prm, walk, bars, e)
            /\ walk.exit = TheExit(prm, walk, bars, e) /\ PartialDone(prm, walk, bars, e)
  BY <1>1 DEF OutOfTrade, e
<1>3. walk.since <= e /\ e \in Nat /\ Len(bars) = e + 1
  BY <1>1, <1>2, ORBAssumption
<1>4. /\ \A t : Touches(prm, walk, bars, t) <=> TouchesAt(t)
      /\ \A t : Due(prm, walk, bars, t) <=> DueAt(t)
      /\ GaveUp(prm, walk, bars) <=> GivesUp
      /\ GivesUp => Min(HoldAt) = HoldMinute(walk) /\ HoldMinute(walk) \in walk.since..e
  BY ONLY <1>1, <1>3, RulesAre
<1>5. /\ \A t \in walk.since + 1..e :
            Fires(prm, walk, bars, t) => PartialAt # {} /\ Min(PartialAt) = t
      /\ PartialAt # {} => /\ Min(PartialAt) \in walk.since + 1..e
                           /\ Fires(prm, walk, bars, Min(PartialAt))
  BY ONLY <1>1, <1>3, FirstPartial
<1>6. ~Waited(prm, walk, bars)
  <2> SUFFICES ASSUME Waited(prm, walk, bars) PROVE FALSE
    OBVIOUS
  <2> DEFINE m == HoldMinute(walk)
  <2>1. GivesUp /\ Touches(prm, walk, bars, m) /\ (Due(prm, walk, bars, m) \/ Fires(prm, walk, bars, m))
    BY <1>4 DEF Waited
  <2>2. Min(HoldAt) = m /\ m \in walk.since..e
    BY <1>4, <2>1
  <2>3. Fires(prm, walk, bars, m) => PartialAt # {} /\ Min(PartialAt) = m
    <3>1. Fires(prm, walk, bars, m) => m \in walk.since + 1..e
      BY <1>1, <1>3, <2>2 DEF Fires
    <3> QED BY <1>5, <3>1
  <2> HIDE DEF m
  <2> QED BY <1>4, <2>1, <2>2, <2>3 DEF Postponed
<1>7. /\ Lasts(prm, walk, bars, e) /\ Ends(prm, walk, bars, e)
      /\ walk.exit = TheExit(prm, walk, bars, e) /\ PartialDone(prm, walk, bars, e)
  BY <1>2, <1>6
<1>8. /\ ExitAt = TheExit(prm, walk, bars, e) /\ ExitAt.exitAt = e
      /\ ExitAt.reason \in {"stop", "target"} <=> Stops(walk, bars, e) \/ Targets(prm, walk, bars, e)
  BY ONLY <1>1, <1>3, <1>7, ExitAtIs
<1>9. CASE walk.partial # "fired" /\ \A t \in walk.since + 1..e : ~Partials(prm, walk, bars, e, t)
  <2>1. ASSUME PartialAt # {}
        PROVE  Min(PartialAt) = e /\ ExitAt.reason \in {"stop", "target"}
    <3>1. Min(PartialAt) \in walk.since + 1..e /\ Fires(prm, walk, bars, Min(PartialAt))
      BY <1>5, <2>1
    <3>2. ~Partials(prm, walk, bars, e, Min(PartialAt))
      BY <1>9, <3>1
    <3> QED BY <1>8, <3>1, <3>2 DEF Partials
  <2> QED BY <1>7, <1>8, <1>9, <2>1
<1>10. CASE \E t \in walk.since + 1..e : Partials(prm, walk, bars, e, t) /\ FiredAt(walk, bars, t)
  <2>1. PICK t \in walk.since + 1..e : Partials(prm, walk, bars, e, t) /\ FiredAt(walk, bars, t)
    BY <1>10
  <2>2. PartialAt # {} /\ Min(PartialAt) = t
    BY <1>5, <2>1 DEF Partials
  <2>3. walk.partial = "fired" /\ walk.partialAt = ExitFill(walk.dir, Bar0(t).open)
    BY <2>1 DEF FiredAt, Bar0
  <2>4. t <= e /\ (t = e => ExitAt.reason \notin {"stop", "target"})
    BY <1>1, <1>3, <1>8, <2>1 DEF Partials
  <2> QED BY <1>7, <1>8, <2>2, <2>3, <2>4
<1> QED BY <1>7, <1>9, <1>10 DEF PartialDone

\* The walk and the bars fit together (WalkOK) in every state of the walk.
LEMMA WalkInvariant == WalkSpec => []WalkOK
<1>1. WalkInit => WalkOK
  BY WalkInitOK
<1>2. WalkOK /\ [WalkBar]_walkVars => WalkOK'
  <2>1. ASSUME WalkOK, UNCHANGED walkVars PROVE WalkOK'
    <3>1. prm' = prm /\ bars' = bars /\ walk' = walk
      BY <2>1 DEF walkVars
    <3> QED BY <2>1, <3>1 DEF WalkOK
  <2> QED BY <2>1, WalkBarOK
<1> QED BY <1>1, <1>2, PTL DEF WalkSpec

\* OverlaysExitOnTime: the bar by bar walk of _walk_to_exit, whichever overlays are on together, ends a trade
\* on the minute, at the price and for the reason that all the bars at once give, for every parameter set and
\* every day of bars.
THEOREM ExitOnTime == WalkSpec => []OverlaysExitOnTime
<1>1. WalkOK => OverlaysExitOnTime
  BY WalkOKExits
<1> QED BY <1>1, WalkInvariant, PTL

USE DaysAssumption

-----------------------------------------------------------------------------
(* Places                                                                    *)

\* A finite set of numbers, and where a number of it stands.
FewNumbers(S) == S \subseteq Int /\ IsFiniteSet(S)
UpTo(S, c) == {j \in S : j <= c}
Rank(S, c) == Cardinality(UpTo(S, c))

\* What is up to a lower bound is up to a higher one.
LEMMA UpToIs ==
    ASSUME NEW S, FewNumbers(S), NEW c \in Int, NEW d \in Int, c <= d
    PROVE  UpTo(S, c) = {j \in UpTo(S, d) : j <= c} /\ UpTo(S, c) \subseteq UpTo(S, d)
<1>1. \A j \in S : j \in Int
  BY DEF FewNumbers
<1>2. \A j \in S : j <= c => j <= d
  BY <1>1
<1> QED BY <1>2 DEF UpTo

\* Ranks are numbers, and grow with what they are of.
LEMMA RankGrows ==
    ASSUME NEW S, FewNumbers(S)
    PROVE  /\ Cardinality(S) \in Nat
           /\ \A c \in Int : Rank(S, c) \in 0..Cardinality(S)
           /\ \A i \in S : Rank(S, i) \in 1..Cardinality(S)
           /\ \A c \in Int, i \in S : c < i => Rank(S, c) < Rank(S, i)
           /\ \A c \in Int, d \in Int : c <= d => Rank(S, c) <= Rank(S, d)
<1>0. S \subseteq Int /\ IsFiniteSet(S)
  BY DEF FewNumbers
<1>1. Cardinality(S) \in Nat
  BY <1>0, FS_CardinalityType
<1>2. ASSUME NEW c \in Int
      PROVE  IsFiniteSet(UpTo(S, c)) /\ Rank(S, c) \in 0..Cardinality(S)
  <2>1. UpTo(S, c) \subseteq S
    BY DEF UpTo
  <2>2. IsFiniteSet(UpTo(S, c)) /\ Cardinality(UpTo(S, c)) <= Cardinality(S)
    BY <1>0, <2>1, FS_Subset
  <2>3. Cardinality(UpTo(S, c)) \in Nat
    BY <2>2, FS_CardinalityType
  <2> QED BY <1>1, <2>2, <2>3 DEF Rank
<1>3. ASSUME NEW c \in Int, NEW i \in S, c < i
      PROVE  Rank(S, c) < Rank(S, i)
  <2>1. i \in Int
    BY <1>0
  <2>2. UpTo(S, c) \subseteq UpTo(S, i) /\ i \in UpTo(S, i) /\ i \notin UpTo(S, c)
    <3>1. UpTo(S, c) \subseteq UpTo(S, i)
      BY <1>3, <2>1, UpToIs
    <3>2. i <= i /\ ~(i <= c)
      BY <1>3, <2>1
    <3> QED BY <3>1, <3>2 DEF UpTo
  <2>3. IsFiniteSet(UpTo(S, i))
    BY <1>2, <2>1
  <2> QED BY <2>2, <2>3, SmallerPart DEF Rank
<1>4. ASSUME NEW i \in S
      PROVE  Rank(S, i) \in 1..Cardinality(S)
  <2>1. i \in Int /\ i - 1 \in Int /\ i - 1 < i
    BY <1>0
  <2>2. Rank(S, i - 1) < Rank(S, i)
    BY <1>3, <2>1
  <2>3. Rank(S, i - 1) \in 0..Cardinality(S) /\ Rank(S, i) \in 0..Cardinality(S)
    BY <1>2, <2>1
  <2> QED BY <1>1, <2>2, <2>3
<1>5. ASSUME NEW c \in Int, NEW d \in Int, c <= d
      PROVE  Rank(S, c) <= Rank(S, d)
  <2>1. UpTo(S, c) \subseteq UpTo(S, d)
    BY <1>5, UpToIs
  <2>2. IsFiniteSet(UpTo(S, d))
    BY <1>2
  <2> QED BY <2>1, <2>2, FS_Subset DEF Rank
<1> QED BY <1>1, <1>2, <1>3, <1>4, <1>5

\* The place of a rank is what has it ...
LEMMA PlaceOfRank ==
    ASSUME NEW S, FewNumbers(S), NEW i \in S
    PROVE  Nth(S, Rank(S, i)) = i
<1> DEFINE x == CHOOSE a \in S : Rank(S, a) = Rank(S, i)
<1>1. Nth(S, Rank(S, i)) = x
  BY DEF Nth, Rank, UpTo
<1>2. x \in S /\ Rank(S, x) = Rank(S, i)
  OBVIOUS
<1> HIDE DEF x
<1>3. x \in Int /\ i \in Int
  BY <1>2 DEF FewNumbers
<1>4. ~(x < i) /\ ~(i < x)
  <2>1. Rank(S, x) \in Int /\ Rank(S, i) \in Int
    BY <1>2, RankGrows
  <2>2. x < i => Rank(S, x) < Rank(S, i)
    BY <1>3, RankGrows
  <2>3. i < x => Rank(S, i) < Rank(S, x)
    BY <1>2, <1>3, RankGrows
  <2> QED BY <1>2, <2>1, <2>2, <2>3
<1> QED BY <1>1, <1>3, <1>4

\* ... and each rank has one: those of a lower rank are too few.
LEMMA RankHasPlace ==
    ASSUME NEW S, FewNumbers(S), NEW k \in 1..Cardinality(S)
    PROVE  Nth(S, k) \in S /\ Rank(S, Nth(S, k)) = k
<1>0. S \subseteq Int /\ IsFiniteSet(S) /\ Cardinality(S) \in Nat
  BY RankGrows DEF FewNumbers
<1> DEFINE Low == {i \in S : Rank(S, i) < k}
<1>1. IsFiniteSet(Low) /\ Cardinality(Low) \in Nat /\ Cardinality(Low) <= k - 1
  <2>1. IsFiniteSet(Low) /\ Cardinality(Low) \in Nat
    BY <1>0, FS_Subset, FS_CardinalityType
  <2> DEFINE f == [i \in Low |-> Rank(S, i)]
  <2>2. f \in Injection(Low, 1..k - 1)
    <3>1. \A i \in Low : Rank(S, i) \in 1..k - 1
      BY <1>0, RankGrows
    <3>2. ASSUME NEW i \in Low, NEW j \in Low, f[i] = f[j]
          PROVE  i = j
      <4>1. Rank(S, i) = Rank(S, j)
        BY <3>2
      <4>2. Nth(S, Rank(S, i)) = i /\ Nth(S, Rank(S, j)) = j
        BY PlaceOfRank
      <4> QED BY <4>1, <4>2
    <3>3. f \in [Low -> 1..k - 1]
      BY <3>1
    <3> HIDE DEF f, Low
    <3> QED BY <3>2, <3>3, Zenon DEF Injection, IsInjective
  <2>3. IsFiniteSet(1..k - 1) /\ Cardinality(1..k - 1) = k - 1
    <3>1. 1 \in Int /\ k - 1 \in Int
      OBVIOUS
    <3>2. IsFiniteSet(1..k - 1) /\ Cardinality(1..k - 1) = IF 1 > k - 1 THEN 0 ELSE (k - 1) - 1 + 1
      BY <3>1, FS_Interval
    <3> QED BY <3>2
  <2> HIDE DEF Low, f
  <2>4. Cardinality(Low) <= Cardinality(1..k - 1)
    BY <2>2, <2>3, FS_Injection
  <2> QED BY <2>1, <2>3, <2>4
<1> DEFINE High == {i \in S : k <= Rank(S, i)}
<1>2. \A i \in S : i \in Low \/ i \in High
  <2>1. \A i \in S : Rank(S, i) \in Int
    BY RankGrows
  <2> QED BY <2>1
<1>3. High # {}
  <2> SUFFICES ASSUME High = {} PROVE FALSE
    OBVIOUS
  <2>1. Low = S
    BY <1>2
  <2> QED BY <1>0, <1>1, <2>1
<1>4. PICK i \in High : \A j \in High : Rank(S, i) <= Rank(S, j)
  <2> DEFINE R == {Rank(S, j) : j \in High}
  <2>1. R \subseteq Nat /\ R # {}
    <3>1. \A j \in High : Rank(S, j) \in Nat
      BY <1>0, RankGrows
    <3> HIDE DEF High
    <3> QED BY <1>3, <3>1
  <2> HIDE DEF R
  <2>2. PICK r \in R : \A q \in R : r <= q
    BY <2>1, LeastNatural
  <2> QED BY <2>2 DEF R
<1>5. i \in S /\ i \in Int /\ k <= Rank(S, i) /\ Rank(S, i) \in Nat
  BY <1>0, <1>4, RankGrows
<1>6. UpTo(S, i) \ {i} \subseteq Low
  <2> SUFFICES ASSUME NEW j \in S, j <= i, j # i PROVE j \in Low
    BY DEF UpTo
  <2>1. j \in Int /\ j < i
    BY <1>0, <1>5
  <2>2. Rank(S, j) < Rank(S, i) /\ Rank(S, j) \in Nat
    BY <1>5, <2>1, RankGrows
  <2>3. j \notin High
    BY <1>4, <1>5, <2>2
  <2> QED BY <1>2, <2>3
<1> HIDE DEF Low, High
<1>7. IsFiniteSet(UpTo(S, i)) /\ i \in UpTo(S, i)
  BY <1>0, <1>5, FS_Subset DEF UpTo
<1>8. Cardinality(UpTo(S, i) \ {i}) = Cardinality(UpTo(S, i)) - 1
  BY <1>7, FS_RemoveElement
<1>9. Cardinality(UpTo(S, i) \ {i}) <= Cardinality(Low)
  BY <1>1, <1>6, FS_Subset
<1>10. Rank(S, i) = k
  <2>1. Rank(S, i) - 1 <= k - 1
    <3>1. Rank(S, i) - 1 <= Cardinality(Low)
      BY <1>8, <1>9 DEF Rank
    <3> QED BY <1>1, <1>5, <3>1
  <2> QED BY <1>5, <2>1
<1> QED BY <1>5, <1>10, PlaceOfRank

\* Two sets that are the same up to c have the same places up to there.
LEMMA SamePlaces ==
    ASSUME NEW S, FewNumbers(S), NEW T, FewNumbers(T), NEW c \in Int, UpTo(S, c) = UpTo(T, c)
    PROVE  /\ \A i \in Int : i <= c => Rank(S, i) = Rank(T, i)
           /\ \A k \in 1..Rank(S, c) : Nth(S, k) = Nth(T, k) /\ Nth(S, k) <= c /\ Nth(S, k) \in S
<1>1. ASSUME NEW i \in Int, i <= c
      PROVE  Rank(S, i) = Rank(T, i)
  <2>1. UpTo(S, i) = UpTo(T, i)
    <3>1. UpTo(S, i) = {j \in UpTo(S, c) : j <= i}
      BY <1>1, UpToIs
    <3>2. UpTo(T, i) = {j \in UpTo(T, c) : j <= i}
      BY <1>1, UpToIs
    <3> QED BY <3>1, <3>2
  <2> QED BY <2>1 DEF Rank
<1>2. ASSUME NEW k \in 1..Rank(S, c)
      PROVE  Nth(S, k) = Nth(T, k) /\ Nth(S, k) <= c /\ Nth(S, k) \in S
  <2> DEFINE i == Nth(S, k)
  <2>1. k \in 1..Cardinality(S)
    BY RankGrows
  <2>2. i \in S /\ Rank(S, i) = k
    BY <2>1, RankHasPlace
  <2> HIDE DEF i
  <2>3. i \in Int
    BY <2>2 DEF FewNumbers
  <2>4. i <= c
    <3>1. c < i => Rank(S, c) < k
      BY <2>2, RankGrows
    <3>2. Rank(S, c) \in Int
      BY RankGrows
    <3> QED BY <2>3, <3>1, <3>2
  <2>5. i \in T
    BY <2>2, <2>4 DEF UpTo
  <2>6. Rank(T, i) = k
    BY <1>1, <2>2, <2>3, <2>4
  <2> QED BY <2>2, <2>4, <2>5, <2>6, PlaceOfRank DEF i
<1> QED BY <1>1, <1>2

-----------------------------------------------------------------------------
(* Columns that are the same up to a row                                      *)

\* Two tables or two columns with m rows at least, of which the first m are the same.
SameTo(s, t, m) ==
    /\ m \in Nat /\ \E a, b \in Nat : DOMAIN s = 1..a /\ DOMAIN t = 1..b /\ m <= a /\ m <= b
    /\ \A i \in 1..m : s[i] = t[i]

\* What two such tables have in common, row by row.
LEMMA SameToIs ==
    ASSUME NEW s, NEW t, NEW m, SameTo(s, t, m)
    PROVE  /\ m \in Nat /\ 1..m \subseteq DOMAIN s /\ 1..m \subseteq DOMAIN t
           /\ \A i \in 1..m : i \in DOMAIN s /\ i \in DOMAIN t /\ s[i] = t[i]
<1>1. PICK a \in Nat, b \in Nat : DOMAIN s = 1..a /\ DOMAIN t = 1..b /\ m <= a /\ m <= b
  BY DEF SameTo
<1>2. m \in Nat /\ \A i \in 1..m : s[i] = t[i]
  BY DEF SameTo
<1>3. 1..m \subseteq 1..a /\ 1..m \subseteq 1..b
  BY <1>1, <1>2
<1> QED BY <1>1, <1>2, <1>3

\* Columns over the same rows.
LEMMA SameColumns ==
    ASSUME NEW s, NEW t, NEW m, SameTo(s, t, m), NEW c, NEW e, DOMAIN c = DOMAIN s, DOMAIN e = DOMAIN t,
           \A i \in 1..m : c[i] = e[i]
    PROVE  SameTo(c, e, m)
BY DEF SameTo

\* Sums over the rows they share are the same.
LEMMA SameSums ==
    ASSUME NEW c, NEW e, NEW m, SameTo(c, e, m), NEW from \in Int, NEW to \in Int, 1 <= from, to <= m
    PROVE  SumOver(c, from, to) = SumOver(e, from, to)
<1>1. ASSUME NEW k \in 1..to - from + 1
      PROVE  c[from + k - 1] = e[from + k - 1]
  <2>1. m \in Nat
    BY SameToIs
  <2>2. from + k - 1 \in 1..m
    BY <2>1
  <2> QED BY <2>2, SameToIs
<1>2. [k \in 1..to - from + 1 |-> c[from + k - 1]] = [k \in 1..to - from + 1 |-> e[from + k - 1]]
  BY <1>1
<1> QED BY <1>2 DEF SumOver

\* Rolling sums look back: they are the same as far as their columns are.
LEMMA SameRolling ==
    ASSUME NEW c, NEW e, NEW m, SameTo(c, e, m), NEW n \in Nat \ {0}
    PROVE  SameTo(Rolling(c, n), Rolling(e, n), m)
<1>1. ASSUME NEW k \in 1..m
      PROVE  Rolling(c, n)[k] = Rolling(e, n)[k]
  <2>1. m \in Nat /\ k \in DOMAIN c /\ k \in DOMAIN e
    BY SameToIs
  <2>2. CASE k < n
    BY <2>1, <2>2 DEF Rolling
  <2>3. CASE ~(k < n)
    <3>1. \A j \in k - n + 1..k : c[j] = e[j]
      <4>1. \A j \in k - n + 1..k : j \in 1..m
        BY <2>1, <2>3
      <4> QED BY <4>1, SameToIs
    <3>2. SumOver(c, k - n + 1, k) = SumOver(e, k - n + 1, k)
      <4>1. k - n + 1 \in Int /\ k \in Int /\ 1 <= k - n + 1 /\ k <= m
        BY <2>1, <2>3
      <4> QED BY <4>1, SameSums
    <3>3. (\E j \in k - n + 1..k : c[j] = NaN) <=> (\E j \in k - n + 1..k : e[j] = NaN)
      BY <3>1
    <3> QED BY <2>1, <3>2, <3>3 DEF Rolling
  <2> QED BY <2>2, <2>3
<1>2. DOMAIN Rolling(c, n) = DOMAIN c /\ DOMAIN Rolling(e, n) = DOMAIN e
  BY DEF Rolling
<1> QED BY <1>1, <1>2, SameColumns

\* A column shifted by a day tells of the days before.
LEMMA SameShift ==
    ASSUME NEW c, NEW e, NEW m, SameTo(c, e, m)
    PROVE  /\ SameTo(Shift(c), Shift(e), m)
           /\ m + 1 \in DOMAIN c /\ m + 1 \in DOMAIN e => Shift(c)[m + 1] = Shift(e)[m + 1]
<1>1. ASSUME NEW i \in 1..m + 1, i \in DOMAIN c, i \in DOMAIN e
      PROVE  Shift(c)[i] = Shift(e)[i]
  <2>1. m \in Nat
    BY SameToIs
  <2>2. i = 1 \/ i - 1 \in 1..m
    BY <2>1
  <2>3. i = 1 \/ c[i - 1] = e[i - 1]
    BY <2>2, SameToIs
  <2> QED BY <1>1, <2>3 DEF Shift
<1>2. DOMAIN Shift(c) = DOMAIN c /\ DOMAIN Shift(e) = DOMAIN e
  BY DEF Shift
<1>3. m \in Nat /\ \A i \in 1..m : i \in 1..m + 1 /\ i \in DOMAIN c /\ i \in DOMAIN e
  BY SameToIs
<1> QED BY <1>1, <1>2, <1>3, SameColumns

-----------------------------------------------------------------------------
(* The forward fill                                                          *)

FillOf(f, column) ==
    f = [i \in DOMAIN column |-> IF column[i] # NaN \/ i = 1 THEN column[i] ELSE f[i - 1]]
\* As much of it as n rows.
FillsTo(f, column, n) ==
    f = [i \in 1..n |-> IF column[i] # NaN \/ i = 1 THEN column[i] ELSE f[i - 1]]

\* Its rows, one by one.
LEMMA FillsValues ==
    ASSUME NEW f, NEW column, NEW n \in Nat, FillsTo(f, column, n)
    PROVE  \A i \in 1..n : f[i] = IF column[i] # NaN \/ i = 1 THEN column[i] ELSE f[i - 1]
BY DEF FillsTo

\* There is one of any length: of a least length without one, the row before has one.
LEMMA FillsExists ==
    ASSUME NEW column, NEW d \in Nat
    PROVE  \E f : FillsTo(f, column, d)
<1> DEFINE Without == {n \in Nat : ~ \E f : FillsTo(f, column, n)}
<1> SUFFICES ASSUME d \in Without PROVE FALSE
  OBVIOUS
<1>1. PICK m \in Without : \A n \in Without : m <= n
  <2>1. Without \subseteq Nat /\ Without # {}
    OBVIOUS
  <2> HIDE DEF Without
  <2> QED BY <2>1, LeastNatural
<1>2. m \in Nat /\ ~ \E f : FillsTo(f, column, m)
  BY <1>1
<1>3. m # 0
  <2> DEFINE f == [n \in 1..0 |-> column[n]]
  <2>1. \A n \in 1..0 : FALSE
    OBVIOUS
  <2>2. f = [i \in 1..0 |-> IF column[i] # NaN \/ i = 1 THEN column[i] ELSE f[i - 1]]
    BY <2>1
  <2>3. FillsTo(f, column, 0)
    BY <2>2 DEF FillsTo
  <2> HIDE DEF f
  <2> QED BY <1>2, <2>3
<1>4. m - 1 \in Nat /\ m - 1 \notin Without
  BY <1>1, <1>2, <1>3
<1>5. PICK g : FillsTo(g, column, m - 1)
  BY <1>4
<1>6. \A i \in 1..m - 1 : g[i] = IF column[i] # NaN \/ i = 1 THEN column[i] ELSE g[i - 1]
  BY <1>4, <1>5, FillsValues
<1> DEFINE last == IF column[m] # NaN \/ m = 1 THEN column[m] ELSE g[m - 1]
           h == [i \in 1..m |-> IF i = m THEN last ELSE g[i]]
<1> HIDE DEF Without
<1>7. \A i \in 1..m : h[i] = IF column[i] # NaN \/ i = 1 THEN column[i] ELSE h[i - 1]
  <2> SUFFICES ASSUME NEW i \in 1..m
               PROVE  h[i] = IF column[i] # NaN \/ i = 1 THEN column[i] ELSE h[i - 1]
    OBVIOUS
  <2>1. i = 1 \/ h[i - 1] = g[i - 1]
    <3>1. i = 1 \/ (i - 1 \in 1..m /\ i - 1 # m)
      BY <1>2
    <3> QED BY <3>1
  <2>2. CASE i = m
    BY <2>1, <2>2
  <2>3. CASE i # m
    <3>1. i \in 1..m - 1
      BY <1>2, <2>3
    <3>2. h[i] = g[i]
      BY <2>3
    <3> QED BY <1>6, <2>1, <3>1, <3>2
  <2> QED BY <2>2, <2>3
<1>8. h = [i \in 1..m |-> h[i]]
  OBVIOUS
<1> HIDE DEF h
<1>9. h = [i \in 1..m |-> IF column[i] # NaN \/ i = 1 THEN column[i] ELSE h[i - 1]]
  BY <1>7, <1>8
<1>10. FillsTo(h, column, m)
  BY <1>9 DEF FillsTo
<1> QED BY <1>2, <1>10

\* ForwardFill is one.
LEMMA FilledIs ==
    ASSUME NEW column, NEW n \in Nat, DOMAIN column = 1..n
    PROVE  /\ DOMAIN ForwardFill(column) = 1..n
           /\ \A i \in 1..n : ForwardFill(column)[i]
                 = IF column[i] # NaN \/ i = 1 THEN column[i] ELSE ForwardFill(column)[i - 1]
<1> DEFINE f == CHOOSE g : FillsTo(g, column, n)
<1>1. ForwardFill(column) = f
  BY DEF ForwardFill, FillsTo
<1>2. FillsTo(f, column, n)
  BY FillsExists
<1> HIDE DEF f
<1>3. DOMAIN f = 1..n
  BY <1>2 DEF FillsTo
<1> QED BY <1>1, <1>2, <1>3, FillsValues

\* It looks back too.
LEMMA SameFill ==
    ASSUME NEW c, NEW e, NEW m, SameTo(c, e, m)
    PROVE  SameTo(ForwardFill(c), ForwardFill(e), m)
<1> DEFINE f == ForwardFill(c)
           g == ForwardFill(e)
<1>1. PICK a \in Nat, b \in Nat : DOMAIN c = 1..a /\ DOMAIN e = 1..b /\ m <= a /\ m <= b
  BY DEF SameTo
<1>2. DOMAIN f = 1..a /\ \A i \in 1..a : f[i] = IF c[i] # NaN \/ i = 1 THEN c[i] ELSE f[i - 1]
  BY <1>1, FilledIs
<1>3. DOMAIN g = 1..b /\ \A i \in 1..b : g[i] = IF e[i] # NaN \/ i = 1 THEN e[i] ELSE g[i - 1]
  BY <1>1, FilledIs
<1> HIDE DEF f, g
<1> DEFINE Differ == {i \in 1..m : f[i] # g[i]}
<1>4. Differ = {}
  <2> SUFFICES ASSUME Differ # {} PROVE FALSE
    OBVIOUS
  <2>0. m \in Nat
    BY SameToIs
  <2>1. PICK i \in Differ : \A j \in Differ : i <= j
    <3>1. Differ \subseteq Nat
      BY <2>0
    <3> HIDE DEF Differ
    <3> QED BY <3>1, LeastNatural
  <2>2. i \in 1..m /\ f[i] # g[i] /\ c[i] = e[i]
    BY <2>1, SameToIs
  <2>3. i \in 1..a /\ i \in 1..b
    BY <1>1, <2>0, <2>2
  <2>4. i = 1 \/ f[i - 1] = g[i - 1]
    <3>1. i = 1 \/ (i - 1 \in 1..m /\ ~(i <= i - 1))
      BY <2>0, <2>2
    <3> QED BY <2>1, <3>1
  <2> HIDE DEF Differ
  <2> QED BY <1>2, <1>3, <2>2, <2>3, <2>4
<1>5. \A i \in 1..m : f[i] = g[i]
  BY <1>4
<1>6. DOMAIN f = DOMAIN c /\ DOMAIN g = DOMAIN e
  BY <1>1, <1>2, <1>3
<1> QED BY <1>5, <1>6, SameColumns DEF f, g

-----------------------------------------------------------------------------
(* The daily columns                                                         *)

\* The places in a table are few.
LEMMA FewPlaces ==
    ASSUME NEW a \in Nat, NEW P, P \subseteq 1..a
    PROVE  FewNumbers(P)
<1>1. IsFiniteSet(1..a)
  BY FS_Interval
<1>2. IsFiniteSet(P)
  BY <1>1, FS_Subset
<1> QED BY <1>2 DEF FewNumbers

\* Rows picked at the same places of two tables are the same.
LEMMA SameRows ==
    ASSUME NEW s, NEW t, NEW m, SameTo(s, t, m), NEW P, P \subseteq DOMAIN s, NEW Q, Q \subseteq DOMAIN t,
           UpTo(P, m) = UpTo(Q, m)
    PROVE  /\ FewNumbers(P) /\ FewNumbers(Q)
           /\ SameTo(Rows(s, P), Rows(t, Q), Rank(P, m))
           /\ \A i \in Int : i <= m => Rank(P, i) = Rank(Q, i)
<1>0. m \in Nat
  BY SameToIs
<1>1. FewNumbers(P) /\ FewNumbers(Q)
  <2>1. PICK a \in Nat, b \in Nat : DOMAIN s = 1..a /\ DOMAIN t = 1..b
    BY DEF SameTo
  <2> QED BY <2>1, FewPlaces
<1>2. /\ Rank(P, m) = Rank(Q, m) /\ \A i \in Int : i <= m => Rank(P, i) = Rank(Q, i)
      /\ \A k \in 1..Rank(P, m) : Nth(P, k) = Nth(Q, k) /\ Nth(P, k) <= m /\ Nth(P, k) \in P
  BY <1>0, <1>1, SamePlaces
<1>3. /\ Cardinality(P) \in Nat /\ Rank(P, m) \in 0..Cardinality(P)
      /\ Cardinality(Q) \in Nat /\ Rank(Q, m) \in 0..Cardinality(Q)
  BY <1>0, <1>1, RankGrows
<1>4. ASSUME NEW k \in 1..Rank(P, m)
      PROVE  Rows(s, P)[k] = Rows(t, Q)[k]
  <2>1. k \in 1..Cardinality(P) /\ k \in 1..Cardinality(Q)
    BY <1>2, <1>3
  <2>2. Rows(s, P)[k] = s[Nth(P, k)] /\ Rows(t, Q)[k] = t[Nth(Q, k)]
    BY <2>1 DEF Rows
  <2>3. Nth(P, k) \in 1..m
    <3>1. Nth(P, k) \in Int /\ 1 <= Nth(P, k)
      <4>1. PICK a \in Nat : DOMAIN s = 1..a
        BY DEF SameTo
      <4> QED BY <1>2, <4>1
    <3> QED BY <1>0, <1>2, <3>1
  <2> QED BY <1>2, <2>2, <2>3, SameToIs
<1>5. DOMAIN Rows(s, P) = 1..Cardinality(P) /\ DOMAIN Rows(t, Q) = 1..Cardinality(Q)
  BY DEF Rows
<1>6. SameTo(Rows(s, P), Rows(t, Q), Rank(P, m))
  BY <1>2, <1>3, <1>4, <1>5 DEF SameTo
<1> QED BY <1>1, <1>2, <1>6

\* A roll is told from the day before it.
LEMMA RollSame ==
    ASSUME NEW s, NEW t, NEW m, SameTo(s, t, m), NEW i \in 1..m
    PROVE  IsRoll(s, i) <=> IsRoll(t, i)
<1>1. m \in Nat /\ s[i] = t[i] /\ (i = 1 \/ i - 1 \in 1..m)
  BY SameToIs
<1>2. i = 1 \/ s[i - 1] = t[i - 1]
  BY <1>1, SameToIs
<1> QED BY <1>1, <1>2 DEF IsRoll

\* The closes of a table.
LEMMA SameCloses ==
    ASSUME NEW s, NEW t, NEW m, SameTo(s, t, m)
    PROVE  SameTo(Closes(s), Closes(t), m)
<1>1. \A i \in 1..m : Closes(s)[i] = Closes(t)[i]
  BY SameToIs DEF Closes
<1>2. DOMAIN Closes(s) = DOMAIN s /\ DOMAIN Closes(t) = DOMAIN t
  BY DEF Closes
<1> QED BY <1>1, <1>2, SameColumns

\* A true range is told from its row and the one before.
LEMMA RangeSame ==
    ASSUME NEW s, NEW t, NEW m, SameTo(s, t, m), NEW i \in 1..m
    PROVE  TrueRange(s, i) = TrueRange(t, i)
<1>1. Shift(Closes(s))[i] = Shift(Closes(t))[i]
  <2>1. SameTo(Closes(s), Closes(t), m)
    BY SameCloses
  <2>2. SameTo(Shift(Closes(s)), Shift(Closes(t)), m)
    BY <2>1, SameShift
  <2> QED BY <2>2, SameToIs
<1>2. s[i] = t[i]
  BY SameToIs
<1> QED BY <1>1, <1>2 DEF TrueRange

\* The parts of Atr: the days that are no rolls, their rolling sums, and the gaps.
Clean(s) == {i \in DOMAIN s : ~IsRoll(s, i)}
Ranges(s) == [i \in DOMAIN s |-> TrueRange(s, i)]
CleanSums(s, n) == Rolling(Rows(Ranges(s), Clean(s)), n)
Gapped(s, n) == [i \in DOMAIN s |-> IF IsRoll(s, i) THEN NaN ELSE CleanSums(s, n)[Rank(Clean(s), i)]]

\* They make it up.
LEMMA AtrIs == ASSUME NEW s, NEW n PROVE Atr(s, n) = ForwardFill(Gapped(s, n))
BY DEF Atr, Gapped, CleanSums, Ranges, Clean, Rank, UpTo

\* The ATR of a row is of the rows up to it.
LEMMA SameAtr ==
    ASSUME NEW s, NEW t, NEW m, SameTo(s, t, m), NEW n \in Nat \ {0}
    PROVE  SameTo(Atr(s, n), Atr(t, n), m)
<1>0. m \in Nat /\ 1..m \subseteq DOMAIN s /\ 1..m \subseteq DOMAIN t
  BY SameToIs
<1>1. SameTo(Ranges(s), Ranges(t), m)
  <2>1. \A i \in 1..m : Ranges(s)[i] = Ranges(t)[i]
    BY <1>0, RangeSame DEF Ranges
  <2>2. DOMAIN Ranges(s) = DOMAIN s /\ DOMAIN Ranges(t) = DOMAIN t
    BY DEF Ranges
  <2> QED BY <2>1, <2>2, SameColumns
<1>2. UpTo(Clean(s), m) = UpTo(Clean(t), m)
  <2>1. PICK a \in Nat, b \in Nat : DOMAIN s = 1..a /\ DOMAIN t = 1..b
    BY DEF SameTo
  <2>2. \A i \in 1..a : i <= m => i \in 1..m
    BY <1>0
  <2>3. \A i \in 1..b : i <= m => i \in 1..m
    BY <1>0
  <2>4. \A i : i \in UpTo(Clean(s), m) <=> i \in 1..m /\ ~IsRoll(s, i)
    <3>1. \A i : i \in UpTo(Clean(s), m) <=> i \in 1..a /\ ~IsRoll(s, i) /\ i <= m
      BY <2>1 DEF UpTo, Clean
    <3>2. \A i \in 1..m : i \in 1..a /\ i <= m
      BY <1>0, <2>1
    <3> QED BY <2>2, <3>1, <3>2
  <2>5. \A i : i \in UpTo(Clean(t), m) <=> i \in 1..m /\ ~IsRoll(t, i)
    <3>1. \A i : i \in UpTo(Clean(t), m) <=> i \in 1..b /\ ~IsRoll(t, i) /\ i <= m
      BY <2>1 DEF UpTo, Clean
    <3>2. \A i \in 1..m : i \in 1..b /\ i <= m
      BY <1>0, <2>1
    <3> QED BY <2>3, <3>1, <3>2
  <2> QED BY <2>4, <2>5, RollSame
<1>3. Clean(s) \subseteq DOMAIN Ranges(s) /\ Clean(t) \subseteq DOMAIN Ranges(t)
  BY DEF Clean, Ranges
<1>4. /\ FewNumbers(Clean(s))
      /\ SameTo(Rows(Ranges(s), Clean(s)), Rows(Ranges(t), Clean(t)), Rank(Clean(s), m))
      /\ \A i \in Int : i <= m => Rank(Clean(s), i) = Rank(Clean(t), i)
  BY <1>1, <1>2, <1>3, SameRows
<1>5. SameTo(CleanSums(s, n), CleanSums(t, n), Rank(Clean(s), m))
  BY <1>4, SameRolling DEF CleanSums
<1>6. ASSUME NEW i \in 1..m
      PROVE  Gapped(s, n)[i] = Gapped(t, n)[i]
  <2>1. i \in DOMAIN s /\ i \in DOMAIN t /\ i \in Int /\ i <= m
    BY <1>0
  <2>2. CASE IsRoll(s, i)
    BY <2>1, <2>2, RollSame DEF Gapped
  <2>3. CASE ~IsRoll(s, i)
    <3>1. i \in Clean(s) /\ ~IsRoll(t, i)
      BY <2>1, <2>3, RollSame DEF Clean
    <3>2. Rank(Clean(s), i) \in 1..Rank(Clean(s), m)
      <4>1. Rank(Clean(s), i) \in 1..Cardinality(Clean(s)) /\ Cardinality(Clean(s)) \in Nat
        BY <1>4, <3>1, RankGrows
      <4>2. Rank(Clean(s), i) <= Rank(Clean(s), m) /\ Rank(Clean(s), m) \in 0..Cardinality(Clean(s))
        BY <1>0, <1>4, <2>1, RankGrows
      <4> QED BY <4>1, <4>2
    <3>3. CleanSums(s, n)[Rank(Clean(s), i)] = CleanSums(t, n)[Rank(Clean(s), i)]
      BY <1>5, <3>2, SameToIs
    <3> QED BY <1>4, <2>1, <2>3, <3>1, <3>3 DEF Gapped
  <2> QED BY <2>2, <2>3
<1>7. DOMAIN Gapped(s, n) = DOMAIN s /\ DOMAIN Gapped(t, n) = DOMAIN t
  BY DEF Gapped
<1>8. SameTo(Gapped(s, n), Gapped(t, n), m)
  BY <1>6, <1>7, SameColumns
<1> QED BY <1>8, SameFill, AtrIs

\* So are the returns ...
LEMMA SameReturns ==
    ASSUME NEW s, NEW t, NEW m, SameTo(s, t, m)
    PROVE  SameTo(Returns(s), Returns(t), m)
<1>1. ASSUME NEW i \in 1..m
      PROVE  Returns(s)[i] = Returns(t)[i]
  <2>1. m \in Nat /\ s[i] = t[i] /\ i \in DOMAIN s /\ i \in DOMAIN t /\ (i = 1 \/ i - 1 \in 1..m)
    BY SameToIs
  <2>2. i = 1 \/ s[i - 1] = t[i - 1]
    BY <2>1, SameToIs
  <2> QED BY <2>1, <2>2 DEF Returns
<1>2. DOMAIN Returns(s) = DOMAIN s /\ DOMAIN Returns(t) = DOMAIN t
  BY DEF Returns
<1> QED BY <1>1, <1>2, SameColumns

\* The parts of RealizedVol.
Squares(s) == [i \in DOMAIN s |-> IF Returns(s)[i] = NaN THEN NaN ELSE Returns(s)[i] * Returns(s)[i]]

\* ... their realized volatility ...
LEMMA SameVol ==
    ASSUME NEW s, NEW t, NEW m, SameTo(s, t, m), NEW n \in Nat \ {0}
    PROVE  SameTo(RealizedVol(s, n), RealizedVol(t, n), m)
<1>1. SameTo(Returns(s), Returns(t), m)
  BY SameReturns
<1>2. SameTo(Squares(s), Squares(t), m)
  <2>1. \A i \in 1..m : Squares(s)[i] = Squares(t)[i]
    BY <1>1, SameToIs DEF Squares
  <2>2. DOMAIN Squares(s) = DOMAIN s /\ DOMAIN Squares(t) = DOMAIN t
    BY DEF Squares
  <2> QED BY <2>1, <2>2, SameColumns
<1>3. /\ SameTo(Rolling(Returns(s), n), Rolling(Returns(t), n), m)
      /\ SameTo(Rolling(Squares(s), n), Rolling(Squares(t), n), m)
  BY <1>1, <1>2, SameRolling
<1> DEFINE V(u) == [i \in DOMAIN u |-> IF Rolling(Returns(u), n)[i] = NaN THEN NaN
                       ELSE n * Rolling(Squares(u), n)[i]
                              - Rolling(Returns(u), n)[i] * Rolling(Returns(u), n)[i]]
<1>4. RealizedVol(s, n) = V(s) /\ RealizedVol(t, n) = V(t)
  BY DEF RealizedVol, Squares
<1>5. ASSUME NEW i \in 1..m PROVE V(s)[i] = V(t)[i]
  <2>1. i \in DOMAIN s /\ i \in DOMAIN t
    BY SameToIs
  <2>2. /\ Rolling(Returns(s), n)[i] = Rolling(Returns(t), n)[i]
        /\ Rolling(Squares(s), n)[i] = Rolling(Squares(t), n)[i]
    BY <1>3, SameToIs
  <2> QED BY <2>1, <2>2
<1>6. DOMAIN V(s) = DOMAIN s /\ DOMAIN V(t) = DOMAIN t
  OBVIOUS
<1> HIDE DEF V
<1>7. SameTo(V(s), V(t), m)
  BY <1>5, <1>6, SameColumns
<1> QED BY <1>4, <1>7

\* ... and where it ranks among those up to it.
LEMMA SameRank ==
    ASSUME NEW c, NEW e, NEW m, SameTo(c, e, m)
    PROVE  SameTo(ExpandingRank(c), ExpandingRank(e), m)
<1>1. ASSUME NEW i \in 1..m
      PROVE  ExpandingRank(c)[i] = ExpandingRank(e)[i]
  <2>1. m \in Nat /\ i \in DOMAIN c /\ i \in DOMAIN e /\ c[i] = e[i]
    BY SameToIs
  <2>2. \A j \in 1..i : c[j] = e[j]
    <3>1. \A j \in 1..i : j \in 1..m
      BY <2>1
    <3> QED BY <3>1, SameToIs
  <2> DEFINE known == {j \in 1..i : c[j] # NaN}
  <2>3. /\ known = {j \in 1..i : e[j] # NaN}
        /\ {j \in known : c[j] < c[i]} = {j \in known : e[j] < e[i]}
        /\ {j \in known : c[j] = c[i]} = {j \in known : e[j] = e[i]}
    BY <2>1, <2>2
  <2>4. ExpandingRank(c)[i] =
          IF c[i] = NaN THEN NaN
          ELSE (50 * (2 * Cardinality({j \in known : c[j] < c[i]}) + Cardinality({j \in known : c[j] = c[i]}) + 1))
                  \div Cardinality(known)
    BY <2>1 DEF ExpandingRank
  <2>5. ExpandingRank(e)[i] =
          IF e[i] = NaN THEN NaN
          ELSE (50 * (2 * Cardinality({j \in known : e[j] < e[i]}) + Cardinality({j \in known : e[j] = e[i]}) + 1))
                  \div Cardinality(known)
    BY <2>1, <2>3 DEF ExpandingRank
  <2> HIDE DEF known
  <2> QED BY <2>1, <2>3, <2>4, <2>5
<1>2. DOMAIN ExpandingRank(c) = DOMAIN c /\ DOMAIN ExpandingRank(e) = DOMAIN e
  BY DEF ExpandingRank
<1> QED BY <1>1, <1>2, SameColumns

\* A rolling sum is known of n values that are.
LEMMA RollingKnown ==
    ASSUME NEW c, NEW n \in Nat \ {0}, NEW k \in DOMAIN c, k \in Int, Rolling(c, n)[k] # NaN
    PROVE  n <= k /\ \A j \in k - n + 1..k : c[j] # NaN
BY DEF Rolling

\* The parts of KaufmanEr.
Changes(closes) ==
    [i \in DOMAIN closes |-> IF i = 1 THEN NaN ELSE AbsDiff(closes[i], closes[i - 1])]
Efficiency(closes, n) ==
    [i \in DOMAIN closes |->
        IF Rolling(Changes(closes), n)[i] = NaN \/ Rolling(Changes(closes), n)[i] = 0 THEN NaN
        ELSE (AbsDiff(closes[i], closes[i - n]) * 100) \div Rolling(Changes(closes), n)[i]]

\* They make it up: the signal of a day is the efficiency of the day before.
LEMMA KaufmanErIs ==
    ASSUME NEW closes, NEW n PROVE KaufmanEr(closes, n) = Shift(Efficiency(closes, n))
BY DEF KaufmanEr, Efficiency, Changes

\* It is known from the day on that has n days before it.
LEMMA PathKnown ==
    ASSUME NEW closes, NEW l \in Nat, DOMAIN closes = 1..l, NEW n \in Nat \ {0}, NEW k \in 1..l,
           Rolling(Changes(closes), n)[k] # NaN
    PROVE  n < k
<1>1. DOMAIN Changes(closes) = DOMAIN closes
  BY DEF Changes
<1>2. n <= k /\ \A j \in k - n + 1..k : Changes(closes)[j] # NaN
  BY <1>1, RollingKnown
<1>3. n # k
  <2> SUFFICES ASSUME n = k PROVE FALSE
    OBVIOUS
  <2>1. 1 \in k - n + 1..k /\ 1 \in 1..l
    OBVIOUS
  <2>2. Changes(closes)[1] # NaN
    BY <1>2, <2>1
  <2> QED BY <2>1, <2>2 DEF Changes
<1> QED BY <1>2, <1>3

\* The efficiency of a row is of the rows up to it.
LEMMA SameEr ==
    ASSUME NEW c, NEW e, NEW m, SameTo(c, e, m), NEW n \in Nat \ {0}
    PROVE  SameTo(Efficiency(c, n), Efficiency(e, n), m)
<1>1. SameTo(Changes(c), Changes(e), m)
  <2>1. ASSUME NEW i \in 1..m PROVE Changes(c)[i] = Changes(e)[i]
    <3>1. m \in Nat /\ i \in DOMAIN c /\ i \in DOMAIN e /\ c[i] = e[i] /\ (i = 1 \/ i - 1 \in 1..m)
      BY SameToIs
    <3>2. i = 1 \/ c[i - 1] = e[i - 1]
      BY <3>1, SameToIs
    <3> QED BY <3>1, <3>2 DEF Changes
  <2>2. DOMAIN Changes(c) = DOMAIN c /\ DOMAIN Changes(e) = DOMAIN e
    BY DEF Changes
  <2> QED BY <2>1, <2>2, SameColumns
<1>2. SameTo(Rolling(Changes(c), n), Rolling(Changes(e), n), m)
  BY <1>1, SameRolling
<1>3. ASSUME NEW i \in 1..m PROVE Efficiency(c, n)[i] = Efficiency(e, n)[i]
  <2>1. m \in Nat /\ i \in DOMAIN c /\ i \in DOMAIN e /\ c[i] = e[i]
    BY SameToIs
  <2>2. Rolling(Changes(c), n)[i] = Rolling(Changes(e), n)[i]
    BY <1>2, SameToIs
  <2>3. CASE Rolling(Changes(c), n)[i] = NaN
    BY <2>1, <2>2, <2>3 DEF Efficiency
  <2>4. CASE Rolling(Changes(c), n)[i] # NaN
    <3>1. PICK a \in Nat : DOMAIN c = 1..a
      BY DEF SameTo
    <3>2. n < i
      BY <2>1, <2>4, <3>1, PathKnown
    <3>3. i - n \in 1..m
      BY <2>1, <3>2
    <3>4. c[i - n] = e[i - n]
      BY <3>3, SameToIs
    <3> QED BY <2>1, <2>2, <3>4 DEF Efficiency
  <2> QED BY <2>3, <2>4
<1>4. DOMAIN Efficiency(c, n) = DOMAIN c /\ DOMAIN Efficiency(e, n) = DOMAIN e
  BY DEF Efficiency
<1> QED BY <1>3, <1>4, SameColumns

-----------------------------------------------------------------------------
(* Lists by date                                                             *)

\* The rows f of the days of K, in the order of the days.
DatedList(rows, f, K) == FewNumbers(K) /\ rows = Rows(f, K) /\ \A d \in K : f[d].date = d

\* Such a list has a row for each of its days and no other, at the place of the day.
LEMMA DatedIs ==
    ASSUME NEW rows, NEW f, NEW K, DatedList(rows, f, K)
    PROVE  /\ Cardinality(K) \in Nat /\ DOMAIN rows = 1..Cardinality(K) /\ FewNumbers(K)
           /\ \A i \in DOMAIN rows : /\ rows[i].date \in K /\ rows[i].date \in Int
                                     /\ rows[i] = f[rows[i].date] /\ Rank(K, rows[i].date) = i
           /\ \A d \in K : Rank(K, d) \in DOMAIN rows /\ rows[Rank(K, d)] = f[d] /\ f[d].date = d
<1>1. FewNumbers(K) /\ rows = Rows(f, K) /\ \A d \in K : f[d].date = d
  BY DEF DatedList
<1>2. DOMAIN rows = 1..Cardinality(K) /\ \A i \in DOMAIN rows : rows[i] = f[Nth(K, i)]
  BY <1>1 DEF Rows
<1>3. ASSUME NEW i \in DOMAIN rows
      PROVE  /\ rows[i].date \in K /\ rows[i].date \in Int
             /\ rows[i] = f[rows[i].date] /\ Rank(K, rows[i].date) = i
  <2>1. Nth(K, i) \in K /\ Rank(K, Nth(K, i)) = i
    BY <1>1, <1>2, RankHasPlace
  <2>2. rows[i] = f[Nth(K, i)] /\ rows[i].date = Nth(K, i)
    BY <1>1, <1>2, <2>1
  <2> QED BY <1>1, <2>1, <2>2 DEF FewNumbers
<1>4. ASSUME NEW d \in K
      PROVE  Rank(K, d) \in DOMAIN rows /\ rows[Rank(K, d)] = f[d]
  BY <1>1, <1>2, RankGrows, PlaceOfRank
<1> QED BY <1>1, <1>2, <1>3, <1>4, RankGrows

\* The dates stand in their order.
LEMMA DatesGrow ==
    ASSUME NEW rows, NEW f, NEW K, DatedList(rows, f, K), NEW i \in DOMAIN rows, NEW d \in Int
    PROVE  /\ rows[i].date <= d <=> i <= Rank(K, d)
           /\ rows[i].date < d <=> i <= Rank(K, d - 1)
           /\ \A j \in DOMAIN rows : rows[j].date <= rows[i].date <=> j <= i
<1>1. FewNumbers(K) /\ Cardinality(K) \in Nat /\ DOMAIN rows = 1..Cardinality(K)
  BY DatedIs
<1>2. ASSUME NEW j \in DOMAIN rows, NEW c \in Int
      PROVE  rows[j].date <= c <=> j <= Rank(K, c)
  <2>1. rows[j].date \in K /\ rows[j].date \in Int /\ Rank(K, rows[j].date) = j
    BY DatedIs
  <2>2. rows[j].date <= c => Rank(K, rows[j].date) <= Rank(K, c)
    BY <1>1, <2>1, RankGrows
  <2>3. c < rows[j].date => Rank(K, c) < Rank(K, rows[j].date)
    BY <1>1, <2>1, RankGrows
  <2>4. Rank(K, c) \in Int /\ j \in Int
    BY <1>1, RankGrows
  <2> QED BY <2>1, <2>2, <2>3, <2>4
<1>3. rows[i].date \in Int /\ Rank(K, rows[i].date) = i
  BY DatedIs
<1>4. rows[i].date < d <=> rows[i].date <= d - 1
  BY <1>3
<1>5. \A j \in DOMAIN rows : rows[j].date <= rows[i].date <=> j <= i
  BY <1>2, <1>3
<1> QED BY <1>2, <1>4, <1>5

\* As many are before a day as its cutoff says.
LEMMA CutoffIs ==
    ASSUME NEW rows, NEW f, NEW K, DatedList(rows, f, K), NEW d \in Int
    PROVE  Cutoff(rows, d) = Rank(K, d - 1) /\ Earlier(rows, d) = Rank(K, d - 1)
<1>1. FewNumbers(K) /\ Cardinality(K) \in Nat /\ DOMAIN rows = 1..Cardinality(K)
  BY DatedIs
<1>2. Rank(K, d - 1) \in 0..Cardinality(K)
  BY <1>1, RankGrows
<1>3. {i \in DOMAIN rows : rows[i].date < d} = 1..Rank(K, d - 1)
  <2>1. \A i \in DOMAIN rows : rows[i].date < d <=> i <= Rank(K, d - 1)
    BY DatesGrow
  <2>2. \A i \in 1..Rank(K, d - 1) : i \in DOMAIN rows /\ i <= Rank(K, d - 1)
    BY <1>1, <1>2
  <2>3. \A i \in DOMAIN rows : i <= Rank(K, d - 1) => i \in 1..Rank(K, d - 1)
    BY <1>1, <1>2
  <2> QED BY <2>1, <2>2, <2>3
<1>4. Cardinality(1..Rank(K, d - 1)) = Rank(K, d - 1)
  <2>1. 1 \in Int /\ Rank(K, d - 1) \in Nat
    BY <1>2
  <2>2. Cardinality(1..Rank(K, d - 1)) = IF 1 > Rank(K, d - 1) THEN 0 ELSE Rank(K, d - 1) - 1 + 1
    BY <2>1, FS_Interval
  <2> QED BY <2>1, <2>2
<1> QED BY <1>3, <1>4 DEF Cutoff, Earlier

\* What each is sent to differs: as many.
LEMMA AsMany ==
    ASSUME NEW A, IsFiniteSet(A), NEW h, DOMAIN h = A, \A i, j \in A : h[i] = h[j] => i = j
    PROVE  IsFiniteSet({h[i] : i \in A}) /\ Cardinality({h[i] : i \in A}) = Cardinality(A)
<1> DEFINE B == {h[i] : i \in A}
           g == [i \in A |-> h[i]]
<1>1. g \in Bijection(A, B)
  <2>1. g \in [A -> B] /\ \A i, j \in A : g[i] = g[j] => i = j
    OBVIOUS
  <2>2. \A b \in B : \E i \in A : g[i] = b
    OBVIOUS
  <2> HIDE DEF g, B
  <2>3. g \in Injection(A, B)
    BY <2>1, Zenon DEF Injection, IsInjective
  <2>4. g \in Surjection(A, B)
    BY <2>1, <2>2, Zenon DEF Surjection
  <2> QED BY <2>3, <2>4 DEF Bijection
<1> HIDE DEF g, B
<1>2. IsFiniteSet(B) /\ Cardinality(B) = Cardinality(A)
  BY <1>1, FS_Bijection DEF ExistsBijection
<1> QED BY <1>2 DEF B

\* Some rows of a list by date are one.
DatesOf(rows, P) == {rows[i].date : i \in P}
\* They are the list of their dates.
LEMMA PickRows ==
    ASSUME NEW rows, NEW f, NEW K, DatedList(rows, f, K), NEW P, P \subseteq DOMAIN rows
    PROVE  DatedList(Rows(rows, P), f, DatesOf(rows, P))
<1> DEFINE T == DatesOf(rows, P)
<1>1. FewNumbers(K) /\ Cardinality(K) \in Nat /\ DOMAIN rows = 1..Cardinality(K)
  BY DatedIs
<1>2. FewNumbers(P)
  BY <1>1, FewPlaces
<1>3. \A i \in P : i \in DOMAIN rows /\ rows[i].date \in K /\ rows[i] = f[rows[i].date] /\ Rank(K, rows[i].date) = i
  BY DatedIs
<1>4. T \subseteq K /\ FewNumbers(T)
  <2>1. T \subseteq K
    BY <1>3 DEF DatesOf
  <2> HIDE DEF T
  <2>2. IsFiniteSet(T)
    BY <1>1, <2>1, FS_Subset DEF FewNumbers
  <2> QED BY <1>1, <2>1, <2>2 DEF FewNumbers
<1>5. ASSUME NEW A, A \subseteq P
      PROVE  Cardinality(DatesOf(rows, A)) = Cardinality(A)
  <2> DEFINE h == [i \in A |-> rows[i].date]
  <2>1. IsFiniteSet(A)
    BY <1>2, <1>5, FS_Subset DEF FewNumbers
  <2>2. \A i, j \in A : h[i] = h[j] => i = j
    BY <1>3, <1>5
  <2>3. DatesOf(rows, A) = {h[i] : i \in A}
    BY DEF DatesOf
  <2>4. DOMAIN h = A
    OBVIOUS
  <2> HIDE DEF h
  <2> QED BY <2>1, <2>2, <2>3, <2>4, AsMany
<1>6. ASSUME NEW i \in P
      PROVE  Rank(T, rows[i].date) = Rank(P, i)
  <2>1. UpTo(T, rows[i].date) = DatesOf(rows, UpTo(P, i))
    <3>1. \A j \in P : rows[j].date <= rows[i].date <=> j <= i
      <4>1. i \in DOMAIN rows /\ 0 \in Int
        BY <1>3
      <4>2. \A j \in DOMAIN rows : rows[j].date <= rows[i].date <=> j <= i
        BY <4>1, DatesGrow
      <4> QED BY <1>3, <4>2
    <3> QED BY <3>1 DEF UpTo, DatesOf
  <2>2. UpTo(P, i) \subseteq P
    BY DEF UpTo
  <2> QED BY <1>5, <2>1, <2>2 DEF Rank
<1>7. Cardinality(T) = Cardinality(P)
  BY <1>5
<1>8. ASSUME NEW k \in 1..Cardinality(P)
      PROVE  rows[Nth(P, k)] = f[Nth(T, k)]
  <2> DEFINE i == Nth(P, k)
  <2>1. i \in P /\ Rank(P, i) = k
    BY <1>2, RankHasPlace
  <2> HIDE DEF i
  <2>2. rows[i].date \in T /\ Rank(T, rows[i].date) = k
    BY <1>6, <2>1 DEF DatesOf
  <2> HIDE DEF T
  <2>3. Nth(T, k) = rows[i].date
    BY <1>4, <2>2, PlaceOfRank
  <2> QED BY <1>3, <2>1, <2>3 DEF i
<1> HIDE DEF T
<1>9. Rows(rows, P) = Rows(f, T)
  BY <1>7, <1>8 DEF Rows
<1>10. \A d \in T : f[d].date = d
  BY <1>4, DatedIs
<1> QED BY <1>4, <1>9, <1>10 DEF DatedList, T

\* Two lists that have the same days before d are the same as far.
LEMMA SameDated ==
    ASSUME NEW r, NEW f, NEW K, DatedList(r, f, K), NEW t, NEW g, NEW L, DatedList(t, g, L),
           NEW c \in Int, UpTo(K, c) = UpTo(L, c), \A d \in UpTo(K, c) : f[d] = g[d]
    PROVE  /\ SameTo(r, t, Rank(K, c)) /\ Rank(L, c) = Rank(K, c)
           /\ \A d \in Int : d <= c => Rank(K, d) = Rank(L, d)
<1>1. /\ FewNumbers(K) /\ Cardinality(K) \in Nat /\ DOMAIN r = 1..Cardinality(K) /\ r = Rows(f, K)
      /\ FewNumbers(L) /\ Cardinality(L) \in Nat /\ DOMAIN t = 1..Cardinality(L) /\ t = Rows(g, L)
  BY DatedIs DEF DatedList
<1>2. /\ \A d \in Int : d <= c => Rank(K, d) = Rank(L, d)
      /\ \A k \in 1..Rank(K, c) : Nth(K, k) = Nth(L, k) /\ Nth(K, k) <= c /\ Nth(K, k) \in K
  BY <1>1, SamePlaces
<1>3. Rank(K, c) \in 0..Cardinality(K) /\ Rank(L, c) \in 0..Cardinality(L) /\ Rank(K, c) = Rank(L, c)
  BY <1>1, <1>2, RankGrows
<1>4. ASSUME NEW k \in 1..Rank(K, c)
      PROVE  r[k] = t[k]
  <2>1. k \in 1..Cardinality(K) /\ k \in 1..Cardinality(L)
    BY <1>1, <1>3
  <2>2. r[k] = f[Nth(K, k)] /\ t[k] = g[Nth(L, k)]
    BY <1>1, <2>1 DEF Rows
  <2>3. Nth(K, k) \in UpTo(K, c)
    BY <1>2 DEF UpTo
  <2> QED BY <1>2, <2>2, <2>3
<1>5. SameTo(r, t, Rank(K, c))
  BY <1>1, <1>3, <1>4 DEF SameTo
<1> QED BY <1>2, <1>3, <1>5

-----------------------------------------------------------------------------
(* What is decided of a day                                                  *)

RawDay == [bars : Nat, orVolume : Nat, open : Int, high : Int, low : Int, close : Int,
           contract : Int \cup {NaN}, r : Int \cup {NaN}]
Historied(days) == days \in Seq(RawDay)

\* The kept days, and what is kept of each.
KeptDays(days) == {d \in DOMAIN days : Kept(days[d], d)}
Datings(days) == [d \in DOMAIN days |-> Dated(days[d], d)]

\* The sessions are the list of the kept days.
LEMMA SessionsDated ==
    ASSUME NEW days, Historied(days)
    PROVE  DatedList(Sessions(days), Datings(days), KeptDays(days))
<1>1. Sessions(days) = Rows(Datings(days), KeptDays(days))
  BY DEF Sessions, Datings, KeptDays
<1>2. FewNumbers(KeptDays(days))
  <2>1. Len(days) \in Nat /\ KeptDays(days) \subseteq 1..Len(days)
    BY DEF KeptDays, Historied
  <2> QED BY <2>1, FewPlaces
<1>3. \A d \in KeptDays(days) : Datings(days)[d].date = d
  BY DEF KeptDays, Datings, Dated
<1> QED BY <1>1, <1>2, <1>3 DEF DatedList

\* The trades: whose days, and what they are.
Taken(s, p) == {i \in DOMAIN s : s[i].r # NaN /\ Admits(s, i, p)}
TradeRows(s, f, K, p) ==
    [d \in K |-> [date |-> d, r |-> f[d].r, atr |-> AtrPrior(s, p.atrDays)[Rank(K, d)]]]

\* The trades of a table are the list of the days that are taken.
LEMMA TradesDated ==
    ASSUME NEW s, NEW f, NEW K, DatedList(s, f, K), NEW p
    PROVE  DatedList(Trades(s, p), TradeRows(s, f, K, p), DatesOf(s, Taken(s, p)))
<1> DEFINE g == [i \in DOMAIN s |-> [date |-> s[i].date, r |-> s[i].r, atr |-> AtrPrior(s, p.atrDays)[i]]]
           h == TradeRows(s, f, K, p)
<1>0. /\ Cardinality(K) \in Nat /\ DOMAIN s = 1..Cardinality(K) /\ FewNumbers(K)
      /\ \A i \in DOMAIN s : s[i].date \in K /\ s[i] = f[s[i].date] /\ Rank(K, s[i].date) = i
      /\ s = Rows(f, K)
  BY DatedIs DEF DatedList
<1>1. DatedList(g, h, K)
  <2>1. \A i \in DOMAIN s : g[i] = h[s[i].date]
    BY <1>0 DEF TradeRows
  <2>2. \A i \in 1..Cardinality(K) : s[i].date = Nth(K, i)
    <3>1. ASSUME NEW i \in 1..Cardinality(K) PROVE s[i].date = Nth(K, i)
      <4>1. s[i] = f[Nth(K, i)] /\ Nth(K, i) \in K
        BY <1>0, RankHasPlace DEF Rows
      <4> QED BY <4>1 DEF DatedList
    <3> QED BY <3>1
  <2>3. \A d \in K : h[d].date = d
    BY DEF TradeRows
  <2> HIDE DEF h
  <2>4. g = [i \in 1..Cardinality(K) |-> g[i]]
    BY <1>0
  <2> HIDE DEF g
  <2>5. g = Rows(h, K)
    BY <1>0, <2>1, <2>2, <2>4 DEF Rows
  <2> QED BY <1>0, <2>3, <2>5 DEF DatedList
<1>2. DOMAIN g = DOMAIN s /\ \A i \in DOMAIN s : g[i].date = s[i].date
  OBVIOUS
<1>3. Trades(s, p) = Rows(g, Taken(s, p))
  BY DEF Trades, Taken
<1>4. Taken(s, p) \subseteq DOMAIN s
  BY DEF Taken
<1>5. DatesOf(g, Taken(s, p)) = DatesOf(s, Taken(s, p))
  BY <1>2, <1>4 DEF DatesOf
<1> HIDE DEF g, h
<1>6. DatedList(Rows(g, Taken(s, p)), h, DatesOf(g, Taken(s, p)))
  BY <1>1, <1>2, <1>4, PickRows
<1> QED BY <1>3, <1>5, <1>6 DEF h

\* A day was taken when its row was.
LEMMA TakenDay ==
    ASSUME NEW s, NEW f, NEW K, DatedList(s, f, K), NEW P, P \subseteq DOMAIN s, NEW d
    PROVE  d \in DatesOf(s, P) <=> d \in K /\ Rank(K, d) \in P
<1>1. \A i \in P : s[i].date \in K /\ Rank(K, s[i].date) = i
  BY DatedIs
<1>2. d \in K => s[Rank(K, d)].date = d
  BY DatedIs
<1> QED BY <1>1, <1>2 DEF DatesOf

\* The rows of a day: one or none.
LEMMA RowsOfDay ==
    ASSUME NEW rows, NEW f, NEW K, DatedList(rows, f, K), NEW d
    PROVE  /\ {t \in ToSet(rows) : t.date = d} = IF d \in K THEN {f[d]} ELSE {}
           /\ Len(Rows(rows, {k \in DOMAIN rows : rows[k].date = d})) = IF d \in K THEN 1 ELSE 0
<1>0. /\ \A i \in DOMAIN rows : rows[i].date \in K /\ rows[i] = f[rows[i].date] /\ Rank(K, rows[i].date) = i
      /\ \A x \in K : Rank(K, x) \in DOMAIN rows /\ rows[Rank(K, x)] = f[x] /\ f[x].date = x
  BY DatedIs
<1>1. {t \in ToSet(rows) : t.date = d} = IF d \in K THEN {f[d]} ELSE {}
  <2>1. ToSet(rows) = {rows[i] : i \in DOMAIN rows}
    BY DEF ToSet
  <2>2. ASSUME NEW t, t \in ToSet(rows), t.date = d PROVE d \in K /\ t = f[d]
    BY <1>0, <2>1, <2>2
  <2>3. d \in K => f[d] \in ToSet(rows) /\ f[d].date = d
    BY <1>0, <2>1
  <2> QED BY <2>2, <2>3
<1> DEFINE P == {k \in DOMAIN rows : rows[k].date = d}
<1>2. P = IF d \in K THEN {Rank(K, d)} ELSE {}
  BY <1>0
<1>3. Cardinality(P) = IF d \in K THEN 1 ELSE 0
  <2> HIDE DEF P
  <2>1. Cardinality({Rank(K, d)}) = 1 /\ Cardinality({}) = 0
    BY FS_EmptySet, FS_Singleton
  <2> QED BY <1>2, <2>1
<1> HIDE DEF P
<1>4. Len(Rows(rows, P)) = Cardinality(P)
  <2> DEFINE c == Cardinality(P)
  <2>1. c \in Nat
    BY <1>3
  <2> HIDE DEF c
  <2>2. Len([k \in 1..c |-> rows[Nth(P, k)]]) = c
    BY <2>1
  <2> QED BY <2>2 DEF Rows, c
<1> QED BY <1>1, <1>3, <1>4 DEF P

\* The days whose trades a gate lets through.
OpenDays(s, signal, threshold) ==
    {s[i].date : i \in {j \in DOMAIN s : signal[j] # NaN /\ signal[j] >= threshold}}
\* The trades a gate passes are those of its open days.
LEMMA PassingDated ==
    ASSUME NEW trades, NEW f, NEW K, DatedList(trades, f, K), NEW s, NEW signal, NEW threshold
    PROVE  DatedList(Passing(trades, s, signal, threshold), f, K \cap OpenDays(s, signal, threshold))
<1> DEFINE open == OpenDays(s, signal, threshold)
           P == {k \in DOMAIN trades : trades[k].date \in open}
<1>1. Passing(trades, s, signal, threshold) = Rows(trades, P)
  BY DEF Passing, OpenDays
<1> HIDE DEF open
<1>2. DatesOf(trades, P) = K \cap open
  <2>1. \A k \in DOMAIN trades : trades[k].date \in K
    BY DatedIs
  <2>2. \A d \in K : Rank(K, d) \in DOMAIN trades /\ trades[Rank(K, d)].date = d
    BY DatedIs
  <2> QED BY <2>1, <2>2 DEF DatesOf
<1>3. P \subseteq DOMAIN trades
  OBVIOUS
<1> HIDE DEF P
<1>4. DatedList(Rows(trades, P), f, DatesOf(trades, P))
  BY <1>3, PickRows
<1> QED BY <1>1, <1>2, <1>4 DEF open

\* Whether a gate lets the trade of a session through.
Opens(spec, shadow, s, i) ==
    spec.family = "unfiltered" \/ (Signal(spec, shadow, s)[i] # NaN /\ Signal(spec, shadow, s)[i] >= Threshold(spec))
\* The trades a gate lets through are those of the days it opens.
LEMMA GatedDated ==
    ASSUME NEW s, NEW f, NEW K, DatedList(s, f, K), NEW shadow, NEW g, NEW L, L \subseteq K, DatedList(shadow, g, L),
           NEW spec
    PROVE  DatedList(GatedTrades(spec, shadow, s), g, {d \in L : Opens(spec, shadow, s, Rank(K, d))})
<1> DEFINE T == {d \in L : Opens(spec, shadow, s, Rank(K, d))}
           signal == Signal(spec, shadow, s)
           open == OpenDays(s, signal, Threshold(spec))
<1>1. CASE spec.family = "unfiltered"
  <2>1. T = L /\ GatedTrades(spec, shadow, s) = shadow
    BY <1>1 DEF Opens, GatedTrades
  <2> HIDE DEF T
  <2>2. DatedList(GatedTrades(spec, shadow, s), g, T)
    BY <2>1
  <2> QED BY <2>2 DEF T
<1>2. CASE spec.family # "unfiltered"
  <2>1. GatedTrades(spec, shadow, s) = Passing(shadow, s, signal, Threshold(spec))
    BY <1>2 DEF GatedTrades
  <2>2. \A d \in K : d \in open <=> signal[Rank(K, d)] # NaN /\ signal[Rank(K, d)] >= Threshold(spec)
    <3> HIDE DEF signal
    <3> DEFINE P == {j \in DOMAIN s : signal[j] # NaN /\ signal[j] >= Threshold(spec)}
    <3>1. open = DatesOf(s, P)
      BY DEF OpenDays, DatesOf
    <3>2. P \subseteq DOMAIN s
      OBVIOUS
    <3> HIDE DEF P, open
    <3>3. \A d : d \in open <=> d \in K /\ Rank(K, d) \in P
      BY <3>1, <3>2, TakenDay
    <3>4. \A d \in K : Rank(K, d) \in DOMAIN s
      BY DatedIs
    <3> QED BY <3>3, <3>4 DEF P
  <2>3. T = L \cap open
    <3> HIDE DEF open
    <3> QED BY <1>2, <2>2 DEF Opens
  <2> HIDE DEF T, signal, open
  <2>4. DatedList(Passing(shadow, s, signal, Threshold(spec)), g, L \cap open)
    BY PassingDated DEF open
  <2> QED BY <2>1, <2>3, <2>4 DEF T
<1> QED BY <1>1, <1>2

-----------------------------------------------------------------------------
(* A day whose morning is the same                                           *)

\* The next of a set stands at the next place.
LEMMA NextRank ==
    ASSUME NEW S, FewNumbers(S), NEW d \in S
    PROVE  Rank(S, d) = Rank(S, d - 1) + 1 /\ Rank(S, d - 1) \in Nat
<1>0. d \in Int /\ IsFiniteSet(S) /\ \A j \in S : j \in Int
  BY DEF FewNumbers
<1>1. UpTo(S, d) = UpTo(S, d - 1) \cup {d} /\ d \notin UpTo(S, d - 1)
  <2>1. \A j \in S : j <= d <=> (j <= d - 1 \/ j = d)
    BY <1>0
  <2>2. ~(d <= d - 1)
    BY <1>0
  <2> QED BY <2>1, <2>2 DEF UpTo
<1>2. IsFiniteSet(UpTo(S, d - 1))
  <2>1. UpTo(S, d - 1) \subseteq S
    BY DEF UpTo
  <2> QED BY <1>0, <2>1, FS_Subset
<1>3. Cardinality(UpTo(S, d - 1) \cup {d}) = Cardinality(UpTo(S, d - 1)) + 1
  BY <1>1, <1>2, FS_AddElement
<1>4. Cardinality(UpTo(S, d - 1)) \in Nat
  BY <1>2, FS_CardinalityType
<1> QED BY <1>1, <1>3, <1>4 DEF Rank

\* Tables that are the same up to a row are the same up to any before it.
LEMMA SameLess ==
    ASSUME NEW s, NEW t, NEW m, SameTo(s, t, m), NEW k \in Nat, k <= m
    PROVE  SameTo(s, t, k)
<1>1. \A i \in 1..k : i \in 1..m
  BY SameToIs
<1>2. PICK a \in Nat, b \in Nat : DOMAIN s = 1..a /\ DOMAIN t = 1..b /\ m <= a /\ m <= b
  BY DEF SameTo
<1>3. k <= a /\ k <= b
  BY <1>2, SameToIs
<1> QED BY <1>1, <1>2, <1>3, SameToIs DEF SameTo

\* What two sessions have in common when their opening ranges are complete.
Alike(a, b) ==
    /\ a.date = b.date /\ a.open = b.open /\ a.orVolume = b.orVolume /\ a.contract = b.contract
    /\ a.r = NaN <=> b.r = NaN
AlikeAt(s, t, m) ==
    SameTo(s, t, m) /\ m + 1 \in DOMAIN s /\ m + 1 \in DOMAIN t /\ Alike(s[m + 1], t[m + 1])
Spans(p) == {p.atrDays, p.volDays, p.volumeDays} \subseteq Nat \ {0}

\* The average is of the days before.
LEMMA PriorAlike ==
    ASSUME NEW s, NEW t, NEW m, AlikeAt(s, t, m), NEW n \in Nat \ {0}
    PROVE  AtrPrior(s, n)[m + 1] = AtrPrior(t, n)[m + 1]
<1>1. SameTo(s, t, m) /\ m + 1 \in DOMAIN s /\ m + 1 \in DOMAIN t
  BY DEF AlikeAt
<1>2. SameTo(Atr(s, n), Atr(t, n), m)
  BY <1>1, SameAtr
<1>3. DOMAIN Atr(s, n) = DOMAIN s /\ DOMAIN Atr(t, n) = DOMAIN t
  <2>1. \E a, b \in Nat : DOMAIN s = 1..a /\ DOMAIN t = 1..b
    BY <1>1 DEF SameTo
  <2>2. DOMAIN Gapped(s, n) = DOMAIN s /\ DOMAIN Gapped(t, n) = DOMAIN t
    BY DEF Gapped
  <2> QED BY <2>1, <2>2, FilledIs, AtrIs
<1> QED BY <1>1, <1>2, <1>3, SameShift DEF AtrPrior

\* So is the percentile of the volatility.
LEMMA VolAlike ==
    ASSUME NEW s, NEW t, NEW m, AlikeAt(s, t, m), NEW n \in Nat \ {0}
    PROVE  VolPercentile(s, n)[m + 1] = VolPercentile(t, n)[m + 1]
<1>1. SameTo(s, t, m) /\ m + 1 \in DOMAIN s /\ m + 1 \in DOMAIN t
  BY DEF AlikeAt
<1>2. SameTo(RealizedVol(s, n), RealizedVol(t, n), m)
  BY <1>1, SameVol
<1>3. SameTo(ExpandingRank(RealizedVol(s, n)), ExpandingRank(RealizedVol(t, n)), m)
  BY <1>2, SameRank
<1>4. /\ DOMAIN ExpandingRank(RealizedVol(s, n)) = DOMAIN s
      /\ DOMAIN ExpandingRank(RealizedVol(t, n)) = DOMAIN t
  BY DEF ExpandingRank, RealizedVol
<1> QED BY <1>1, <1>3, <1>4, SameShift DEF VolPercentile

\* A roll is told in the morning.
LEMMA RollAlike ==
    ASSUME NEW s, NEW t, NEW m, AlikeAt(s, t, m)
    PROVE  /\ IsRoll(s, m + 1) <=> IsRoll(t, m + 1)
           /\ m + 1 > 1 => s[m] = t[m]
<1>1. SameTo(s, t, m) /\ m \in Nat /\ s[m + 1].contract = t[m + 1].contract
  BY SameToIs DEF AlikeAt, Alike
<1>2. m + 1 > 1 => m \in 1..m
  BY <1>1
<1>3. m + 1 > 1 => s[m] = t[m]
  BY <1>1, <1>2, SameToIs
<1>4. (m + 1) - 1 = m
  BY <1>1
<1> QED BY <1>1, <1>3, <1>4 DEF IsRoll

Volumes(s) == [j \in DOMAIN s |-> s[j].orVolume]
\* VolumeHigh, with its column of volumes named.
LEMMA VolumeIs ==
    ASSUME NEW s, NEW i, NEW p
    PROVE  VolumeHigh(s, i, p) <=>
              \/ p.volume = Off
              \/ /\ i > p.volumeDays
                 /\ SumOver(Volumes(s), i - p.volumeDays, i - 1) > 0
                 /\ s[i].orVolume * 100 * p.volumeDays
                      >= p.volume * SumOver(Volumes(s), i - p.volumeDays, i - 1)
BY Zenon DEF VolumeHigh, Volumes

\* The volume of the range is known in the morning, its average before.
LEMMA VolumeAlike ==
    ASSUME NEW s, NEW t, NEW m, AlikeAt(s, t, m), NEW p, Spans(p)
    PROVE  VolumeHigh(s, m + 1, p) <=> VolumeHigh(t, m + 1, p)
<1>1. SameTo(s, t, m) /\ m \in Nat /\ s[m + 1].orVolume = t[m + 1].orVolume /\ p.volumeDays \in Nat \ {0}
  BY SameToIs DEF AlikeAt, Alike, Spans
<1>2. SameTo(Volumes(s), Volumes(t), m)
  <2>1. \A i \in 1..m : Volumes(s)[i] = Volumes(t)[i]
    BY <1>1, SameToIs DEF Volumes
  <2>2. DOMAIN Volumes(s) = DOMAIN s /\ DOMAIN Volumes(t) = DOMAIN t
    BY DEF Volumes
  <2> QED BY <1>1, <2>1, <2>2, SameColumns
<1>3. m + 1 > p.volumeDays =>
        SumOver(Volumes(s), (m + 1) - p.volumeDays, (m + 1) - 1)
          = SumOver(Volumes(t), (m + 1) - p.volumeDays, (m + 1) - 1)
  <2> SUFFICES ASSUME m + 1 > p.volumeDays
               PROVE  SumOver(Volumes(s), (m + 1) - p.volumeDays, (m + 1) - 1)
                        = SumOver(Volumes(t), (m + 1) - p.volumeDays, (m + 1) - 1)
    OBVIOUS
  <2>1. (m + 1) - p.volumeDays \in Int /\ (m + 1) - 1 \in Int /\ 1 <= (m + 1) - p.volumeDays /\ (m + 1) - 1 <= m
    BY <1>1
  <2> QED BY <1>2, <2>1, SameSums
<1> QED BY <1>1, <1>3, VolumeIs

\* A day is admitted on its morning and the days before.
LEMMA AdmitsAlike ==
    ASSUME NEW s, NEW t, NEW m, AlikeAt(s, t, m), NEW p, Spans(p)
    PROVE  /\ AtrPrior(s, p.atrDays)[m + 1] = AtrPrior(t, p.atrDays)[m + 1]
           /\ Admits(s, m + 1, p) <=> Admits(t, m + 1, p)
           /\ m + 1 \in Taken(s, p) <=> m + 1 \in Taken(t, p)
<1>0. /\ m + 1 \in DOMAIN s /\ m + 1 \in DOMAIN t /\ Alike(s[m + 1], t[m + 1])
      /\ p.atrDays \in Nat \ {0} /\ p.volDays \in Nat \ {0} /\ m \in Nat
  BY SameToIs DEF AlikeAt, Spans
<1>1. AtrPrior(s, p.atrDays)[m + 1] = AtrPrior(t, p.atrDays)[m + 1]
  BY <1>0, PriorAlike
<1>2. OnWeekday(s, m + 1, p) <=> OnWeekday(t, m + 1, p)
  BY <1>0 DEF OnWeekday, Alike
<1>3. AtrKnown(s, m + 1, p) <=> AtrKnown(t, m + 1, p)
  BY <1>1 DEF AtrKnown
<1>4. VolHigh(s, m + 1, p) <=> VolHigh(t, m + 1, p)
  <2>1. VolPercentile(s, p.volDays)[m + 1] = VolPercentile(t, p.volDays)[m + 1]
    BY <1>0, VolAlike
  <2> QED BY <2>1 DEF VolHigh
<1>5. GapSmall(s, m + 1, p) <=> GapSmall(t, m + 1, p)
  <2>1. (IsRoll(s, m + 1) <=> IsRoll(t, m + 1)) /\ (m + 1 > 1 => s[m] = t[m]) /\ (m + 1) - 1 = m
    BY <1>0, RollAlike
  <2> QED BY <1>0, <1>1, <2>1 DEF GapSmall, Alike
<1>6. Admits(s, m + 1, p) <=> Admits(t, m + 1, p)
  BY <1>2, <1>3, <1>4, <1>5, VolumeAlike DEF Admits
<1> QED BY <1>0, <1>1, <1>6 DEF Taken, Alike

\* The unfiltered backtest admits every day: its trades are the days that have one.
LEMMA UnfilteredTakes ==
    ASSUME NEW s
    PROVE  Taken(s, Unfiltered) = {i \in DOMAIN s : s[i].r # NaN}
<1>1. \A i : Admits(s, i, Unfiltered)
  BY DEF Admits, Unfiltered, OnWeekday, AtrKnown, VolHigh, VolumeHigh, GapSmall
<1> QED BY <1>1 DEF Taken

Shadow(s) == Trades(s, Unfiltered)
ShadowDays(f, K) == {d \in K : f[d].r # NaN}
\* The shadow is the list of the days that have a trade.
LEMMA ShadowDated ==
    ASSUME NEW s, NEW f, NEW K, DatedList(s, f, K)
    PROVE  /\ DatedList(Shadow(s), TradeRows(s, f, K, Unfiltered), ShadowDays(f, K))
           /\ ShadowDays(f, K) \subseteq K
<1>1. DatesOf(s, Taken(s, Unfiltered)) = ShadowDays(f, K)
  <2>1. Taken(s, Unfiltered) \subseteq DOMAIN s
    BY DEF Taken
  <2>2. \A d : d \in DatesOf(s, Taken(s, Unfiltered)) <=> d \in K /\ Rank(K, d) \in Taken(s, Unfiltered)
    BY <2>1, TakenDay
  <2>3. \A d \in K : Rank(K, d) \in DOMAIN s /\ s[Rank(K, d)] = f[d]
    BY DatedIs
  <2> QED BY <2>2, <2>3, UnfilteredTakes DEF ShadowDays
<1>2. DatedList(Shadow(s), TradeRows(s, f, K, Unfiltered), DatesOf(s, Taken(s, Unfiltered)))
  BY TradesDated DEF Shadow
<1> QED BY <1>1, <1>2 DEF ShadowDays

-----------------------------------------------------------------------------
(* What a backtest decides of a day                                          *)

\* The days that are traded, and those whose trade is replayed, of a table of
\* the days of K.
TradedOf(s, K, d, p) ==
    IF d \in K /\ Rank(K, d) \in Taken(s, p) THEN {AtrPrior(s, p.atrDays)[Rank(K, d)]} ELSE {}
ReplayedOf(s, f, K, d, spec) ==
    IF d \in K THEN {IF f[d].r # NaN /\ Opens(spec, Shadow(s), s, Rank(K, d)) THEN 1 ELSE 0} ELSE {}

\* A list has one row of a day of it.
LEMMA RowOf ==
    ASSUME NEW rows, NEW f, NEW K, DatedList(rows, f, K), NEW d
    PROVE  /\ \A row \in ToSet(rows) : row.date = d => d \in K /\ row = f[d]
           /\ d \in K => f[d] \in ToSet(rows) /\ f[d].date = d
<1>0. /\ \A i \in DOMAIN rows : rows[i].date \in K /\ rows[i] = f[rows[i].date] /\ Rank(K, rows[i].date) = i
      /\ \A x \in K : Rank(K, x) \in DOMAIN rows /\ rows[Rank(K, x)] = f[x] /\ f[x].date = x
  BY DatedIs
<1>1. ToSet(rows) = {rows[i] : i \in DOMAIN rows}
  BY DEF ToSet
<1> QED BY <1>0, <1>1

\* The replayed day of a date.
LEMMA ReplaysOfDay ==
    ASSUME NEW s, NEW f, NEW K, DatedList(s, f, K), NEW trades, NEW g, NEW L, DatedList(trades, g, L), NEW d
    PROVE  {Len(day.r) : day \in {row \in ToSet(ReplayDays(trades, s)) : row.date = d}}
             = IF d \in K THEN {IF d \in L THEN 1 ELSE 0} ELSE {}
<1> DEFINE R == ReplayDays(trades, s)
           Of(e) == Rows(trades, {k \in DOMAIN trades : trades[k].date = e})
<1>1. DOMAIN R = DOMAIN s /\ \A i \in DOMAIN s : R[i] = [date |-> s[i].date, r |-> Of(s[i].date)]
  BY Zenon DEF ReplayDays
<1>2. Len(Of(d)) = IF d \in L THEN 1 ELSE 0
  BY RowsOfDay
<1> HIDE DEF R, Of
<1>3. ToSet(R) = {R[i] : i \in DOMAIN s}
  BY <1>1 DEF ToSet
<1>4. \A i \in DOMAIN s : R[i].date = s[i].date /\ R[i].r = Of(s[i].date)
  BY <1>1
<1>5. ASSUME NEW day \in ToSet(R), day.date = d
      PROVE  d \in K /\ Len(day.r) = IF d \in L THEN 1 ELSE 0
  <2>1. PICK i \in DOMAIN s : day = R[i]
    BY <1>3
  <2>2. s[i].date = d /\ day.r = Of(d)
    BY <1>4, <1>5, <2>1
  <2>3. d \in K
    BY <2>2, DatedIs
  <2> QED BY <1>2, <2>2, <2>3
<1>6. ASSUME d \in K
      PROVE  \E day \in ToSet(R) : day.date = d
  <2>1. Rank(K, d) \in DOMAIN s /\ s[Rank(K, d)].date = d
    BY <1>6, DatedIs
  <2> QED BY <1>3, <1>4, <2>1
<1> DEFINE v == IF d \in L THEN 1 ELSE 0
           A == {row \in ToSet(R) : row.date = d}
<1>7. (\A day \in A : d \in K /\ Len(day.r) = v) /\ (d \in K => A # {})
  BY <1>5, <1>6
<1> HIDE DEF v, A
<1>8. {Len(day.r) : day \in A} = IF d \in K THEN {v} ELSE {}
  BY <1>7
<1> QED BY <1>8 DEF R, A, v

\* They are what Decided says of a day.
LEMMA DecidedIs ==
    ASSUME NEW days, Historied(days), NEW d, NEW s, s = Sessions(days), NEW K, K = KeptDays(days),
           NEW f, f = Datings(days)
    PROVE  Decided(days, d) = [params |-> [p \in FilterParams |-> TradedOf(s, K, d, p)],
                               gates  |-> [spec \in GateSpecs |-> ReplayedOf(s, f, K, d, spec)]]
<1>1. DatedList(s, f, K)
  BY SessionsDated
<1>2. ASSUME NEW p
      PROVE  {t.atr : t \in {row \in ToSet(Trades(s, p)) : row.date = d}} = TradedOf(s, K, d, p)
  <2> DEFINE L == DatesOf(s, Taken(s, p))
             g == TradeRows(s, f, K, p)
  <2>1. DatedList(Trades(s, p), g, L)
    BY <1>1, TradesDated
  <2>2. d \in L <=> d \in K /\ Rank(K, d) \in Taken(s, p)
    <3>1. Taken(s, p) \subseteq DOMAIN s
      BY DEF Taken
    <3> QED BY <1>1, <3>1, TakenDay
  <2>3. d \in K => g[d].atr = AtrPrior(s, p.atrDays)[Rank(K, d)]
    BY DEF TradeRows
  <2> DEFINE rows == Trades(s, p)
             A == {row \in ToSet(rows) : row.date = d}
  <2> HIDE DEF L, g, rows
  <2>4. DatedList(rows, g, L)
    BY <2>1 DEF rows
  <2>5. A = IF d \in L THEN {g[d]} ELSE {}
    <3>1. /\ \A row \in ToSet(rows) : row.date = d => d \in L /\ row = g[d]
          /\ d \in L => g[d] \in ToSet(rows) /\ g[d].date = d
      BY <2>4, RowOf
    <3> QED BY <3>1
  <2> HIDE DEF A
  <2>6. {t.atr : t \in A} = IF d \in L THEN {g[d].atr} ELSE {}
    BY <2>5
  <2> QED BY <2>2, <2>3, <2>6 DEF TradedOf, A, rows
<1>3. ASSUME NEW spec
      PROVE  {Len(day.r) : day \in {row \in ToSet(ReplayDays(GatedTrades(spec, Shadow(s), s), s)) : row.date = d}}
               = ReplayedOf(s, f, K, d, spec)
  <2> DEFINE L == {x \in ShadowDays(f, K) : Opens(spec, Shadow(s), s, Rank(K, x))}
  <2>1. DatedList(GatedTrades(spec, Shadow(s), s), TradeRows(s, f, K, Unfiltered), L)
    BY <1>1, ShadowDated, GatedDated
  <2>2. d \in L <=> d \in K /\ f[d].r # NaN /\ Opens(spec, Shadow(s), s, Rank(K, d))
    BY DEF ShadowDays
  <2> HIDE DEF L
  <2>3. {Len(day.r) : day \in {row \in ToSet(ReplayDays(GatedTrades(spec, Shadow(s), s), s)) : row.date = d}}
          = IF d \in K THEN {IF d \in L THEN 1 ELSE 0} ELSE {}
    BY <1>1, <2>1, ReplaysOfDay
  <2> QED BY <2>2, <2>3 DEF ReplayedOf
<1>4. Decided(days, d) =
        [params |-> [p \in FilterParams |-> {t.atr : t \in {row \in ToSet(Trades(s, p)) : row.date = d}}],
         gates |-> [spec \in GateSpecs |->
           {Len(day.r) : day \in {row \in ToSet(ReplayDays(GatedTrades(spec, Shadow(s), s), s)) : row.date = d}}]]
  BY Zenon DEF Decided, Shadow
<1>5. [p \in FilterParams |-> {t.atr : t \in {row \in ToSet(Trades(s, p)) : row.date = d}}]
        = [p \in FilterParams |-> TradedOf(s, K, d, p)]
  BY <1>2, Zenon
<1>6. [spec \in GateSpecs |->
         {Len(day.r) : day \in {row \in ToSet(ReplayDays(GatedTrades(spec, Shadow(s), s), s)) : row.date = d}}]
        = [spec \in GateSpecs |-> ReplayedOf(s, f, K, d, spec)]
  BY <1>3, Zenon
<1> QED BY <1>4, <1>5, <1>6, Zenon

-----------------------------------------------------------------------------
(* Two histories with the same past                                          *)

\* Two tables that share the days before d, and the morning of d.
SharedTo(s, f, K, t, g, L, d) ==
    /\ DatedList(s, f, K) /\ DatedList(t, g, L) /\ d \in K /\ d \in L
    /\ UpTo(K, d - 1) = UpTo(L, d - 1) /\ \A x \in UpTo(K, d - 1) : f[x] = g[x]
    /\ Alike(f[d], g[d])

\* The day stands at the same place in both, after the rows they share.
LEMMA SharedAlike ==
    ASSUME NEW s, NEW f, NEW K, NEW t, NEW g, NEW L, NEW d, SharedTo(s, f, K, t, g, L, d)
    PROVE  /\ AlikeAt(s, t, Rank(K, d - 1)) /\ Rank(K, d) = Rank(K, d - 1) + 1
           /\ Rank(L, d) = Rank(K, d) /\ d \in Int
           /\ Rank(K, d) \in DOMAIN s /\ Rank(L, d) \in DOMAIN t
           /\ s[Rank(K, d)].date = d /\ t[Rank(K, d)].date = d
<1>0. /\ DatedList(s, f, K) /\ DatedList(t, g, L) /\ d \in K /\ d \in L
      /\ UpTo(K, d - 1) = UpTo(L, d - 1) /\ \A x \in UpTo(K, d - 1) : f[x] = g[x]
      /\ Alike(f[d], g[d])
  BY DEF SharedTo
<1>1. FewNumbers(K) /\ FewNumbers(L) /\ d \in Int /\ d - 1 \in Int
  <2>1. FewNumbers(K) /\ FewNumbers(L)
    BY <1>0, DatedIs
  <2>2. d \in Int
    BY <1>0, <2>1 DEF FewNumbers
  <2> QED BY <2>1, <2>2
<1>2. SameTo(s, t, Rank(K, d - 1)) /\ Rank(L, d - 1) = Rank(K, d - 1)
  BY <1>0, <1>1, SameDated
<1>3. Rank(K, d) = Rank(K, d - 1) + 1 /\ Rank(L, d) = Rank(L, d - 1) + 1
  BY <1>0, <1>1, NextRank
<1>4. /\ Rank(K, d) \in DOMAIN s /\ s[Rank(K, d)] = f[d] /\ f[d].date = d
      /\ Rank(L, d) \in DOMAIN t /\ t[Rank(L, d)] = g[d] /\ g[d].date = d
  BY <1>0, DatedIs
<1> QED BY <1>0, <1>1, <1>2, <1>3, <1>4 DEF AlikeAt

\* The results of a shadow's trades.
Results(shadow) == [k \in DOMAIN shadow |-> shadow[k].r]
\* The signal of a day is of the latest results before it.
LEMMA TrailingIs ==
    ASSUME NEW shadow, NEW s, NEW n, NEW i \in DOMAIN s, NEW d, s[i].date = d
    PROVE  TrailingShadowR(shadow, s, n)[i]
             = IF Cutoff(shadow, d) < n THEN NaN
               ELSE SumOver(Results(shadow), Cutoff(shadow, d) - n + 1, Cutoff(shadow, d))
BY DEF TrailingShadowR, Results

\* It is the same when the trades before are.
LEMMA TrailingAlike ==
    ASSUME NEW a, NEW f, NEW K, DatedList(a, f, K), NEW b, NEW g, NEW L, DatedList(b, g, L), NEW d \in Int,
           UpTo(K, d - 1) = UpTo(L, d - 1), \A x \in UpTo(K, d - 1) : f[x].date = g[x].date /\ f[x].r = g[x].r,
           NEW n \in Nat \ {0}
    PROVE  /\ Cutoff(a, d) = Cutoff(b, d)
           /\ ~(Cutoff(a, d) < n) =>
                 SumOver(Results(a), Cutoff(a, d) - n + 1, Cutoff(a, d))
                   = SumOver(Results(b), Cutoff(a, d) - n + 1, Cutoff(a, d))
<1>1. FewNumbers(K) /\ FewNumbers(L) /\ Cardinality(K) \in Nat /\ Cardinality(L) \in Nat
  BY DatedIs
<1> DEFINE m == Rank(K, d - 1)
<1>2. /\ Rank(L, d - 1) = m
      /\ \A k \in 1..m : Nth(K, k) = Nth(L, k) /\ Nth(K, k) <= d - 1 /\ Nth(K, k) \in K
  <2>1. d - 1 \in Int /\ d - 1 <= d - 1
    OBVIOUS
  <2> QED BY <1>1, <2>1, SamePlaces
<1>3. m \in 0..Cardinality(K) /\ Rank(L, d - 1) \in 0..Cardinality(L)
  <2>1. d - 1 \in Int
    OBVIOUS
  <2> QED BY <1>1, <2>1, RankGrows
<1>4. Cutoff(a, d) = m /\ Cutoff(b, d) = m
  BY <1>2, CutoffIs
<1> HIDE DEF m
<1>5. ASSUME NEW k \in 1..m PROVE Results(a)[k] = Results(b)[k]
  <2>1. DOMAIN a = 1..Cardinality(K) /\ DOMAIN b = 1..Cardinality(L) /\ a = Rows(f, K) /\ b = Rows(g, L)
    BY DEF DatedList, Rows
  <2>2. k \in DOMAIN a /\ k \in DOMAIN b
    BY <1>1, <1>2, <1>3, <2>1
  <2>3. a[k] = f[Nth(K, k)] /\ b[k] = g[Nth(L, k)]
    BY <2>1, <2>2 DEF Rows
  <2>4. Nth(K, k) \in UpTo(K, d - 1)
    BY <1>2 DEF UpTo
  <2> QED BY <1>2, <2>2, <2>3, <2>4 DEF Results
<1>6. SameTo(Results(a), Results(b), m)
  <2>1. DOMAIN Results(a) = 1..Cardinality(K) /\ DOMAIN Results(b) = 1..Cardinality(L)
    BY DEF Results, DatedList, Rows
  <2> QED BY <1>1, <1>2, <1>3, <1>5, <2>1 DEF SameTo
<1>7. ~(m < n) => SumOver(Results(a), m - n + 1, m) = SumOver(Results(b), m - n + 1, m)
  <2> SUFFICES ASSUME ~(m < n) PROVE SumOver(Results(a), m - n + 1, m) = SumOver(Results(b), m - n + 1, m)
    OBVIOUS
  <2>1. m - n + 1 \in Int /\ m \in Int /\ 1 <= m - n + 1 /\ m <= m
    BY <1>1, <1>3
  <2> QED BY <1>6, <2>1, SameSums
<1> QED BY <1>4, <1>7

\* A gate decides on the days before.
LEMMA OpensAlike ==
    ASSUME NEW s, NEW f, NEW K, NEW t, NEW g, NEW L, NEW d, SharedTo(s, f, K, t, g, L, d),
           NEW spec, spec.n \in Nat \ {0}
    PROVE  Opens(spec, Shadow(s), s, Rank(K, d)) <=> Opens(spec, Shadow(t), t, Rank(L, d))
<1> DEFINE i == Rank(K, d)
           m == Rank(K, d - 1)
<1>1. /\ AlikeAt(s, t, m) /\ i = m + 1 /\ Rank(L, d) = i /\ d \in Int
      /\ i \in DOMAIN s /\ i \in DOMAIN t /\ s[i].date = d /\ t[i].date = d
  BY SharedAlike
<1> HIDE DEF i, m
<1>2. SameTo(s, t, m)
  BY <1>1 DEF AlikeAt
<1>3. CASE spec.family = "er"
  <2> DEFINE c == Closes(s)
             e == Closes(t)
  <2>1. SameTo(Efficiency(c, spec.n), Efficiency(e, spec.n), m)
    BY <1>2, SameCloses, SameEr
  <2>2. DOMAIN Efficiency(c, spec.n) = DOMAIN s /\ DOMAIN Efficiency(e, spec.n) = DOMAIN t
    BY DEF Efficiency, Closes
  <2> HIDE DEF c, e
  <2> DEFINE x == Efficiency(c, spec.n)
             y == Efficiency(e, spec.n)
  <2> HIDE DEF x, y
  <2>3. Shift(x)[i] = Shift(y)[i]
    <3>1. SameTo(x, y, m) /\ m + 1 \in DOMAIN x /\ m + 1 \in DOMAIN y
      BY <1>1, <2>1, <2>2 DEF x, y
    <3> QED BY <1>1, <3>1, SameShift
  <2>4. KaufmanEr(c, spec.n)[i] = KaufmanEr(e, spec.n)[i]
    BY <2>3, KaufmanErIs DEF x, y
  <2>5. Signal(spec, Shadow(s), s) = KaufmanEr(c, spec.n) /\ Signal(spec, Shadow(t), t) = KaufmanEr(e, spec.n)
    BY <1>3 DEF Signal, c, e
  <2> QED BY <1>1, <2>4, <2>5 DEF Opens, i
<1>4. CASE spec.family # "er"
  <2> DEFINE F == TradeRows(s, f, K, Unfiltered)
             G == TradeRows(t, g, L, Unfiltered)
             A == ShadowDays(f, K)
             B == ShadowDays(g, L)
  <2>1. DatedList(Shadow(s), F, A) /\ DatedList(Shadow(t), G, B)
    BY ShadowDated DEF SharedTo
  <2>2. UpTo(A, d - 1) = UpTo(B, d - 1)
    <3>1. UpTo(K, d - 1) = UpTo(L, d - 1) /\ \A x \in UpTo(K, d - 1) : f[x] = g[x]
      BY DEF SharedTo
    <3>2. UpTo(A, d - 1) = {x \in UpTo(K, d - 1) : f[x].r # NaN}
      BY DEF UpTo, ShadowDays
    <3>3. UpTo(B, d - 1) = {x \in UpTo(L, d - 1) : g[x].r # NaN}
      BY DEF UpTo, ShadowDays
    <3> QED BY <3>1, <3>2, <3>3
  <2>3. ASSUME NEW x \in UpTo(A, d - 1)
        PROVE  F[x].date = G[x].date /\ F[x].r = G[x].r
    <3>1. x \in UpTo(K, d - 1) /\ x \in UpTo(L, d - 1)
      BY <2>2 DEF UpTo, ShadowDays
    <3>2. x \in K /\ x \in L /\ f[x] = g[x]
      BY <3>1 DEF SharedTo, UpTo
    <3> QED BY <3>2 DEF TradeRows
  <2> HIDE DEF F, G, A, B
  <2> DEFINE a == Shadow(s)
             b == Shadow(t)
  <2>4. /\ Cutoff(a, d) = Cutoff(b, d)
        /\ ~(Cutoff(a, d) < spec.n) =>
              SumOver(Results(a), Cutoff(a, d) - spec.n + 1, Cutoff(a, d))
                = SumOver(Results(b), Cutoff(a, d) - spec.n + 1, Cutoff(a, d))
    BY <1>1, <2>1, <2>2, <2>3, TrailingAlike
  <2> HIDE DEF a, b
  <2>5. TrailingShadowR(a, s, spec.n)[i] = TrailingShadowR(b, t, spec.n)[i]
    BY <1>1, <2>4, TrailingIs
  <2>6. Signal(spec, a, s) = TrailingShadowR(a, s, spec.n) /\ Signal(spec, b, t) = TrailingShadowR(b, t, spec.n)
    BY <1>4 DEF Signal
  <2> QED BY <1>1, <2>5, <2>6 DEF Opens, i, a, b
<1> QED BY <1>3, <1>4

-----------------------------------------------------------------------------
\* What a day shows when its opening range is complete.
SameMorning(a, b) ==
    /\ a.bars = b.bars /\ a.open = b.open /\ a.orVolume = b.orVolume /\ a.contract = b.contract
    /\ a.r = NaN <=> b.r = NaN
SamePast(days, other, d) ==
    /\ d \in DOMAIN days /\ d \in DOMAIN other /\ SameMorning(days[d], other[d])
    /\ \A x \in 1..d - 1 : days[x] = other[x]

\* The tables of two such histories share as much.
LEMMA PastShared ==
    ASSUME NEW days, Historied(days), NEW other, Historied(other), NEW d, SamePast(days, other, d)
    PROVE  /\ d \in KeptDays(days) <=> d \in KeptDays(other)
           /\ d \in KeptDays(days) =>
                SharedTo(Sessions(days), Datings(days), KeptDays(days),
                         Sessions(other), Datings(other), KeptDays(other), d)
<1> DEFINE K == KeptDays(days)
           L == KeptDays(other)
           f == Datings(days)
           g == Datings(other)
<1>0. /\ d \in DOMAIN days /\ d \in DOMAIN other /\ SameMorning(days[d], other[d])
      /\ \A x \in 1..d - 1 : days[x] = other[x]
      /\ DOMAIN days = 1..Len(days) /\ DOMAIN other = 1..Len(other) /\ Len(days) \in Nat /\ Len(other) \in Nat
  BY DEF SamePast, Historied
<1>1. \A x \in 1..d - 1 : x \in DOMAIN days /\ x \in DOMAIN other
  BY <1>0
<1>2. \A x \in DOMAIN days : x <= d - 1 => x \in 1..d - 1
  BY <1>0
<1>3. \A x \in DOMAIN other : x <= d - 1 => x \in 1..d - 1
  BY <1>0
<1>4. d \in K <=> d \in L
  BY <1>0 DEF KeptDays, Kept, SameMorning
<1>5. UpTo(K, d - 1) = UpTo(L, d - 1)
  <2>1. \A x : x \in UpTo(K, d - 1) <=> x \in 1..d - 1 /\ Kept(days[x], x)
    <3>1. \A x \in 1..d - 1 : x <= d - 1
      BY <1>0
    <3> QED BY <1>1, <1>2, <3>1 DEF UpTo, KeptDays
  <2>2. \A x : x \in UpTo(L, d - 1) <=> x \in 1..d - 1 /\ Kept(other[x], x)
    <3>1. \A x \in 1..d - 1 : x <= d - 1
      BY <1>0
    <3> QED BY <1>1, <1>3, <3>1 DEF UpTo, KeptDays
  <2> HIDE DEF K, L
  <2> QED BY <1>0, <2>1, <2>2
<1>6. ASSUME NEW x \in UpTo(K, d - 1) PROVE f[x] = g[x]
  <2>1. x \in DOMAIN days /\ x <= d - 1
    BY DEF UpTo, KeptDays
  <2>2. x \in 1..d - 1
    BY <1>2, <2>1
  <2> QED BY <1>0, <1>1, <2>2 DEF Datings
<1>7. Alike(f[d], g[d])
  BY <1>0 DEF Datings, Dated, Alike, SameMorning
<1> QED BY <1>4, <1>5, <1>6, <1>7, SessionsDated DEF SharedTo

\* What is decided of a day is decided by the days before and by its morning.
LEMMA DecidedAlike ==
    ASSUME NEW days, Historied(days), NEW other, Historied(other), NEW d, SamePast(days, other, d)
    PROVE  Decided(days, d) = Decided(other, d)
<1> DEFINE s == Sessions(days)
           f == Datings(days)
           K == KeptDays(days)
           t == Sessions(other)
           g == Datings(other)
           L == KeptDays(other)
<1>1. (d \in K <=> d \in L) /\ (d \in K => SharedTo(s, f, K, t, g, L, d))
  BY PastShared
<1>2. /\ Decided(days, d) = [params |-> [p \in FilterParams |-> TradedOf(s, K, d, p)],
                             gates  |-> [spec \in GateSpecs |-> ReplayedOf(s, f, K, d, spec)]]
      /\ Decided(other, d) = [params |-> [p \in FilterParams |-> TradedOf(t, L, d, p)],
                              gates  |-> [spec \in GateSpecs |-> ReplayedOf(t, g, L, d, spec)]]
  BY DecidedIs
<1> HIDE DEF s, f, K, t, g, L
<1>3. ASSUME NEW p \in FilterParams PROVE TradedOf(s, K, d, p) = TradedOf(t, L, d, p)
  <2>1. CASE d \notin K
    BY <1>1, <2>1 DEF TradedOf
  <2>2. CASE d \in K
    <3>1. AlikeAt(s, t, Rank(K, d - 1)) /\ Rank(K, d) = Rank(K, d - 1) + 1 /\ Rank(L, d) = Rank(K, d)
      BY <1>1, <2>2, SharedAlike
    <3>2. Spans(p)
      BY DEF Spans
    <3>3. /\ AtrPrior(s, p.atrDays)[Rank(K, d)] = AtrPrior(t, p.atrDays)[Rank(K, d)]
          /\ Rank(K, d) \in Taken(s, p) <=> Rank(K, d) \in Taken(t, p)
      BY <3>1, <3>2, AdmitsAlike
    <3> QED BY <1>1, <3>1, <3>3 DEF TradedOf
  <2> QED BY <2>1, <2>2
<1>4. ASSUME NEW spec \in GateSpecs PROVE ReplayedOf(s, f, K, d, spec) = ReplayedOf(t, g, L, d, spec)
  <2>1. CASE d \notin K
    BY <1>1, <2>1 DEF ReplayedOf
  <2>2. CASE d \in K
    <3>1. SharedTo(s, f, K, t, g, L, d)
      BY <1>1, <2>2
    <3>2. Opens(spec, Shadow(s), s, Rank(K, d)) <=> Opens(spec, Shadow(t), t, Rank(L, d))
      BY <3>1, OpensAlike
    <3>3. f[d].r = NaN <=> g[d].r = NaN
      BY <3>1 DEF SharedTo, Alike
    <3> QED BY <1>1, <2>2, <3>2, <3>3 DEF ReplayedOf
  <2> QED BY <2>1, <2>2
<1> QED BY <1>2, <1>3, <1>4, Zenon

-----------------------------------------------------------------------------
(* No lookahead                                                              *)

DaysInv ==
    /\ raw \in Seq(RawDays)
    /\ Len(atOpen) = Len(raw) /\ \E S : atOpen \in Seq(S)
    /\ NoLookahead

\* A day with other prices and another end is a day.
LEMMA ChangedDay ==
    ASSUME NEW day \in RawDay, NEW h \in Int, NEW l \in Int, NEW c \in Int, NEW r \in Int \cup {NaN}
    PROVE  [day EXCEPT !.high = h, !.low = l, !.close = c, !.r = r] \in RawDay
<1> DEFINE u == [day EXCEPT !.high = h, !.low = l]
           v == [u EXCEPT !.close = c, !.r = r]
<1>1. u \in RawDay
  BY DEF RawDay
<1> HIDE DEF u
<1>2. v \in RawDay
  BY <1>1 DEF RawDay
<1>3. v = [day EXCEPT !.high = h, !.low = l, !.close = c, !.r = r]
  BY Zenon DEF u
<1> QED BY <1>2, <1>3

\* A veiled day shows the same morning.
LEMMA VeiledMorning ==
    ASSUME NEW day \in RawDay
    PROVE  Veiled(day) \in RawDay /\ SameMorning(Veiled(day), day)
<1>1. day.open \in Int /\ day.high \in Int /\ (day.r = NaN \/ day.r \in Int)
  BY DEF RawDay
<1> DEFINE r == IF day.r = NaN THEN NaN ELSE day.r - 50
<1>2. r \in Int \cup {NaN} /\ (r = NaN <=> day.r = NaN)
  BY <1>1
<1> HIDE DEF r
<1>3. Veiled(day) = [day EXCEPT !.high = day.high + 900, !.low = day.open, !.close = day.open + 700, !.r = r]
  BY DEF Veiled, RawDay, r
<1> DEFINE h == day.high + 900
           c == day.open + 700
           v == [day EXCEPT !.high = h, !.low = day.open, !.close = c, !.r = r]
<1>4. h \in Int /\ c \in Int
  BY <1>1
<1> HIDE DEF h, c
<1>5. v \in RawDay
  BY <1>1, <1>2, <1>4, ChangedDay
<1>6. SameMorning(v, day)
  BY <1>1, <1>2 DEF RawDay, SameMorning
<1> HIDE DEF v
<1>7. Veiled(day) = v
  BY <1>3 DEF v, h, c
<1> QED BY <1>5, <1>6, <1>7

\* A history and another day.
LEMMA Longer ==
    ASSUME NEW days, Historied(days), NEW day \in RawDay
    PROVE  /\ Historied(Append(days, day)) /\ DOMAIN Append(days, day) = 1..Len(days) + 1 /\ Len(days) \in Nat
           /\ DOMAIN days = 1..Len(days) /\ Len(Append(days, day)) = Len(days) + 1
           /\ \A d \in 1..Len(days) : Append(days, day)[d] = days[d]
           /\ Append(days, day)[Len(days) + 1] = day
<1> HIDE DEF RawDay
<1> QED BY DEF Historied

\* Two mornings after one past.
LEMMA SameMorningDecides ==
    ASSUME NEW days, Historied(days), NEW day \in RawDay, NEW other \in RawDay, SameMorning(day, other)
    PROVE  Decided(Append(days, day), Len(days) + 1) = Decided(Append(days, other), Len(days) + 1)
<1> DEFINE a == Append(days, day)
           b == Append(days, other)
           d == Len(days) + 1
<1>1. /\ Historied(a) /\ DOMAIN a = 1..d /\ (\A x \in 1..Len(days) : a[x] = days[x]) /\ a[d] = day
      /\ Historied(b) /\ DOMAIN b = 1..d /\ (\A x \in 1..Len(days) : b[x] = days[x]) /\ b[d] = other
      /\ Len(days) \in Nat
  BY Longer
<1> HIDE DEF a, b
<1>2. d \in 1..d /\ 1..d - 1 = 1..Len(days)
  BY <1>1
<1>3. SamePast(a, b, d)
  BY <1>1, <1>2 DEF SamePast
<1> HIDE DEF d
<1>4. Decided(a, d) = Decided(b, d)
  BY <1>1, <1>3, DecidedAlike
<1> QED BY <1>4 DEF a, b, d

\* A day that follows decides nothing of those before.
LEMMA LaterDecidesNothing ==
    ASSUME NEW days, Historied(days), NEW day \in RawDay, NEW d \in 1..Len(days)
    PROVE  Decided(Append(days, day), d) = Decided(days, d)
<1> DEFINE a == Append(days, day)
<1>1. /\ Historied(a) /\ DOMAIN a = 1..Len(days) + 1 /\ (\A x \in 1..Len(days) : a[x] = days[x])
      /\ Len(days) \in Nat /\ DOMAIN days = 1..Len(days)
  BY Longer
<1> HIDE DEF a
<1>2. d \in DOMAIN a /\ d \in DOMAIN days /\ \A x \in 1..d - 1 : x \in 1..Len(days)
  BY <1>1
<1>3. SamePast(a, days, d)
  BY <1>1, <1>2 DEF SamePast, SameMorning
<1> QED BY <1>1, <1>3, DecidedAlike DEF a

\* No day has been decided yet.
LEMMA DaysInvInit == DaysInit => DaysInv
<1> SUFFICES ASSUME DaysInit PROVE DaysInv
  OBVIOUS
<1>1. raw = <<>> /\ atOpen = <<>>
  BY DEF DaysInit
<1>2. raw \in Seq(RawDays) /\ DOMAIN raw = 1..0 /\ Len(atOpen) = Len(raw) /\ atOpen \in Seq({})
  BY <1>1
<1>3. \A d \in 1..0 : FALSE
  OBVIOUS
<1> QED BY <1>2, <1>3 DEF DaysInv, NoLookahead

\* Another day decides nothing anew of those before, and is decided as it was on its morning.
LEMMA DaysInvStep == DaysInv /\ [NextDay]_dayVars => DaysInv'
<1> SUFFICES ASSUME DaysInv, [NextDay]_dayVars PROVE DaysInv'
  OBVIOUS
<1>0. /\ raw \in Seq(RawDays) /\ Len(atOpen) = Len(raw) /\ \E S : atOpen \in Seq(S)
      /\ \A d \in DOMAIN raw : Decided(raw, d) = atOpen[d]
  BY DEF DaysInv, NoLookahead
<1>1. Historied(raw) /\ RawDays \subseteq RawDay
  <2>1. RawDays \subseteq RawDay
    BY DEF RawDay
  <2> HIDE DEF RawDay
  <2> QED BY <1>0, <2>1 DEF Historied
<1>2. CASE UNCHANGED dayVars
  BY <1>0, <1>2 DEF dayVars, DaysInv, NoLookahead
<1>3. CASE NextDay
  <2>1. PICK day \in RawDays :
          /\ raw' = Append(raw, day)
          /\ atOpen' = Append(atOpen, Decided(Append(raw, Veiled(day)), Len(raw) + 1))
    BY <1>3 DEF NextDay
  <2>2. day \in RawDay /\ Veiled(day) \in RawDay /\ SameMorning(Veiled(day), day)
    BY <1>1, VeiledMorning
  <2> DEFINE v == Decided(Append(raw, Veiled(day)), Len(raw) + 1)
  <2>3. v = Decided(Append(raw, day), Len(raw) + 1)
    BY <1>1, <2>2, SameMorningDecides
  <2> HIDE DEF v
  <2>4. /\ DOMAIN raw' = 1..Len(raw) + 1 /\ Len(raw') = Len(raw) + 1 /\ Len(raw) \in Nat
        /\ DOMAIN raw = 1..Len(raw)
    BY <1>1, <2>1, <2>2, Longer
  <2>5. /\ atOpen' = Append(atOpen, v) /\ Len(atOpen') = Len(raw) + 1 /\ \E T : atOpen' \in Seq(T)
        /\ atOpen'[Len(raw) + 1] = v /\ \A d \in 1..Len(raw) : atOpen'[d] = atOpen[d]
    <3>1. atOpen' = Append(atOpen, v)
      BY <2>1 DEF v
    <3>2. PICK S : atOpen \in Seq(S)
      BY <1>0
    <3>3. atOpen \in Seq(S \cup {v})
      BY <3>2
    <3>4. Append(atOpen, v) \in Seq(S \cup {v})
      BY <3>3
    <3>5. /\ Len(Append(atOpen, v)) = Len(atOpen) + 1 /\ Append(atOpen, v)[Len(atOpen) + 1] = v
          /\ \A d \in 1..Len(atOpen) : Append(atOpen, v)[d] = atOpen[d]
      BY <3>3
    <3> QED BY <1>0, <3>1, <3>4, <3>5
  <2>6. ASSUME NEW d \in 1..Len(raw) + 1 PROVE Decided(raw', d) = atOpen'[d]
    <3>1. CASE d = Len(raw) + 1
      BY <2>1, <2>3, <2>5, <3>1
    <3>2. CASE d # Len(raw) + 1
      <4>1. d \in 1..Len(raw)
        BY <2>4, <3>2
      <4>2. Decided(Append(raw, day), d) = Decided(raw, d)
        BY <1>1, <2>2, <4>1, LaterDecidesNothing
      <4> QED BY <1>0, <2>1, <2>4, <2>5, <3>2, <4>1, <4>2
    <3> QED BY <3>1, <3>2
  <2>7. raw' \in Seq(RawDays)
    BY <1>0, <2>1
  <2>8. Len(atOpen') = Len(raw') /\ \E S : atOpen' \in Seq(S)
    BY <2>4, <2>5
  <2>9. NoLookahead'
    BY <2>4, <2>6 DEF NoLookahead
  <2> QED BY <2>7, <2>8, <2>9 DEF DaysInv
<1> QED BY <1>2, <1>3

-----------------------------------------------------------------------------
(* What begins later                                                         *)

\* The numbers of S from w on.
From(S, w) == {x \in S : w <= x}

\* They stand as many places earlier as there are numbers before w.
LEMMA LaterPlaces ==
    ASSUME NEW S, FewNumbers(S), NEW w \in Int
    PROVE  /\ FewNumbers(From(S, w)) /\ Rank(S, w - 1) \in Nat /\ Cardinality(From(S, w)) \in Nat
           /\ \A d \in Int : w - 1 <= d => Rank(S, d) = Rank(From(S, w), d) + Rank(S, w - 1)
           /\ Cardinality(S) = Cardinality(From(S, w)) + Rank(S, w - 1)
           /\ \A x \in From(S, w) : Rank(S, x) = Rank(From(S, w), x) + Rank(S, w - 1)
<1> DEFINE T == From(S, w)
           B == UpTo(S, w - 1)
<1>0. /\ \A j \in S : j \in Int
      /\ IsFiniteSet(S) /\ S \subseteq Int
  BY DEF FewNumbers
<1>1. T \subseteq S /\ B \subseteq S /\ \A j \in S : j \in T <=> j \notin B
  <2>1. \A j \in S : w <= j <=> ~(j <= w - 1)
    BY <1>0
  <2> QED BY <2>1 DEF From, UpTo
<1> HIDE DEF T
<1>2. FewNumbers(T) /\ IsFiniteSet(B) /\ Cardinality(T) \in Nat /\ Cardinality(B) \in Nat
  <2>1. IsFiniteSet(T) /\ IsFiniteSet(B)
    BY <1>0, <1>1, FS_Subset
  <2> QED BY <1>0, <1>1, <2>1, FS_CardinalityType DEF FewNumbers
<1>3. ASSUME NEW A, A \subseteq T
      PROVE  Cardinality(B \cup A) = Cardinality(A) + Cardinality(B)
  <2>1. IsFiniteSet(A) /\ B \cap A = {}
    BY <1>1, <1>2, <1>3, FS_Subset DEF FewNumbers
  <2>2. Cardinality(B \cup A) = Cardinality(B) + Cardinality(A) - Cardinality(B \cap A)
    BY <1>2, <2>1, FS_Union
  <2>3. Cardinality(B \cap A) = 0 /\ Cardinality(A) \in Nat
    BY <2>1, FS_EmptySet, FS_CardinalityType
  <2> QED BY <1>2, <2>2, <2>3
<1>4. ASSUME NEW d \in Int, w - 1 <= d
      PROVE  Rank(S, d) = Rank(T, d) + Rank(S, w - 1)
  <2>1. UpTo(S, d) = B \cup UpTo(T, d)
    <3>1. \A j \in S : j <= w - 1 => j <= d
      BY <1>0, <1>4
    <3>2. \A j \in S : j \in UpTo(S, d) <=> (j \in B \/ (j \in T /\ j <= d))
      <4>1. \A j \in S : j \in B <=> j <= w - 1
        BY DEF UpTo
      <4>2. \A j \in S : j \in UpTo(S, d) <=> j <= d
        BY DEF UpTo
      <4> HIDE DEF B
      <4> QED BY <1>1, <3>1, <4>1, <4>2
    <3>3. UpTo(S, d) \subseteq S /\ \A j : j \in UpTo(T, d) <=> j \in T /\ j <= d
      BY DEF UpTo
    <3> HIDE DEF B
    <3> QED BY <1>1, <3>2, <3>3
  <2>2. UpTo(T, d) \subseteq T
    BY DEF UpTo
  <2> QED BY <1>3, <2>1, <2>2 DEF Rank
<1>5. Cardinality(S) = Cardinality(T) + Cardinality(B)
  <2>1. S = B \cup T
    BY <1>1
  <2> QED BY <1>3, <2>1
<1>6. \A x \in T : Rank(S, x) = Rank(T, x) + Rank(S, w - 1)
  <2>1. \A x \in T : x \in Int /\ w <= x
    BY <1>0 DEF T, From
  <2>2. \A x \in T : x \in Int /\ w - 1 <= x
    BY <2>1
  <2> QED BY <1>4, <2>2
<1> QED BY <1>2, <1>4, <1>5, <1>6 DEF T, Rank

\* A list that begins later holds the same days, as many places earlier.
LEMMA LaterList ==
    ASSUME NEW s, NEW f, NEW S, DatedList(s, f, S), NEW t, NEW g, NEW w \in Int, DatedList(t, g, From(S, w))
    PROVE  \A k \in DOMAIN t :
              /\ k + Rank(S, w - 1) \in DOMAIN s /\ t[k].date \in From(S, w)
              /\ s[k + Rank(S, w - 1)] = f[t[k].date] /\ t[k] = g[t[k].date]
<1>1. FewNumbers(S)
  BY DatedIs
<1> SUFFICES ASSUME NEW k \in DOMAIN t
             PROVE  /\ k + Rank(S, w - 1) \in DOMAIN s /\ t[k].date \in From(S, w)
                    /\ s[k + Rank(S, w - 1)] = f[t[k].date] /\ t[k] = g[t[k].date]
  OBVIOUS
<1>2. t[k].date \in From(S, w) /\ Rank(From(S, w), t[k].date) = k /\ t[k] = g[t[k].date]
  BY DatedIs
<1>3. Rank(S, t[k].date) = k + Rank(S, w - 1)
  <2>1. \A x \in From(S, w) : Rank(S, x) = Rank(From(S, w), x) + Rank(S, w - 1)
    BY <1>1, LaterPlaces
  <2> QED BY <1>2, <2>1
<1>4. t[k].date \in S
  BY <1>2 DEF From
<1>5. Rank(S, t[k].date) \in DOMAIN s /\ s[Rank(S, t[k].date)] = f[t[k].date]
  BY <1>4, DatedIs
<1> QED BY <1>2, <1>3, <1>5

-----------------------------------------------------------------------------
(* Windows of two columns                                                    *)

\* Sums over windows with the same rows, z further on.
LEMMA LaterSums ==
    ASSUME NEW c, NEW e, NEW z \in Int, NEW from \in Int, NEW to \in Int,
           \A j \in from..to : c[j] = e[j + z]
    PROVE  SumOver(c, from, to) = SumOver(e, from + z, to + z)
<1>1. (to + z) - (from + z) + 1 = to - from + 1
  OBVIOUS
<1>2. ASSUME NEW k \in 1..to - from + 1
      PROVE  c[from + k - 1] = e[(from + z) + k - 1]
  <2>1. from + k - 1 \in from..to /\ (from + k - 1) + z = (from + z) + k - 1
    OBVIOUS
  <2> QED BY <2>1
<1>3. [k \in 1..to - from + 1 |-> c[from + k - 1]]
        = [k \in 1..(to + z) - (from + z) + 1 |-> e[(from + z) + k - 1]]
  BY <1>1, <1>2
<1> QED BY <1>3 DEF SumOver

\* So of the rolling sums.
LEMMA LaterRolling ==
    ASSUME NEW c, NEW e, NEW z \in Nat, NEW n \in Nat \ {0}, NEW k \in Int, k \in DOMAIN c, k + z \in DOMAIN e,
           n <= k, \A j \in k - n + 1..k : c[j] = e[j + z]
    PROVE  Rolling(c, n)[k] = Rolling(e, n)[k + z]
<1>1. SumOver(c, k - n + 1, k) = SumOver(e, (k - n + 1) + z, k + z)
  <2> DEFINE from == k - n + 1
  <2>1. from \in Int /\ k \in Int /\ z \in Int
    OBVIOUS
  <2>2. \A j \in from..k : c[j] = e[j + z]
    OBVIOUS
  <2> HIDE DEF from
  <2>3. SumOver(c, from, k) = SumOver(e, from + z, k + z)
    BY <2>1, <2>2, LaterSums
  <2> QED BY <2>3 DEF from
<1>2. (k - n + 1) + z = (k + z) - n + 1 /\ ~(k < n) /\ ~(k + z < n)
  OBVIOUS
<1>3. (\E j \in k - n + 1..k : c[j] = NaN) <=> (\E j \in (k + z) - n + 1..k + z : e[j] = NaN)
  <2>1. ASSUME NEW j \in k - n + 1..k, c[j] = NaN
        PROVE  \E i \in (k + z) - n + 1..k + z : e[i] = NaN
    <3>1. j + z \in (k + z) - n + 1..k + z
      OBVIOUS
    <3> QED BY <2>1, <3>1
  <2>2. ASSUME NEW i \in (k + z) - n + 1..k + z, e[i] = NaN
        PROVE  \E j \in k - n + 1..k : c[j] = NaN
    <3>1. i - z \in k - n + 1..k /\ (i - z) + z = i
      OBVIOUS
    <3> QED BY <2>2, <3>1
  <2> QED BY <2>1, <2>2
<1>4. Rolling(c, n)[k] = IF \E j \in k - n + 1..k : c[j] = NaN THEN NaN ELSE SumOver(c, k - n + 1, k)
  BY <1>2 DEF Rolling
<1>5. Rolling(e, n)[k + z] = IF \E j \in (k + z) - n + 1..k + z : e[j] = NaN THEN NaN
                             ELSE SumOver(e, (k + z) - n + 1, k + z)
  BY <1>2 DEF Rolling
<1> QED BY <1>1, <1>2, <1>3, <1>4, <1>5

\* Once there are n days before, the efficiency of the closes is the same
\* however far back they go.
LEMMA LaterEr ==
    ASSUME NEW c, NEW a \in Nat, DOMAIN c = 1..a, NEW e, NEW b \in Nat, DOMAIN e = 1..b, NEW z \in Nat,
           NEW n \in Nat \ {0}, NEW k \in 1..a, n < k, k + z \in 1..b, \A j \in 1..k : c[j] = e[j + z]
    PROVE  Efficiency(c, n)[k] = Efficiency(e, n)[k + z]
<1>1. ASSUME NEW j \in k - n + 1..k
      PROVE  Changes(c)[j] = Changes(e)[j + z]
  <2>1. j \in 1..a /\ j # 1 /\ j \in 1..k /\ j - 1 \in 1..k /\ j + z \in 1..b /\ j + z # 1 /\ (j - 1) + z = (j + z) - 1
    OBVIOUS
  <2>2. c[j] = e[j + z] /\ c[j - 1] = e[(j + z) - 1]
    BY <2>1
  <2> QED BY <2>1, <2>2 DEF Changes
<1>2. DOMAIN Changes(c) = 1..a /\ DOMAIN Changes(e) = 1..b
  BY DEF Changes
<1>3. Rolling(Changes(c), n)[k] = Rolling(Changes(e), n)[k + z]
  <2>1. k \in Int /\ n <= k /\ k \in DOMAIN Changes(c) /\ k + z \in DOMAIN Changes(e)
    BY <1>2
  <2> QED BY <1>1, <2>1, LaterRolling
<1>4. c[k] = e[k + z] /\ c[k - n] = e[(k + z) - n]
  <2>1. k \in 1..k /\ k - n \in 1..k /\ (k - n) + z = (k + z) - n
    OBVIOUS
  <2> QED BY <2>1
<1> QED BY <1>3, <1>4 DEF Efficiency

-----------------------------------------------------------------------------
(* The folds                                                                 *)

\* The dates of a list are the days it is of.
LEMMA DatesAre ==
    ASSUME NEW rows, NEW f, NEW K, DatedList(rows, f, K)
    PROVE  {t.date : t \in ToSet(rows)} = K
<1>1. /\ \A i \in DOMAIN rows : rows[i].date \in K
      /\ \A x \in K : Rank(K, x) \in DOMAIN rows /\ rows[Rank(K, x)] = f[x] /\ f[x].date = x
  BY DatedIs
<1>2. ToSet(rows) = {rows[i] : i \in DOMAIN rows}
  BY DEF ToSet
<1>3. \A t \in ToSet(rows) : t.date \in K
  BY <1>1, <1>2
<1>4. \A x \in K : \E t \in ToSet(rows) : t.date = x
  BY <1>1, <1>2
<1> QED BY <1>3, <1>4

\* A window to the end holds the days from its first.
LEMMA WindowList ==
    ASSUME NEW rows, NEW f, NEW K, DatedList(rows, f, K), NEW from \in Int, NEW to \in Int, \A x \in K : x < to
    PROVE  DatedList(InWindow(rows, from, to), f, From(K, from))
<1> DEFINE P == {i \in DOMAIN rows : from <= rows[i].date /\ rows[i].date < to}
<1>1. InWindow(rows, from, to) = Rows(rows, P)
  BY DEF InWindow
<1>2. P \subseteq DOMAIN rows
  OBVIOUS
<1>3. DatesOf(rows, P) = From(K, from)
  <2>1. \A i \in DOMAIN rows : rows[i].date \in K
    BY DatedIs
  <2>2. \A d \in K : Rank(K, d) \in DOMAIN rows /\ rows[Rank(K, d)].date = d
    BY DatedIs
  <2> QED BY <2>1, <2>2 DEF DatesOf, From
<1> HIDE DEF P
<1>4. DatedList(Rows(rows, P), f, DatesOf(rows, P))
  BY <1>2, PickRows
<1> QED BY <1>1, <1>3, <1>4

\* What a fold is of.
LEMMA FoldIs ==
    ASSUME Historied(raw), NEW fold \in Folds
    PROVE  /\ fold.warmup \in Int /\ fold.oosStart \in Int /\ fold.warmup <= fold.oosStart
           /\ fold.oosEnd = Len(raw) + 1 /\ fold.oosEnd \in Int
           /\ \A x \in KeptDays(raw) : x \in Int /\ x < fold.oosEnd
<1>1. Len(raw) \in Nat /\ DOMAIN raw = 1..Len(raw)
  BY DEF Historied
<1>2. fold \in [warmup : DOMAIN raw, oosStart : DOMAIN raw, oosEnd : {Len(raw) + 1}] /\ fold.warmup <= fold.oosStart
  BY DEF Folds
<1>3. KeptDays(raw) \subseteq DOMAIN raw
  BY DEF KeptDays
<1> QED BY <1>1, <1>2, <1>3

\* The lists a fold is made of.
LEMMA FoldLists ==
    ASSUME Historied(raw), NEW fold \in Folds,
           NEW f, f = Datings(raw), NEW K, K = KeptDays(raw), NEW A, A = From(K, fold.warmup),
           NEW all, all = FoldSessions(fold), NEW g, g = TradeRows(all, f, A, Unfiltered)
    PROVE  /\ DatedList(all, f, A)
           /\ DatedList(ShadowTrades(fold), g, ShadowDays(f, A)) /\ ShadowTrades(fold) = Shadow(all)
           /\ DatedList(OutOfSample(ShadowTrades(fold), fold), g, From(ShadowDays(f, A), fold.oosStart))
           /\ DatedList(OutOfSample(all, fold), f, From(A, fold.oosStart))
<1>1. /\ fold.warmup \in Int /\ fold.oosStart \in Int /\ fold.oosEnd \in Int
      /\ \A x \in K : x < fold.oosEnd
  BY FoldIs
<1>2. DatedList(Sessions(raw), f, K)
  BY SessionsDated
<1>3. DatedList(all, f, A)
  BY <1>1, <1>2, WindowList DEF FoldSessions
<1>4. ShadowTrades(fold) = Shadow(all)
  BY DEF ShadowTrades, Shadow
<1>5. DatedList(Shadow(all), g, ShadowDays(f, A))
  BY <1>3, ShadowDated
<1>6. (\A x \in A : x < fold.oosEnd) /\ (\A x \in ShadowDays(f, A) : x < fold.oosEnd)
  BY <1>1 DEF From, ShadowDays
<1>7. DatedList(OutOfSample(Shadow(all), fold), g, From(ShadowDays(f, A), fold.oosStart))
  BY <1>1, <1>5, <1>6, WindowList DEF OutOfSample
<1>8. DatedList(OutOfSample(all, fold), f, From(A, fold.oosStart))
  BY <1>1, <1>3, <1>6, WindowList DEF OutOfSample
<1> QED BY <1>3, <1>4, <1>5, <1>7, <1>8

-----------------------------------------------------------------------------
(* The gates in a fold                                                       *)

\* The trailing results, on a history that begins at w.
TrailOpens(shadow, d, spec) ==
    /\ ~(Cutoff(shadow, d) < spec.n)
    /\ LET sum == SumOver(Results(shadow), Cutoff(shadow, d) - spec.n + 1, Cutoff(shadow, d))
       IN  sum # NaN /\ sum >= Threshold(spec)

\* A fold whose history has enough trades before the day tells as the whole history does; one that has not opens nothing.
LEMMA TrailInFold ==
    ASSUME NEW a, NEW f, NEW S, DatedList(a, f, S), NEW w \in Int, NEW b, NEW g, DatedList(b, g, From(S, w)),
           \A x \in From(S, w) : f[x].r = g[x].r, NEW d \in Int, w <= d, NEW spec, spec.n \in Nat \ {0}
    PROVE  TrailOpens(b, d, spec) <=> TrailOpens(a, d, spec) /\ Earlier(b, d) >= spec.n
<1> DEFINE n == spec.n
           z == Rank(S, w - 1)
           m == Cutoff(b, d)
<1>1. FewNumbers(S) /\ DOMAIN a = 1..Cardinality(S) /\ DOMAIN b = 1..Cardinality(From(S, w))
  BY DatedIs
<1>2. /\ z \in Nat /\ Cardinality(From(S, w)) \in Nat /\ FewNumbers(From(S, w))
      /\ Rank(S, d - 1) = Rank(From(S, w), d - 1) + z
  <2>1. d - 1 \in Int /\ w - 1 <= d - 1
    OBVIOUS
  <2> QED BY <1>1, <2>1, LaterPlaces
<1>3. Cutoff(a, d) = m + z /\ Earlier(b, d) = m /\ m \in 0..Cardinality(From(S, w))
  <2>1. d - 1 \in Int
    OBVIOUS
  <2>2. Rank(From(S, w), d - 1) \in 0..Cardinality(From(S, w))
    BY <1>2, <2>1, RankGrows
  <2> QED BY <1>2, <2>2, CutoffIs
<1> HIDE DEF m, z
<1>4. m \in Nat
  BY <1>2, <1>3
<1>5. CASE m < n
  BY <1>3, <1>4, <1>5 DEF TrailOpens, m
<1>6. CASE ~(m < n)
  <2>1. SumOver(Results(b), m - n + 1, m) = SumOver(Results(a), (m - n + 1) + z, m + z)
    <3> DEFINE from == m - n + 1
               c == Results(b)
               e == Results(a)
    <3>1. ASSUME NEW j \in from..m
          PROVE  c[j] = e[j + z]
      <4>1. j \in DOMAIN b
        BY <1>1, <1>2, <1>3, <1>4, <1>6
      <4>2. j + z \in DOMAIN a /\ b[j].date \in From(S, w) /\ a[j + z] = f[b[j].date] /\ b[j] = g[b[j].date]
        BY <4>1, LaterList DEF z
      <4> QED BY <4>1, <4>2 DEF Results
    <3>2. from \in Int /\ m \in Int /\ z \in Int
      BY <1>2, <1>4
    <3> HIDE DEF from, c, e
    <3>3. \A j \in from..m : c[j] = e[j + z]
      BY <3>1
    <3>4. SumOver(c, from, m) = SumOver(e, from + z, m + z)
      BY ONLY <3>2, <3>3, LaterSums
    <3> QED BY <3>4 DEF from, c, e
  <2>2. (m - n + 1) + z = (m + z) - n + 1 /\ ~(m + z < n) /\ m >= n
    BY <1>2, <1>4, <1>6
  <2> QED BY <1>3, <1>6, <2>1, <2>2 DEF TrailOpens, m
<1> QED BY <1>5, <1>6

\* The efficiency in a fold.
ErOpens(s, i, spec) ==
    KaufmanEr(Closes(s), spec.n)[i] # NaN /\ KaufmanEr(Closes(s), spec.n)[i] >= Threshold(spec)

\* So of the efficiency: the path of the day before needs n days before that.
LEMMA ErInFold ==
    ASSUME NEW s, NEW f, NEW S, DatedList(s, f, S), NEW w \in Int, NEW t, DatedList(t, f, From(S, w)),
           NEW d \in From(S, w), NEW spec, spec.n \in Nat \ {0}
    PROVE  ErOpens(t, Rank(From(S, w), d), spec) <=> ErOpens(s, Rank(S, d), spec) /\ Earlier(t, d) > spec.n
<1> DEFINE n == spec.n
           z == Rank(S, w - 1)
           T == From(S, w)
           i == Rank(T, d)
           c == Closes(t)
           e == Closes(s)
<1>1. FewNumbers(S) /\ DOMAIN s = 1..Cardinality(S) /\ DOMAIN t = 1..Cardinality(T)
  BY DatedIs
<1>2. /\ z \in Nat /\ Cardinality(T) \in Nat /\ FewNumbers(T) /\ Cardinality(S) = Cardinality(T) + z
      /\ Rank(S, d) = i + z
  BY <1>1, LaterPlaces
<1>3. i = Rank(T, d - 1) + 1 /\ Rank(T, d - 1) \in Nat /\ i \in 1..Cardinality(T) /\ d \in Int
  BY <1>2, NextRank, RankGrows DEF FewNumbers
<1>4. Earlier(t, d) = i - 1 /\ i \in Nat
  BY <1>2, <1>3, CutoffIs
<1>5. /\ DOMAIN c = 1..Cardinality(T) /\ DOMAIN e = 1..Cardinality(S)
      /\ \A j \in 1..Cardinality(T) : c[j] = e[j + z]
  <2>1. DOMAIN c = DOMAIN t /\ DOMAIN e = DOMAIN s
    BY DEF Closes
  <2>2. \A j \in DOMAIN t : j + z \in DOMAIN s /\ s[j + z] = t[j]
    BY LaterList
  <2>3. \A j \in DOMAIN t : c[j] = e[j + z]
    BY <2>2 DEF Closes
  <2> QED BY <1>1, <2>1, <2>3
<1> HIDE DEF z, T, i, c, e
<1> DEFINE x == Efficiency(c, n)
           y == Efficiency(e, n)
<1>6. KaufmanEr(c, n)[i] = (IF i = 1 THEN NaN ELSE x[i - 1]) /\ KaufmanEr(e, n)[i + z] = (IF i + z = 1 THEN NaN ELSE y[(i + z) - 1])
  <2>1. DOMAIN x = 1..Cardinality(T) /\ DOMAIN y = 1..Cardinality(S)
    BY <1>5 DEF Efficiency
  <2>2. i \in DOMAIN x /\ i + z \in DOMAIN y
    BY <1>2, <1>3, <2>1
  <2> HIDE DEF x, y
  <2>3. KaufmanEr(c, n) = Shift(x) /\ KaufmanEr(e, n) = Shift(y)
    BY KaufmanErIs DEF x, y
  <2> QED BY <2>2, <2>3 DEF Shift
<1>7. CASE i - 1 > n
  <2> DEFINE k == i - 1
  <2>1. /\ k \in 1..Cardinality(T) /\ n < k /\ k + z \in 1..Cardinality(S) /\ (i + z) - 1 = k + z /\ i # 1 /\ i + z # 1
        /\ Cardinality(S) \in Nat /\ n \in Nat \ {0}
    BY <1>2, <1>3, <1>4, <1>7
  <2>2. \A j \in 1..k : c[j] = e[j + z]
    BY <1>2, <1>5, <2>1
  <2> HIDE DEF k
  <2>3. x[k] = y[k + z]
    <3> DEFINE a == Cardinality(T)
               b == Cardinality(S)
    <3>1. /\ a \in Nat /\ b \in Nat /\ z \in Nat /\ DOMAIN c = 1..a /\ DOMAIN e = 1..b
          /\ k \in 1..a /\ n < k /\ k + z \in 1..b /\ n \in Nat \ {0}
      BY <1>2, <1>5, <2>1
    <3> HIDE DEF n, a, b
    <3>2. Efficiency(c, n)[k] = Efficiency(e, n)[k + z]
      BY <2>2, <3>1, LaterEr
    <3> QED BY <3>2
  <2>4. KaufmanEr(c, n)[i] = KaufmanEr(e, n)[i + z]
    BY <1>6, <2>1, <2>3 DEF k
  <2> QED BY <1>2, <1>4, <1>7, <2>4 DEF ErOpens, c, e, i, T
<1>8. CASE ~(i - 1 > n)
  <2>1. i # 1 => x[i - 1] = NaN
    <3> SUFFICES ASSUME i # 1 PROVE x[i - 1] = NaN
      OBVIOUS
    <3> DEFINE k == i - 1
    <3>1. k \in 1..Cardinality(T) /\ ~(n < k) /\ n \in Nat \ {0}
      BY <1>2, <1>3, <1>4, <1>8
    <3> HIDE DEF k
    <3>2. Rolling(Changes(c), n)[k] = NaN
      BY <1>2, <1>5, <3>1, PathKnown
    <3>3. x[k] = NaN
      BY <1>5, <3>1, <3>2 DEF Efficiency
    <3> QED BY <3>3 DEF k
  <2>2. KaufmanEr(c, n)[i] = NaN
    BY <1>6, <2>1
  <2> QED BY <1>4, <1>8, <2>2 DEF ErOpens, c, i, T
<1> QED BY <1>7, <1>8

DatesIn(rows) == {t.date : t \in ToSet(rows)}

\* The signal of a day passes the threshold when its latest results do.
LEMMA SignalTrails ==
    ASSUME NEW s, NEW f, NEW K, DatedList(s, f, K), NEW d \in K, NEW shadow, NEW spec,
           NEW v, v = TrailingShadowR(shadow, s, spec.n)[Rank(K, d)]
    PROVE  v # NaN /\ v >= Threshold(spec) <=> TrailOpens(shadow, d, spec)
<1>1. Rank(K, d) \in DOMAIN s /\ s[Rank(K, d)].date = d
  BY DatedIs
<1>2. v = IF Cutoff(shadow, d) < spec.n THEN NaN
          ELSE SumOver(Results(shadow), Cutoff(shadow, d) - spec.n + 1, Cutoff(shadow, d))
  BY <1>1, TrailingIs
<1> QED BY <1>2 DEF TrailOpens

\* Which dates a gate lets through, of a table and of a fold's.
LEMMA PassedDates ==
    ASSUME NEW s, NEW f, NEW K, DatedList(s, f, K), NEW shadow, NEW g, NEW L, L \subseteq K, DatedList(shadow, g, L),
           NEW spec
    PROVE  {t.date : t \in ToSet(GatedTrades(spec, shadow, s))} = {d \in L : Opens(spec, shadow, s, Rank(K, d))}
<1> DEFINE T == {d \in L : Opens(spec, shadow, s, Rank(K, d))}
           rows == GatedTrades(spec, shadow, s)
<1>1. DatedList(rows, g, T)
  BY GatedDated
<1> HIDE DEF T, rows
<1>2. {t.date : t \in ToSet(rows)} = T
  BY <1>1, DatesAre
<1> QED BY <1>2 DEF T, rows

\* The days that pass it.
LEMMA OpenDaysAre ==
    ASSUME NEW s, NEW f, NEW K, DatedList(s, f, K), NEW shadow, NEW spec, NEW d
    PROVE  d \in OpenDays(s, TrailingShadowR(shadow, s, spec.n), Threshold(spec))
             <=> d \in K /\ TrailOpens(shadow, d, spec)
<1> DEFINE signal == TrailingShadowR(shadow, s, spec.n)
           P == {j \in DOMAIN s : signal[j] # NaN /\ signal[j] >= Threshold(spec)}
           open == OpenDays(s, signal, Threshold(spec))
<1>1. open = DatesOf(s, P)
  BY DEF OpenDays, DatesOf
<1>2. P \subseteq DOMAIN s
  OBVIOUS
<1>3. \A j : j \in P <=> j \in DOMAIN s /\ signal[j] # NaN /\ signal[j] >= Threshold(spec)
  OBVIOUS
<1> HIDE DEF P, open
<1>4. d \in open <=> d \in K /\ Rank(K, d) \in P
  BY <1>1, <1>2, TakenDay
<1>5. d \in K => Rank(K, d) \in DOMAIN s
  BY DatedIs
<1>6. d \in K => (signal[Rank(K, d)] # NaN /\ signal[Rank(K, d)] >= Threshold(spec) <=> TrailOpens(shadow, d, spec))
  BY SignalTrails
<1> HIDE DEF signal
<1>7. d \in open <=> d \in K /\ TrailOpens(shadow, d, spec)
  BY <1>3, <1>4, <1>5, <1>6
<1> QED BY <1>7 DEF open, signal

\* What each family of gates asks of a day.
LEMMA FamilyOpens ==
    ASSUME NEW spec, NEW s, NEW f, NEW K, DatedList(s, f, K), NEW d \in K, NEW shadow
    PROVE  /\ spec.family = "unfiltered" => Opens(spec, shadow, s, Rank(K, d))
           /\ spec.family = "er" => (Opens(spec, shadow, s, Rank(K, d)) <=> ErOpens(s, Rank(K, d), spec))
           /\ spec.family = "trailing_r" => (Opens(spec, shadow, s, Rank(K, d)) <=> TrailOpens(shadow, d, spec))
<1>1. spec.family = "unfiltered" => Opens(spec, shadow, s, Rank(K, d))
  BY DEF Opens
<1>2. spec.family = "er" => (Opens(spec, shadow, s, Rank(K, d)) <=> ErOpens(s, Rank(K, d), spec))
  BY DEF Opens, ErOpens, Signal
<1>3. ASSUME spec.family = "trailing_r"
      PROVE  Opens(spec, shadow, s, Rank(K, d)) <=> TrailOpens(shadow, d, spec)
  <2>1. Signal(spec, shadow, s) = TrailingShadowR(shadow, s, spec.n) /\ spec.family # "unfiltered"
    BY <1>3 DEF Signal
  <2> DEFINE v == TrailingShadowR(shadow, s, spec.n)[Rank(K, d)]
  <2>2. v # NaN /\ v >= Threshold(spec) <=> TrailOpens(shadow, d, spec)
    BY SignalTrails
  <2> QED BY <2>1, <2>2 DEF Opens
<1> QED BY <1>1, <1>2, <1>3

\* A gate lets through in a fold what it lets through on the whole history, of the days the fold is warm for.
LEMMA GatedInFold ==
    ASSUME Historied(raw), NEW spec \in GateSpecs, NEW fold \in Folds, NEW s, s = Sessions(raw), NEW d
    PROVE  d \in DatesIn(Gated(spec, fold))
             <=> d \in DatesIn(GatedTrades(spec, Shadow(s), s)) /\ d >= fold.oosStart /\ WarmedUp(spec, fold, d)
<1> DEFINE gated == DatesIn(Gated(spec, fold))
           passed == DatesIn(GatedTrades(spec, Shadow(s), s))
           f == Datings(raw)
           K == KeptDays(raw)
           A == From(K, fold.warmup)
           all == FoldSessions(fold)
           g == TradeRows(all, f, A, Unfiltered)
           F == TradeRows(s, f, K, Unfiltered)
           S == ShadowDays(f, K)
           SF == ShadowDays(f, A)
           shadow == ShadowTrades(fold)
           candidates == OutOfSample(shadow, fold)
           oos == OutOfSample(all, fold)
           AO == From(SF, fold.oosStart)
<1>1. /\ fold.warmup \in Int /\ fold.oosStart \in Int /\ fold.warmup <= fold.oosStart
      /\ \A x \in K : x \in Int
  BY FoldIs
<1>2. DatedList(s, f, K)
  BY SessionsDated
<1>3. DatedList(Shadow(s), F, S) /\ S \subseteq K
  BY <1>2, ShadowDated
<1>4. /\ DatedList(all, f, A) /\ DatedList(shadow, g, SF)
      /\ DatedList(candidates, g, AO) /\ DatedList(oos, f, From(A, fold.oosStart))
  BY FoldLists
<1>5. SF = From(S, fold.warmup)
  BY DEF From, ShadowDays
<1>6. /\ A \subseteq K /\ SF \subseteq A /\ AO \subseteq SF
      /\ \A x : x \in AO <=> x \in S /\ x >= fold.oosStart
      /\ \A x \in AO : x \in From(A, fold.oosStart) /\ fold.warmup <= x /\ x \in Int
  <2>1. \A x \in K : fold.oosStart <= x => fold.warmup <= x
    BY <1>1
  <2>2. \A x \in K : x >= fold.oosStart <=> fold.oosStart <= x
    BY <1>1
  <2> QED BY <1>1, <2>1, <2>2 DEF From, ShadowDays
<1>7. \A x \in SF : F[x].r = g[x].r
  BY <1>6 DEF TradeRows, ShadowDays
<1>8. passed = {x \in S : Opens(spec, Shadow(s), s, Rank(K, x))}
  BY <1>2, <1>3, PassedDates DEF DatesIn
<1>9. spec.n \in Nat \ {0} /\ spec.family \in {"unfiltered", "trailing_r", "er"}
  OBVIOUS
<1>10. Gated(spec, fold) =
         IF spec.family = "trailing_r"
         THEN Passing(candidates, oos, TrailingShadowR(shadow, oos, spec.n), Threshold(spec))
         ELSE GatedTrades(spec, candidates, all)
  BY DEF Gated
<1> HIDE DEF f, K, A, all, g, F, S, SF, shadow, candidates, oos, AO, gated, passed
<1> SUFFICES d \in gated <=> d \in passed /\ d >= fold.oosStart /\ WarmedUp(spec, fold, d)
  BY DEF gated, passed
<1>11. CASE spec.family = "trailing_r"
  <2> DEFINE open == OpenDays(oos, TrailingShadowR(shadow, oos, spec.n), Threshold(spec))
             rows == Gated(spec, fold)
  <2>1. DatedList(rows, g, AO \cap open)
    BY <1>4, <1>10, <1>11, PassingDated
  <2> HIDE DEF rows
  <2>2. gated = AO \cap open
    BY <2>1, DatesAre DEF gated, rows, DatesIn
  <2>3. d \in open <=> d \in From(A, fold.oosStart) /\ TrailOpens(shadow, d, spec)
    BY <1>4, OpenDaysAre
  <2> HIDE DEF open
  <2>4. d \in gated <=> d \in AO /\ TrailOpens(shadow, d, spec)
    BY <1>6, <2>2, <2>3
  <2>5. d \in AO => (TrailOpens(shadow, d, spec) <=> TrailOpens(Shadow(s), d, spec) /\ Earlier(shadow, d) >= spec.n)
    BY <1>1, <1>3, <1>4, <1>5, <1>6, <1>7, <1>9, TrailInFold
  <2>6. d \in S => (Opens(spec, Shadow(s), s, Rank(K, d)) <=> TrailOpens(Shadow(s), d, spec))
    BY <1>2, <1>3, <1>11, FamilyOpens
  <2>7. WarmedUp(spec, fold, d) <=> Earlier(shadow, d) >= spec.n
    BY <1>11 DEF WarmedUp, shadow
  <2> QED BY <1>6, <1>8, <2>4, <2>5, <2>6, <2>7
<1>12. CASE spec.family # "trailing_r"
  <2>1. gated = {x \in AO : Opens(spec, candidates, all, Rank(A, x))}
    <3>1. AO \subseteq A
      BY <1>6
    <3>2. {t.date : t \in ToSet(GatedTrades(spec, candidates, all))} = {x \in AO : Opens(spec, candidates, all, Rank(A, x))}
      BY <1>4, <3>1, PassedDates
    <3> QED BY <1>10, <1>12, <3>2 DEF gated, DatesIn
  <2>2. d \in gated <=> d \in AO /\ Opens(spec, candidates, all, Rank(A, d))
    BY <2>1
  <2>3. d \in passed <=> d \in S /\ Opens(spec, Shadow(s), s, Rank(K, d))
    BY <1>8
  <2>4. CASE spec.family = "unfiltered"
    <3>1. WarmedUp(spec, fold, d)
      BY <2>4 DEF WarmedUp
    <3> QED BY <1>6, <2>2, <2>3, <2>4, <3>1 DEF Opens
  <2>5. CASE spec.family = "er"
    <3>1. d \in AO => d \in A
      BY <1>6
    <3>2. d \in A => (ErOpens(all, Rank(A, d), spec) <=> ErOpens(s, Rank(K, d), spec) /\ Earlier(all, d) > spec.n)
      BY <1>1, <1>2, <1>4, <1>9, ErInFold DEF A
    <3>3. d \in A => (Opens(spec, candidates, all, Rank(A, d)) <=> ErOpens(all, Rank(A, d), spec))
      BY <1>4, <2>5, FamilyOpens
    <3>4. d \in S => (Opens(spec, Shadow(s), s, Rank(K, d)) <=> ErOpens(s, Rank(K, d), spec))
      BY <1>2, <1>3, <2>5, FamilyOpens
    <3>5. WarmedUp(spec, fold, d) <=> Earlier(all, d) > spec.n
      BY <2>5 DEF WarmedUp, all
    <3> QED BY <1>6, <2>2, <2>3, <3>1, <3>2, <3>3, <3>4, <3>5
  <2> QED BY <1>9, <1>12, <2>4, <2>5
<1> QED BY <1>11, <1>12

\* FoldsDecideAlike, of every history.
LEMMA FoldsAreAlike == Historied(raw) => FoldsDecideAlike
<1> SUFFICES ASSUME Historied(raw), NEW spec \in GateSpecs, NEW fold \in Folds
             PROVE  DatesIn(Gated(spec, fold))
                      = {d \in DatesIn(GatedTrades(spec, Shadow(Sessions(raw)), Sessions(raw))) :
                            d >= fold.oosStart /\ WarmedUp(spec, fold, d)}
  BY Zenon DEF FoldsDecideAlike, Shadow, DatesIn
<1> QED BY GatedInFold

\* PastDecides: what is decided of a day when its opening range is complete is what any longer history decides of
\* it, and a fold of the regime study decides as the whole history does but for the days its warm-up is too short
\* for, for every history, filter and gate.
THEOREM PastAlwaysDecides == DaysSpec => []PastDecides
<1>1. DaysInv => PastDecides
  <2>1. DaysInv => Historied(raw) /\ NoLookahead
    <3>1. RawDays \subseteq RawDay
      BY DEF RawDay
    <3> HIDE DEF RawDay
    <3> QED BY <3>1 DEF DaysInv, Historied
  <2> QED BY <2>1, FoldsAreAlike DEF PastDecides
<1> QED BY <1>1, DaysInvInit, DaysInvStep, PTL DEF DaysSpec

-----------------------------------------------------------------------------
(* Sums over a set                                                           *)

\* Of a few numbers one is the greatest: the one of the highest rank.
LEMMA MaxOf ==
    ASSUME NEW S, FewNumbers(S), S # {}
    PROVE  Max(S) \in S /\ \A y \in S : y <= Max(S)
<1>1. Cardinality(S) \in Nat \ {0}
  BY RankGrows, FS_EmptySet DEF FewNumbers
<1> DEFINE m == Nth(S, Cardinality(S))
<1>2. m \in S /\ Rank(S, m) = Cardinality(S)
  <2>1. Cardinality(S) \in 1..Cardinality(S)
    BY <1>1
  <2> QED BY <2>1, RankHasPlace
<1> HIDE DEF m
<1>3. \A y \in S : y \in Int
  BY DEF FewNumbers
<1>4. ASSUME NEW y \in S
      PROVE  m >= y
  <2>1. m < y => Rank(S, m) < Rank(S, y)
    BY <1>2, <1>3, RankGrows
  <2>2. Rank(S, y) \in 1..Cardinality(S)
    BY RankGrows
  <2> QED BY <1>1, <1>2, <1>3, <2>1, <2>2
<1> DEFINE c == CHOOSE x \in S : \A y \in S : x >= y
<1>5. c \in S /\ \A y \in S : c >= y
  BY <1>2, <1>4
<1> HIDE DEF c
<1>6. c \in S /\ \A y \in S : y <= c
  BY <1>3, <1>5
<1> QED BY <1>6 DEF Max, c

\* An element of every nonempty part of S, and the sums of v that are made by
\* taking out one after the other, of the parts of at most n elements.
Picks(pk, S) == \A u \in SUBSET S : u # {} => pk[u] \in u
SumsTo(g, v, pk, S, n) ==
    g = [u \in {t \in SUBSET S : Cardinality(t) <= n} |->
            IF u = {} THEN 0 ELSE v[pk[u]] + g[u \ {pk[u]}]]

\* There are such sums: if not of some number of elements, then not of the least, which is one more than one that has them.
LEMMA SumsExist ==
    ASSUME NEW S, IsFiniteSet(S), NEW v, NEW pk, Picks(pk, S), NEW n \in Nat
    PROVE  \E g : SumsTo(g, v, pk, S, n)
<1> DEFINE Without == {k \in Nat : ~ \E g : SumsTo(g, v, pk, S, k)}
           P(k) == {t \in SUBSET S : Cardinality(t) <= k}
<1> SUFFICES ASSUME n \in Without PROVE FALSE
  OBVIOUS
<1>0. \A u \in SUBSET S : IsFiniteSet(u) /\ Cardinality(u) \in Nat
  BY FS_Subset, FS_CardinalityType
<1>1. PICK m \in Without : \A k \in Without : m <= k
  <2>1. Without \subseteq Nat /\ Without # {}
    OBVIOUS
  <2> HIDE DEF Without
  <2> QED BY <2>1, LeastNatural
<1>2. m \in Nat /\ ~ \E g : SumsTo(g, v, pk, S, m)
  BY <1>1
<1>3. m # 0
  <2> SUFFICES ASSUME m = 0 PROVE FALSE
    OBVIOUS
  <2>1. \A u \in P(0) : u = {}
    <3>1. \A u \in SUBSET S : Cardinality(u) <= 0 => Cardinality(u) = 0
      BY <1>0
    <3> QED BY <1>0, <3>1, FS_EmptySet
  <2> DEFINE g == [u \in P(0) |-> 0]
  <2>2. g = [u \in P(0) |-> IF u = {} THEN 0 ELSE v[pk[u]] + g[u \ {pk[u]}]]
    BY <2>1
  <2> HIDE DEF g
  <2>3. SumsTo(g, v, pk, S, 0)
    BY <2>2 DEF SumsTo
  <2> QED BY <1>2, <2>3
<1>4. m - 1 \in Nat /\ m - 1 \notin Without
  BY <1>1, <1>2, <1>3
<1>5. PICK g : SumsTo(g, v, pk, S, m - 1)
  BY <1>4
<1> DEFINE body(f, u) == IF u = {} THEN 0 ELSE v[pk[u]] + f[u \ {pk[u]}]
           h == [u \in P(m) |-> body(g, u)]
<1>6. \A u \in P(m - 1) : g[u] = body(g, u)
  BY <1>5 DEF SumsTo
<1>7. ASSUME NEW u \in P(m), u # {}
      PROVE  u \ {pk[u]} \in P(m - 1) /\ u \ {pk[u]} \in P(m)
  <2>1. pk[u] \in u /\ u \in SUBSET S
    BY <1>7 DEF Picks
  <2>2. Cardinality(u \ {pk[u]}) = Cardinality(u) - 1
    BY <1>0, <2>1, FS_RemoveElement
  <2>3. Cardinality(u) <= m /\ Cardinality(u) \in Nat
    BY <1>0
  <2>4. Cardinality(u \ {pk[u]}) <= m - 1 /\ Cardinality(u \ {pk[u]}) <= m
    BY <1>2, <2>2, <2>3
  <2> QED BY <2>1, <2>4
<1>8. \A u \in P(m - 1) : u \in P(m)
  <2>1. ASSUME NEW u \in P(m - 1) PROVE u \in P(m)
    <3>1. Cardinality(u) \in Nat /\ Cardinality(u) <= m - 1
      BY <1>0
    <3>2. Cardinality(u) <= m
      BY <1>2, <3>1
    <3> QED BY <3>2
  <2> QED BY <2>1
<1> HIDE DEF P
<1>9. \A u \in P(m) : h[u] = body(h, u)
  <2> SUFFICES ASSUME NEW u \in P(m), u # {} PROVE h[u] = v[pk[u]] + h[u \ {pk[u]}]
    OBVIOUS
  <2> DEFINE w == u \ {pk[u]}
  <2>1. w \in P(m - 1) /\ w \in P(m)
    BY <1>7
  <2>2. h[u] = v[pk[u]] + g[w]
    OBVIOUS
  <2> HIDE DEF w
  <2>3. g[w] = h[w]
    BY <1>6, <2>1
  <2> HIDE DEF h
  <2> QED BY <2>2, <2>3 DEF w
<1>10. h = [u \in P(m) |-> h[u]]
  OBVIOUS
<1> HIDE DEF h
<1>11. h = [u \in P(m) |-> body(h, u)]
  BY <1>9, <1>10
<1>12. SumsTo(h, v, pk, S, m)
  BY <1>11 DEF SumsTo, P
<1> QED BY <1>2, <1>12

\* All the sums of the parts of S.
SumsOf(g, v, pk, S) == g = [u \in SUBSET S |-> IF u = {} THEN 0 ELSE v[pk[u]] + g[u \ {pk[u]}]]
\* There are: of the parts of at most as many elements as S has.
LEMMA AllSumsExist ==
    ASSUME NEW S, IsFiniteSet(S), NEW v, NEW pk, Picks(pk, S)
    PROVE  \E g : SumsOf(g, v, pk, S)
<1>1. Cardinality(S) \in Nat
  BY FS_CardinalityType
<1>2. PICK g : SumsTo(g, v, pk, S, Cardinality(S))
  BY <1>1, SumsExist
<1>3. {t \in SUBSET S : Cardinality(t) <= Cardinality(S)} = SUBSET S
  <2>1. \A t \in SUBSET S : Cardinality(t) <= Cardinality(S)
    BY FS_Subset
  <2> QED BY <2>1
<1>4. SumsOf(g, v, pk, S)
  BY <1>2, <1>3 DEF SumsTo, SumsOf
<1> QED BY <1>4

\* Integers add up in any order: a sum is any of its elements and the sum of
\* the rest.
AddsUp(g, v, S) ==
    /\ g[{}] = 0 /\ \A u \in SUBSET S : g[u] \in Int
    /\ \A u \in SUBSET S : \A x \in u : g[u] = v[x] + g[u \ {x}]

\* The sums, part by part.
LEMMA SumsValues ==
    ASSUME NEW g, NEW v, NEW pk, NEW S, SumsOf(g, v, pk, S)
    PROVE  g[{}] = 0 /\ \A u \in SUBSET S : u # {} => g[u] = v[pk[u]] + g[u \ {pk[u]}]
<1>1. \A u \in SUBSET S : g[u] = IF u = {} THEN 0 ELSE v[pk[u]] + g[u \ {pk[u]}]
  BY DEF SumsOf
<1> QED BY <1>1

\* Whichever element is taken out first: of the smallest part for which it matters, take out both.
LEMMA SumsAddUp ==
    ASSUME NEW S, IsFiniteSet(S), NEW v, \A x \in S : v[x] \in Int, NEW pk, Picks(pk, S), NEW g, SumsOf(g, v, pk, S)
    PROVE  AddsUp(g, v, S)
<1> DEFINE Good(u) == g[u] \in Int /\ \A x \in u : g[u] = v[x] + g[u \ {x}]
           Odd == {k \in Nat : \E u \in SUBSET S : Cardinality(u) = k /\ ~Good(u)}
<1>0. /\ g[{}] = 0 /\ \A u \in SUBSET S : u # {} => g[u] = v[pk[u]] + g[u \ {pk[u]}]
      /\ \A u \in SUBSET S : IsFiniteSet(u) /\ Cardinality(u) \in Nat
  BY SumsValues, FS_Subset, FS_CardinalityType
<1>1. Odd = {}
  <2> SUFFICES ASSUME Odd # {} PROVE FALSE
    OBVIOUS
  <2>1. PICK m \in Odd : \A k \in Odd : m <= k
    <3>1. Odd \subseteq Nat
      OBVIOUS
    <3> HIDE DEF Odd
    <3> QED BY <3>1, LeastNatural
  <2>2. PICK u \in SUBSET S : Cardinality(u) = m /\ ~Good(u)
    BY <2>1
  <2>3. \A w \in SUBSET S : Cardinality(w) < m => Good(w)
    <3>1. \A w \in SUBSET S : ~Good(w) => Cardinality(w) \in Odd
      BY <1>0
    <3> HIDE DEF Odd, Good
    <3>2. m \in Nat
      BY <1>0, <2>2
    <3>3. \A w \in SUBSET S : Cardinality(w) \in Odd => ~(Cardinality(w) < m)
      BY <1>0, <2>1, <3>2
    <3> QED BY <3>1, <3>3
  <2> HIDE DEF Odd
  <2>4. u # {}
    <3>1. Good({})
      BY <1>0
    <3> HIDE DEF Good
    <3> QED BY <2>2, <3>1
  <2> DEFINE y == pk[u]
  <2>5. y \in u /\ y \in S /\ v[y] \in Int /\ g[u] = v[y] + g[u \ {y}]
    BY <1>0, <2>4 DEF Picks
  <2> HIDE DEF y
  <2>6. \A w \in SUBSET S : \A x \in w : Cardinality(w \ {x}) = Cardinality(w) - 1 /\ w \ {x} \in SUBSET S
    BY <1>0, FS_RemoveElement
  <2>7. \A x \in u : u \ {x} \in SUBSET S /\ Good(u \ {x})
    <3>1. \A x \in u : Cardinality(u \ {x}) < m
      BY <1>0, <2>2, <2>6
    <3> HIDE DEF Good
    <3> QED BY <2>3, <2>6, <3>1
  <2>8. g[u] \in Int
    <3>1. g[u \ {y}] \in Int
      BY <2>5, <2>7
    <3> QED BY <2>5, <3>1
  <2>9. ASSUME NEW x \in u PROVE g[u] = v[x] + g[u \ {x}]
    <3>1. CASE x = y
      BY <2>5, <3>1
    <3>2. CASE x # y
      <4> DEFINE w == (u \ {x}) \ {y}
      <4>1. x \in S /\ v[x] \in Int /\ y \in u \ {x} /\ x \in u \ {y} /\ (u \ {y}) \ {x} = w
        BY <2>5, <3>2
      <4>2. g[u \ {x}] = v[y] + g[w] /\ g[u \ {y}] = v[x] + g[w]
        BY <2>5, <2>7, <4>1
      <4>3. w \in SUBSET S /\ g[w] \in Int
        <5>1. w \in SUBSET S /\ Cardinality(w) < m
          <6>1. u \ {x} \in SUBSET S /\ Cardinality(u \ {x}) = Cardinality(u) - 1
            BY <2>6
          <6>2. w \in SUBSET S /\ Cardinality(w) = Cardinality(u \ {x}) - 1
            BY <2>6, <4>1, <6>1
          <6>3. Cardinality(u) \in Nat
            BY <1>0
          <6> QED BY <2>2, <6>1, <6>2, <6>3
        <5> QED BY <2>3, <5>1
      <4> HIDE DEF w
      <4> QED BY <2>5, <4>1, <4>2, <4>3
    <3> QED BY <3>1, <3>2
  <2> QED BY <2>2, <2>8, <2>9
<1>2. \A u \in SUBSET S : Good(u)
  BY <1>0, <1>1
<1> QED BY <1>0, <1>2 DEF AddsUp

\* A numbering of some things, and values that agree under it.
Marks(b, n) == {b[j] : j \in 1..n}
Numbers(b, n) == \A i, j \in 1..n : b[i] = b[j] => i = j
SameValues(v, t, b, n) == \A j \in 1..n : v[j] = t[b[j]]
\* What is numbered one by one has the sum of its numbers' values.
LEMMA NumberedSums ==
    ASSUME NEW n \in Nat, NEW b, Numbers(b, n), NEW L, L = Marks(b, n),
           NEW v, NEW t, SameValues(v, t, b, n), NEW g, AddsUp(g, v, 1..n), NEW h, AddsUp(h, t, L)
    PROVE  g[1..n] = h[L]
<1> DEFINE B(k) == {b[j] : j \in 1..k}
           Odd == {k \in 0..n : g[1..k] # h[B(k)]}
<1>0. /\ g[{}] = 0 /\ \A u \in SUBSET (1..n) : \A x \in u : g[u] = v[x] + g[u \ {x}]
      /\ h[{}] = 0 /\ \A u \in SUBSET L : \A x \in u : h[u] = t[x] + h[u \ {x}]
  BY DEF AddsUp
<1>1. Odd = {}
  <2> SUFFICES ASSUME Odd # {} PROVE FALSE
    OBVIOUS
  <2>1. PICK m \in Odd : \A k \in Odd : m <= k
    <3>1. Odd \subseteq Nat
      OBVIOUS
    <3> HIDE DEF Odd
    <3> QED BY <3>1, LeastNatural
  <2>2. m \in 0..n /\ g[1..m] # h[B(m)]
    BY <2>1
  <2>3. m # 0
    <3>1. 1..0 = {}
      OBVIOUS
    <3>2. B(0) = {}
      BY <3>1
    <3> QED BY <1>0, <2>2, <3>1, <3>2
  <2>4. m - 1 \in 0..n /\ ~(m <= m - 1) /\ m \in 1..n /\ m \in 1..m
    BY <2>2, <2>3
  <2>5. g[1..m - 1] = h[B(m - 1)]
    BY <2>1, <2>4
  <2>6. (1..m) \ {m} = 1..m - 1 /\ 1..m \in SUBSET (1..n)
    BY <2>4
  <2>7. B(m) \in SUBSET L /\ b[m] \in B(m) /\ B(m) \ {b[m]} = B(m - 1)
    <3>1. \A j \in 1..m : j \in 1..n
      BY <2>6
    <3>2. \A j \in 1..m - 1 : j \in 1..m /\ j \in 1..n /\ j # m
      BY <2>4
    <3>3. \A j \in 1..m : j = m \/ j \in 1..m - 1
      BY <2>4
    <3>4. B(m) \in SUBSET L /\ b[m] \in B(m)
      BY <2>4, <3>1 DEF Marks
    <3>5. \A j \in 1..m - 1 : b[j] # b[m]
      BY <2>4, <3>2 DEF Numbers
    <3> QED BY <3>2, <3>3, <3>4, <3>5
  <2> HIDE DEF B, Odd
  <2>8. g[1..m] = v[m] + g[1..m - 1]
    <3>1. \A x \in 1..m : g[1..m] = v[x] + g[(1..m) \ {x}]
      BY <1>0, <2>6
    <3>2. g[1..m] = v[m] + g[(1..m) \ {m}]
      BY <2>4, <3>1
    <3> QED BY <2>6, <3>2
  <2>9. h[B(m)] = t[b[m]] + h[B(m - 1)]
    <3>1. \A x \in B(m) : h[B(m)] = t[x] + h[B(m) \ {x}]
      BY <1>0, <2>7
    <3>2. h[B(m)] = t[b[m]] + h[B(m) \ {b[m]}]
      BY <2>7, <3>1
    <3> QED BY <2>7, <3>2
  <2>10. v[m] = t[b[m]]
    BY <2>4 DEF SameValues
  <2> QED BY <2>2, <2>5, <2>8, <2>9, <2>10
<1>2. n \in 0..n /\ n \notin Odd
  <2> HIDE DEF Odd
  <2> QED BY <1>1
<1>3. g[1..n] = h[B(n)] /\ B(n) = L
  BY <1>2 DEF Marks
<1> QED BY <1>3

\* Some element of every part.
AnyOf(S) == [u \in SUBSET S |-> CHOOSE x \in u : TRUE]
\* Any element of a part is one.
LEMMA AnyIsPicked == ASSUME NEW S PROVE Picks(AnyOf(S), S)
<1> SUFFICES ASSUME NEW u \in SUBSET S, u # {} PROVE AnyOf(S)[u] \in u
  BY DEF Picks
<1>1. AnyOf(S)[u] = CHOOSE x \in u : TRUE
  BY DEF AnyOf
<1>2. PICK x : x \in u
  OBVIOUS
<1> QED BY <1>1, <1>2

\* The sum of a list, and of the true ranges of some days.
ListSums(g, list, S) ==
    g = [u \in SUBSET S |-> IF u = {} THEN 0 ELSE list[CHOOSE x \in u : TRUE] + g[u \ {CHOOSE x \in u : TRUE}]]
RangeSums(g, s, S) ==
    g = [u \in SUBSET S |->
            IF u = {} THEN 0 ELSE TrueRange(s, CHOOSE x \in u : TRUE) + g[u \ {CHOOSE x \in u : TRUE}]]

\* The sum of a list is one of these ...
LEMMA ListSumIs ==
    ASSUME NEW list, NEW S, DOMAIN list = S, IsFiniteSet(S), \A x \in S : list[x] \in Int
    PROVE  \E g : AddsUp(g, list, S) /\ SumAll(list) = g[S]
<1> DEFINE g == CHOOSE f : ListSums(f, list, S)
<1>1. SumAll(list) = g[S]
  BY DEF SumAll, MapThenSumSet, MapThenFoldSet, ListSums
<1>2. ListSums(g, list, S)
  <2>1. PICK f : SumsOf(f, list, AnyOf(S), S)
    BY AllSumsExist, AnyIsPicked
  <2>2. ListSums(f, list, S)
    BY <2>1 DEF SumsOf, ListSums, AnyOf
  <2> QED BY <2>2
<1> HIDE DEF g
<1>3. SumsOf(g, list, AnyOf(S), S)
  BY <1>2 DEF SumsOf, ListSums, AnyOf
<1>4. AddsUp(g, list, S)
  BY <1>3, SumsAddUp, AnyIsPicked
<1> QED BY <1>1, <1>4

RangeSum(s, S) == MapThenSumSet(LAMBDA j : TrueRange(s, j), S)
\* ... and so is that of the true ranges.
LEMMA RangeSumIs ==
    ASSUME NEW s, NEW S, IsFiniteSet(S), \A x \in S : TrueRange(s, x) \in Int
    PROVE  \E g, v : AddsUp(g, v, S) /\ RangeSum(s, S) = g[S] /\ \A x \in S : v[x] = TrueRange(s, x)
<1> DEFINE g == CHOOSE f : RangeSums(f, s, S)
           v == [x \in S |-> TrueRange(s, x)]
<1>1. RangeSum(s, S) = g[S]
  BY DEF RangeSum, MapThenSumSet, MapThenFoldSet, RangeSums
<1> DEFINE c(u) == CHOOSE x \in u : TRUE
           pk == AnyOf(S)
<1>2. ASSUME NEW f PROVE RangeSums(f, s, S) <=> SumsOf(f, v, pk, S)
  <2>1. ASSUME NEW u \in SUBSET S, u # {}
        PROVE  pk[u] = c(u) /\ v[pk[u]] = TrueRange(s, c(u))
    <3>1. pk[u] = c(u)
      BY DEF AnyOf
    <3>2. pk[u] \in u
      BY <2>1, AnyIsPicked DEF Picks
    <3> HIDE DEF c, pk
    <3> QED BY <3>1, <3>2
  <2>2. RangeSums(f, s, S) <=> f = [u \in SUBSET S |-> IF u = {} THEN 0 ELSE TrueRange(s, c(u)) + f[u \ {c(u)}]]
    BY DEF RangeSums
  <2> HIDE DEF v, c, pk
  <2>3. \A u \in SUBSET S : (IF u = {} THEN 0 ELSE TrueRange(s, c(u)) + f[u \ {c(u)}])
                              = (IF u = {} THEN 0 ELSE v[pk[u]] + f[u \ {pk[u]}])
    BY <2>1
  <2>4. [u \in SUBSET S |-> IF u = {} THEN 0 ELSE TrueRange(s, c(u)) + f[u \ {c(u)}]]
          = [u \in SUBSET S |-> IF u = {} THEN 0 ELSE v[pk[u]] + f[u \ {pk[u]}]]
    BY <2>3
  <2> QED BY <2>2, <2>4 DEF SumsOf
<1>3. RangeSums(g, s, S)
  <2>1. PICK f : SumsOf(f, v, pk, S)
    BY AllSumsExist, AnyIsPicked
  <2>2. RangeSums(f, s, S)
    BY <1>2, <2>1
  <2> QED BY <2>2
<1> HIDE DEF g
<1>4. AddsUp(g, v, S)
  <2>1. \A x \in S : v[x] \in Int
    OBVIOUS
  <2> HIDE DEF v
  <2>2. SumsOf(g, v, pk, S)
    BY <1>2, <1>3
  <2> QED BY <2>1, <2>2, SumsAddUp, AnyIsPicked
<1>5. \A x \in S : v[x] = TrueRange(s, x)
  OBVIOUS
<1> HIDE DEF v
<1> QED BY <1>1, <1>4, <1>5

-----------------------------------------------------------------------------
(* The ATR of real days                                                      *)

\* A table of days with their prices.
Priced(s) ==
    \E a \in Nat : /\ DOMAIN s = 1..a
                   /\ \A i \in 1..a : s[i].high \in Int /\ s[i].low \in Int /\ s[i].close \in Int

\* A true range is a number.
LEMMA RangeIsNumber ==
    ASSUME NEW s, Priced(s), NEW i \in DOMAIN s
    PROVE  TrueRange(s, i) \in Int
<1>1. PICK a \in Nat : /\ DOMAIN s = 1..a
                       /\ \A j \in 1..a : s[j].high \in Int /\ s[j].low \in Int /\ s[j].close \in Int
  BY DEF Priced
<1> DEFINE prior == Shift(Closes(s))[i]
           more == IF prior = NaN THEN {} ELSE {AbsDiff(s[i].high, prior), AbsDiff(s[i].low, prior)}
           S == {s[i].high - s[i].low} \cup more
<1>2. TrueRange(s, i) = Max(S)
  BY Zenon DEF TrueRange
<1>3. prior = NaN \/ prior \in Int
  <2>1. prior = IF i = 1 THEN NaN ELSE s[i - 1].close
    <3>1. DOMAIN Closes(s) = DOMAIN s
      BY DEF Closes
    <3>2. prior = IF i = 1 THEN NaN ELSE Closes(s)[i - 1]
      BY <3>1 DEF Shift
    <3>3. i # 1 => i - 1 \in DOMAIN s
      BY <1>1
    <3> QED BY <3>2, <3>3 DEF Closes
  <2>2. i # 1 => i - 1 \in 1..a
    BY <1>1
  <2> QED BY <1>1, <2>1, <2>2
<1> HIDE DEF prior
<1>4. more \subseteq Int /\ IsFiniteSet(more)
  <2>1. s[i].high \in Int /\ s[i].low \in Int
    BY <1>1
  <2>2. prior # NaN => AbsDiff(s[i].high, prior) \in Int /\ AbsDiff(s[i].low, prior) \in Int
    BY <1>3, <2>1 DEF AbsDiff
  <2> DEFINE x == AbsDiff(s[i].high, prior)
             y == AbsDiff(s[i].low, prior)
  <2> HIDE DEF x, y
  <2>3. IsFiniteSet({x, y}) /\ IsFiniteSet({})
    <3>1. IsFiniteSet({x}) /\ IsFiniteSet({y})
      BY FS_Singleton
    <3>2. IsFiniteSet({x} \cup {y})
      BY <3>1, FS_Union
    <3>3. {x} \cup {y} = {x, y}
      OBVIOUS
    <3> QED BY <3>2, <3>3, FS_EmptySet
  <2>4. more = IF prior = NaN THEN {} ELSE {x, y}
    BY DEF x, y
  <2>5. prior # NaN => x \in Int /\ y \in Int
    BY <2>2 DEF x, y
  <2> HIDE DEF more
  <2> QED BY <2>3, <2>4, <2>5
<1> HIDE DEF more
<1>5. FewNumbers(S) /\ S # {}
  <2> DEFINE z == s[i].high - s[i].low
  <2>0. z \in Int
    <3>1. s[i].high \in Int /\ s[i].low \in Int
      BY <1>1
    <3> QED BY <3>1
  <2> HIDE DEF z
  <2>1. IsFiniteSet({z})
    BY FS_Singleton
  <2>2. S = {z} \cup more
    BY DEF z
  <2> HIDE DEF S
  <2>3. IsFiniteSet(S)
    BY <1>4, <2>1, <2>2, FS_Union
  <2> QED BY <1>4, <2>0, <2>2, <2>3 DEF FewNumbers
<1> HIDE DEF S
<1>6. Max(S) \in S
  BY <1>5, MaxOf
<1> QED BY <1>2, <1>5, <1>6 DEF FewNumbers

\* The days of the window that ends with the k-th real one.
Window(C, n, k) == {Nth(C, j) : j \in k - n + 1..k}

\* The clean days are few, and the first day is one.
LEMMA CleanIs ==
    ASSUME NEW s, Priced(s)
    PROVE  /\ FewNumbers(Clean(s)) /\ Cardinality(Clean(s)) \in Nat /\ Clean(s) \subseteq DOMAIN s
           /\ \A i \in DOMAIN s : i \in Int /\ 1 <= i /\ (1 \in DOMAIN s /\ 1 \in Clean(s))
<1>1. PICK a \in Nat : DOMAIN s = 1..a
  BY DEF Priced
<1>2. Clean(s) \subseteq 1..a
  BY <1>1 DEF Clean
<1>3. FewNumbers(Clean(s))
  BY <1>2, FewPlaces
<1>4. ASSUME NEW i \in DOMAIN s
      PROVE  i \in Int /\ 1 <= i /\ 1 \in DOMAIN s /\ 1 \in Clean(s)
  <2>1. 1 \in 1..a
    BY <1>1
  <2>2. ~IsRoll(s, 1)
    BY DEF IsRoll
  <2> QED BY <1>1, <2>1, <2>2 DEF Clean
<1> QED BY <1>1, <1>2, <1>3, <1>4, RankGrows

\* The rolling sum at the k-th clean day is that of its window, if there is one.
LEMMA WindowSum ==
    ASSUME NEW s, Priced(s), NEW n \in Nat \ {0}, NEW k \in 1..Cardinality(Clean(s))
    PROVE  /\ k < n => CleanSums(s, n)[k] = NaN
           /\ ~(k < n) => /\ CleanSums(s, n)[k] # NaN
                          /\ CleanSums(s, n)[k] = RangeSum(s, Window(Clean(s), n, k))
<1> DEFINE C == Clean(s)
           rows == Rows(Ranges(s), C)
<1>0. FewNumbers(C) /\ Cardinality(C) \in Nat /\ C \subseteq DOMAIN s /\ k \in Nat
  BY CleanIs
<1>1. /\ DOMAIN rows = 1..Cardinality(C)
      /\ \A j \in 1..Cardinality(C) :
            /\ rows[j] = TrueRange(s, Nth(C, j)) /\ rows[j] \in Int /\ rows[j] # NaN
            /\ Nth(C, j) \in C /\ Rank(C, Nth(C, j)) = j
  <2>1. DOMAIN rows = 1..Cardinality(C) /\ \A j \in 1..Cardinality(C) : rows[j] = Ranges(s)[Nth(C, j)]
    BY DEF Rows
  <2> HIDE DEF rows
  <2>2. \A j \in 1..Cardinality(C) : Nth(C, j) \in C /\ Rank(C, Nth(C, j)) = j
    BY <1>0, RankHasPlace
  <2>3. \A i \in C : Ranges(s)[i] = TrueRange(s, i) /\ TrueRange(s, i) \in Int
    BY <1>0, RangeIsNumber DEF Ranges
  <2>4. \A x \in Int : x # NaN
    OBVIOUS
  <2> HIDE DEF C
  <2> QED BY <2>1, <2>2, <2>3, <2>4
<1>2. CleanSums(s, n) = Rolling(rows, n)
  BY DEF CleanSums
<1> HIDE DEF C, rows
<1>3. k < n => CleanSums(s, n)[k] = NaN
  BY <1>1, <1>2 DEF Rolling, C
<1>4. ASSUME ~(k < n)
      PROVE  /\ CleanSums(s, n)[k] # NaN
             /\ CleanSums(s, n)[k] = RangeSum(s, Window(C, n, k))
  <2> DEFINE from == k - n + 1
             len == k - from + 1
             list == [j \in 1..len |-> rows[from + j - 1]]
             b == [j \in 1..len |-> Nth(C, from + j - 1)]
             L == Window(C, n, k)
  <2>1. from \in Int /\ 1 <= from /\ len \in Nat /\ k \in 1..Cardinality(C)
    BY <1>0, <1>4 DEF C
  <2>2. \A j \in 1..len : from + j - 1 \in 1..Cardinality(C) /\ from + j - 1 \in from..k
    BY <1>0, <2>1
  <2>3. CleanSums(s, n)[k] = SumAll(list)
    <3>1. \A j \in from..k : rows[j] # NaN
      <4>1. \A j \in from..k : j \in 1..Cardinality(C)
        BY <1>0, <2>1
      <4> QED BY <1>1, <4>1
    <3>2. k \in DOMAIN rows
      BY <1>1, <2>1
    <3>3. Rolling(rows, n)[k] = SumOver(rows, from, k)
      BY <1>4, <3>1, <3>2 DEF Rolling
    <3> QED BY <1>2, <3>3 DEF SumOver
  <2>4. L = {b[j] : j \in 1..len}
    <3>1. L = {Nth(C, j) : j \in from..k}
      BY DEF Window
    <3>2. \A j \in from..k : j - from + 1 \in 1..len /\ from + (j - from + 1) - 1 = j
      BY <1>0, <2>1
    <3> HIDE DEF from, len, L
    <3>3. \A j \in from..k : Nth(C, j) = b[j - from + 1]
      BY <3>2
    <3> QED BY <2>2, <3>1, <3>2, <3>3
  <2> HIDE DEF from, len, L
  <2>5. \A i, j \in 1..len : b[i] = b[j] => i = j
    <3>1. \A j \in 1..len : Rank(C, b[j]) = from + j - 1
      BY <1>1, <2>2
    <3> HIDE DEF b
    <3>2. ASSUME NEW i \in 1..len, NEW j \in 1..len, b[i] = b[j] PROVE i = j
      <4>1. from + i - 1 = from + j - 1
        BY <3>1, <3>2
      <4> QED BY <2>1, <4>1
    <3> QED BY <3>2
  <2>6. /\ \A j \in 1..len : list[j] = TrueRange(s, b[j]) /\ list[j] \in Int /\ b[j] \in L
        /\ \A x \in L : TrueRange(s, x) \in Int
    <3>1. \A j \in 1..len : list[j] = TrueRange(s, b[j]) /\ list[j] \in Int
      BY <1>1, <2>2
    <3> HIDE DEF list, b
    <3> QED BY <2>4, <3>1
  <2>7. DOMAIN list = 1..len /\ DOMAIN b = 1..len /\ IsFiniteSet(1..len)
    BY <2>1, FS_Interval
  <2>9. IsFiniteSet(L)
    <3>1. \A j \in 1..len : b[j] \in C
      BY <1>1, <2>2
    <3>2. L \subseteq C
      BY <2>4, <3>1
    <3> QED BY <1>0, <3>2, FS_Subset DEF FewNumbers
  <2> HIDE DEF list, b
  <2>8. PICK g : AddsUp(g, list, 1..len) /\ SumAll(list) = g[1..len]
    BY <2>6, <2>7, ListSumIs
  <2>10. PICK h, v : AddsUp(h, v, L) /\ RangeSum(s, L) = h[L] /\ \A x \in L : v[x] = TrueRange(s, x)
    BY <2>6, <2>9, RangeSumIs
  <2>11. \A j \in 1..len : list[j] = v[b[j]]
    BY <2>6, <2>10
  <2>12. g[1..len] = h[L]
    <3>1. L = Marks(b, len)
      BY <2>4 DEF Marks
    <3>3. Numbers(b, len) /\ SameValues(list, v, b, len)
      BY <2>5, <2>11 DEF Numbers, SameValues
    <3>2. len \in Nat /\ AddsUp(g, list, 1..len) /\ AddsUp(h, v, L)
      BY <2>1, <2>8, <2>10
    <3> QED BY <3>1, <3>2, <3>3, NumberedSums
  <2>13. g[1..len] \in Int
    BY <2>8 DEF AddsUp
  <2>14. CleanSums(s, n)[k] # NaN
    BY <2>3, <2>8, <2>13
  <2>15. CleanSums(s, n)[k] = RangeSum(s, L)
    BY <2>3, <2>8, <2>10, <2>12
  <2> QED BY <2>14, <2>15 DEF L
<1> QED BY <1>3, <1>4 DEF C

\* The ATR of a day is the sum at its rank among the clean days: a roll takes
\* that of the day before, whose rank it shares, and so does a day for which
\* there are too few, which has none either.
LEMMA AtrByRank ==
    ASSUME NEW s, Priced(s), NEW n \in Nat \ {0}, NEW i \in DOMAIN s
    PROVE  /\ Rank(Clean(s), i) \in 1..Cardinality(Clean(s))
           /\ Atr(s, n)[i] = CleanSums(s, n)[Rank(Clean(s), i)]
<1> DEFINE C == Clean(s)
           R(k) == Rank(C, k)
           Odd == {k \in DOMAIN s : Atr(s, n)[k] # CleanSums(s, n)[R(k)]}
<1>0. PICK a \in Nat : DOMAIN s = 1..a
  BY DEF Priced
<1>1. FewNumbers(C) /\ Cardinality(C) \in Nat /\ \A k \in 1..a : k \in Int /\ 1 <= k /\ 1 \in C
  BY <1>0, CleanIs
<1>2. \A k \in 1..a : R(k) \in 1..Cardinality(C)
  <2>1. ASSUME NEW k \in 1..a PROVE R(k) \in 1..Cardinality(C)
    <3>1. R(1) \in 1..Cardinality(C) /\ R(k) \in 0..Cardinality(C) /\ 1 \in C
      BY <1>1, RankGrows
    <3>2. R(1) <= R(k)
      BY <1>1, RankGrows
    <3> HIDE DEF C
    <3> QED BY <1>1, <3>1, <3>2
  <2> QED BY <2>1
<1> HIDE DEF C
<1>3. \A k \in 1..a : Atr(s, n)[k] = IF Gapped(s, n)[k] # NaN \/ k = 1 THEN Gapped(s, n)[k] ELSE Atr(s, n)[k - 1]
  <2>1. DOMAIN Gapped(s, n) = 1..a
    BY <1>0 DEF Gapped
  <2> QED BY <2>1, FilledIs, AtrIs
<1>4. \A k \in 1..a : Gapped(s, n)[k] = IF IsRoll(s, k) THEN NaN ELSE CleanSums(s, n)[R(k)]
  BY <1>0 DEF Gapped, C
<1>5. Odd = {}
  <2> SUFFICES ASSUME Odd # {} PROVE FALSE
    OBVIOUS
  <2>1. PICK m \in Odd : \A k \in Odd : m <= k
    <3>1. Odd \subseteq Nat
      BY <1>0
    <3> HIDE DEF Odd
    <3> QED BY <3>1, LeastNatural
  <2>2. m \in 1..a /\ Atr(s, n)[m] # CleanSums(s, n)[R(m)]
    BY <1>0, <2>1
  <2>3. m # 1
    <3>1. ~IsRoll(s, 1)
      BY DEF IsRoll
    <3> QED BY <1>3, <1>4, <2>2, <3>1
  <2>4. m - 1 \in 1..a /\ ~(m <= m - 1) /\ m - 1 \in DOMAIN s
    BY <1>0, <2>2, <2>3
  <2>5. Atr(s, n)[m - 1] = CleanSums(s, n)[R(m - 1)]
    BY <2>1, <2>4
  <2> HIDE DEF Odd
  <2>6. CASE IsRoll(s, m)
    <3>1. m \notin C
      BY <2>6 DEF C, Clean
    <3>2. UpTo(C, m) = UpTo(C, m - 1)
      <4>1. \A j \in C : j \in Int
        BY <1>1 DEF FewNumbers
      <4>2. \A j \in C : j <= m <=> j <= m - 1
        BY <2>2, <3>1, <4>1
      <4> QED BY <4>2 DEF UpTo
    <3>3. R(m) = R(m - 1)
      BY <3>2 DEF Rank
    <3> QED BY <1>3, <1>4, <2>2, <2>3, <2>5, <2>6, <3>3
  <2>7. CASE ~IsRoll(s, m)
    <3>1. m \in C
      BY <1>0, <2>2, <2>7 DEF C, Clean
    <3>2. R(m) = R(m - 1) + 1 /\ R(m) \in 1..Cardinality(C) /\ R(m - 1) \in 1..Cardinality(C)
      BY <1>1, <1>2, <2>2, <2>4, <3>1, NextRank
    <3>3. CleanSums(s, n)[R(m)] = NaN
      BY <1>3, <1>4, <2>2, <2>7
    <3> DEFINE r == R(m)
               q == R(m - 1)
    <3>4. r < n
      <4>1. r \in 1..Cardinality(Clean(s))
        BY <3>2 DEF C
      <4> HIDE DEF r
      <4>2. ~(r < n) => CleanSums(s, n)[r] # NaN
        BY <4>1, WindowSum
      <4> QED BY <3>3, <4>2 DEF r
    <3>5. q < n /\ q \in 1..Cardinality(Clean(s))
      BY <1>1, <3>2, <3>4 DEF C
    <3> HIDE DEF q
    <3>6. CleanSums(s, n)[q] = NaN
      BY <3>5, WindowSum
    <3> QED BY <1>3, <1>4, <2>2, <2>3, <2>5, <2>7, <3>3, <3>6 DEF q
  <2> QED BY <2>6, <2>7
<1>6. i \in 1..a /\ i \notin Odd
  <2> HIDE DEF Odd
  <2> QED BY <1>0, <1>5
<1> QED BY <1>0, <1>2, <1>6 DEF C

\* The latest n of S up to i.
Latest(S, n, i) == {j \in UpTo(S, i) : Cardinality({k \in UpTo(S, i) : k >= j}) <= n}
\* They are those of the latest n ranks.
LEMMA LatestIs ==
    ASSUME NEW S, FewNumbers(S), NEW n \in Nat \ {0}, NEW i \in Int, ~(Rank(S, i) < n)
    PROVE  Latest(S, n, i) = Window(S, n, Rank(S, i))
<1> DEFINE k == Rank(S, i)
           Since(j) == {x \in UpTo(S, i) : x >= j}
<1>0. S \subseteq Int /\ k \in 0..Cardinality(S) /\ Cardinality(S) \in Nat
  BY RankGrows DEF FewNumbers
<1>1. ASSUME NEW j \in UpTo(S, i)
      PROVE  Cardinality(Since(j)) = k - Rank(S, j) + 1 /\ Rank(S, j) \in 1..Cardinality(S) /\ Rank(S, j) <= k
  <2>1. j \in S /\ j \in Int /\ j <= i
    BY <1>0 DEF UpTo
  <2>2. Since(j) = UpTo(From(S, j), i)
    <3>1. \A x \in S : x >= j <=> j <= x
      BY <1>0, <2>1
    <3> QED BY <3>1 DEF UpTo, From
  <2>3. Rank(S, i) = Rank(From(S, j), i) + Rank(S, j - 1) /\ FewNumbers(From(S, j))
    <3>1. j - 1 <= i
      BY <2>1
    <3> QED BY <2>1, <3>1, LaterPlaces
  <2>4. Rank(S, j) = Rank(S, j - 1) + 1 /\ Rank(S, j - 1) \in Nat
    BY <2>1, NextRank
  <2>5. Rank(From(S, j), i) \in Nat
    BY <2>3, RankGrows
  <2>6. Cardinality(Since(j)) = Rank(From(S, j), i)
    BY <2>2 DEF Rank
  <2>7. Rank(S, j) \in 1..Cardinality(S) /\ Rank(S, j) <= Rank(S, i)
    BY <2>1, RankGrows
  <2> HIDE DEF Since
  <2> QED BY <2>3, <2>4, <2>5, <2>6, <2>7
<1> DEFINE W == Window(S, n, k)
<1>2. ASSUME NEW j, j \in UpTo(S, i), Cardinality(Since(j)) <= n
      PROVE  j \in W
  <2> DEFINE r == Rank(S, j)
  <2>1. r \in k - n + 1..k
    BY <1>0, <1>1, <1>2
  <2>2. Nth(S, r) = j
    BY <1>2, PlaceOfRank DEF UpTo
  <2> HIDE DEF r, k
  <2> QED BY <2>1, <2>2 DEF Window
<1>3. ASSUME NEW j, j \in W
      PROVE  j \in UpTo(S, i) /\ Cardinality(Since(j)) <= n
  <2>1. PICK r \in k - n + 1..k : j = Nth(S, r)
    <3> HIDE DEF k
    <3> QED BY <1>3 DEF Window
  <2>2. r \in 1..Cardinality(S)
    BY <1>0, <2>1
  <2>3. j \in S /\ Rank(S, j) = r
    BY <2>1, <2>2, RankHasPlace
  <2>4. j <= i
    <3>1. i < j => Rank(S, i) < Rank(S, j)
      BY <2>3, RankGrows
    <3>2. ~(Rank(S, i) < Rank(S, j))
      BY <1>0, <2>1, <2>3
    <3> QED BY <1>0, <2>3, <3>1, <3>2
  <2>5. j \in UpTo(S, i)
    BY <2>3, <2>4 DEF UpTo
  <2>6. Cardinality(Since(j)) = k - r + 1
    BY <1>1, <2>3, <2>5
  <2> HIDE DEF Since
  <2> QED BY <1>0, <2>1, <2>5, <2>6
<1> HIDE DEF W
<1>4. \A j : j \in Latest(S, n, i) <=> j \in UpTo(S, i) /\ Cardinality(Since(j)) <= n
  BY DEF Latest
<1> HIDE DEF Since
<1>5. \A j : j \in Latest(S, n, i) <=> j \in W
  BY <1>2, <1>3, <1>4
<1>6. Latest(S, n, i) = W
  BY <1>5
<1> QED BY <1>6 DEF W

\* The sessions of a history have prices.
LEMMA SessionsPriced ==
    ASSUME NEW days, Historied(days)
    PROVE  Priced(Sessions(days))
<1> DEFINE s == Sessions(days)
           f == Datings(days)
           K == KeptDays(days)
<1>1. /\ Cardinality(K) \in Nat /\ DOMAIN s = 1..Cardinality(K)
      /\ \A i \in DOMAIN s : s[i].date \in K /\ s[i] = f[s[i].date]
  BY SessionsDated, DatedIs
<1>2. ASSUME NEW d \in K
      PROVE  f[d].high \in Int /\ f[d].low \in Int /\ f[d].close \in Int
  <2>1. d \in DOMAIN days /\ days[d] \in RawDay
    BY DEF KeptDays, Historied
  <2>2. f[d].high = days[d].high /\ f[d].low = days[d].low /\ f[d].close = days[d].close
    BY <2>1 DEF Datings, Dated
  <2> QED BY <2>1, <2>2 DEF RawDay
<1> HIDE DEF s, f, K
<1>3. \A i \in 1..Cardinality(K) : s[i].high \in Int /\ s[i].low \in Int /\ s[i].close \in Int
  BY <1>1, <1>2
<1> QED BY <1>1, <1>3 DEF Priced, s

\* The days that are not a roll's, up to one of them.
LEMMA CleanUpTo ==
    ASSUME NEW s, Priced(s), NEW i \in DOMAIN s
    PROVE  {j \in 1..i : ~IsRoll(s, j)} = UpTo(Clean(s), i)
<1>1. PICK a \in Nat : DOMAIN s = 1..a
  BY DEF Priced
<1>2. \A j : j \in 1..i <=> j \in 1..a /\ j <= i
  BY <1>1
<1> QED BY <1>1, <1>2 DEF UpTo, Clean

\* What the ATR of a day is.
LEMMA AtrOfRealDays ==
    ASSUME NEW s, Priced(s), NEW n \in Nat \ {0}, NEW i \in DOMAIN s
    PROVE  Atr(s, n)[i] = IF Rank(Clean(s), i) < n THEN NaN ELSE RangeSum(s, Latest(Clean(s), n, i))
<1> DEFINE C == Clean(s)
           k == Rank(C, i)
<1>1. k \in 1..Cardinality(C) /\ Atr(s, n)[i] = CleanSums(s, n)[k]
  BY AtrByRank
<1>2. FewNumbers(C) /\ i \in Int
  BY CleanIs
<1> HIDE DEF k
<1>3. k < n => CleanSums(s, n)[k] = NaN
  BY <1>1, WindowSum
<1>4. ~(k < n) => CleanSums(s, n)[k] = RangeSum(s, Window(C, n, k))
  BY <1>1, WindowSum
<1>5. ~(k < n) => Latest(C, n, i) = Window(C, n, k)
  BY <1>2, LatestIs DEF k
<1> QED BY <1>1, <1>3, <1>4, <1>5 DEF k

\* AtrIsOfRealDays, of every history.
LEMMA SessionsAveraged ==
    ASSUME Historied(raw)
    PROVE  AtrIsOfRealDays
<1> DEFINE s == Sessions(raw)
           Real(i) == {j \in 1..i : ~IsRoll(s, j)}
<1>1. Priced(s)
  BY SessionsPriced
<1>2. AtrIsOfRealDays
        <=> \A n \in {p.atrDays : p \in FilterParams}, i \in DOMAIN s :
              Atr(s, n)[i] = IF Cardinality(Real(i)) < n THEN NaN
                             ELSE RangeSum(s, {j \in Real(i) : Cardinality({k \in Real(i) : k >= j}) <= n})
  BY DEF AtrIsOfRealDays, RangeSum
<1> HIDE DEF s
<1>3. ASSUME NEW n \in {p.atrDays : p \in FilterParams}, NEW i \in DOMAIN s
      PROVE  Atr(s, n)[i] = IF Cardinality(Real(i)) < n THEN NaN
                            ELSE RangeSum(s, {j \in Real(i) : Cardinality({k \in Real(i) : k >= j}) <= n})
  <2>1. n \in Nat \ {0}
    OBVIOUS
  <2>2. Real(i) = UpTo(Clean(s), i)
    BY <1>1, CleanUpTo
  <2>3. Cardinality(Real(i)) = Rank(Clean(s), i)
    BY <2>2 DEF Rank
  <2>4. {j \in Real(i) : Cardinality({k \in Real(i) : k >= j}) <= n} = Latest(Clean(s), n, i)
    BY <2>2 DEF Latest
  <2>5. Atr(s, n)[i] = IF Rank(Clean(s), i) < n THEN NaN ELSE RangeSum(s, Latest(Clean(s), n, i))
    BY <1>1, <2>1, AtrOfRealDays
  <2> HIDE DEF Real
  <2> QED BY <2>3, <2>4, <2>5
<1> HIDE DEF Real
<1> QED BY <1>2, <1>3

\* AtrIsOfRealDays, _atr: whatever the history, the ATR of a day is the sum of
\* the latest true ranges that are not a roll's.
THEOREM AtrAlwaysOfRealDays == DaysSpec => []AtrIsOfRealDays
<1>1. DaysInv => AtrIsOfRealDays
  <2>1. RawDays \subseteq RawDay
    BY DEF RawDay
  <2> HIDE DEF RawDay
  <2>2. DaysInv => Historied(raw)
    BY <2>1 DEF DaysInv, Historied
  <2> QED BY <2>2, SessionsAveraged
<1> QED BY <1>1, DaysInvInit, DaysInvStep, PTL DEF DaysSpec
=============================================================================
