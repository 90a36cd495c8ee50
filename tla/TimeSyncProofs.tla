--------------------------- MODULE TimeSyncProofs ---------------------------
(***************************************************************************)
(* Theorems about TimeSync, for every set of topics, frame rate, length    *)
(* and range of the columns.                                               *)
(*                                                                         *)
(* The invariant says what each step of a synchronizer has computed from   *)
(* the columns it was given.  The lemmas before it say what that is worth: *)
(* what sorting gives (SortedIs), which message an as-of join holds        *)
(* (BackwardRowIs, BackwardIs, ForwardIs) and the nearest neighbour        *)
(* chooses (NearestIs), and that a timeline ascends from the start         *)
(* (TimelineIs).                                                           *)
(***************************************************************************)
EXTENDS TimeSync, SequenceTheorems, FiniteSetTheorems, WellFoundedInduction, TLAPS

-----------------------------------------------------------------------------
(* Smallest and largest numbers *)

LEMMA MinIs ==
  ASSUME NEW S, S \subseteq Nat, S # {}
  PROVE  Min(S) \in S /\ \A y \in S : Min(S) <= y
<1> DEFINE R == OpToRel(<, Nat)
<1>1. IsWellFoundedOn(R, Nat)
  BY NatLessThanWellFounded
<1>2. \E x \in S : \A y \in S : ~ (<<y, x>> \in R)
  <2> HIDE DEF R
  <2> QED BY <1>1, WFMin
<1>3. \A y, x \in Nat : <<y, x>> \in R <=> y < x
  BY DEF OpToRel
<1>4. \E x \in S : \A y \in S : x <= y
  <2>1. PICK x \in S : \A y \in S : ~ (y < x)
    BY <1>2, <1>3
  <2> QED BY <2>1
<1> QED BY <1>4 DEF Min

LEMMA MaxIs ==
  ASSUME NEW m \in Nat, NEW S, S \subseteq 0 .. m, S # {}
  PROVE  Max(S) \in S /\ \A y \in S : y <= Max(S)
<1> DEFINE T == {m - y : y \in S}
<1>1. T \subseteq Nat /\ T # {}
  <2>1. \A y \in S : y \in 0 .. m
    OBVIOUS
  <2>2. \A y \in S : m - y \in Nat
    BY <2>1
  <2> QED BY <2>2
<1>2. Min(T) \in T /\ \A z \in T : Min(T) <= z
  <2> HIDE DEF T
  <2> QED BY <1>1, MinIs
<1>3. PICK x \in S : m - x = Min(T)
  BY <1>2
<1>4. \A y \in S : m - x <= m - y
  BY <1>2, <1>3
<1>5. \E z \in S : \A y \in S : z >= y
  BY <1>4
<1> QED BY <1>5 DEF Max

(* A function on 1 .. n is a sequence of length n. *)
LEMMA FunLen ==
  ASSUME NEW n \in Nat, NEW T, NEW f \in [1 .. n -> T]
  PROVE  Len(f) = n /\ DOMAIN f = 1 .. n
<1>1. f \in Seq(T)
  BY SeqDef
<1> QED BY <1>1, LenProperties

LEMMA ColumnType ==
  ASSUME NEW s \in Column
  PROVE  /\ Len(s) \in Nat /\ DOMAIN s = 1 .. Len(s) /\ s \in [1 .. Len(s) -> Time]
         /\ Len(s) <= MaxLen /\ Range(s) \subseteq Time
<1>1. PICK n \in 0 .. MaxLen : s \in [1 .. n -> Time]
  BY DEF Column
<1>2. n \in Nat /\ n <= MaxLen
  BY <1>1, TimeSyncAssumption
<1>3. Len(s) = n
  BY <1>1, <1>2, FunLen
<1> QED BY <1>1, <1>2, <1>3 DEF Range

-----------------------------------------------------------------------------
(* Sorting *)

(* Sorting gives the values of a column, all of them, ascending. *)
LEMMA SortedIs ==
  ASSUME NEW m \in Nat, NEW f, IsFiniteSet(DOMAIN f), Range(f) \subseteq 0 .. m
  PROVE  /\ Cardinality(DOMAIN f) \in Nat
         /\ Sorted(f) \in [1 .. Cardinality(DOMAIN f) -> Range(f)]
         /\ Ascending(Sorted(f))
         /\ \A x \in Range(f) : \E i \in 1 .. Cardinality(DOMAIN f) : Sorted(f)[i] = x
<1> DEFINE n == Cardinality(DOMAIN f)
           U(x) == {r \in DOMAIN f : f[r] <= x}
           C(k) == {x \in Range(f) : Cardinality(U(x)) >= k}
<1>1. n \in Nat
  BY FS_CardinalityType
<1>2. \A r \in DOMAIN f : f[r] \in Range(f) /\ f[r] \in 0 .. m
  BY DEF Range
<1>3. ASSUME NEW x
      PROVE  IsFiniteSet(U(x)) /\ Cardinality(U(x)) \in Nat /\ Cardinality(U(x)) <= n
  <2>1. U(x) \subseteq DOMAIN f
    OBVIOUS
  <2> HIDE DEF U
  <2> QED BY <2>1, FS_Subset, FS_CardinalityType
<1>4. Sorted(f) = [k \in 1 .. n |-> Min(C(k))]
  BY DEF Sorted
<1>5. ASSUME NEW k \in 1 .. n PROVE C(k) \subseteq Nat /\ C(k) # {}
  <2>1. C(k) \subseteq Nat
    OBVIOUS
  <2>2. DOMAIN f # {}
    BY <1>1, FS_EmptySet
  <2>3. Range(f) # {}
    BY <2>2 DEF Range
  <2>4. Max(Range(f)) \in Range(f) /\ \A y \in Range(f) : y <= Max(Range(f))
    BY <2>3, MaxIs
  <2>5. U(Max(Range(f))) = DOMAIN f
    BY <1>2, <2>4
  <2>6. Max(Range(f)) \in C(k)
    <3>1. Cardinality(U(Max(Range(f)))) >= k
      <4> HIDE DEF U
      <4> QED BY <1>1, <2>5
    <3> QED BY <2>4, <3>1
  <2> QED BY <2>1, <2>6
<1>6. ASSUME NEW k \in 1 .. n
      PROVE  Min(C(k)) \in C(k) /\ \A y \in C(k) : Min(C(k)) <= y
  <2> HIDE DEF C
  <2> QED BY <1>5, MinIs
<1>7. Sorted(f) \in [1 .. n -> Range(f)]
  <2>1. \A k \in 1 .. n : Min(C(k)) \in Range(f)
    BY <1>6
  <2> HIDE DEF C, n
  <2> QED BY <1>4, <2>1
<1>8. Ascending(Sorted(f))
  <2> SUFFICES ASSUME NEW i \in 1 .. n, NEW j \in 1 .. n, i < j
               PROVE  Min(C(i)) <= Min(C(j))
    <3>1. DOMAIN Sorted(f) = 1 .. n /\ \A k \in 1 .. n : Sorted(f)[k] = Min(C(k))
      BY <1>4
    <3> HIDE DEF C, n
    <3> QED BY <3>1 DEF Ascending
  <2>1. Min(C(j)) \in Range(f) /\ Cardinality(U(Min(C(j)))) >= j
    BY <1>6
  <2>2. Cardinality(U(Min(C(j)))) >= i
    <3>1. Cardinality(U(Min(C(j)))) \in Nat
      BY <1>3
    <3> HIDE DEF U, C, n
    <3> QED BY <2>1, <3>1
  <2>3. Min(C(j)) \in C(i)
    BY <2>1, <2>2
  <2> QED BY <2>3, <1>6
<1>9. ASSUME NEW x \in Range(f) PROVE \E i \in 1 .. n : Sorted(f)[i] = x
  <2> DEFINE k == Cardinality(U(x))
  <2>1. U(x) # {}
    BY <1>2 DEF Range
  <2>2. k \in 1 .. n
    <3>1. k # 0
      <4> HIDE DEF U
      <4> QED BY <1>3, <2>1, FS_EmptySet
    <3> HIDE DEF U, n
    <3> QED BY <1>1, <1>3, <3>1
  <2>3. x \in C(k)
    <3>1. k \in Nat
      BY <1>3
    <3> QED BY <3>1
  <2>4. ASSUME NEW y \in C(k), y < x PROVE FALSE
    <3>1. y \in Range(f) /\ Cardinality(U(y)) >= k
      BY <2>4
    <3>2. U(y) \subseteq U(x) /\ U(y) # U(x)
      <4>1. PICK r \in DOMAIN f : f[r] = x
        BY DEF Range
      <4>2. r \in U(x) /\ r \notin U(y)
        BY <4>1, <2>4, <1>2, <3>1
      <4> QED BY <4>2, <1>2, <2>4, <3>1
    <3>3. Cardinality(U(y)) <= k /\ Cardinality(U(y)) \in Nat /\ k \in Nat
          /\ (k = Cardinality(U(y)) => U(x) = U(y))
      <4>1. IsFiniteSet(U(x)) /\ k \in Nat /\ Cardinality(U(y)) \in Nat
        BY <1>3
      <4> HIDE DEF U
      <4> QED BY <3>2, <4>1, FS_Subset
    <3> HIDE DEF U
    <3> QED BY <3>1, <3>2, <3>3
  <2>5. Min(C(k)) = x
    <3>1. Min(C(k)) \in C(k) /\ Min(C(k)) <= x
      BY <2>2, <2>3, <1>6
    <3>2. Min(C(k)) \in Nat /\ x \in Nat
      BY <3>1, <2>2, <1>5
    <3> HIDE DEF C, k
    <3> QED BY <3>1, <3>2, <2>4
  <2>6. Sorted(f)[k] = x
    <3> HIDE DEF C, k
    <3> QED BY <1>4, <2>2, <2>5
  <2> HIDE DEF k
  <2> QED BY <2>2, <2>6
<1> QED BY <1>1, <1>7, <1>8, <1>9

-----------------------------------------------------------------------------
(* The as-of joins, of one row of the timeline *)

(* Backward: the last of the messages that are not later. *)
LEMMA BackwardRowIs ==
  ASSUME NEW m \in Nat, NEW s \in [1 .. m -> Time], Ascending(s),
         Len(timeline) \in Nat, NEW k \in 1 .. Len(timeline), timeline[k] \in Nat
  PROVE  /\ BackwardRows(s)[k] \in 0 .. m
         /\ \A j \in 1 .. m : s[j] <= timeline[k] <=> j <= BackwardRows(s)[k]
<1> DEFINE S == {j \in 1 .. m + 1 : j > m \/ s[j] > timeline[k]}
           p == Min(S)
<1>1. Len(s) = m /\ DOMAIN s = 1 .. m
  BY FunLen
<1>2. \A j \in 1 .. m : s[j] \in Nat
  BY TimeSyncAssumption DEF Time
<1>3. S \subseteq Nat /\ S # {}
  <2>1. m + 1 \in S
    OBVIOUS
  <2>2. S \subseteq 1 .. m + 1
    OBVIOUS
  <2> HIDE DEF S
  <2> QED BY <2>1, <2>2
<1>4. p \in S /\ \A y \in S : p <= y
  <2> HIDE DEF S
  <2> QED BY <1>3, MinIs
<1>5. BackwardRows(s)[k] = p - 1
  BY <1>1 DEF BackwardRows
<1>6. p \in 1 .. m + 1 /\ (p > m \/ s[p] > timeline[k])
  BY <1>4
<1>7. ASSUME NEW j \in 1 .. m, j < p PROVE s[j] <= timeline[k]
  <2>1. j \notin S
    <3> HIDE DEF S
    <3> QED BY <1>4, <1>6, <1>7
  <2> QED BY <2>1, <1>2
<1>8. ASSUME NEW j \in 1 .. m, s[j] <= timeline[k] PROVE j < p
  <2> SUFFICES ASSUME p <= j PROVE FALSE
    BY <1>6
  <2>1. p \in 1 .. m /\ s[p] > timeline[k]
    BY <1>6
  <2>2. s[p] <= s[j]
    <3> HIDE DEF p, S
    <3>1. p = j \/ p < j
      BY <2>1
    <3> QED BY <3>1, <2>1, <1>1, <1>2 DEF Ascending
  <2> HIDE DEF p, S
  <2> QED BY <2>1, <2>2, <1>2, <1>8
<1> HIDE DEF p, S
<1>9. ASSUME NEW j \in 1 .. m PROVE s[j] <= timeline[k] <=> j <= p - 1
  <2>1. j < p <=> j <= p - 1
    BY <1>6
  <2> QED BY <2>1, <1>7, <1>8
<1> QED BY <1>5, <1>6, <1>9

(* Which is the latest message that is not later. *)
LEMMA BackwardIs ==
  ASSUME NEW m \in Nat, NEW s \in [1 .. m -> Time], Ascending(s),
         Len(timeline) \in Nat, NEW k \in 1 .. Len(timeline), timeline[k] \in Nat,
         NEW first \in Range(s), first <= timeline[k]
  PROVE  /\ AsofBackward(s)[k] \in Range(s)
         /\ AsofBackward(s)[k] <= timeline[k]
         /\ \A x \in Range(s) : x <= timeline[k] => x <= AsofBackward(s)[k]
<1> DEFINE p == BackwardRows(s)[k]
<1>1. Len(s) = m /\ DOMAIN s = 1 .. m
  BY FunLen
<1>2. \A j \in 1 .. m : s[j] \in Nat
  BY TimeSyncAssumption DEF Time
<1>3. p \in 0 .. m /\ \A j \in 1 .. m : s[j] <= timeline[k] <=> j <= p
  BY BackwardRowIs
<1>4. AsofBackward(s)[k] = RowOrNull(s, p)
  BY DEF AsofBackward
<1> HIDE DEF p
<1>5. p \in 1 .. m
  <2>1. PICK j \in 1 .. m : s[j] = first
    BY <1>1 DEF Range
  <2> QED BY <2>1, <1>3
<1>6. AsofBackward(s)[k] = s[p]
  BY <1>1, <1>4, <1>5 DEF RowOrNull
<1>7. s[p] <= timeline[k] /\ s[p] \in Range(s)
  BY <1>1, <1>3, <1>5 DEF Range
<1>8. ASSUME NEW x \in Range(s), x <= timeline[k] PROVE x <= s[p]
  <2>1. PICK j \in 1 .. m : s[j] = x
    BY <1>1 DEF Range
  <2>2. j = p \/ j < p
    BY <2>1, <1>3, <1>5, <1>8
  <2> QED BY <2>1, <2>2, <1>1, <1>2, <1>5 DEF Ascending
<1> QED BY <1>6, <1>7, <1>8

(* Forward: the earliest message that is not earlier, or none. *)
LEMMA ForwardIs ==
  ASSUME NEW m \in Nat, NEW s \in [1 .. m -> Time], Ascending(s),
         Len(timeline) \in Nat, NEW k \in 1 .. Len(timeline), timeline[k] \in Nat
  PROVE  IF AsofForward(s)[k] = Null THEN \A x \in Range(s) : x < timeline[k]
         ELSE /\ AsofForward(s)[k] \in Range(s)
              /\ AsofForward(s)[k] >= timeline[k]
              /\ \A x \in Range(s) : x >= timeline[k] => AsofForward(s)[k] <= x
<1> DEFINE S == {j \in 1 .. m + 1 : j > m \/ s[j] >= timeline[k]}
           p == Min(S)
<1>1. Len(s) = m /\ DOMAIN s = 1 .. m
  BY FunLen
<1>2. \A j \in 1 .. m : s[j] \in Nat
  BY TimeSyncAssumption DEF Time
<1>3. S \subseteq Nat /\ S # {}
  <2>1. m + 1 \in S
    OBVIOUS
  <2>2. S \subseteq 1 .. m + 1
    OBVIOUS
  <2> HIDE DEF S
  <2> QED BY <2>1, <2>2
<1>4. p \in S /\ \A y \in S : p <= y
  <2> HIDE DEF S
  <2> QED BY <1>3, MinIs
<1>5. AsofForward(s)[k] = RowOrNull(s, p)
  BY <1>1 DEF AsofForward
<1>6. p \in 1 .. m + 1 /\ (p > m \/ s[p] >= timeline[k])
  BY <1>4
<1>7. ASSUME NEW j \in 1 .. m, s[j] >= timeline[k] PROVE p <= j
  <2>1. j \in S
    BY <1>7
  <2> HIDE DEF S
  <2> QED BY <2>1, <1>4
<1> HIDE DEF p, S
<1>8. CASE p = m + 1
  <2>1. AsofForward(s)[k] = Null
    BY <1>1, <1>5, <1>8 DEF RowOrNull
  <2>2. ASSUME NEW x \in Range(s) PROVE x < timeline[k]
    <3>1. PICK j \in 1 .. m : s[j] = x
      BY <1>1 DEF Range
    <3>2. ~ (s[j] >= timeline[k])
      BY <1>7, <1>8
    <3> QED BY <3>1, <3>2, <1>2
  <2> QED BY <2>1, <2>2
<1>9. CASE p # m + 1
  <2>1. p \in 1 .. m /\ s[p] >= timeline[k]
    BY <1>6, <1>9
  <2>2. AsofForward(s)[k] = s[p]
    BY <1>1, <1>5, <2>1 DEF RowOrNull
  <2>3. s[p] \in Range(s) /\ s[p] # Null
    BY <1>1, <1>2, <2>1 DEF Range, Null
  <2>4. ASSUME NEW x \in Range(s), x >= timeline[k] PROVE s[p] <= x
    <3>1. PICK j \in 1 .. m : s[j] = x
      BY <1>1 DEF Range
    <3>2. p = j \/ p < j
      BY <3>1, <1>7, <2>4, <2>1
    <3> QED BY <3>1, <3>2, <1>1, <1>2, <2>1 DEF Ascending
  <2> QED BY <2>1, <2>2, <2>3, <2>4
<1> QED BY <1>8, <1>9

-----------------------------------------------------------------------------
(* The nearest neighbour *)

(* A difference can be squared. *)
Fits(d) == d * d <= I64Max

(* Of the messages S there are, before and after x, some so near to x that
   the differences can be squared; unless none is after x, so that there is
   no choice.                                                               *)
FitsAt(S, x) ==
  (\E y \in S : y >= x) =>
    \E b, f \in S : b <= x /\ x <= f /\ Fits(x - b) /\ Fits(f - x)

(* In i64 nanoseconds: no row is more than 3.03 seconds from the message
   before and the one after it.                                             *)
SquaresFit ==
  method = "nn" => \A t \in Topic : \A k \in DOMAIN timeline : FitsAt(Stamps(t), timeline[k])

(* The row holds the nearest of the messages S, the past one of two. *)
Chosen(row, S, x) ==
  /\ row \in S
  /\ \A y \in S : \/ Distance(row, x) < Distance(y, x)
                  \/ Distance(row, x) = Distance(y, x) /\ row <= y

LEMMA SquareIs ==
  ASSUME NEW a \in Time, NEW b \in Time, Fits(Distance(a, b))
  PROVE  SquaredTimeDifference(a, b) = Distance(a, b) * Distance(a, b)
<1> DEFINE d == Distance(a, b)
           q == d * d
           w == 2 * (I64Max + 1)
<1>1. MaxTime \in Nat /\ I64Max \in Nat /\ a \in Nat /\ b \in Nat
  BY TimeSyncAssumption DEF Time
<1>2. d \in Nat /\ d <= MaxTime
  BY <1>1 DEF Distance, Time
<1>3. q \in Nat /\ q <= I64Max
  <2>1. d * d <= I64Max
    BY DEF Fits
  <2> HIDE DEF d
  <2> QED BY <1>2, <2>1
<1>4. (a - b) * (a - b) = q
  BY <1>1 DEF Distance
<1>5. (q + I64Max + 1) \in 0 .. w - 1
  <2> HIDE DEF q
  <2> QED BY <1>1, <1>3
<1>6. (q + I64Max + 1) % w = q + I64Max + 1
  <2> HIDE DEF q
  <2>1. w \in Nat \ {0}
    BY <1>1
  <2> HIDE DEF w
  <2> QED BY <1>5, <2>1
<1>7. SquaredTimeDifference(a, b) = ((q + I64Max + 1) % w) - (I64Max + 1)
  <2> HIDE DEF q
  <2> QED BY <1>4 DEF SquaredTimeDifference
<1> HIDE DEF q, w
<1>8. SquaredTimeDifference(a, b) = q
  BY <1>1, <1>3, <1>6, <1>7
<1> QED BY <1>8 DEF q

LEMMA SquaresOrder ==
  ASSUME NEW a \in Nat, NEW b \in Nat
  PROVE  a * a < b * b <=> a < b
<1>1. ASSUME a < b PROVE a * a < b * b
  <2>1. a * a <= a * b
    BY <1>1
  <2>2. a * b < b * b
    BY <1>1
  <2> QED BY <2>1, <2>2
<1>2. ASSUME b <= a PROVE b * b <= a * a
  <2>1. b * b <= a * b
    BY <1>2
  <2>2. a * b <= a * a
    BY <1>2
  <2> QED BY <2>1, <2>2
<1> QED BY <1>1, <1>2

LEMMA TimesAscend ==
  ASSUME NEW a \in Nat, NEW b \in Nat, NEW c \in Nat, a <= b
  PROVE  a * c \in Nat /\ b * c \in Nat /\ a * c <= b * c
<1>1. PICK d \in Nat : b = a + d
  <2>1. b - a \in Nat /\ b = a + (b - a)
    OBVIOUS
  <2> QED BY <2>1
<1>2. a * c \in Nat /\ b * c \in Nat /\ d * c \in Nat
  OBVIOUS
<1>3. b * c = a * c + d * c
  BY <1>1
<1> QED BY <1>2, <1>3

LEMMA FitsBelow ==
  ASSUME NEW c \in Nat, NEW d \in Nat, c <= d, Fits(d)
  PROVE  Fits(c)
<1>1. c * c <= d * c /\ c * c \in Nat /\ d * c \in Nat
  BY TimesAscend
<1>2. c * d <= d * d /\ d * d \in Nat
  BY TimesAscend
<1>3. I64Max \in Nat /\ d * d <= I64Max
  BY TimeSyncAssumption DEF Fits
<1>4. c * d = d * c
  OBVIOUS
<1>5. c * c <= I64Max
  BY <1>1, <1>2, <1>3, <1>4
<1> QED BY <1>5 DEF Fits

LEMMA NearestIs ==
  ASSUME NEW s \in Column, Len(timeline) \in Nat, NEW k \in 1 .. Len(timeline),
         timeline[k] \in Time, NEW first \in Range(s), first <= timeline[k]
  PROVE  /\ AlignNearest(s)[k] \in Range(s)
         /\ FitsAt(Range(s), timeline[k]) => Chosen(AlignNearest(s)[k], Range(s), timeline[k])
<1> DEFINE m == Len(s)
           sorted == Sorted(s)
           b == AsofBackward(sorted)[k]
           f == AsofForward(sorted)[k]
           x == timeline[k]
           row == AlignNearest(s)[k]
<1>1. /\ m \in Nat /\ DOMAIN s = 1 .. m /\ Range(s) \subseteq Time
  BY ColumnType
<1>2. Cardinality(DOMAIN s) = m /\ IsFiniteSet(DOMAIN s)
  <2> HIDE DEF m
  <2>1. IsFiniteSet(1 .. m) /\ Cardinality(1 .. m) = IF 1 > m THEN 0 ELSE m - 1 + 1
    BY <1>1, FS_Interval
  <2> QED BY <1>1, <2>1
<1>3. /\ sorted \in [1 .. m -> Range(s)] /\ Ascending(sorted)
      /\ \A y \in Range(s) : \E i \in 1 .. m : sorted[i] = y
  <2>1. MaxTime \in Nat /\ Range(s) \subseteq 0 .. MaxTime
    BY <1>1, TimeSyncAssumption DEF Time
  <2> HIDE DEF m
  <2> QED BY <1>2, <2>1, SortedIs
<1>4. sorted \in [1 .. m -> Time] /\ Range(sorted) = Range(s)
  <2> HIDE DEF sorted, m
  <2> QED BY <1>1, <1>3 DEF Range
<1>5. x \in Nat /\ Range(s) \subseteq Nat
  BY <1>1, TimeSyncAssumption DEF Time
<1>6. b \in Range(s) /\ b <= x /\ \A y \in Range(s) : y <= x => y <= b
  <2> HIDE DEF sorted, m
  <2> QED BY <1>1, <1>3, <1>4, <1>5, BackwardIs
<1>7. IF f = Null THEN \A y \in Range(s) : y < x
      ELSE f \in Range(s) /\ f >= x /\ \A y \in Range(s) : y >= x => f <= y
  <2> HIDE DEF sorted, m
  <2> QED BY <1>1, <1>3, <1>4, <1>5, ForwardIs
<1>8. row = ChooseNearest(x, b, f)
  <2>1. k \in DOMAIN timeline
    OBVIOUS
  <2> QED BY <2>1 DEF AlignNearest
<1>9. b \in Nat /\ b # Null
  BY <1>5, <1>6 DEF Null
<1> HIDE DEF b, f, x, row, sorted, m
<1>10. row = IF f # Null /\ SquaredTimeDifference(x, f) < SquaredTimeDifference(x, b) THEN f ELSE b
  BY <1>8, <1>9 DEF ChooseNearest
<1>11. row \in Range(s)
  BY <1>6, <1>7, <1>10
<1>12. ASSUME FitsAt(Range(s), x) PROVE Chosen(row, Range(s), x)
  <2>1. CASE f = Null
    <3>1. row = b /\ \A y \in Range(s) : y <= b
      BY <2>1, <1>5, <1>6, <1>7, <1>10
    <3> QED BY <3>1, <1>5, <1>6 DEF Chosen, Distance
  <2>2. CASE f # Null
    <3>1. x \in Time /\ f \in Time /\ b \in Time /\ f \in Nat
      BY <1>1, <1>5, <1>6, <1>7, <2>2 DEF x
    <3>2. /\ SquaredTimeDifference(x, f) = Distance(x, f) * Distance(x, f)
          /\ SquaredTimeDifference(x, b) = Distance(x, b) * Distance(x, b)
      <4>1. PICK b0, f0 \in Range(s) : b0 <= x /\ x <= f0 /\ Fits(x - b0) /\ Fits(f0 - x)
        BY <1>7, <1>12, <2>2 DEF FitsAt
      <4>2. b0 <= b /\ f <= f0 /\ b0 \in Nat /\ f0 \in Nat
        BY <1>5, <1>6, <1>7, <2>2, <4>1
      <4>3. /\ Distance(x, f) \in Nat /\ f0 - x \in Nat /\ Distance(x, f) <= f0 - x
            /\ Distance(x, b) \in Nat /\ x - b0 \in Nat /\ Distance(x, b) <= x - b0
        BY <1>5, <1>6, <1>7, <1>9, <2>2, <3>1, <4>1, <4>2 DEF Distance
      <4>4. Fits(Distance(x, f)) /\ Fits(Distance(x, b))
        BY <4>1, <4>3, FitsBelow
      <4> QED BY <3>1, <4>4, SquareIs
    <3>3. Distance(x, f) \in Nat /\ Distance(x, b) \in Nat
      BY <1>5, <1>9, <3>1 DEF Distance
    <3>4. row = IF Distance(x, f) < Distance(x, b) THEN f ELSE b
      BY <1>10, <2>2, <3>2, <3>3, SquaresOrder
    <3>5. ASSUME NEW y \in Range(s)
          PROVE  \/ Distance(row, x) < Distance(y, x)
                 \/ Distance(row, x) = Distance(y, x) /\ row <= y
      <4>1. (y <= x /\ y <= b) \/ (y >= x /\ f <= y)
        BY <1>5, <1>6, <1>7, <2>2
      <4> QED BY <4>1, <3>4, <1>5, <1>6, <1>7, <1>9, <2>2, <3>1 DEF Distance
    <3> QED BY <3>5, <1>11 DEF Chosen
  <2> QED BY <2>1, <2>2
<1> QED BY <1>11, <1>12 DEF row, x

(* Later rows hold later messages. *)
LEMMA ChosenAscend ==
  ASSUME NEW S, S \subseteq Nat, NEW x \in Nat, NEW y \in Nat, x <= y,
         NEW p, NEW q, Chosen(p, S, x), Chosen(q, S, y)
  PROVE  p <= q
<1>1. p \in S /\ q \in S /\ p \in Nat /\ q \in Nat
  BY DEF Chosen
<1>2. Distance(p, x) < Distance(q, x) \/ p <= q
  BY <1>1 DEF Chosen
<1>3. Distance(q, y) <= Distance(p, y)
  BY <1>1 DEF Chosen, Distance
<1> QED BY <1>1, <1>2, <1>3 DEF Distance

-----------------------------------------------------------------------------
(* The timeline *)

TypeInv ==
  /\ method \in Method /\ fps \in Fps
  /\ source \in [Topic -> Column]
  /\ method # "nn" => \A t \in Topic : Ascending(source[t])
  /\ phase \in {"bounds", "timeline", "align", "done", "failed"}
  /\ todo \subseteq Topic
  /\ DOMAIN aligned = Topic /\ DOMAIN held = Topic /\ DOMAIN is_fresh = Topic

(* What the steps so far have computed, from the columns. *)
BoundsInv ==
  phase \in {"timeline", "align", "done"} =>
    /\ \A t \in Topic : Stamps(t) # {}
    /\ start = StartBound /\ end = EndBound

TimelineInv ==
  phase \in {"align", "done"} =>
    timeline = IF method = "merge" THEN MergedTimestamps(start, end) ELSE TargetTimestamps(start, end)

Held(t) == IF method = "nn" THEN AlignNearest(source[t]) ELSE AsofBackward(source[t])

AlignedInv ==
  /\ phase \notin {"align", "done"} => todo = Topic
  /\ phase = "done" => todo = {}
  /\ \A t \in Topic \ todo :
       /\ aligned[t] = Held(t)
       /\ held[t] = IF method = "nn" THEN <<>> ELSE BackwardRows(source[t])
       /\ is_fresh[t] = IF method = "merge" THEN <<>> ELSE Fresh(Held(t))

IInv == TypeInv /\ BoundsInv /\ TimelineInv /\ AlignedInv

LEMMA StampsType ==
  ASSUME TypeInv, NEW t \in Topic
  PROVE  /\ Stamps(t) \subseteq 0 .. MaxTime /\ Stamps(t) \subseteq Nat
         /\ source[t] \in Column /\ Stamps(t) = Range(source[t])
         /\ Len(source[t]) \in Nat /\ DOMAIN source[t] = 1 .. Len(source[t])
         /\ Len(source[t]) <= MaxLen
         /\ source[t] \in [1 .. Len(source[t]) -> Time]
<1>1. source[t] \in Column
  BY DEF TypeInv
<1>2. MaxTime \in Nat
  BY TimeSyncAssumption
<1>3. Stamps(t) \subseteq Time
  BY <1>1, ColumnType DEF Stamps
<1> QED BY <1>1, <1>2, <1>3, ColumnType DEF Time, Stamps

(* Every topic has a message that is not after the start, the end is after
   all messages, and the start is the time of one.                          *)
LEMMA BoundsAre ==
  ASSUME TypeInv, \A t \in Topic : Stamps(t) # {}
  PROVE  /\ StartBound \in 0 .. MaxTime /\ EndBound \in 0 .. MaxTime
         /\ \E t \in Topic : StartBound \in Stamps(t)
         /\ \A t \in Topic : \E x \in Stamps(t) : x <= StartBound
         /\ \A t \in Topic : \A x \in Stamps(t) : x <= EndBound
<1> DEFINE F == {Min(Stamps(t)) : t \in Topic}
           L == {Max(Stamps(t)) : t \in Topic}
<1>1. MaxTime \in Nat /\ Topic # {}
  BY TimeSyncAssumption
<1>2. ASSUME NEW t \in Topic
      PROVE  /\ Min(Stamps(t)) \in Stamps(t) /\ Max(Stamps(t)) \in Stamps(t)
             /\ \A x \in Stamps(t) : x <= Max(Stamps(t))
             /\ Min(Stamps(t)) \in 0 .. MaxTime /\ Max(Stamps(t)) \in 0 .. MaxTime
  <2>1. Min(Stamps(t)) \in Stamps(t)
    BY StampsType, MinIs
  <2>2. Max(Stamps(t)) \in Stamps(t) /\ \A x \in Stamps(t) : x <= Max(Stamps(t))
    BY <1>1, StampsType, MaxIs
  <2> QED BY <2>1, <2>2, StampsType
<1>3. F \subseteq 0 .. MaxTime /\ F # {} /\ L \subseteq 0 .. MaxTime /\ L # {}
  BY <1>1, <1>2
<1>4. StartBound = Max(F) /\ EndBound = Max(L)
  BY DEF StartBound, EndBound
<1>5. /\ StartBound \in F /\ \A y \in F : y <= StartBound
      /\ EndBound \in L /\ \A y \in L : y <= EndBound
  <2> HIDE DEF F, L
  <2> QED BY <1>1, <1>3, <1>4, MaxIs
<1>6. StartBound \in 0 .. MaxTime /\ EndBound \in 0 .. MaxTime
  <2> HIDE DEF F, L
  <2> QED BY <1>3, <1>5
<1>7. \E t \in Topic : StartBound \in Stamps(t)
  BY <1>2, <1>5
<1>8. \A t \in Topic : Min(Stamps(t)) <= StartBound
  BY <1>5
<1>9. ASSUME NEW t \in Topic, NEW x \in Stamps(t) PROVE x <= EndBound
  <2>1. x <= Max(Stamps(t)) /\ Max(Stamps(t)) <= EndBound
    BY <1>2, <1>5
  <2>2. x \in Nat /\ Max(Stamps(t)) \in Nat /\ EndBound \in Nat
    BY <1>2, <1>6, StampsType
  <2> QED BY <2>1, <2>2
<1> QED BY <1>2, <1>6, <1>7, <1>8, <1>9

LEMMA DivideIs ==
  ASSUME NEW a \in Nat, NEW d \in Nat, d > 0
  PROVE  a \div d \in Nat /\ (a \div d) * d <= a
<1>1. a \div d \in Nat /\ a = d * (a \div d) + (a % d) /\ a % d \in Nat
  OBVIOUS
<1> DEFINE q == a \div d
<1> HIDE DEF q
<1>2. q \in Nat /\ a = d * q + (a % d) /\ a % d \in Nat
  BY <1>1 DEF q
<1>3. q * d = d * q /\ d * q \in Nat
  BY <1>2
<1>4. q * d <= a
  BY <1>2, <1>3
<1> QED BY <1>2, <1>4 DEF q

(* Target timestamps ascend from the first and do not pass the last. *)
LEMMA TargetsAre ==
  ASSUME fps \in Fps, NEW first \in Nat, NEW last \in Nat, first <= last
  PROVE  LET targets == TargetTimestamps(first, last)
         IN  /\ Len(targets) \in Nat \ {0} /\ DOMAIN targets = 1 .. Len(targets)
             /\ \A k \in 1 .. Len(targets) : targets[k] \in first .. last
             /\ Ascending(targets)
<1> DEFINE step == Second \div fps
           n == (last - first) \div step + 1
           targets == TargetTimestamps(first, last)
<1>1. fps \in Nat /\ fps > 0 /\ fps <= Second /\ Second \in Nat
  BY TimeSyncAssumption
<1>2. step \in Nat /\ step > 0
  BY <1>1
<1>3. n \in Nat \ {0} /\ (n - 1) * step <= last - first
  <2> HIDE DEF step
  <2>1. last - first \in Nat
    OBVIOUS
  <2>2. (last - first) \div step \in Nat /\ ((last - first) \div step) * step <= last - first
    BY <1>2, <2>1, DivideIs
  <2> DEFINE q == (last - first) \div step
  <2> HIDE DEF q
  <2>3. q \in Nat /\ q * step <= last - first /\ n = q + 1
    BY <2>2 DEF q
  <2>4. (q + 1) - 1 = q
    BY <2>3
  <2> HIDE DEF n
  <2> QED BY <2>3, <2>4
<1>4. targets = [k \in 1 .. n |-> first + (k - 1) * step]
  BY DEF TargetTimestamps
<1> HIDE DEF step, n, targets
<1>5. ASSUME NEW i \in 1 .. n, NEW j \in 1 .. n, i <= j
      PROVE  (i - 1) * step \in Nat /\ (j - 1) * step \in Nat /\ (i - 1) * step <= (j - 1) * step
  <2>1. i - 1 \in Nat /\ j - 1 \in Nat /\ i - 1 <= j - 1
    <3>1. n \in Nat
      BY <1>3
    <3>2. i \in Nat /\ j \in Nat /\ i >= 1 /\ j >= 1
      BY <3>1
    <3> QED BY <3>2, <1>5
  <2> DEFINE a == i - 1  b == j - 1
  <2>2. a \in Nat /\ b \in Nat /\ a <= b
    BY <2>1
  <2> HIDE DEF a, b
  <2>3. a * step \in Nat /\ b * step \in Nat /\ a * step <= b * step
    BY <2>2, <1>2, TimesAscend
  <2> QED BY <2>3 DEF a, b
<1>6. ASSUME NEW k \in 1 .. n PROVE targets[k] \in first .. last /\ targets[k] \in Nat
  <2>1. n \in 1 .. n /\ k <= n
    BY <1>3
  <2>2. (k - 1) * step \in Nat /\ (n - 1) * step \in Nat /\ (k - 1) * step <= (n - 1) * step
    BY <2>1, <1>5
  <2>3. first + (k - 1) * step \in first .. last
    BY <2>2, <1>3
  <2> QED BY <2>3, <1>4
<1>7. Len(targets) = n /\ DOMAIN targets = 1 .. n
  <2>1. targets \in [1 .. n -> Nat]
    BY <1>4, <1>6
  <2> QED BY <2>1, <1>3, FunLen
<1>8. Ascending(targets)
  <2> SUFFICES ASSUME NEW i \in 1 .. n, NEW j \in 1 .. n, i < j PROVE targets[i] <= targets[j]
    BY <1>7 DEF Ascending
  <2>1. (i - 1) * step \in Nat /\ (j - 1) * step \in Nat /\ (i - 1) * step <= (j - 1) * step
    <3>1. i <= j
      BY <1>3
    <3> QED BY <3>1, <1>5
  <2> QED BY <2>1, <1>4
<1> QED BY <1>3, <1>6, <1>7, <1>8 DEF targets

(* The merged timeline has the times of all messages from the first to the
   last.                                                                    *)
LEMMA MergedAre ==
  ASSUME TypeInv, NEW first, NEW last
  PROVE  LET merged == MergedTimestamps(first, last)
         IN  /\ Len(merged) \in Nat /\ DOMAIN merged = 1 .. Len(merged)
             /\ \A k \in 1 .. Len(merged) :
                  merged[k] \in 0 .. MaxTime /\ first <= merged[k] /\ merged[k] <= last
             /\ Ascending(merged)
             /\ \A t \in Topic : \A x \in Stamps(t) :
                  first <= x /\ x <= last => \E k \in 1 .. Len(merged) : merged[k] = x
<1> DEFINE D == {r \in Rows : first <= StampOf(r) /\ StampOf(r) <= last}
           f == [r \in D |-> StampOf(r)]
           n == Cardinality(D)
           merged == MergedTimestamps(first, last)
<1>1. MaxTime \in Nat /\ MaxLen \in Nat /\ IsFiniteSet(Topic)
  BY TimeSyncAssumption
<1>2. Rows \subseteq Topic \X (1 .. MaxLen)
  <2> SUFFICES ASSUME NEW t \in Topic, NEW i \in DOMAIN source[t]
               PROVE  i \in 1 .. MaxLen
    BY DEF Rows
  <2> QED BY StampsType, <1>1
<1>3. IsFiniteSet(D)
  <2>1. IsFiniteSet(1 .. MaxLen)
    BY <1>1, FS_Interval
  <2>2. IsFiniteSet(Topic \X (1 .. MaxLen))
    BY <1>1, <2>1, FS_Product
  <2>3. D \subseteq Topic \X (1 .. MaxLen)
    BY <1>2
  <2> HIDE DEF D
  <2> QED BY <2>2, <2>3, FS_Subset
<1>4. ASSUME NEW t \in Topic, NEW i \in DOMAIN source[t]
      PROVE  <<t, i>> \in Rows /\ StampOf(<<t, i>>) = source[t][i]
  BY DEF Rows, StampOf
<1>5. ASSUME NEW r \in D
      PROVE  StampOf(r) \in 0 .. MaxTime /\ first <= StampOf(r) /\ StampOf(r) <= last
  <2>1. PICK t \in Topic : r \in {t} \X DOMAIN source[t]
    BY DEF Rows
  <2>2. StampOf(r) \in Stamps(t)
    BY <2>1 DEF StampOf, Stamps, Range
  <2> QED BY <2>1, <2>2, StampsType
<1>6. DOMAIN f = D /\ Range(f) \subseteq 0 .. MaxTime
  <2> HIDE DEF D
  <2> QED BY <1>5 DEF Range
<1>7. merged = Sorted(f)
  BY DEF MergedTimestamps
<1>8. /\ n \in Nat /\ merged \in [1 .. n -> Range(f)] /\ Ascending(merged)
      /\ \A x \in Range(f) : \E k \in 1 .. n : merged[k] = x
  <2> HIDE DEF D, f
  <2> QED BY <1>1, <1>3, <1>6, <1>7, SortedIs
<1>9. Len(merged) = n /\ DOMAIN merged = 1 .. n
  <2> HIDE DEF merged, f, D
  <2> QED BY <1>8, FunLen
<1>10. ASSUME NEW k \in 1 .. n
       PROVE  merged[k] \in 0 .. MaxTime /\ first <= merged[k] /\ merged[k] <= last
  <2>1. merged[k] \in Range(f)
    <3> HIDE DEF merged, f, D
    <3> QED BY <1>8
  <2>2. PICK r \in D : merged[k] = StampOf(r)
    <3> HIDE DEF merged, D
    <3> QED BY <2>1 DEF Range
  <2> HIDE DEF merged, D
  <2> QED BY <2>2, <1>5
<1>11. ASSUME NEW t \in Topic, NEW x \in Stamps(t), first <= x, x <= last
       PROVE  \E k \in 1 .. n : merged[k] = x
  <2>1. PICK i \in DOMAIN source[t] : source[t][i] = x
    BY DEF Stamps, Range
  <2>2. <<t, i>> \in D /\ f[<<t, i>>] = x
    BY <1>4, <1>11, <2>1
  <2>3. x \in Range(f)
    <3> HIDE DEF D
    <3> QED BY <2>2 DEF Range
  <2> HIDE DEF D, f, merged
  <2> QED BY <2>3, <1>8
<1> HIDE DEF D, f
<1> QED BY <1>8, <1>9, <1>10, <1>11

(* A timeline of either kind: it has rows, which ascend from the start. *)
LEMMA TimelineIs ==
  ASSUME IInv, phase \in {"align", "done"}
  PROVE  /\ Len(timeline) \in Nat \ {0} /\ DOMAIN timeline = 1 .. Len(timeline)
         /\ \A k \in 1 .. Len(timeline) : timeline[k] \in 0 .. MaxTime /\ start <= timeline[k]
         /\ Ascending(timeline)
<1>1. /\ TypeInv /\ start = StartBound /\ end = EndBound
      /\ \A t \in Topic : Stamps(t) # {}
  BY DEF IInv, BoundsInv
<1>2. start \in 0 .. MaxTime /\ end \in 0 .. MaxTime
  BY <1>1, BoundsAre
<1>3. PICK t \in Topic : start \in Stamps(t)
  BY <1>1, BoundsAre
<1>4. start <= end
  BY <1>1, <1>3, BoundsAre
<1>5. CASE method = "merge"
  <2>1. timeline = MergedTimestamps(start, end)
    BY <1>5 DEF IInv, TimelineInv
  <2>2. /\ Len(timeline) \in Nat /\ DOMAIN timeline = 1 .. Len(timeline)
        /\ \A k \in 1 .. Len(timeline) :
             timeline[k] \in 0 .. MaxTime /\ start <= timeline[k] /\ timeline[k] <= end
        /\ Ascending(timeline)
    BY <1>1, <2>1, MergedAre
  <2>3. \E k \in 1 .. Len(timeline) : timeline[k] = start
    <3>1. start <= start
      BY <1>2
    <3> QED BY <1>1, <1>3, <1>4, <2>1, <3>1, MergedAre
  <2> QED BY <2>2, <2>3
<1>6. CASE method # "merge"
  <2>1. timeline = TargetTimestamps(start, end)
    BY <1>6 DEF IInv, TimelineInv
  <2>2. start \in Nat /\ end \in Nat /\ fps \in Fps
    BY <1>1, <1>2 DEF TypeInv
  <2>3. /\ Len(timeline) \in Nat \ {0} /\ DOMAIN timeline = 1 .. Len(timeline)
        /\ \A k \in 1 .. Len(timeline) : timeline[k] \in start .. end
        /\ Ascending(timeline)
    BY <1>4, <2>1, <2>2, TargetsAre
  <2>4. ASSUME NEW x \in start .. end PROVE x \in 0 .. MaxTime /\ start <= x
    <3>1. MaxTime \in Nat
      BY TimeSyncAssumption
    <3> QED BY <1>2, <3>1
  <2>5. \A k \in 1 .. Len(timeline) : timeline[k] \in 0 .. MaxTime /\ start <= timeline[k]
    BY <2>3, <2>4
  <2> QED BY <2>3, <2>5
<1> QED BY <1>5, <1>6

-----------------------------------------------------------------------------
(* What a topic holds *)

(* Every row holds a message of the topic. *)
LEMMA HeldIs ==
  ASSUME IInv, phase \in {"align", "done"}, NEW t \in Topic
  PROVE  /\ Len(Held(t)) = Len(timeline) /\ DOMAIN Held(t) = 1 .. Len(timeline)
         /\ \A k \in 1 .. Len(timeline) :
              /\ Held(t)[k] \in Stamps(t)
              /\ method = "nn" /\ FitsAt(Stamps(t), timeline[k]) =>
                   Chosen(Held(t)[k], Stamps(t), timeline[k])
              /\ method # "nn" =>
                   /\ Held(t)[k] <= timeline[k]
                   /\ \A x \in Stamps(t) : x <= timeline[k] => x <= Held(t)[k]
<1> DEFINE s == source[t]
           n == Len(timeline)
<1>1. TypeInv /\ \A u \in Topic : Stamps(u) # {}
  BY DEF IInv, BoundsInv
<1>2. /\ s \in Column /\ Stamps(t) = Range(s) /\ Len(s) \in Nat
      /\ s \in [1 .. Len(s) -> Time] /\ Stamps(t) \subseteq Nat
  BY <1>1, StampsType
<1>3. n \in Nat /\ DOMAIN timeline = 1 .. n
  BY TimelineIs
<1>4. ASSUME NEW k \in 1 .. n
      PROVE  timeline[k] \in Time /\ timeline[k] \in Nat /\ start <= timeline[k]
  BY TimelineIs, TimeSyncAssumption DEF Time
<1>5. ASSUME NEW k \in 1 .. n
      PROVE  \E x \in Range(s) : x <= timeline[k]
  <2>1. PICK x \in Stamps(t) : x <= start
    BY <1>1, BoundsAre DEF IInv, BoundsInv
  <2>2. start \in Nat
    BY <1>1, BoundsAre DEF IInv, BoundsInv
  <2>3. x <= timeline[k]
    BY <1>2, <1>4, <2>1, <2>2
  <2> QED BY <1>2, <2>1, <2>3
<1> HIDE DEF s
<1>6. CASE method = "nn"
  <2>1. Held(t) = AlignNearest(s)
    BY <1>6 DEF Held, s
  <2>2. ASSUME NEW k \in 1 .. n
        PROVE  /\ Held(t)[k] \in Stamps(t)
               /\ FitsAt(Stamps(t), timeline[k]) => Chosen(Held(t)[k], Stamps(t), timeline[k])
    <3>1. PICK x \in Range(s) : x <= timeline[k]
      BY <1>5
    <3> QED BY <1>2, <1>3, <1>4, <2>1, <3>1, NearestIs
  <2>3. AlignNearest(s) = [k \in 1 .. n |-> AlignNearest(s)[k]]
    BY <1>3 DEF AlignNearest
  <2>4. Held(t) \in [1 .. n -> Stamps(t)]
    <3> HIDE DEF n
    <3> QED BY <2>1, <2>2, <2>3
  <2>5. Len(Held(t)) = n /\ DOMAIN Held(t) = 1 .. n
    <3> HIDE DEF n
    <3> QED BY <1>3, <2>4, FunLen
  <2> QED BY <1>6, <2>2, <2>5
<1>7. CASE method # "nn"
  <2>1. Held(t) = AsofBackward(s) /\ Ascending(s)
    BY <1>1, <1>7 DEF Held, TypeInv, s
  <2>2. ASSUME NEW k \in 1 .. n
        PROVE  /\ Held(t)[k] \in Stamps(t) /\ Held(t)[k] <= timeline[k]
               /\ \A x \in Stamps(t) : x <= timeline[k] => x <= Held(t)[k]
    <3>1. PICK x \in Range(s) : x <= timeline[k]
      BY <1>5
    <3> QED BY <1>2, <1>3, <1>4, <2>1, <3>1, BackwardIs
  <2>3. AsofBackward(s) = [k \in 1 .. n |-> AsofBackward(s)[k]]
    BY DEF AsofBackward
  <2>4. Held(t) \in [1 .. n -> Stamps(t)]
    <3> HIDE DEF n
    <3> QED BY <2>1, <2>2, <2>3
  <2>5. Len(Held(t)) = n /\ DOMAIN Held(t) = 1 .. n
    <3> HIDE DEF n
    <3> QED BY <1>3, <2>4, FunLen
  <2> QED BY <1>7, <2>2, <2>5
<1> QED BY <1>6, <1>7

(* And no row an earlier one than the row before. *)
LEMMA HeldAscends ==
  ASSUME IInv, SquaresFit, phase \in {"align", "done"}, NEW t \in Topic
  PROVE  \A i, j \in 1 .. Len(timeline) : i <= j => Held(t)[i] <= Held(t)[j]
<1> SUFFICES ASSUME NEW i \in 1 .. Len(timeline), NEW j \in 1 .. Len(timeline), i <= j
             PROVE  Held(t)[i] <= Held(t)[j]
  OBVIOUS
<1>1. Stamps(t) \subseteq Nat
  BY StampsType DEF IInv
<1>2. timeline[i] \in Nat /\ timeline[j] \in Nat /\ timeline[i] <= timeline[j]
  <2>1. timeline[i] \in 0 .. MaxTime /\ timeline[j] \in 0 .. MaxTime
    BY TimelineIs
  <2>2. timeline[i] <= timeline[j]
    <3>1. i = j \/ i < j
      BY TimelineIs
    <3> QED BY <2>1, <3>1, TimelineIs DEF Ascending
  <2> QED BY <2>1, <2>2
<1>3. Held(t)[i] \in Stamps(t) /\ Held(t)[j] \in Stamps(t)
  BY HeldIs
<1>4. CASE method = "nn"
  <2>1. FitsAt(Stamps(t), timeline[i]) /\ FitsAt(Stamps(t), timeline[j])
    BY <1>4, TimelineIs DEF SquaresFit
  <2>2. Chosen(Held(t)[i], Stamps(t), timeline[i]) /\ Chosen(Held(t)[j], Stamps(t), timeline[j])
    BY <1>4, <2>1, HeldIs
  <2> QED BY <1>1, <1>2, <2>2, ChosenAscend
<1>5. CASE method # "nn"
  <2>1. Held(t)[i] <= timeline[i] /\ \A x \in Stamps(t) : x <= timeline[j] => x <= Held(t)[j]
    BY <1>5, HeldIs
  <2>2. Held(t)[i] \in Nat
    BY <1>1, <1>3
  <2>3. Held(t)[i] <= timeline[j]
    BY <1>2, <2>1, <2>2
  <2> QED BY <1>3, <2>1, <2>3
<1> QED BY <1>4, <1>5

(* In rows that ascend and are all there, a fresh row is the first of those
   that hold its message.                                                   *)
LEMMA FreshIs ==
  ASSUME NEW n \in Nat, NEW rows, DOMAIN rows = 1 .. n, \A k \in 1 .. n : rows[k] \in Nat,
         \A i, j \in 1 .. n : i <= j => rows[i] <= rows[j],
         NEW k \in 1 .. n
  PROVE  Fresh(rows)[k] <=> \A j \in 1 .. k - 1 : rows[j] # rows[k]
<1>1. \A i \in 1 .. n : rows[i] # Null
  BY DEF Null
<1>2. \A j \in 1 .. k - 1 : j \in 1 .. n /\ j <= k - 1 /\ k - 1 \in 1 .. n /\ k - 1 <= k
  OBVIOUS
<1>3. Fresh(rows)[k] <=> ~ \E j \in 1 .. k - 1 : /\ rows[j] = rows[k]
                                                 /\ \A i \in j + 1 .. k - 1 : rows[i] = Null
  BY <1>1 DEF Fresh
<1>4. ASSUME NEW j \in 1 .. k - 1, rows[j] = rows[k]
      PROVE  /\ k - 1 \in 1 .. k - 1 /\ rows[k - 1] = rows[k]
             /\ \A i \in (k - 1) + 1 .. k - 1 : rows[i] = Null
  <2>1. rows[j] <= rows[k - 1] /\ rows[k - 1] <= rows[k]
    BY <1>2
  <2>2. rows[k - 1] = rows[k]
    BY <1>2, <1>4, <2>1
  <2> QED BY <2>2
<1>5. ASSUME NEW j \in 1 .. k - 1, rows[j] = rows[k]
      PROVE  \E l \in 1 .. k - 1 : /\ rows[l] = rows[k]
                                   /\ \A i \in l + 1 .. k - 1 : rows[i] = Null
  BY <1>4, <1>5
<1> QED BY <1>3, <1>5

-----------------------------------------------------------------------------
(* The invariant *)

LEMMA InitInv == Init => IInv
<1> SUFFICES ASSUME Init PROVE IInv
  OBVIOUS
<1>1. source \in [Topic -> Column]
  BY DEF Init
<1>2. method # "nn" => \A t \in Topic : Ascending(source[t])
  BY DEF Init
<1>3. TypeInv
  BY <1>1, <1>2 DEF Init, TypeInv
<1> QED BY <1>3 DEF Init, IInv, BoundsInv, TimelineInv, AlignedInv

LEMMA StepInv == ASSUME IInv, [Next]_vars PROVE IInv'
<1> USE DEF IInv
<1>1. CASE TimeBounds
  <2>1. TypeInv'
    BY <1>1 DEF TypeInv, TimeBounds
  <2>2. BoundsInv'
    BY <1>1 DEF TimeBounds, BoundsInv, Stamps, StartBound, EndBound
  <2>3. TimelineInv' /\ AlignedInv'
    BY <1>1 DEF TimeBounds, TimelineInv, AlignedInv
  <2> QED BY <2>1, <2>2, <2>3
<1>2. CASE Timeline
  <2>1. TypeInv'
    BY <1>2 DEF TypeInv, Timeline
  <2>2. BoundsInv'
    BY <1>2 DEF Timeline, BoundsInv, Stamps, StartBound, EndBound
  <2>3. TimelineInv'
    BY <1>2 DEF Timeline, TimelineInv, MergedTimestamps, TargetTimestamps, Rows, StampOf
  <2>4. AlignedInv'
    BY <1>2 DEF Timeline, AlignedInv
  <2> QED BY <2>1, <2>2, <2>3, <2>4
<1>3. ASSUME NEW t \in Topic, AlignTopic(t) PROVE IInv'
  <2>1. TypeInv'
    BY <1>3 DEF TypeInv, AlignTopic
  <2>2. BoundsInv' /\ TimelineInv'
    BY <1>3 DEF AlignTopic, BoundsInv, Stamps, StartBound, EndBound,
                TimelineInv, MergedTimestamps, TargetTimestamps, Rows, StampOf
  <2>3. \A u \in Topic : Held(u)' = Held(u)
    BY <1>3 DEF AlignTopic, Held, AlignNearest, BackwardRows, AsofBackward, AsofForward
  <2>4. AlignedInv'
    <3>1. /\ aligned' = [aligned EXCEPT ![t] = Held(t)]
          /\ held' = [held EXCEPT ![t] = IF method = "nn" THEN <<>> ELSE BackwardRows(source[t])]
          /\ is_fresh' = [is_fresh EXCEPT ![t] = IF method = "merge" THEN <<>> ELSE Fresh(Held(t))]
          /\ UNCHANGED <<method, phase, source, timeline>> /\ todo' = todo \ {t} /\ phase = "align"
      BY <1>3 DEF AlignTopic, Held
    <3>2. DOMAIN aligned = Topic /\ DOMAIN held = Topic /\ DOMAIN is_fresh = Topic /\ todo \subseteq Topic
      BY DEF TypeInv
    <3>3. ASSUME NEW u \in Topic, u \notin todo'
          PROVE  /\ aligned'[u] = Held(u)
                 /\ held'[u] = IF method = "nn" THEN <<>> ELSE BackwardRows(source[u])
                 /\ is_fresh'[u] = IF method = "merge" THEN <<>> ELSE Fresh(Held(u))
      <4>1. CASE u = t
        BY <3>1, <3>2, <4>1
      <4>2. CASE u # t
        BY <3>1, <3>2, <3>3, <4>2 DEF AlignedInv
      <4> QED BY <4>1, <4>2
    <3>4. \A rows : Fresh(rows)' = Fresh(rows)
      BY DEF Fresh
    <3>5. \A u \in Topic : BackwardRows(source[u])' = BackwardRows(source[u])
      BY <3>1 DEF BackwardRows
    <3> QED BY <2>3, <3>1, <3>3, <3>5 DEF AlignedInv, Fresh
  <2> QED BY <2>1, <2>2, <2>4
<1>4. CASE SetDataset
  <2>1. TypeInv'
    BY <1>4 DEF TypeInv, SetDataset
  <2>2. BoundsInv' /\ TimelineInv'
    BY <1>4 DEF SetDataset, BoundsInv, Stamps, StartBound, EndBound,
                TimelineInv, MergedTimestamps, TargetTimestamps, Rows, StampOf
  <2>3. \A t \in Topic : Held(t)' = Held(t)
    BY <1>4 DEF SetDataset, Held, AlignNearest, BackwardRows, AsofBackward, AsofForward
  <2>4. AlignedInv'
    BY <1>4, <2>3 DEF SetDataset, AlignedInv, BackwardRows, Fresh
  <2> QED BY <2>1, <2>2, <2>4
<1>5. CASE UNCHANGED vars
  <2>1. TypeInv'
    BY <1>5 DEF TypeInv, vars
  <2>2. BoundsInv' /\ TimelineInv'
    BY <1>5 DEF vars, BoundsInv, Stamps, StartBound, EndBound,
                TimelineInv, MergedTimestamps, TargetTimestamps, Rows, StampOf
  <2>3. \A t \in Topic : Held(t)' = Held(t)
    BY <1>5 DEF vars, Held, AlignNearest, BackwardRows, AsofBackward, AsofForward
  <2>4. AlignedInv'
    BY <1>5, <2>3 DEF vars, AlignedInv, BackwardRows, Fresh
  <2> QED BY <2>1, <2>2, <2>4
<1> QED BY <1>1, <1>2, <1>3, <1>4, <1>5 DEF Next, Returned

(* Whatever the columns, each step has computed what the lemmas describe. *)
THEOREM Invariant == Spec => []IInv
BY InitInv, StepInv, PTL DEF Spec

-----------------------------------------------------------------------------
(* The theorems *)

LEMMA DoneIs ==
  ASSUME IInv, Done, NEW t \in Topic
  PROVE  /\ phase \in {"align", "done"}
         /\ aligned[t] = Held(t)
         /\ method # "nn" => held[t] = BackwardRows(source[t])
         /\ method # "merge" => is_fresh[t] = Fresh(Held(t))
BY DEF IInv, Done, AlignedInv

(* Whatever the topics and their time ranges, a synchronizer that finishes
   has given each the same rows, at least one, and all with data.           *)
THEOREM NoHoleHolds == Spec => []NoHole
<1>1. IInv => NoHole
  <2> SUFFICES ASSUME IInv, Done PROVE NoHole
    BY DEF NoHole
  <2>1. phase \in {"align", "done"}
    BY DEF Done
  <2>2. Len(timeline) \in Nat \ {0} /\ DOMAIN timeline = 1 .. Len(timeline)
    BY <2>1, TimelineIs
  <2>3. timeline # <<>>
    <3> SUFFICES ASSUME timeline = <<>> PROVE FALSE
      OBVIOUS
    <3>1. DOMAIN timeline = {}
      OBVIOUS
    <3>2. 1 \in 1 .. Len(timeline)
      BY <2>2
    <3> QED BY <2>2, <3>1, <3>2
  <2>4. ASSUME NEW t \in Topic
        PROVE  /\ Len(aligned[t]) = Len(timeline)
               /\ \A k \in DOMAIN timeline : aligned[t][k] # Null
    <3>1. aligned[t] = Held(t)
      BY DoneIs
    <3>2. Stamps(t) \subseteq Nat
      BY StampsType DEF IInv
    <3> QED BY <2>1, <2>2, <3>1, <3>2, HeldIs DEF Null
  <2> QED BY <2>3, <2>4 DEF NoHole
<1> QED BY <1>1, Invariant, PTL

(* As long as the squared differences do not overflow an i64, no message of
   a topic is closer to a row than the one the row holds, in whatever order
   the topic was recorded.  Where they overflow it is not so, see README.   *)
THEOREM NearestHolds == Spec => [](SquaresFit => Nearest)
<1>1. IInv => (SquaresFit => Nearest)
  <2> SUFFICES ASSUME IInv, SquaresFit, Done, method = "nn", NEW t \in Topic,
                      NEW k \in DOMAIN timeline, NEW x \in Stamps(t)
               PROVE  Distance(aligned[t][k], timeline[k]) <= Distance(x, timeline[k])
    BY DEF Nearest
  <2>1. phase \in {"align", "done"} /\ aligned[t] = Held(t)
    BY DoneIs
  <2>2. k \in 1 .. Len(timeline) /\ timeline[k] \in 0 .. MaxTime
    BY <2>1, TimelineIs
  <2>3. FitsAt(Stamps(t), timeline[k])
    BY DEF SquaresFit
  <2>4. Chosen(aligned[t][k], Stamps(t), timeline[k])
    BY <2>1, <2>2, <2>3, HeldIs
  <2>5. Stamps(t) \subseteq Nat
    BY StampsType DEF IInv
  <2>6. aligned[t][k] \in Nat /\ x \in Nat /\ timeline[k] \in Nat
    BY <2>2, <2>4, <2>5 DEF Chosen
  <2>7. \/ Distance(aligned[t][k], timeline[k]) < Distance(x, timeline[k])
        \/ Distance(aligned[t][k], timeline[k]) = Distance(x, timeline[k])
    BY <2>4 DEF Chosen
  <2> QED BY <2>6, <2>7 DEF Distance
<1> QED BY <1>1, Invariant, PTL

(* Of the rows that hold one message exactly the first is fresh.  For the
   nearest neighbour this too needs squares that fit: rows that wrongly
   change between two messages would have one of them fresh twice.          *)
THEOREM FreshOnceHolds == Spec => [](SquaresFit => FreshOnce)
<1>1. IInv => (SquaresFit => FreshOnce)
  <2> SUFFICES ASSUME IInv, SquaresFit, Done, method # "merge", NEW t \in Topic, NEW k \in DOMAIN timeline
               PROVE  is_fresh[t][k] <=> \A j \in 1 .. k - 1 : aligned[t][j] # aligned[t][k]
    BY DEF FreshOnce
  <2>1. phase \in {"align", "done"} /\ aligned[t] = Held(t) /\ is_fresh[t] = Fresh(Held(t))
    BY DoneIs
  <2>2. Len(timeline) \in Nat /\ k \in 1 .. Len(timeline)
    BY <2>1, TimelineIs
  <2>3. \A i, j \in 1 .. Len(timeline) : i <= j => Held(t)[i] <= Held(t)[j]
    BY <2>1, HeldAscends
  <2>4. Stamps(t) \subseteq Nat
    BY StampsType DEF IInv
  <2>5. /\ DOMAIN Held(t) = 1 .. Len(timeline)
        /\ \A i \in 1 .. Len(timeline) : Held(t)[i] \in Nat
    BY <2>1, <2>4, HeldIs
  <2>6. Fresh(Held(t))[k] <=> \A j \in 1 .. k - 1 : Held(t)[j] # Held(t)[k]
    BY <2>2, <2>3, <2>5, FreshIs
  <2> QED BY <2>1, <2>6
<1> QED BY <1>1, Invariant, PTL

(* Of the messages a topic has from the start on, exactly those that no
   later one follows with the same timestamp are in a row of the merged
   timeline.                                                                *)
THEOREM MergeKeepsLastHolds == Spec => []MergeKeepsLast
<1>1. IInv => MergeKeepsLast
  <2> SUFFICES ASSUME IInv, Done, method = "merge", NEW t \in Topic, NEW i \in DOMAIN source[t],
                      source[t][i] >= start
               PROVE  (\E k \in DOMAIN timeline : held[t][k] = i)
                        <=> ~ \E j \in DOMAIN source[t] : j > i /\ source[t][j] = source[t][i]
    BY DEF MergeKeepsLast
  <2> DEFINE s == source[t]
             m == Len(s)
  <2>1. phase \in {"align", "done"} /\ held[t] = BackwardRows(s)
    BY DoneIs
  <2>2. TypeInv /\ \A u \in Topic : Stamps(u) # {}
    BY <2>1 DEF IInv, BoundsInv
  <2>3. timeline = MergedTimestamps(start, end) /\ end = EndBound /\ start = StartBound
    BY <2>1 DEF IInv, TimelineInv, BoundsInv
  <2>4. /\ m \in Nat /\ DOMAIN s = 1 .. m /\ s \in [1 .. m -> Time]
        /\ Stamps(t) \subseteq Nat /\ Stamps(t) = Range(s) /\ Ascending(s)
    BY <2>2, StampsType DEF TypeInv
  <2>5. \A j \in 1 .. m : s[j] \in Stamps(t) /\ s[j] \in Nat
    BY <2>4 DEF Range
  <2>6. /\ Len(timeline) \in Nat /\ DOMAIN timeline = 1 .. Len(timeline)
        /\ \A k \in 1 .. Len(timeline) : timeline[k] \in Nat
    BY <2>1, TimelineIs, TimeSyncAssumption
  <2> HIDE DEF s
  <2>7. i \in 1 .. m /\ start <= s[i] /\ s[i] <= end
    <3>1. i \in 1 .. m /\ s[i] >= start
      BY <2>4 DEF s
    <3>2. start \in Nat /\ s[i] <= end
      BY <2>2, <2>3, <2>5, <3>1, BoundsAre
    <3> QED BY <2>5, <3>1, <3>2
  <2>8. ASSUME NEW k \in 1 .. Len(timeline)
        PROVE  /\ held[t][k] \in 0 .. m
               /\ \A j \in 1 .. m : s[j] <= timeline[k] <=> j <= held[t][k]
    BY <2>1, <2>4, <2>6, BackwardRowIs
  <2>9. ASSUME NEW k \in 1 .. Len(timeline), held[t][k] = i,
               NEW j \in 1 .. m, j > i, s[j] = s[i]
        PROVE  FALSE
    <3>1. s[i] <= timeline[k] /\ ~ (s[j] <= timeline[k])
      BY <2>7, <2>8, <2>9
    <3> QED BY <3>1, <2>9
  <2>10. ASSUME \A j \in 1 .. m : j > i => s[j] # s[i]
         PROVE  \E k \in 1 .. Len(timeline) : held[t][k] = i
    <3>1. PICK k \in 1 .. Len(timeline) : timeline[k] = s[i]
      BY <2>2, <2>3, <2>5, <2>7, MergedAre
    <3> DEFINE p == held[t][k]
    <3>2. p \in 0 .. m /\ (\A j \in 1 .. m : s[j] <= s[i] <=> j <= p)
      BY <2>8, <3>1
    <3> HIDE DEF p
    <3>3. i <= p
      BY <2>5, <2>7, <3>2
    <3>4. CASE i < p
      <4>1. p \in 1 .. m /\ s[p] <= s[i]
        BY <2>7, <3>2, <3>4
      <4>2. s[i] <= s[p]
        BY <2>4, <2>7, <3>4, <4>1 DEF Ascending
      <4>3. s[p] = s[i]
        BY <2>5, <2>7, <4>1, <4>2
      <4> QED BY <2>10, <3>4, <4>1, <4>3
    <3>5. CASE i = p
      BY <3>5 DEF p
    <3> QED BY <2>7, <3>2, <3>3, <3>4, <3>5
  <2> QED BY <2>4, <2>6, <2>9, <2>10 DEF s
<1> QED BY <1>1, Invariant, PTL
=============================================================================
