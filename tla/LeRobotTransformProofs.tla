------------------------ MODULE LeRobotTransformProofs ------------------------
(***************************************************************************)
(* Theorems about LeRobotTransform, for all bags and every number of runs. *)
(*                                                                         *)
(* The invariant says what a run has in mind and what it has written when  *)
(* it is at a certain file, and what is different where it is the first to *)
(* write.  The lemmas before it are about the concatenation of sequences,  *)
(* which the frames of a data set and the images of a video come from.     *)
(***************************************************************************)
EXTENDS LeRobotTransform, SequenceTheorems, FiniteSetTheorems, WellFoundedInduction, TLAPS

-----------------------------------------------------------------------------
(* Induction and recursion over data *)

(* Induction over the natural numbers, for a set instead of a predicate: the
   library's own induction theorems take an operator, which no prover can
   instantiate.  From the well-foundedness of <.                             *)
LEMMA SetInduction ==
  ASSUME NEW S, S \subseteq Nat, 0 \in S, \A n \in S : n + 1 \in S
  PROVE  S = Nat
<1> SUFFICES ASSUME Nat \ S # {} PROVE FALSE
  OBVIOUS
<1> DEFINE R == OpToRel(<, Nat)  T == Nat \ S
<1>1. IsWellFoundedOn(R, Nat)
  BY NatLessThanWellFounded
<1>2. \E x \in T : \A y \in T : ~ (<<y, x>> \in R)
  <2> HIDE DEF R
  <2> QED BY <1>1, WFMin
<1>3. \A y, x \in Nat : <<y, x>> \in R <=> y < x
  BY DEF OpToRel
<1>4. PICK x \in T : \A y \in T : ~ (y < x)
  BY <1>2, <1>3
<1>5. x # 0 /\ x - 1 \in Nat /\ x - 1 \in S
  BY <1>4
<1> QED BY <1>5, <1>4

(* Induction up to a bound. *)
LEMMA UpTo ==
  ASSUME NEW n \in Nat, NEW S, 0 \in S, \A i \in 0 .. n - 1 : i \in S => i + 1 \in S
  PROVE  \A i \in 0 .. n : i \in S
<1> DEFINE U == {i \in Nat : i <= n => i \in S}
<1>1. U \subseteq Nat /\ 0 \in U
  OBVIOUS
<1>2. \A i \in U : i + 1 \in U
  OBVIOUS
<1>3. U = Nat
  <2> HIDE DEF U
  <2> QED BY <1>1, <1>2, SetInduction
<1> QED BY <1>3

(* g is computed from c by n steps of D. *)
Computes(g, n, V, c, D) ==
  /\ g \in [0 .. n -> V]
  /\ g[0] = c
  /\ \A i \in 1 .. n : g[i] = D[<<g[i - 1], i>>]

(* What is defined by recursion exists: values from V, step by step. *)
LEMMA Recursion ==
  ASSUME NEW n \in Nat, NEW V, NEW c \in V, NEW D \in [V \X (1 .. n) -> V]
  PROVE  \E g : Computes(g, n, V, c, D)
<1> DEFINE Up(m, g) ==
             g \in [0 .. m -> V] /\ g[0] = c /\ \A i \in 1 .. m : g[i] = D[<<g[i - 1], i>>]
           S == {m \in 0 .. n : \E g : Up(m, g)}
<1>1. 0 \in S
  <2>1. Up(0, [i \in 0 .. 0 |-> c])
    OBVIOUS
  <2> HIDE DEF Up
  <2> QED BY <2>1
<1>2. ASSUME NEW m \in 0 .. n - 1, m \in S PROVE m + 1 \in S
  <2>1. PICK g : Up(m, g)
    BY <1>2
  <2> DEFINE h == [i \in 0 .. m + 1 |-> IF i = m + 1 THEN D[<<g[m], m + 1>>] ELSE g[i]]
  <2>2. D[<<g[m], m + 1>>] \in V
    BY <2>1
  <2>3. h \in [0 .. m + 1 -> V] /\ h[0] = c
    BY <2>1, <2>2
  <2>4. ASSUME NEW i \in 1 .. m + 1 PROVE h[i] = D[<<h[i - 1], i>>]
    <3>1. CASE i = m + 1
      <4>1. h[i - 1] = g[m]
        BY <3>1
      <4>2. h[i] = D[<<g[m], m + 1>>]
        BY <3>1
      <4> HIDE DEF h
      <4> QED BY <4>1, <4>2, <3>1
    <3>2. CASE i # m + 1
      <4>1. i \in 1 .. m /\ h[i - 1] = g[i - 1]
        BY <3>2
      <4>2. h[i] = g[i]
        BY <3>2
      <4> HIDE DEF h
      <4> QED BY <4>1, <4>2, <2>1
    <3> QED BY <3>1, <3>2
  <2>5. Up(m + 1, h)
    BY <2>3, <2>4
  <2> HIDE DEF Up, h
  <2> QED BY <2>5
<1>3. n \in S
  <2> HIDE DEF S
  <2> QED BY <1>1, <1>2, UpTo
<1> QED BY <1>3 DEF Computes

(* The same from 1. *)
LEMMA From1 ==
  ASSUME NEW n \in Nat \ {0}, NEW S, 1 \in S, \A i \in 1 .. n - 1 : i \in S => i + 1 \in S
  PROVE  \A i \in 1 .. n : i \in S
<1> DEFINE U == {k \in Nat : k + 1 \in S}
<1>1. 0 \in U /\ n - 1 \in Nat
  OBVIOUS
<1>2. \A k \in 0 .. (n - 1) - 1 : k \in U => k + 1 \in U
  <2> SUFFICES ASSUME NEW k \in 0 .. (n - 1) - 1, k \in U PROVE k + 1 \in U
    OBVIOUS
  <2>1. k + 1 \in 1 .. n - 1 /\ k + 1 \in S
    OBVIOUS
  <2> QED BY <2>1
<1>3. \A k \in 0 .. n - 1 : k \in U
  <2> HIDE DEF U
  <2> QED BY <1>1, <1>2, UpTo
<1> SUFFICES ASSUME NEW i \in 1 .. n PROVE i \in S
  OBVIOUS
<1>4. i - 1 \in 0 .. n - 1
  OBVIOUS
<1>5. i - 1 \in U
  <2> HIDE DEF U
  <2> QED BY <1>3, <1>4
<1> QED BY <1>5

(* FlattenSeq concatenates its sequences one after the other: f has the
   results on the way.                                                      *)
Concatenates(f, T, n, seqs) ==
  /\ f \in [1 .. n -> Seq(T)]
  /\ f[1] = seqs[1]
  /\ \A i \in 1 .. n - 1 : f[i + 1] = f[i] \o seqs[i + 1]

LEMMA Flat ==
  ASSUME NEW T, NEW n \in Nat \ {0}, NEW seqs \in [1 .. n -> Seq(T)]
  PROVE  \E f : Concatenates(f, T, n, seqs) /\ FlattenSeq(seqs) = f[n]
<1> DEFINE P(k) == k = [i \in 1 .. n |-> IF i = 1 THEN seqs[i] ELSE k[i - 1] \o seqs[i]]
           D == [p \in Seq(T) \X (1 .. n - 1) |-> p[1] \o seqs[p[2] + 1]]
           f == CHOOSE g : g = [i \in 1 .. n |-> IF i = 1 THEN seqs[i] ELSE g[i - 1] \o seqs[i]]
<1>1. /\ n - 1 \in Nat /\ seqs[1] \in Seq(T)
      /\ D \in [Seq(T) \X (1 .. n - 1) -> Seq(T)]
  OBVIOUS
<1>2. PICK g \in [0 .. n - 1 -> Seq(T)] : 
        g[0] = seqs[1] /\ \A i \in 1 .. n - 1 : g[i] = D[<<g[i - 1], i>>]
  <2> DEFINE m == n - 1  c == seqs[1]  V == Seq(T)
  <2>1. m \in Nat /\ c \in V /\ D \in [V \X (1 .. m) -> V]
    BY <1>1
  <2>2. \E g : Computes(g, m, V, c, D)
    <3> HIDE DEF D, m, c, V
    <3> QED BY <2>1, Recursion
  <2> HIDE DEF D
  <2> QED BY <2>2 DEF Computes
<1> DEFINE h == [i \in 1 .. n |-> g[i - 1]]
<1>3. P(h)
  <2>1. ASSUME NEW i \in 1 .. n, i # 1 PROVE h[i] = h[i - 1] \o seqs[i]
    <3>1. i - 1 \in 1 .. n - 1 /\ i - 1 \in 1 .. n /\ (i - 1) + 1 = i
      BY <2>1
    <3>2. g[i - 1] = D[<<g[(i - 1) - 1], i - 1>>]
      BY <1>2, <3>1
    <3>3. g[(i - 1) - 1] \in Seq(T)
      BY <3>1
    <3>4. h[i - 1] = g[(i - 1) - 1] /\ h[i] = g[i - 1]
      BY <3>1
    <3> HIDE DEF h
    <3> QED BY <3>1, <3>2, <3>3, <3>4
  <2>2. h[1] = seqs[1]
    BY <1>2
  <2>3. \A i \in 1 .. n : h[i] = IF i = 1 THEN seqs[i] ELSE h[i - 1] \o seqs[i]
    <3> HIDE DEF h
    <3> QED BY <2>1, <2>2
  <2> DEFINE r == [i \in 1 .. n |-> IF i = 1 THEN seqs[i] ELSE h[i - 1] \o seqs[i]]
  <2>4. h = [i \in 1 .. n |-> h[i]]
    OBVIOUS
  <2>5. h = r
    <3> HIDE DEF h
    <3> QED BY <2>3, <2>4
  <2> QED BY <2>5
<1>4. P(f)
  <2>1. f = CHOOSE k : P(k)
    OBVIOUS
  <2> HIDE DEF P, f, h
  <2> QED BY <1>3, <2>1
<1>5. FlattenSeq(seqs) = f[n]
  <2>1. seqs \in Seq(Seq(T))
    BY SeqDef
  <2>2. Len(seqs) = n
    BY <2>1, LenProperties
  <2> QED BY <2>2 DEF FlattenSeq
<1> HIDE DEF f
<1>6. /\ f[1] = seqs[1]
      /\ \A i \in 1 .. n - 1 : f[i + 1] = f[i] \o seqs[i + 1]
  <2>1. f = [i \in 1 .. n |-> IF i = 1 THEN seqs[i] ELSE f[i - 1] \o seqs[i]]
    BY <1>4
  <2>2. f[1] = seqs[1]
    BY <2>1
  <2>3. ASSUME NEW i \in 1 .. n - 1 PROVE f[i + 1] = f[i] \o seqs[i + 1]
    <3>1. i + 1 \in 1 .. n /\ i + 1 # 1 /\ (i + 1) - 1 = i
      OBVIOUS
    <3>2. f[i + 1] = f[(i + 1) - 1] \o seqs[i + 1]
      BY <2>1, <3>1
    <3> QED BY <3>1, <3>2
  <2> QED BY <2>2, <2>3
<1>7. \A i \in 1 .. n : f[i] \in Seq(T)
  <2> DEFINE S == {i \in 1 .. n : f[i] \in Seq(T)}
  <2>1. 1 \in S
    BY <1>6
  <2>2. ASSUME NEW i \in 1 .. n - 1, i \in S PROVE i + 1 \in S
    <3>1. f[i + 1] = f[i] \o seqs[i + 1]
      BY <1>6
    <3>2. f[i] \in Seq(T) /\ seqs[i + 1] \in Seq(T) /\ i + 1 \in 1 .. n
      BY <2>2
    <3>3. f[i + 1] \in Seq(T)
      BY <3>1, <3>2
    <3> QED BY <3>2, <3>3
  <2>3. \A i \in 1 .. n : i \in S
    <3> HIDE DEF S
    <3> QED BY <2>1, <2>2, From1
  <2> QED BY <2>3
<1>8. f \in [1 .. n -> Seq(T)]
  BY <1>4, <1>7
<1>9. Concatenates(f, T, n, seqs)
  BY <1>6, <1>8 DEF Concatenates
<1> QED BY <1>5, <1>9

LEMMA FlatNone == ASSUME NEW s, Len(s) = 0 PROVE FlattenSeq(s) = s
  BY DEF FlattenSeq

LEMMA FlatType ==
  ASSUME NEW T, NEW s \in Seq(Seq(T))
  PROVE  FlattenSeq(s) \in Seq(T)
<1>1. CASE Len(s) = 0
  <2>1. FlattenSeq(s) = <<>>
    BY <1>1, FlatNone, EmptySeq
  <2> QED BY <2>1
<1>2. CASE Len(s) # 0
  <2> DEFINE n == Len(s)  V == Seq(T)
  <2>1. n \in Nat \ {0} /\ s \in [1 .. n -> V]
    BY <1>2, LenProperties, ElementOfSeq
  <2>2. PICK f : Concatenates(f, T, n, s) /\ FlattenSeq(s) = f[n]
    <3> HIDE DEF n
    <3> QED BY <2>1, Flat
  <2> QED BY <2>1, <2>2 DEF Concatenates
<1> QED BY <1>1, <1>2

(* One more sequence comes behind all that is there. *)
LEMMA FlatAppend ==
  ASSUME NEW T, NEW s \in Seq(Seq(T)), NEW x \in Seq(T)
  PROVE  FlattenSeq(Append(s, x)) = FlattenSeq(s) \o x
<1> DEFINE n == Len(s)  m == n + 1  V == Seq(T)  t == Append(s, x)
<1>1. n \in Nat /\ m \in Nat \ {0} /\ n = Len(s)
  BY LenProperties
<1>2. /\ t \in [1 .. m -> V]
      /\ \A i \in 1 .. n : t[i] = s[i]
      /\ t[m] = x
  <2>1. s \in Seq(V) /\ x \in V
    OBVIOUS
  <2> HIDE DEF V
  <2>2. t \in Seq(V) /\ Len(t) = m /\ t[m] = x /\ \A i \in 1 .. n : t[i] = s[i]
    BY <2>1, AppendProperties
  <2>3. t \in [1 .. m -> V]
    <3> HIDE DEF t, m
    <3> QED BY <2>2, LenProperties, ElementOfSeq
  <2> QED BY <2>2, <2>3
<1> HIDE DEF n, m, t
<1>3. PICK g : Concatenates(g, T, m, t) /\ FlattenSeq(t) = g[m]
  BY <1>1, <1>2, Flat
<1>4. CASE n = 0
  <2>1. s = <<>>
    BY <1>1, <1>4, EmptySeq
  <2>2. FlattenSeq(s) = <<>>
    BY <2>1, FlatNone
  <2>3. m = 1
    BY <1>4 DEF m
  <2>4. g[m] = x
    BY <1>2, <1>3, <2>3 DEF Concatenates
  <2>5. <<>> \o x = x
    OBVIOUS
  <2> QED BY <1>3, <2>2, <2>4, <2>5 DEF t
<1>5. CASE n # 0
  <2>1. s \in [1 .. n -> V] /\ n \in Nat \ {0}
    BY <1>1, <1>5, LenProperties, ElementOfSeq
  <2>2. PICK f : Concatenates(f, T, n, s) /\ FlattenSeq(s) = f[n]
    BY <2>1, Flat
  <2> DEFINE S == {i \in 1 .. n : g[i] = f[i]}
  <2>3. 1 \in S
    BY <1>2, <1>3, <2>1, <2>2 DEF Concatenates
  <2>4. ASSUME NEW i \in 1 .. n - 1, i \in S PROVE i + 1 \in S
    <3>1. i \in 1 .. m - 1 /\ i + 1 \in 1 .. n
      BY <1>1 DEF m
    <3>2. f[i + 1] = f[i] \o s[i + 1] /\ g[i + 1] = g[i] \o t[i + 1]
      BY <1>3, <2>2, <3>1 DEF Concatenates
    <3>3. t[i + 1] = s[i + 1]
      BY <1>2, <3>1
    <3> QED BY <2>4, <3>1, <3>2, <3>3
  <2>5. \A i \in 1 .. n : i \in S
    <3> HIDE DEF S
    <3> QED BY <2>1, <2>3, <2>4, From1
  <2>6. g[n] = f[n]
    BY <2>1, <2>5
  <2>7. n \in 1 .. m - 1 /\ n + 1 = m
    BY <2>1 DEF m
  <2>8. g[n + 1] = g[n] \o t[n + 1]
    BY <1>3, <2>7 DEF Concatenates
  <2> QED BY <1>2, <1>3, <2>2, <2>6, <2>7, <2>8 DEF t
<1> QED BY <1>4, <1>5

(* One sequence of sequences behind the other. *)
LEMMA FlatConcat ==
  ASSUME NEW T, NEW a \in Seq(Seq(T)), NEW b \in Seq(Seq(T))
  PROVE  FlattenSeq(a \o b) = FlattenSeq(a) \o FlattenSeq(b)
<1> DEFINE V == Seq(T)  n == Len(b)
           S == {i \in 0 .. n : FlattenSeq(a \o SubSeq(b, 1, i)) =
                                  FlattenSeq(a) \o FlattenSeq(SubSeq(b, 1, i))}
<1>1. n \in Nat /\ FlattenSeq(a) \in Seq(T)
  BY FlatType, LenProperties
<1>2. 0 \in S
  <2>1. SubSeq(b, 1, 0) = <<>> /\ a \o <<>> = a
    OBVIOUS
  <2>2. FlattenSeq(<<>>) = <<>>
    BY FlatNone
  <2>3. FlattenSeq(a) \o <<>> = FlattenSeq(a)
    BY <1>1
  <2>4. FlattenSeq(a \o SubSeq(b, 1, 0)) = FlattenSeq(a) \o FlattenSeq(SubSeq(b, 1, 0))
    BY <2>1, <2>2, <2>3
  <2>5. 0 \in 0 .. n
    BY <1>1
  <2> QED BY <2>4, <2>5
<1>3. ASSUME NEW i \in 0 .. n - 1, i \in S PROVE i + 1 \in S
  <2> DEFINE c == SubSeq(b, 1, i)  x == b[i + 1]
  <2>1. c \in Seq(V) /\ x \in Seq(T) /\ i + 1 \in 0 .. n
    BY <1>1, ElementOfSeq
  <2>2. SubSeq(b, 1, i + 1) = Append(c, x)
    BY <1>1
  <2>3. FlattenSeq(a \o c) = FlattenSeq(a) \o FlattenSeq(c)
    BY <1>3
  <2> HIDE DEF c, x
  <2>4. a \o Append(c, x) = Append(a \o c, x)
    BY SMTT(30), <2>1
  <2>5. a \o c \in Seq(V) /\ FlattenSeq(c) \in Seq(T)
    BY <2>1, FlatType
  <2>6. FlattenSeq(Append(a \o c, x)) = FlattenSeq(a \o c) \o x
    BY <2>1, <2>5, FlatAppend
  <2>7. FlattenSeq(Append(c, x)) = FlattenSeq(c) \o x
    BY <2>1, FlatAppend
  <2>8. (FlattenSeq(a) \o FlattenSeq(c)) \o x = FlattenSeq(a) \o (FlattenSeq(c) \o x)
    <3>1. \A p, q, r \in Seq(T) : (p \o q) \o r = p \o (q \o r)
      BY SMTT(30), ConcatAssociative
    <3> QED BY <1>1, <2>1, <2>5, <3>1
  <2> QED BY <2>1, <2>2, <2>3, <2>4, <2>6, <2>7, <2>8
<1>4. \A i \in 0 .. n : i \in S
  <2> HIDE DEF S, n
  <2> QED BY <1>1, <1>2, <1>3, UpTo
<1>5. SubSeq(b, 1, n) = b
  OBVIOUS
<1>6. n \in S
  <2> HIDE DEF S
  <2> QED BY <1>1, <1>4
<1> QED BY <1>5, <1>6

(* Sequences of one element or none are not more together than they are. *)
LEMMA FlatShort ==
  ASSUME NEW T, NEW s \in Seq(Seq(T)), \A i \in DOMAIN s : Len(s[i]) <= 1
  PROVE  Len(FlattenSeq(s)) <= Len(s)
<1>1. CASE Len(s) = 0
  BY <1>1, FlatNone
<1>2. CASE Len(s) # 0
  <2> DEFINE n == Len(s)  V == Seq(T)
  <2>1. n \in Nat \ {0} /\ s \in [1 .. n -> V] /\ DOMAIN s = 1 .. n
    BY <1>2, LenProperties, ElementOfSeq
  <2> HIDE DEF n
  <2>2. PICK f : Concatenates(f, T, n, s) /\ FlattenSeq(s) = f[n]
    BY <2>1, Flat
  <2> DEFINE S == {i \in 1 .. n : Len(f[i]) <= i}
  <2>3. 1 \in S
    BY <2>1, <2>2 DEF Concatenates
  <2>4. ASSUME NEW i \in 1 .. n - 1, i \in S PROVE i + 1 \in S
    <3>1. i + 1 \in 1 .. n /\ i \in 1 .. n
      BY <2>1
    <3>2. f[i] \in Seq(T) /\ s[i + 1] \in Seq(T) /\ Len(s[i + 1]) <= 1
      BY <2>1, <2>2, <3>1 DEF Concatenates
    <3>3. f[i + 1] = f[i] \o s[i + 1]
      BY <2>2 DEF Concatenates
    <3>4. Len(f[i + 1]) = Len(f[i]) + Len(s[i + 1]) /\ Len(f[i]) \in Nat /\ Len(s[i + 1]) \in Nat
      BY <3>2, <3>3, ConcatProperties, LenProperties
    <3>5. Len(f[i]) <= i
      BY <2>4
    <3>6. Len(f[i + 1]) <= i + 1
      <4> DEFINE p == Len(f[i])  q == Len(s[i + 1])  r == Len(f[i + 1])
      <4>1. r = p + q /\ p \in Nat /\ q \in Nat /\ p <= i /\ q <= 1
        BY <3>2, <3>4, <3>5
      <4> HIDE DEF p, q, r
      <4>2. r <= i + 1
        BY <4>1
      <4> QED BY <4>2 DEF r
    <3> QED BY <3>1, <3>6
  <2>5. \A i \in 1 .. n : i \in S
    <3> HIDE DEF S
    <3> QED BY <2>1, <2>3, <2>4, From1
  <2>6. n \in S
    <3> HIDE DEF S
    <3> QED BY <2>1, <2>5
  <2> QED BY <2>2, <2>6 DEF n
<1> QED BY <1>1, <1>2

-----------------------------------------------------------------------------
(* The invariant *)

Frame == [image : Nat \cup {None}, task_index : Nat, done : BOOLEAN,
          index : Int, episode_index : Int, frame_index : Int]

TypeInv ==
  /\ separate_per_primitive \in BOOLEAN
  /\ pc \in {"idle", "segment", "finalize", "data"} \cup MetaFile
  /\ pc # "idle" => bag \in Bag
  /\ frames \in Seq(Seq(Frame))
  /\ runs \in Nat
  /\ writers \in [Uuid -> SUBSET (1 .. runs)]
  /\ ok \in [Uuid -> BOOLEAN]
  /\ DOMAIN disk = Uuid
  /\ \A u \in Uuid : /\ DOMAIN disk[u] = {"data", "videos"} \cup MetaFile
                     /\ DOMAIN disk[u].data = Episode
                     /\ DOMAIN disk[u].videos = Episode

(* The tasks that the stage keeps are numbered from 0 on, and counted. *)
Metadata == [tasks : UNION {[D -> Nat] : D \in SUBSET STRING}, total_tasks : Nat]

Numbered(m) ==
  /\ IsFiniteSet(DOMAIN m.tasks)
  /\ m.total_tasks = Cardinality(DOMAIN m.tasks)
  /\ \A t \in DOMAIN m.tasks : m.tasks[t] < m.total_tasks
  /\ \A i \in 0 .. m.total_tasks - 1 : \E t \in DOMAIN m.tasks : m.tasks[t] = i
  /\ \A t, u \in DOMAIN m.tasks : m.tasks[t] = m.tasks[u] => t = u

MetadataInv == metadata \in Metadata /\ Numbered(metadata)

(* how far a run is: in SHT all the segments come first *)
ProgressInv ==
  pc # "idle" =>
    /\ ~ ok[bag.uuid] /\ runs \in writers[bag.uuid]
    /\ \A l \in DOMAIN bag.labels : bag.labels[l] \in DOMAIN metadata.tasks
    /\ Len(frames) <= Len(Kept(bag))
    /\ pc = "segment" => Len(frames) < Len(Kept(bag))
    /\ pc # "segment" => frames # <<>> /\ (separate_per_primitive \/ Len(frames) = Len(Kept(bag)))

(* The i-th row of the k-th of these episodes has the place it is at, and the
   number of a task; in PA that is the task of the segment.                   *)
Fits(eps, k, i) ==
  LET r == eps[k][i]
  IN  /\ r.index = Len(FlattenSeq([j \in 1 .. k - 1 |-> eps[j]])) + i - 1
      /\ r.frame_index = i - 1
      /\ r.episode_index = k - 1
      /\ \E l \in DOMAIN bag.labels :
           /\ r.task_index = metadata.tasks[bag.labels[l]]
           /\ separate_per_primitive => l = bag.segments[Kept(bag)[k]].label_idx

Assembled(eps) == \A k \in DOMAIN eps : \A i \in DOMAIN eps[k] : Fits(eps, k, i)

RowsInv == pc # "idle" => Assembled(EpisodeFrames)

(* The images of the episode that is being written are in the encoder. *)
StreamInv ==
  pc # "idle" =>
    stream = IF pc = "finalize" \/ (pc = "segment" /\ ~ separate_per_primitive)
             THEN Images(Last(EpisodeFrames)) ELSE <<>>

(* The files of the episodes before it are on the disk. *)
Closed(k) ==
  \/ k < Len(EpisodeFrames)
  \/ pc \in MetaFile
  \/ pc = "segment" /\ separate_per_primitive

EpisodesInv ==
  pc # "idle" =>
    \A k \in DOMAIN EpisodeFrames :
      /\ Closed(k) => disk[bag.uuid].data[k - 1] = Whole(EpisodeFrames[k])
      /\ Closed(k) \/ pc = "data" =>
           (Images(EpisodeFrames[k]) # <<>> =>
              disk[bag.uuid].videos[k - 1] = Whole(Images(EpisodeFrames[k])))

(* The metadata files that are behind the run say what it has in mind. *)
Behind(p) ==
  {f \in MetaFile : \E i, j \in DOMAIN Order : j < i /\ Order[j] = f /\ Order[i] = p}

Content(f) ==
  IF f = "info" THEN Info
  ELSE IF f = "tasks" THEN metadata.tasks
  ELSE IF f = "stats" THEN EpisodesStats ELSE Episodes

MetaInv == pc # "idle" => \A f \in Behind(pc) : disk[bag.uuid][f] = Whole(Content(f))

(* Nothing else is written where the run is the first to write. *)
FirstInv ==
  pc # "idle" /\ Cardinality(writers[bag.uuid]) = 1 =>
    /\ \A f \in MetaFile \ Behind(pc) : ~ Written(disk[bag.uuid][f])
    /\ \A e \in Episode :
         disk[bag.uuid].videos[e].state = "torn" => e = episode /\ stream # <<>>

RunInv == ProgressInv /\ RowsInv /\ StreamInv /\ EpisodesInv /\ MetaInv /\ FirstInv

(* What is true of a data set d that the runs w have written, and the last of
   them successfully or not.                                                  *)
Settled(w, o, d) ==
  LET written == \A f \in MetaFile : Written(d[f])
  IN  /\ w = {} => /\ \A f \in MetaFile : ~ Written(d[f])
                   /\ \A e \in Episode : d.videos[e].state # "torn"
      /\ o => written /\ FilesAgree(d)
      /\ Cardinality(w) = 1 /\ written =>
           FilesAgree(d) /\ \A e \in Episode : d.videos[e].state # "torn"
      /\ \A e \in Episode : o /\ e < d.info.content.total_episodes =>
           LET images == Images(d.data[e].content)
           IN  images # <<>> =>
                 d.videos[e] = [state |-> "whole", run |-> d.data[e].run, content |-> images]

SettledInv == \A u \in Uuid : Settled(writers[u], ok[u], disk[u])

IInv == TypeInv /\ MetadataInv /\ RunInv /\ SettledInv

-----------------------------------------------------------------------------
(* What is computed from a bag *)

Image == Nat \cup {None}
Row == [ts : Nat, image : Image]

LEMMA BagType ==
  ASSUME NEW b \in Bag
  PROVE  /\ b.labels \in Seq(STRING) /\ b.label \in STRING
         /\ Len(b.segments) \in Nat /\ DOMAIN b.segments = 1 .. Len(b.segments)
         /\ b.rows \in Seq(Row)
         /\ b.uuid \in Uuid
         /\ \A i \in 0 .. Len(b.segments) - 1 : i \in Episode
<1>1. b.segments \in Seq([start : Nat, end : Nat, label_idx : Nat])
  BY TransformAssumption
<1>2. Len(b.segments) \in Nat /\ DOMAIN b.segments = 1 .. Len(b.segments)
  BY <1>1
<1>3. b.labels \in Seq(STRING) /\ b.label \in STRING /\ b.rows \in Seq(Row)
  BY TransformAssumption DEF Row, Image
<1>4. b.uuid \in Uuid /\ \A i \in 0 .. Len(b.segments) - 1 : i \in Episode
  BY DEF Uuid, Episode
<1> QED BY <1>2, <1>3, <1>4

(* What is left of a sequence whose elements are there or not. *)
LEMMA OptionsType ==
  ASSUME NEW T, NEW n \in Nat, NEW s \in [1 .. n -> Seq(T)], \A i \in 1 .. n : Len(s[i]) <= 1
  PROVE  FlattenSeq(s) \in Seq(T) /\ Len(FlattenSeq(s)) <= n
<1>1. s \in Seq(Seq(T)) /\ Len(s) = n /\ DOMAIN s = 1 .. n
  OBVIOUS
<1> QED BY <1>1, FlatType, FlatShort

LEMMA OptionIs ==
  ASSUME NEW c, NEW x, NEW T, c => x \in T
  PROVE  Option(c, x) \in Seq(T) /\ Len(Option(c, x)) <= 1
  BY DEF Option

LEMMA KeptType ==
  ASSUME NEW b \in Bag
  PROVE  /\ Kept(b) \in Seq(DOMAIN b.segments)
         /\ Len(Kept(b)) \in Nat /\ Len(Kept(b)) <= Len(b.segments)
<1> DEFINE n == Len(b.segments)  T == 1 .. n
           C(i) == /\ Rounded(b.segments[i].end) >= b.rows[1].ts
                   /\ Rounded(b.segments[i].start) <= Last(b.rows).ts
           s == [i \in 1 .. n |-> Option(C(i), i)]
<1>1. n \in Nat /\ DOMAIN b.segments = 1 .. n
  BY BagType
<1>2. Kept(b) = FlattenSeq(s)
  BY <1>1 DEF Kept
<1> HIDE DEF C, n
<1>3. \A i \in 1 .. n : Option(C(i), i) \in Seq(T) /\ Len(Option(C(i), i)) <= 1
  BY OptionIs
<1>4. s \in [1 .. n -> Seq(T)] /\ \A i \in 1 .. n : Len(s[i]) <= 1
  BY <1>3
<1>5. FlattenSeq(s) \in Seq(T) /\ Len(FlattenSeq(s)) <= n
  <2> HIDE DEF s, T
  <2> QED BY <1>1, <1>4, OptionsType DEF T
<1>6. Kept(b) \in Seq(DOMAIN b.segments) /\ Len(Kept(b)) <= n
  BY <1>1, <1>2, <1>5
<1> QED BY <1>6, LenProperties DEF n

LEMMA CutType ==
  ASSUME NEW b \in Bag, NEW g
  PROVE  Cut(b, g) \in Seq(Row)
<1> DEFINE n == Len(b.rows)  T == Row
           C(i) == Truncated(g.start) <= b.rows[i].ts /\ b.rows[i].ts <= Truncated(g.end)
           s == [i \in 1 .. n |-> Option(C(i), b.rows[i])]
<1>1. b.rows \in Seq(T) /\ n \in Nat /\ DOMAIN b.rows = 1 .. n
  BY BagType
<1>2. Cut(b, g) = FlattenSeq(s)
  BY <1>1 DEF Cut
<1>3. \A i \in 1 .. n : b.rows[i] \in T
  BY <1>1
<1> HIDE DEF C, n, T
<1>4. \A i \in 1 .. n : Option(C(i), b.rows[i]) \in Seq(T) /\ Len(Option(C(i), b.rows[i])) <= 1
  BY <1>3, OptionIs
<1>5. s \in [1 .. n -> Seq(T)] /\ \A i \in 1 .. n : Len(s[i]) <= 1
  BY <1>4
<1>6. FlattenSeq(s) \in Seq(T)
  <2> HIDE DEF s
  <2> QED BY <1>1, <1>5, OptionsType
<1> QED BY <1>2, <1>6 DEF T

(* the images, each by itself *)
Shots(rows) == [k \in DOMAIN rows |-> Option(rows[k].image # None, rows[k].image)]

LEMMA ShotsType ==
  ASSUME NEW rows \in Seq(Frame)
  PROVE  Shots(rows) \in Seq(Seq(Image)) /\ Images(rows) = FlattenSeq(Shots(rows))
         /\ Images(rows) \in Seq(Image)
<1> DEFINE n == Len(rows)
<1>1. n \in Nat /\ DOMAIN rows = 1 .. n /\ \A k \in 1 .. n : rows[k] \in Frame
  BY ElementOfSeq
<1>2. \A k \in 1 .. n : rows[k].image \in Image
  BY <1>1 DEF Frame, Image
<1> HIDE DEF n
<1>3. \A k \in 1 .. n : Option(rows[k].image # None, rows[k].image) \in Seq(Image)
  BY <1>2, OptionIs
<1>4. Shots(rows) \in [1 .. n -> Seq(Image)]
  BY <1>1, <1>3 DEF Shots
<1>5. Shots(rows) \in Seq(Seq(Image))
  <2> DEFINE V == Seq(Image)
  <2>1. Shots(rows) \in [1 .. n -> V]
    BY <1>4
  <2> HIDE DEF V
  <2>2. Shots(rows) \in Seq(V)
    BY <2>1, <1>1, SeqDef
  <2> QED BY <2>2 DEF V
<1>6. Images(rows) = FlattenSeq(Shots(rows))
  BY DEF Images, Shots
<1> QED BY <1>5, <1>6, FlatType

LEMMA ImagesConcat ==
  ASSUME NEW p \in Seq(Frame), NEW q \in Seq(Frame)
  PROVE  Images(p \o q) = Images(p) \o Images(q)
<1> DEFINE V == Seq(Image)
<1>1. p \o q \in Seq(Frame)
  OBVIOUS
<1>2. Shots(p) \in Seq(V) /\ Shots(q) \in Seq(V)
  BY ShotsType
<1>3. Shots(p \o q) = Shots(p) \o Shots(q)
  <2>1. Len(p \o q) = Len(p) + Len(q) /\ Len(p) \in Nat /\ Len(q) \in Nat
        /\ DOMAIN p = 1 .. Len(p) /\ DOMAIN q = 1 .. Len(q)
        /\ DOMAIN (p \o q) = 1 .. Len(p) + Len(q)
    BY LenProperties, ConcatProperties
  <2>2. Len(Shots(p)) = Len(p) /\ Len(Shots(q)) = Len(q)
    BY <2>1, <1>2, LenProperties DEF Shots
  <2>3. /\ Shots(p) \o Shots(q) \in Seq(V)
        /\ Len(Shots(p) \o Shots(q)) = Len(p) + Len(q)
        /\ \A k \in 1 .. Len(p) + Len(q) :
             (Shots(p) \o Shots(q))[k] = IF k <= Len(p) THEN Shots(p)[k] ELSE Shots(q)[k - Len(p)]
    <3> DEFINE sp == Shots(p)  sq == Shots(q)  m == Len(p)  l == Len(q)
    <3>1. sp \in Seq(V) /\ sq \in Seq(V) /\ Len(sp) = m /\ Len(sq) = l
      BY <1>2, <2>2
    <3> HIDE DEF V, sp, sq, m, l
    <3>2. /\ sp \o sq \in Seq(V)
          /\ Len(sp \o sq) = m + l
          /\ \A k \in 1 .. m + l : (sp \o sq)[k] = IF k <= m THEN sp[k] ELSE sq[k - m]
      BY <3>1, ConcatProperties
    <3> QED BY <3>2 DEF sp, sq, m, l
  <2>4. \A k \in 1 .. Len(p) + Len(q) : (p \o q)[k] = IF k <= Len(p) THEN p[k] ELSE q[k - Len(p)]
    BY <2>1, ConcatProperties
  <2>5. Shots(p \o q) \in Seq(V) /\ Len(Shots(p \o q)) = Len(p) + Len(q)
    <3>1. Shots(p \o q) \in Seq(V)
      BY <1>1, ShotsType
    <3>2. DOMAIN Shots(p \o q) = 1 .. Len(p) + Len(q)
      BY <2>1 DEF Shots
    <3> DEFINE n == Len(p) + Len(q)
    <3>3. n \in Nat
      BY <2>1
    <3> HIDE DEF V, n
    <3>4. Len(Shots(p \o q)) = n
      BY <3>1, <3>2, <3>3, LenProperties DEF n
    <3> QED BY <3>1, <3>4 DEF n
  <2>6. ASSUME NEW k \in 1 .. Len(p) + Len(q)
        PROVE  Shots(p \o q)[k] = (Shots(p) \o Shots(q))[k]
    <3>1. Shots(p \o q)[k] = Option((p \o q)[k].image # None, (p \o q)[k].image)
      BY <2>1 DEF Shots
    <3>2. CASE k <= Len(p)
      <4>1. Shots(p)[k] = Option(p[k].image # None, p[k].image)
        BY <2>1, <3>2 DEF Shots
      <4> QED BY <2>3, <2>4, <3>1, <3>2, <4>1
    <3>3. CASE ~ (k <= Len(p))
      <4>1. k - Len(p) \in DOMAIN q
        BY <2>1, <3>3
      <4>2. Shots(q)[k - Len(p)] = Option(q[k - Len(p)].image # None, q[k - Len(p)].image)
        BY <4>1 DEF Shots
      <4> QED BY <2>3, <2>4, <3>1, <3>3, <4>2
    <3> QED BY <3>2, <3>3
  <2> DEFINE l == Shots(p \o q)  r == Shots(p) \o Shots(q)
  <2>7. l \in Seq(V) /\ r \in Seq(V) /\ Len(l) = Len(r) /\ \A k \in 1 .. Len(l) : l[k] = r[k]
    BY <2>3, <2>5, <2>6
  <2> HIDE DEF l, r, V
  <2>8. l = r
    BY <2>7, SeqEqual
  <2> QED BY <2>8 DEF l, r
<1>4. FlattenSeq(Shots(p) \o Shots(q)) = FlattenSeq(Shots(p)) \o FlattenSeq(Shots(q))
  BY <1>2, FlatConcat
<1> QED BY <1>1, <1>3, <1>4, ShotsType

(* The annotations leave the images alone. *)
LEMMA ImagesSame ==
  ASSUME NEW rows, NEW t, NEW ep
  PROVE  Images(Annotated(rows, t, ep)) = Images(rows)
<1>1. /\ DOMAIN Annotated(rows, t, ep) = DOMAIN rows
      /\ \A k \in DOMAIN rows : Annotated(rows, t, ep)[k].image = rows[k].image
  BY DEF Annotated
<1> DEFINE a == Annotated(rows, t, ep)
           r1 == [k \in DOMAIN a |-> Option(a[k].image # None, a[k].image)]
           r2 == [k \in DOMAIN rows |-> Option(rows[k].image # None, rows[k].image)]
<1>2. r1 = r2
  <2> HIDE DEF a
  <2> QED BY <1>1 DEF a
<1> QED BY <1>2 DEF Images

-----------------------------------------------------------------------------
(* The numbering of the tasks *)

Numberings == {m \in Metadata : Numbered(m)}

LEMMA AddTaskNumbers ==
  ASSUME NEW m \in Numberings, NEW t \in STRING, t \notin DOMAIN m.tasks
  PROVE  AddTask(m, t) \in Numberings
<1> DEFINE D == DOMAIN m.tasks  n == m.total_tasks  E == D \cup {t}
           ts == [x \in E |-> IF x = t THEN n ELSE m.tasks[x]]
           a == AddTask(m, t)
<1>1. m \in Metadata /\ Numbered(m)
  BY DEF Numberings
<1>2. D \in SUBSET STRING /\ m.tasks \in [D -> Nat] /\ n \in Nat
  BY <1>1 DEF Metadata
<1>3. a = [tasks |-> ts, total_tasks |-> n + 1]
  BY DEF AddTask
<1>4. E \in SUBSET STRING /\ ts \in [E -> Nat]
  BY <1>2
<1>5. a \in Metadata
  <2>1. [E -> Nat] \in {[F -> Nat] : F \in SUBSET STRING}
    BY <1>4
  <2>2. ts \in UNION {[F -> Nat] : F \in SUBSET STRING}
    <3> HIDE DEF ts, E
    <3> QED BY <1>4, <2>1
  <2> HIDE DEF ts
  <2> QED BY <1>2, <1>3, <2>2 DEF Metadata
<1>6. IsFiniteSet(E) /\ Cardinality(E) = n + 1
  <2>1. IsFiniteSet(D) /\ t \notin D /\ n = Cardinality(D)
    BY <1>1 DEF Numbered
  <2> HIDE DEF D, n
  <2> QED BY <2>1, FS_AddElement
<1>7. /\ \A x \in E : ts[x] < n + 1
      /\ \A x, y \in E : ts[x] = ts[y] => x = y
  BY <1>1, <1>2 DEF Numbered
<1>8. \A i \in 0 .. (n + 1) - 1 : \E x \in E : ts[x] = i
  <2> SUFFICES ASSUME NEW i \in 0 .. (n + 1) - 1 PROVE \E x \in E : ts[x] = i
    OBVIOUS
  <2>1. CASE i = n
    <3>1. t \in E /\ ts[t] = n
      OBVIOUS
    <3> HIDE DEF E, ts
    <3> QED BY <2>1, <3>1
  <2>2. CASE i # n
    <3>1. i \in 0 .. n - 1
      BY <1>2, <2>2
    <3>2. PICK x \in D : m.tasks[x] = i
      BY <1>1, <3>1 DEF Numbered
    <3>3. x \in E /\ ts[x] = i
      BY <3>2
    <3> HIDE DEF E, ts
    <3> QED BY <3>3
  <2> QED BY <2>1, <2>2
<1>9. a.tasks = ts /\ a.total_tasks = n + 1 /\ DOMAIN ts = E
  BY <1>3
<1>10. Numbered(a)
  <2> HIDE DEF ts, E, a, n
  <2> QED BY <1>6, <1>7, <1>8, <1>9 DEF Numbered
<1> QED BY <1>5, <1>10 DEF Numberings

LEMMA AddTaskKeeps ==
  ASSUME NEW m, NEW t
  PROVE  DOMAIN AddTask(m, t).tasks = DOMAIN m.tasks \cup {t}
  BY DEF AddTask

(* All the labels have a number afterwards. *)
LEMMA Registered ==
  ASSUME NEW m \in Numberings, NEW labels \in Seq(STRING)
  PROVE  /\ RegisterLabels(m, labels) \in Numberings
         /\ \A l \in DOMAIN labels : labels[l] \in DOMAIN RegisterLabels(m, labels).tasks
<1> DEFINE n == Len(labels)  V == Numberings
           Next1(p, i) == IF labels[i] \in DOMAIN p.tasks THEN p ELSE AddTask(p, labels[i])
           D == [q \in V \X (1 .. n) |-> Next1(q[1], q[2])]
           P(g) == g = [i \in 0 .. n |-> IF i = 0 THEN m
                                         ELSE IF labels[i] \in DOMAIN g[i - 1].tasks THEN g[i - 1]
                                         ELSE AddTask(g[i - 1], labels[i])]
           known == CHOOSE g : P(g)
<1>1. n \in Nat /\ DOMAIN labels = 1 .. n /\ \A i \in 1 .. n : labels[i] \in STRING
  BY ElementOfSeq
<1>2. RegisterLabels(m, labels) = known[n]
  BY DEF RegisterLabels
<1>3. \A p \in V, i \in 1 .. n : Next1(p, i) \in V
  BY <1>1, AddTaskNumbers
<1>4. PICK h : Computes(h, n, V, m, D)
  <2>1. D \in [V \X (1 .. n) -> V]
    <3> HIDE DEF Next1
    <3> QED BY <1>3
  <2> HIDE DEF D, n, V
  <2> QED BY <1>1, <2>1, Recursion DEF V
<1>5. /\ h \in [0 .. n -> V] /\ h[0] = m
      /\ \A i \in 1 .. n : h[i] = Next1(h[i - 1], i)
  <2>1. h \in [0 .. n -> V] /\ h[0] = m /\ \A i \in 1 .. n : h[i] = D[<<h[i - 1], i>>]
    BY <1>4 DEF Computes
  <2>2. ASSUME NEW i \in 1 .. n PROVE h[i] = Next1(h[i - 1], i)
    <3>1. i - 1 \in 0 .. n /\ h[i] = D[<<h[i - 1], i>>]
      <4> HIDE DEF D
      <4> QED BY <1>1, <2>1
    <3>2. h[i - 1] \in V
      BY <2>1, <3>1
    <3>3. D[<<h[i - 1], i>>] = Next1(h[i - 1], i)
      <4> HIDE DEF Next1
      <4> QED BY <3>2
    <3> QED BY <3>1, <3>3
  <2> QED BY <2>1, <2>2
<1>6. P(h)
  <2> DEFINE r == [i \in 0 .. n |-> IF i = 0 THEN m ELSE Next1(h[i - 1], i)]
  <2>1. \A i \in 0 .. n : h[i] = r[i]
    <3> HIDE DEF Next1
    <3> QED BY <1>1, <1>5
  <2>2. h = r
    <3> HIDE DEF Next1
    <3> QED BY <1>5, <2>1
  <2> QED BY <2>2
<1>7. P(known)
  <2> HIDE DEF P
  <2> QED BY <1>6
<1>8. /\ known[0] = m
      /\ \A i \in 0 .. n - 1 : known[i + 1] = Next1(known[i], i + 1)
  <2> HIDE DEF known
  <2>1. known[0] = m
    BY <1>1, <1>7
  <2>2. ASSUME NEW i \in 0 .. n - 1 PROVE known[i + 1] = Next1(known[i], i + 1)
    <3>1. i + 1 \in 0 .. n /\ i + 1 # 0 /\ (i + 1) - 1 = i
      BY <1>1
    <3> QED BY <1>7, <3>1
  <2> QED BY <2>1, <2>2
<1> DEFINE S == {i \in 0 .. n : /\ known[i] \in V
                                /\ \A l \in 1 .. i : labels[l] \in DOMAIN known[i].tasks}
<1>9. 0 \in S
  BY <1>1, <1>8
<1>10. ASSUME NEW i \in 0 .. n - 1, i \in S PROVE i + 1 \in S
  <2> DEFINE k == known[i]  k1 == known[i + 1]
  <2>1. i + 1 \in 1 .. n /\ i + 1 \in 0 .. n /\ k \in V /\ k1 = Next1(k, i + 1)
        /\ \A l \in 1 .. i : labels[l] \in DOMAIN k.tasks
    BY <1>1, <1>8, <1>10
  <2> HIDE DEF k, k1, V
  <2>2. k1 \in V
    BY <1>3, <2>1
  <2>3. DOMAIN k1.tasks = DOMAIN k.tasks \cup {labels[i + 1]}
    BY <2>1, AddTaskKeeps
  <2>4. \A l \in 1 .. i + 1 : labels[l] \in DOMAIN k1.tasks
    BY <2>1, <2>3
  <2> QED BY <2>1, <2>2, <2>4 DEF k1
<1>11. \A i \in 0 .. n : i \in S
  <2> HIDE DEF S, n
  <2> QED BY <1>1, <1>9, <1>10, UpTo
<1>12. n \in S
  <2> HIDE DEF S
  <2> QED BY <1>1, <1>11
<1> HIDE DEF known
<1> QED BY <1>1, <1>2, <1>12

LEMMA LabelledType ==
  ASSUME NEW b \in Bag
  PROVE  /\ Labelled(b) \in Seq(STRING)
         /\ \A l \in DOMAIN b.labels : l \in DOMAIN Labelled(b) /\ Labelled(b)[l] = b.labels[l]
<1>1. b.labels \in Seq(STRING) /\ b.label \in STRING
  BY BagType
<1> DEFINE x == IF b.label = "" THEN <<>> ELSE <<b.label>>
<1>2. x \in Seq(STRING)
  <2>1. <<>> \in Seq(STRING) /\ <<b.label>> \in Seq(STRING)
    BY <1>1
  <2>2. x = <<>> \/ x = <<b.label>>
    OBVIOUS
  <2> HIDE DEF x
  <2> QED BY <2>1, <2>2
<1>3. Labelled(b) = b.labels \o x
  BY DEF Labelled
<1> HIDE DEF x
<1> QED BY <1>1, <1>2, <1>3

(* A process starts with the empty numbering. *)
LEMMA FreshNumbered == Fresh \in Metadata /\ Numbered(Fresh)
<1> DEFINE ts == [t \in {} |-> 0]
<1>1. Fresh.tasks = ts /\ Fresh.total_tasks = 0 /\ Fresh = [tasks |-> ts, total_tasks |-> 0]
  BY DEF Fresh
<1>2. ts \in [{} -> Nat] /\ DOMAIN ts = {}
  OBVIOUS
<1> HIDE DEF ts
<1>3. Fresh \in Metadata
  <2>1. ts \in UNION {[D -> Nat] : D \in SUBSET STRING}
    BY <1>2
  <2> QED BY <1>1, <2>1 DEF Metadata
<1>4. IsFiniteSet({}) /\ Cardinality({}) = 0
  BY FS_EmptySet
<1>5. Numbered(Fresh)
  BY <1>1, <1>2, <1>4 DEF Numbered
<1> QED BY <1>3, <1>5

-----------------------------------------------------------------------------
(* What a run that is through has in mind agrees *)

LEMMA LenIs ==
  ASSUME NEW n \in Nat, NEW e, e = [k \in 1 .. n |-> e[k]]
  PROVE  Len(e) = n
<1> DEFINE T == {e[k] : k \in 1 .. n}
<1>1. e \in [1 .. n -> T]
  OBVIOUS
<1> QED BY <1>1

LEMMA NumbersType ==
  ASSUME MetadataInv
  PROVE  \A t \in DOMAIN metadata.tasks : metadata.tasks[t] \in Nat
<1> DEFINE tasks == metadata.tasks
<1>1. PICK D \in SUBSET STRING : tasks \in [D -> Nat]
  BY DEF MetadataInv, Metadata
<1> HIDE DEF tasks
<1>2. \A t \in DOMAIN tasks : tasks[t] \in Nat
  BY <1>1
<1> QED BY <1>2 DEF tasks

(* The tasks by their number: all of them, and the last is the last. *)
LEMMA TasksVecIs ==
  ASSUME MetadataInv
  PROVE  LET D == DOMAIN metadata.tasks  n == Cardinality(D)
         IN  /\ n \in Nat
             /\ TasksVec \in [1 .. n -> D]
             /\ \A t \in D : \E i \in 1 .. n :
                  TasksVec[i] = t /\ (i = n => metadata.tasks[t] = n - 1)
<1> DEFINE tasks == metadata.tasks
           D == DOMAIN tasks
           n == Cardinality(D)
           Sorted(v) == /\ v \in [1 .. n -> D]
                        /\ Range(v) = D
                        /\ \A i, j \in DOMAIN v : i < j => tasks[v[i]] <= tasks[v[j]]
           v0 == [i \in 1 .. n |-> CHOOSE t \in D : tasks[t] = i - 1]
<1>1. /\ n \in Nat
      /\ \A t \in D : tasks[t] \in Nat /\ tasks[t] < n
      /\ \A i \in 0 .. n - 1 : \E t \in D : tasks[t] = i
      /\ \A t, u \in D : tasks[t] = tasks[u] => t = u
  <2>1. Numbered(metadata) /\ metadata \in Metadata
    BY DEF MetadataInv
  <2>2. \A t \in D : tasks[t] \in Nat
    BY NumbersType
  <2> QED BY <2>1, <2>2 DEF Numbered, Metadata
<1> HIDE DEF tasks, D, n
<1>2. \A i \in 1 .. n : v0[i] \in D /\ tasks[v0[i]] = i - 1
  <2> SUFFICES ASSUME NEW i \in 1 .. n PROVE v0[i] \in D /\ tasks[v0[i]] = i - 1
    OBVIOUS
  <2>1. i - 1 \in 0 .. n - 1
    BY <1>1
  <2>2. \E t \in D : tasks[t] = i - 1
    BY <1>1, <2>1
  <2> QED BY <2>2
<1>3. Sorted(v0)
  <2>1. v0 \in [1 .. n -> D]
    BY <1>2
  <2>2. Range(v0) = D
    <3>1. ASSUME NEW t \in D PROVE t \in Range(v0)
      <4> DEFINE i == tasks[t] + 1
      <4>1. i \in 1 .. n /\ i - 1 = tasks[t]
        BY <1>1
      <4>2. tasks[v0[i]] = tasks[t] /\ v0[i] \in D
        BY <1>2, <4>1
      <4> HIDE DEF i, v0
      <4>3. v0[i] = t
        BY <1>1, <4>2
      <4> QED BY <2>1, <4>1, <4>3 DEF Range
    <3>2. Range(v0) \subseteq D
      <4> HIDE DEF v0
      <4> QED BY <2>1 DEF Range
    <3> QED BY <3>1, <3>2
  <2>3. \A i, j \in 1 .. n : i < j => tasks[v0[i]] <= tasks[v0[j]]
    <3> HIDE DEF v0
    <3> QED BY <1>1, <1>2
  <2> HIDE DEF v0
  <2> QED BY <2>1, <2>2, <2>3
<1>4. Sorted(TasksVec)
  <2> DEFINE Sort(v) == Range(v) = D /\ \A i, j \in DOMAIN v : i < j => tasks[v[i]] <= tasks[v[j]]
  <2>1. TasksVec = CHOOSE v \in [1 .. n -> D] : Sort(v)
    BY DEF TasksVec, tasks, D, n
  <2>2. v0 \in [1 .. n -> D] /\ Sort(v0)
    BY <1>3
  <2> HIDE DEF Sort, v0
  <2>3. TasksVec \in [1 .. n -> D] /\ Sort(TasksVec)
    BY <2>1, <2>2
  <2> QED BY <2>3 DEF Sort
<1>5. ASSUME NEW t \in D PROVE \E i \in 1 .. n : TasksVec[i] = t /\ (i = n => tasks[t] = n - 1)
  <2>1. PICK i \in 1 .. n : TasksVec[i] = t
    BY <1>4 DEF Range
  <2>2. ASSUME i = n PROVE tasks[t] = n - 1
    <3>1. n - 1 \in 0 .. n - 1
      BY <1>1, <2>2
    <3>2. PICK u \in D : tasks[u] = n - 1
      BY <1>1, <3>1
    <3>3. PICK j \in 1 .. n : TasksVec[j] = u
      BY <1>4 DEF Range
    <3>4. CASE j = n
      BY <2>1, <2>2, <3>2, <3>3, <3>4
    <3>5. CASE j # n
      <4>1. j < i /\ j \in DOMAIN TasksVec /\ i \in DOMAIN TasksVec
        BY <1>1, <1>4, <2>2, <3>5
      <4>2. tasks[u] <= tasks[t]
        BY <1>4, <2>1, <3>3, <4>1
      <4>3. tasks[t] \in Nat /\ tasks[t] < n
        BY <1>1
      <4> QED BY <1>1, <3>2, <4>2, <4>3
    <3> QED BY <3>4, <3>5
  <2> QED BY <2>1, <2>2
<1> QED BY <1>1, <1>4, <1>5 DEF n, D, tasks

(* A label of the bag is an action of the SHT episode, or the last task. *)
LEMMA ActionsName ==
  ASSUME MetadataInv, NEW l \in DOMAIN bag.labels, bag.labels[l] \in DOMAIN metadata.tasks
  PROVE  \/ \E t \in Range(PrimitiveActions) : metadata.tasks[t] = metadata.tasks[bag.labels[l]]
         \/ metadata.tasks[bag.labels[l]] = Cardinality(DOMAIN metadata.tasks) - 1
<1> DEFINE D == DOMAIN metadata.tasks
           n == Cardinality(D)
           t == bag.labels[l]
<1>1. CASE bag.label # ""
  <2>1. PrimitiveActions = bag.labels
    BY <1>1 DEF PrimitiveActions
  <2> QED BY <2>1 DEF Range
<1>2. CASE ~ (bag.label # "")
  <2>1. /\ n \in Nat /\ TasksVec \in [1 .. n -> D]
        /\ \E i \in 1 .. n : TasksVec[i] = t /\ (i = n => metadata.tasks[t] = n - 1)
    BY TasksVecIs
  <2>2. PICK i \in 1 .. n : TasksVec[i] = t /\ (i = n => metadata.tasks[t] = n - 1)
    BY <2>1
  <2> HIDE DEF D, n
  <2>3. Len(TasksVec) = n /\ TasksVec \in Seq(D)
    BY <2>1
  <2>4. CASE n > 1
    <3>1. PrimitiveActions = SubSeq(TasksVec, 1, n - 1)
      BY <1>2, <2>3, <2>4 DEF PrimitiveActions
    <3>2. CASE i = n
      BY <2>2, <3>2 DEF n, D
    <3>3. CASE i # n
      <4> DEFINE v == SubSeq(TasksVec, 1, n - 1)
      <4>1. i \in 1 .. n - 1
        BY <2>1, <3>3
      <4>2. i \in DOMAIN v /\ v[i] = t
        BY <2>1, <2>2, <2>3, <4>1
      <4> HIDE DEF v
      <4>3. t \in Range(v)
        BY <4>2 DEF Range
      <4> QED BY <3>1, <4>3 DEF v
    <3> QED BY <3>2, <3>3
  <2>5. CASE ~ (n > 1)
    <3>1. PrimitiveActions = TasksVec
      BY <1>2, <2>3, <2>5 DEF PrimitiveActions
    <3>2. t \in Range(TasksVec)
      BY <2>1, <2>2 DEF Range
    <3> QED BY <3>1, <3>2
  <2> QED BY <2>4, <2>5
<1> QED BY <1>1, <1>2

LEMMA FramesType ==
  ASSUME TypeInv
  PROVE  /\ Len(frames) \in Nat /\ DOMAIN frames = 1 .. Len(frames)
         /\ \A k \in 1 .. Len(frames) : frames[k] \in Seq(Frame)
         /\ FlattenSeq(frames) \in Seq(Frame)
         /\ EpisodeFrames \in Seq(Seq(Frame))
         /\ Len(EpisodeFrames) = IF separate_per_primitive THEN Len(frames) ELSE 1
         /\ Len(EpisodeFrames) \in Nat /\ DOMAIN EpisodeFrames = 1 .. Len(EpisodeFrames)
         /\ \A k \in 1 .. Len(EpisodeFrames) : EpisodeFrames[k] \in Seq(Frame)
<1> DEFINE V == Seq(Frame)
<1>1. frames \in Seq(V) /\ separate_per_primitive \in BOOLEAN
  BY DEF TypeInv
<1>2. FlattenSeq(frames) \in V
  BY <1>1, FlatType
<1> HIDE DEF V
<1>3. /\ EpisodeFrames \in Seq(V)
      /\ Len(EpisodeFrames) = IF separate_per_primitive THEN Len(frames) ELSE 1
  <2>1. CASE separate_per_primitive
    BY <1>1, <2>1 DEF EpisodeFrames
  <2>2. CASE ~ separate_per_primitive
    <3>1. EpisodeFrames = <<FlattenSeq(frames)>>
      BY <2>2 DEF EpisodeFrames
    <3> QED BY <1>2, <2>2, <3>1
  <2> QED BY <2>1, <2>2
<1>4. \A s \in Seq(V) :
        Len(s) \in Nat /\ DOMAIN s = 1 .. Len(s) /\ \A k \in 1 .. Len(s) : s[k] \in V
  BY LenProperties, ElementOfSeq
<1> QED BY <1>1, <1>2, <1>3, <1>4 DEF V

(* A data set that has the episodes of a run and says of them what the run has
   in mind agrees with itself.                                                *)
LEMMA Agreement ==
  ASSUME TypeInv, MetadataInv, bag \in Bag, frames # <<>>, Assembled(EpisodeFrames),
         \A l \in DOMAIN bag.labels : bag.labels[l] \in DOMAIN metadata.tasks,
         NEW d,
         d.tasks.content = metadata.tasks, d.info.content = Info,
         d.stats.content = EpisodesStats, d.episodes.content = Episodes,
         \A k \in DOMAIN EpisodeFrames :
           d.data[k - 1].state = "whole" /\ d.data[k - 1].content = EpisodeFrames[k]
  PROVE  FilesAgree(d)
<1> DEFINE eps == EpisodeFrames
           n == Len(eps)
<1>1. /\ n \in Nat /\ eps \in Seq(Seq(Frame)) /\ DOMAIN eps = 1 .. n
      /\ \A k \in 1 .. n : eps[k] \in Seq(Frame)
  BY FramesType
<1> HIDE DEF n
<1>2. Len(Episodes) = n /\ Len(EpisodesStats) = n
  <2> DEFINE e == Episodes  s == EpisodesStats
  <2>1. DOMAIN e = 1 .. n /\ DOMAIN s = 1 .. n
    BY <1>1 DEF Episodes, EpisodesStats, n
  <2>2. e = [k \in 1 .. n |-> e[k]] /\ s = [k \in 1 .. n |-> s[k]]
    BY <2>1 DEF Episodes, EpisodesStats
  <2> HIDE DEF e, s, n
  <2>3. Len(e) = n /\ Len(s) = n
    BY <1>1, <2>2, LenIs
  <2> QED BY <2>3 DEF e, s
<1>3. \A m \in 0 .. n : [j \in 1 .. m |-> d.data[j - 1].content] = [j \in 1 .. m |-> eps[j]]
  <2> SUFFICES ASSUME NEW m \in 0 .. n
               PROVE  [j \in 1 .. m |-> d.data[j - 1].content] = [j \in 1 .. m |-> eps[j]]
    OBVIOUS
  <2>1. \A j \in 1 .. n : d.data[j - 1].content = eps[j]
    BY <1>1
  <2>2. \A j \in 1 .. m : d.data[j - 1].content = eps[j]
    BY <1>1, <2>1
  <2> QED BY <2>2
<1>4. ASSUME NEW k \in 1 .. n
      PROVE  RowsBefore(d, k) = Len(FlattenSeq([j \in 1 .. k - 1 |-> eps[j]]))
  <2>1. k - 1 \in 0 .. n
    BY <1>1
  <2>2. [j \in 1 .. k - 1 |-> d.data[j - 1].content] = [j \in 1 .. k - 1 |-> eps[j]]
    BY <1>3, <2>1
  <2> QED BY <2>2 DEF RowsBefore
<1>5. RowsBefore(d, n + 1) = Len(FlattenSeq(frames))
  <2>1. (n + 1) - 1 = n /\ n \in 0 .. n
    BY <1>1
  <2>2. [j \in 1 .. (n + 1) - 1 |-> d.data[j - 1].content] = [j \in 1 .. n |-> eps[j]]
    BY <1>3, <2>1
  <2>3. [j \in 1 .. n |-> eps[j]] = eps
    BY <1>1
  <2>4. RowsBefore(d, n + 1) = Len(FlattenSeq(eps))
    BY <2>2, <2>3 DEF RowsBefore
  <2>5. CASE separate_per_primitive
    BY <2>4, <2>5 DEF EpisodeFrames
  <2>6. CASE ~ separate_per_primitive
    <3> DEFINE all == FlattenSeq(frames)  V == Seq(Frame)
    <3>1. eps = Append(<<>>, all) /\ all \in V
      BY <2>6, FramesType DEF EpisodeFrames
    <3>2. FlattenSeq(Append(<<>>, all)) = FlattenSeq(<<>>) \o all
      <4>1. <<>> \in Seq(Seq(Frame))
        OBVIOUS
      <4> QED BY <3>1, <4>1, FlatAppend
    <3>3. FlattenSeq(<<>>) = <<>>
      BY FlatNone
    <3>4. <<>> \o all = all
      <4> HIDE DEF all
      <4> QED BY <3>1
    <3> QED BY <2>4, <3>1, <3>2, <3>3, <3>4
  <2> QED BY <2>5, <2>6
<1>6. Numbering(d.tasks.content)
  <2>1. metadata \in Metadata /\ Numbered(metadata)
    BY DEF MetadataInv
  <2>2. \A t \in DOMAIN metadata.tasks : metadata.tasks[t] \in Nat
    BY NumbersType
  <2>3. Cardinality(DOMAIN metadata.tasks) \in Nat
    BY <2>1 DEF Numbered, Metadata
  <2> QED BY <2>1, <2>2, <2>3 DEF Numbered, Numbering
<1>7. ASSUME NEW k \in 1 .. n PROVE EpisodeAgrees(d, k)
  <2> DEFINE e == d.episodes.content[k]  rows == d.data[k - 1].content
  <2>1. d.data[k - 1].state = "whole" /\ rows = eps[k]
    BY <1>1
  <2>2. /\ e.episode_index = k - 1 /\ e.length = Len(rows) /\ e.episode_id = EpisodeId(k)
        /\ e.tasks = IF separate_per_primitive
                     THEN <<bag.labels[bag.segments[Kept(bag)[k]].label_idx]>> ELSE PrimitiveActions
    BY <1>1, <2>1 DEF Episodes
  <2>3. d.stats.content[k] = [episode_index |-> k - 1, episode_id |-> e.episode_id,
                              count |-> Len(rows)]
    BY <1>1, <2>1, <2>2 DEF EpisodesStats
  <2>4. ASSUME NEW i \in DOMAIN rows
        PROVE  /\ rows[i].index = RowsBefore(d, k) + i - 1
               /\ rows[i].frame_index = i - 1 /\ rows[i].episode_index = k - 1
               /\ \/ \E t \in Range(e.tasks) : d.tasks.content[t] = rows[i].task_index
                  \/ /\ Len(e.episode_id) = 1
                     /\ rows[i].task_index = Cardinality(DOMAIN d.tasks.content) - 1
    <3>1. Fits(eps, k, i) /\ eps[k][i] = rows[i]
      BY <1>1, <2>1 DEF Assembled
    <3>2. /\ rows[i].index = RowsBefore(d, k) + i - 1
          /\ rows[i].frame_index = i - 1 /\ rows[i].episode_index = k - 1
      BY <1>4, <3>1 DEF Fits
    <3>3. PICK l \in DOMAIN bag.labels :
            /\ rows[i].task_index = metadata.tasks[bag.labels[l]]
            /\ separate_per_primitive => l = bag.segments[Kept(bag)[k]].label_idx
      BY <3>1 DEF Fits
    <3>4. CASE separate_per_primitive
      <4>1. e.tasks = <<bag.labels[l]>>
        BY <2>2, <3>3, <3>4
      <4>2. bag.labels[l] \in Range(e.tasks)
        BY <4>1 DEF Range
      <4> QED BY <3>2, <3>3, <4>2
    <3>5. CASE ~ separate_per_primitive
      <4>1. e.tasks = PrimitiveActions /\ Len(e.episode_id) = 1
        BY <2>2, <3>5 DEF EpisodeId
      <4>2. \/ \E t \in Range(e.tasks) : metadata.tasks[t] = rows[i].task_index
            \/ rows[i].task_index = Cardinality(DOMAIN metadata.tasks) - 1
        BY <3>3, <4>1, ActionsName
      <4> QED BY <3>2, <4>1, <4>2
    <3> QED BY <3>4, <3>5
  <2> HIDE DEF e, rows
  <2> QED BY SMTT(30), <2>1, <2>2, <2>3, <2>4 DEF EpisodeAgrees, Written, e, rows
<1>8. /\ d.info.content.total_episodes = n
      /\ d.info.content.total_frames = Len(FlattenSeq(frames))
      /\ d.info.content.total_tasks = Cardinality(DOMAIN metadata.tasks)
  BY DEF Info, n
<1> QED BY SMTT(30), <1>2, <1>5, <1>6, <1>7, <1>8 DEF FilesAgree

-----------------------------------------------------------------------------
(* The order of the files *)

LEMMA BehindIs ==
  ASSUME separate_per_primitive \in BOOLEAN, NEW p
  PROVE  /\ p \in MetaFile => p \notin Behind(p)
         /\ p \notin MetaFile => Behind(p) = {}
         /\ Behind(p) \subseteq MetaFile
<1>1. CASE separate_per_primitive
  BY <1>1 DEF Behind, Order, MetaFile
<1>2. CASE ~ separate_per_primitive
  BY <1>2 DEF Behind, Order, MetaFile
<1> QED BY <1>1, <1>2

(* where a run goes from the file it is at *)
Onward ==
  \/ pc = "finalize" /\ pc' = "data" /\ ok' = ok
  \/ pc = "data" /\ pc' \in MetaFile /\ Behind(pc') = {} /\ ok' = ok
  \/ pc \in MetaFile /\ pc' \in MetaFile /\ Behind(pc') = Behind(pc) \cup {pc} /\ ok' = ok
  \/ /\ pc \in MetaFile /\ pc' = "idle" /\ Behind(pc) \cup {pc} = MetaFile
     /\ ok' = [ok EXCEPT ![bag.uuid] = TRUE]

LEMMA AdvanceIs ==
  ASSUME separate_per_primitive \in BOOLEAN, Advance
  PROVE  Onward
<1>1. CASE separate_per_primitive
  <2>1. Order = <<"finalize", "data", "episodes", "stats", "info", "tasks">>
    BY <1>1 DEF Order
  <2>2. PICK i \in 1 .. 6 :
          /\ Order[i] = pc
          /\ IF i < 6 THEN pc' = Order[i + 1] /\ UNCHANGED ok
             ELSE pc' = "idle" /\ ok' = [ok EXCEPT ![bag.uuid] = TRUE]
    BY <2>1 DEF Advance
  <2>3. /\ Behind("episodes") = {} /\ Behind("stats") = {"episodes"}
        /\ Behind("info") = {"episodes", "stats"} /\ Behind("tasks") = {"episodes", "stats", "info"}
    BY <2>1 DEF Behind, MetaFile
  <2>4. i = 1 \/ i = 2 \/ i = 3 \/ i = 4 \/ i = 5 \/ i = 6
    OBVIOUS
  <2> QED BY <2>1, <2>2, <2>3, <2>4 DEF Onward, MetaFile
<1>2. CASE ~ separate_per_primitive
  <2>1. Order = <<"finalize", "data", "info", "tasks", "stats", "episodes">>
    BY <1>2 DEF Order
  <2>2. PICK i \in 1 .. 6 :
          /\ Order[i] = pc
          /\ IF i < 6 THEN pc' = Order[i + 1] /\ UNCHANGED ok
             ELSE pc' = "idle" /\ ok' = [ok EXCEPT ![bag.uuid] = TRUE]
    BY <2>1 DEF Advance
  <2>3. /\ Behind("info") = {} /\ Behind("tasks") = {"info"}
        /\ Behind("stats") = {"info", "tasks"} /\ Behind("episodes") = {"info", "tasks", "stats"}
    BY <2>1 DEF Behind, MetaFile
  <2>4. i = 1 \/ i = 2 \/ i = 3 \/ i = 4 \/ i = 5 \/ i = 6
    OBVIOUS
  <2> QED BY <2>1, <2>2, <2>3, <2>4 DEF Onward, MetaFile
<1> QED BY <1>1, <1>2

-----------------------------------------------------------------------------
(* The steps *)

(* What a run has in mind stays until the next segment. *)
LEMMA SameEpisodes ==
  ASSUME UNCHANGED <<separate_per_primitive, bag, frames, metadata, runs>>
  PROVE  /\ EpisodeFrames' = EpisodeFrames /\ episode' = episode
         /\ (Assembled(EpisodeFrames))' = Assembled(EpisodeFrames)
         /\ \A p : Behind(p)' = Behind(p)
         /\ \A c : Whole(c)' = Whole(c)
<1>1. EpisodeFrames' = EpisodeFrames
  BY DEF EpisodeFrames
<1>2. (Assembled(EpisodeFrames))' = Assembled(EpisodeFrames)
  BY <1>1 DEF Assembled, Fits
<1>3. episode' = episode /\ \A p : Behind(p)' = Behind(p)
  BY DEF episode, Behind, Order
<1> QED BY <1>1, <1>2, <1>3 DEF Whole

LEMMA SameContent ==
  ASSUME UNCHANGED <<separate_per_primitive, bag, frames, metadata, runs, total_videos>>, NEW f
  PROVE  Content(f)' = Content(f)
<1>1. EpisodeFrames' = EpisodeFrames
  BY SameEpisodes
<1>2. Info' = Info
  BY <1>1 DEF Info
<1>3. \A k : EpisodeId(k)' = EpisodeId(k)
  BY DEF EpisodeId
<1>4. EpisodesStats' = EpisodesStats
  BY <1>1, <1>3 DEF EpisodesStats
<1>5. PrimitiveActions' = PrimitiveActions
  BY DEF PrimitiveActions, TasksVec
<1>6. Episodes' = Episodes
  BY <1>1, <1>3, <1>5 DEF Episodes
<1> QED BY <1>2, <1>4, <1>6 DEF Content

(* Data sets that a step leaves alone stay settled, and while a run writes to
   one there is nothing to say of it but that no first run has written all.   *)
LEMMA StillSettled ==
  ASSUME SettledInv, NEW u \in Uuid, ok \in [Uuid -> BOOLEAN],
         \A v \in Uuid \ {u} : writers'[v] = writers[v] /\ ok'[v] = ok[v] /\ disk'[v] = disk[v],
         Settled(writers'[u], ok'[u], disk'[u])
  PROVE  SettledInv'
  BY DEF SettledInv

LEMMA Unsettled ==
  ASSUME NEW w, NEW o, NEW d, w # {}, ~ o,
         Cardinality(w) = 1 => \E f \in MetaFile : ~ Written(d[f])
  PROVE  Settled(w, o, d)
  BY DEF Settled

LEMMA Singles ==
  ASSUME NEW n \in Nat, NEW w \in SUBSET (1 .. n), Cardinality(w \cup {n + 1}) = 1
  PROVE  w = {}
<1>1. IsFiniteSet(1 .. n)
  BY FS_Interval
<1>2. IsFiniteSet(w)
  BY <1>1, FS_Subset
<1>3. n + 1 \notin w
  OBVIOUS
<1>4. Cardinality(w \cup {n + 1}) = Cardinality(w) + 1 /\ Cardinality(w) \in Nat
  BY <1>2, <1>3, FS_AddElement, FS_CardinalityType
<1>5. Cardinality(w) = 0
  BY <1>4
<1> QED BY <1>2, <1>5, FS_EmptySet

LEMMA NoImages == Images(<<>>) = <<>>
<1> DEFINE s == [k \in DOMAIN <<>> |-> Option(<<>>[k].image # None, <<>>[k].image)]
<1>1. s = <<>>
  OBVIOUS
<1>2. Images(<<>>) = FlattenSeq(s)
  BY DEF Images
<1> QED BY <1>1, <1>2, FlatNone

LEMMA RunStep ==
  ASSUME IInv, NEW b \in Bag, Run(b)
  PROVE  IInv'
<1> USE DEF IInv
<1> DEFINE u == b.uuid
<1>0. u \in Uuid
  BY BagType
<1>1. /\ pc = "idle" /\ runs' = runs + 1 /\ disk' = disk
      /\ separate_per_primitive' = separate_per_primitive
      /\ metadata' = RegisterLabels(metadata, Labelled(b))
  BY DEF Run
<1>2. /\ MetadataInv'
      /\ \A l \in DOMAIN b.labels : b.labels[l] \in DOMAIN metadata'.tasks
  <2>1. metadata \in Numberings
    BY DEF MetadataInv, Numberings
  <2>2. Labelled(b) \in Seq(STRING)
    BY LabelledType
  <2>3. /\ metadata' \in Numberings
        /\ \A l \in DOMAIN Labelled(b) : Labelled(b)[l] \in DOMAIN metadata'.tasks
    BY <1>1, <2>1, <2>2, Registered
  <2> QED BY <2>3, LabelledType DEF MetadataInv, Numberings
<1>3. CASE Readable(b)
  <2>1. /\ pc' = "segment" /\ bag' = b /\ frames' = <<>> /\ stream' = <<>>
        /\ writers' = [writers EXCEPT ![u] = @ \cup {runs + 1}]
        /\ ok' = [ok EXCEPT ![u] = FALSE]
    BY <1>1, <1>3 DEF Run
  <2>2. TypeInv'
    <3>1. writers' \in [Uuid -> SUBSET (1 .. runs')]
      BY <1>0, <1>1, <2>1 DEF TypeInv
    <3>2. frames' \in Seq(Seq(Frame))
      BY <2>1
    <3> QED BY <1>0, <1>1, <2>1, <3>1, <3>2 DEF TypeInv
  <2>3. writers'[u] = writers[u] \cup {runs + 1} /\ ~ ok'[u] /\ runs' \in writers'[u]
    BY <1>0, <1>1, <2>1 DEF TypeInv
  <2>4. Cardinality(writers'[u]) = 1 => writers[u] = {}
    BY <1>0, <2>3, Singles DEF TypeInv
  <2>5. ProgressInv'
    <3>1. Len(frames') = 0 /\ Len(Kept(b)) \in Nat /\ Len(Kept(b)) # 0
      <4>1. Kept(b) \in Seq(DOMAIN b.segments) /\ Kept(b) # <<>>
        BY <1>3, KeptType DEF Readable
      <4> QED BY <2>1, <4>1, EmptySeq, LenProperties
    <3> QED BY <1>2, <2>1, <2>3, <3>1 DEF ProgressInv
  <2>6. /\ separate_per_primitive => EpisodeFrames' = <<>>
        /\ ~ separate_per_primitive => EpisodeFrames' = << <<>> >>
    <3>1. FlattenSeq(<<>>) = <<>>
      BY FlatNone
    <3> QED BY <1>1, <2>1, <3>1 DEF EpisodeFrames
  <2>7. separate_per_primitive \in BOOLEAN
    BY DEF TypeInv
  <2>8. RowsInv'
    BY <2>6, <2>7 DEF RowsInv, Assembled
  <2>9. StreamInv'
    <3>1. CASE separate_per_primitive
      BY <1>1, <2>1, <3>1 DEF StreamInv
    <3>2. CASE ~ separate_per_primitive
      <4>1. Last(EpisodeFrames') = <<>>
        BY <2>6, <3>2 DEF Last
      <4> QED BY <1>1, <2>1, <3>2, <4>1, NoImages DEF StreamInv
    <3> QED BY <2>7, <3>1, <3>2
  <2>10. EpisodesInv'
    <3>1. CASE separate_per_primitive
      BY <2>6, <3>1 DEF EpisodesInv
    <3>2. CASE ~ separate_per_primitive
      <4>1. DOMAIN EpisodeFrames' = {1} /\ Len(EpisodeFrames') = 1
        BY <2>6, <3>2
      <4>2. ~ Closed(1)' /\ pc' # "data"
        BY <1>1, <2>1, <3>2, <4>1 DEF Closed, MetaFile
      <4> QED BY <4>1, <4>2 DEF EpisodesInv
    <3> QED BY <2>7, <3>1, <3>2
  <2>11. \A p : Behind(p)' = Behind(p)
    BY <1>1 DEF Behind, Order
  <2>12. MetaInv'
    <3>1. Behind(pc') = {}
      BY <2>1, <2>7, BehindIs DEF MetaFile
    <3> QED BY <2>11, <3>1 DEF MetaInv
  <2>13. Cardinality(writers'[u]) = 1 =>
           /\ \A f \in MetaFile : ~ Written(disk[u][f])
           /\ \A e \in Episode : disk[u].videos[e].state # "torn"
    BY <1>0, <2>4 DEF SettledInv, Settled
  <2>14. FirstInv'
    BY <1>1, <2>1, <2>13 DEF FirstInv
  <2>15. SettledInv'
    <3>1. Settled(writers'[u], ok'[u], disk'[u])
      <4>1. Cardinality(writers'[u]) = 1 => \E f \in MetaFile : ~ Written(disk'[u][f])
        BY <1>1, <2>13 DEF MetaFile
      <4>2. writers'[u] # {} /\ ~ ok'[u]
        BY <2>3
      <4> QED BY <4>1, <4>2, Unsettled
    <3>2. \A v \in Uuid \ {u} : writers'[v] = writers[v] /\ ok'[v] = ok[v] /\ disk'[v] = disk[v]
      BY <1>1, <2>1 DEF TypeInv
    <3> QED BY <1>0, <3>1, <3>2, StillSettled DEF TypeInv
  <2> QED BY <1>2, <2>2, <2>5, <2>8, <2>9, <2>10, <2>12, <2>14, <2>15 DEF RunInv
<1>4. CASE ~ Readable(b)
  <2>1. UNCHANGED <<pc, bag, frames, writers, ok>>
    BY <1>4 DEF Run, run
  <2>2. TypeInv'
    BY <1>1, <2>1 DEF TypeInv
  <2>3. RunInv'
    BY <1>1, <2>1 DEF RunInv, ProgressInv, RowsInv, StreamInv, EpisodesInv, MetaInv, FirstInv
  <2>4. SettledInv'
    BY <1>1, <2>1 DEF SettledInv
  <2> QED BY <1>2, <2>2, <2>3, <2>4
<1> QED BY <1>3, <1>4

(* the segment that is assembled: its rows x, and its label l *)
NextEpisode == IF separate_per_primitive THEN Len(frames) ELSE 0

Assembles(x, l) ==
  /\ x \in Seq(Frame) /\ l \in DOMAIN bag.labels
  /\ l = bag.segments[Kept(bag)[Len(frames) + 1]].label_idx
  /\ \A i \in DOMAIN x :
       /\ x[i].index = Len(FlattenSeq(frames)) + i - 1
       /\ x[i].frame_index = IF separate_per_primitive THEN i - 1
                              ELSE Len(FlattenSeq(frames)) + i - 1
       /\ x[i].episode_index = NextEpisode
       /\ x[i].task_index = metadata.tasks[bag.labels[l]]
  /\ frames' = Append(frames, x)
  /\ stream' = stream \o Images(x)
  /\ disk' = IF Images(x) = <<>> THEN disk
             ELSE [disk EXCEPT ![bag.uuid].videos[NextEpisode] = Torn]

LEMMA SegmentIs ==
  ASSUME IInv, AssembleSegment
  PROVE  \E x, l : Assembles(x, l)
<1> USE DEF IInv
<1> DEFINE n == Len(frames)
           g == bag.segments[Kept(bag)[n + 1]]
           l == g.label_idx
           rows == Cut(bag, g)
           t == metadata.tasks[bag.labels[l]]
           x == Annotated(rows, t, NextEpisode)
<1>1. pc = "segment" /\ bag \in Bag
  BY ZenonT(40) DEF AssembleSegment, TypeInv
<1>2. l \in DOMAIN bag.labels
  BY DEF AssembleSegment
<1>3. bag.labels[l] \in DOMAIN metadata.tasks
  BY <1>1, <1>2 DEF RunInv, ProgressInv
<1>4. t \in Nat
  BY <1>3, NumbersType
<1>5. rows \in Seq(Row)
  BY <1>1, CutType
<1>6. Offset \in Nat /\ Offset = Len(FlattenSeq(frames)) /\ n \in Nat /\ NextEpisode \in Nat
  <2>1. FlattenSeq(frames) \in Seq(Frame) /\ n \in Nat
    BY FramesType
  <2> QED BY SMTT(30), <2>1, LenProperties DEF Offset, NextEpisode
<1> HIDE DEF t, rows, n
<1>7. /\ DOMAIN x = DOMAIN rows
      /\ \A i \in DOMAIN rows :
           x[i] = [image |-> rows[i].image, task_index |-> t, done |-> i = Len(rows),
                   index |-> Offset + i - 1, episode_index |-> NextEpisode,
                   frame_index |-> IF separate_per_primitive THEN i - 1 ELSE Offset + i - 1]
  BY DEF Annotated
<1>8. x \in Seq(Frame)
  <2> DEFINE m == Len(rows)
  <2>1. m \in Nat /\ DOMAIN rows = 1 .. m /\ \A i \in 1 .. m : rows[i] \in Row
    BY <1>5, ElementOfSeq
  <2>2. \A i \in 1 .. m : rows[i].image \in Nat \cup {None}
    BY <2>1 DEF Row, Image
  <2>3. \A i \in 1 .. m : x[i] \in Frame
    <3> SUFFICES ASSUME NEW i \in 1 .. m PROVE x[i] \in Frame
      BY SMTT(30)
    <3>1. x[i] = [image |-> rows[i].image, task_index |-> t, done |-> i = Len(rows),
                  index |-> Offset + i - 1, episode_index |-> NextEpisode,
                  frame_index |-> IF separate_per_primitive THEN i - 1 ELSE Offset + i - 1]
      BY <1>7, <2>1
    <3>2. /\ (i = Len(rows)) \in BOOLEAN
          /\ Offset + i - 1 \in Int /\ i - 1 \in Int /\ NextEpisode \in Int
      BY <1>6, <2>1
    <3> HIDE DEF x
    <3> QED BY <1>4, <2>2, <3>1, <3>2 DEF Frame
  <2>4. x = [i \in 1 .. m |-> x[i]]
    <3>1. DOMAIN x = 1 .. m
      BY <1>7, <2>1
    <3> QED BY <3>1 DEF Annotated
  <2>5. x \in [1 .. m -> Frame]
    <3> HIDE DEF x
    <3> QED BY <2>3, <2>4
  <2> HIDE DEF x, m
  <2> QED BY <2>1, <2>5, SeqDef
<1>9. Images(x) = Images(rows)
  BY SMTT(30), ImagesSame
<1>10. /\ frames' = Append(frames, x)
       /\ stream' = stream \o Images(rows)
       /\ disk' = IF Images(rows) = <<>> THEN disk
                  ELSE [disk EXCEPT ![bag.uuid].videos[NextEpisode] = Torn]
  BY DEF AssembleSegment, rows, t, NextEpisode, n
<1>11. \A i \in DOMAIN x :
         /\ x[i].index = Len(FlattenSeq(frames)) + i - 1
         /\ x[i].frame_index = IF separate_per_primitive THEN i - 1
                              ELSE Len(FlattenSeq(frames)) + i - 1
         /\ x[i].episode_index = NextEpisode
         /\ x[i].task_index = t
  <2> HIDE DEF x
  <2> QED BY SMTT(30), <1>6, <1>7
<1>12. Assembles(x, l)
  <2> HIDE DEF x
  <2> QED BY <1>2, <1>8, <1>9, <1>10, <1>11 DEF Assembles, t, n
<1> QED BY SMTT(30), <1>12

(* The images go to a video of the run. *)
LEMMA EpisodeIn ==
  ASSUME bag \in Bag, NEW n \in 1 .. Len(Kept(bag))
  PROVE  bag.uuid \in Uuid /\ n - 1 \in Episode /\ 0 \in Episode
<1>1. Len(Kept(bag)) \in Nat /\ Len(Kept(bag)) <= Len(bag.segments) /\ Len(bag.segments) \in Nat
  BY KeptType, BagType
<1>2. n - 1 \in 0 .. Len(bag.segments) - 1 /\ 0 \in 0 .. Len(bag.segments) - 1
  BY <1>1
<1> QED BY <1>2, BagType

LEMMA StreamType ==
  ASSUME IInv, pc # "idle"
  PROVE  stream \in Seq(Image)
<1> USE DEF IInv
<1>1. \A k \in DOMAIN EpisodeFrames : Images(EpisodeFrames[k]) \in Seq(Image)
  BY FramesType, ShotsType
<1>2. CASE pc = "finalize" \/ (pc = "segment" /\ ~ separate_per_primitive)
  <2>1. Len(EpisodeFrames) \in DOMAIN EpisodeFrames
    <3>1. Len(frames) \in Nat /\ (separate_per_primitive => frames # <<>>)
      BY <1>2, FramesType DEF RunInv, ProgressInv, TypeInv
    <3>2. frames # <<>> => Len(frames) # 0
      BY EmptySeq DEF TypeInv
    <3>3. Len(EpisodeFrames) \in Nat /\ Len(EpisodeFrames) # 0
      <4>1. CASE separate_per_primitive
        <5>1. Len(EpisodeFrames) = Len(frames)
          BY <4>1, FramesType
        <5> QED BY SMTT(30), <3>1, <3>2, <4>1, <5>1
      <4>2. CASE ~ separate_per_primitive
        <5>1. Len(EpisodeFrames) = 1
          BY SMTT(30), <4>2, FramesType
        <5> QED BY <5>1
      <4> QED BY <4>1, <4>2
    <3> DEFINE m == Len(EpisodeFrames)
    <3>4. DOMAIN EpisodeFrames = 1 .. m
      BY FramesType
    <3> HIDE DEF m
    <3> QED BY <3>3, <3>4 DEF m
  <2>2. stream = Images(EpisodeFrames[Len(EpisodeFrames)])
    BY <1>2 DEF RunInv, StreamInv, Last
  <2> QED BY <1>1, <2>1, <2>2
<1>3. CASE ~ (pc = "finalize" \/ (pc = "segment" /\ ~ separate_per_primitive))
  <2>1. stream = <<>>
    BY <1>3 DEF RunInv, StreamInv
  <2> QED BY <2>1
<1> QED BY SMTT(30), <1>2, <1>3

LEMMA SegmentStep ==
  ASSUME IInv, AssembleSegment
  PROVE  IInv'
<1> USE DEF IInv
<1> DEFINE n == Len(frames)
           u == bag.uuid
<1>1. PICK x, l : Assembles(x, l)
  BY SMTT(30), SegmentIs
<1>2. /\ pc = "segment" /\ bag \in Bag
      /\ UNCHANGED <<separate_per_primitive, metadata, bag, total_videos, runs, writers, ok>>
  BY DEF AssembleSegment, TypeInv
<1>3. /\ n \in Nat /\ n + 1 \in 1 .. Len(Kept(bag)) /\ Len(Kept(bag)) \in Nat
      /\ u \in Uuid /\ n \in Episode /\ 0 \in Episode /\ NextEpisode \in Episode
      /\ separate_per_primitive \in BOOLEAN /\ NextEpisode \in Nat
  <2>1. n \in Nat /\ Len(Kept(bag)) \in Nat
    BY <1>2, FramesType, KeptType
  <2>2. n < Len(Kept(bag))
    BY <1>2 DEF RunInv, ProgressInv
  <2>3. n + 1 \in 1 .. Len(Kept(bag)) /\ (n + 1) - 1 = n
    BY SMTT(30), <2>1, <2>2
  <2> HIDE DEF n
  <2> QED BY SMTT(30), <1>2, <2>1, <2>3, EpisodeIn DEF NextEpisode, TypeInv, n
<1>4. x \in Seq(Frame) /\ Images(x) \in Seq(Image)
  BY <1>1, ShotsType DEF Assembles
<1>5. /\ frames' = Append(frames, x) /\ frames' \in Seq(Seq(Frame)) /\ Len(frames') = n + 1
      /\ frames' # <<>>
  <2> DEFINE V == Seq(Frame)
  <2>1. frames' = Append(frames, x) /\ x \in V /\ frames \in Seq(V)
    BY <1>1, <1>4 DEF Assembles, TypeInv
  <2> HIDE DEF V
  <2>2. frames' \in Seq(V) /\ Len(frames') = n + 1 /\ frames' # <<>>
    BY SMTT(30), <2>1, AppendProperties
  <2> QED BY SMTT(30), <2>1, <2>2 DEF V
<1>6. pc' = IF separate_per_primitive \/ n + 1 = Len(Kept(bag)) THEN "finalize" ELSE "segment"
  BY <1>5 DEF AssembleSegment, Order
<1>7. /\ \A v \in Uuid \ {u} : disk'[v] = disk[v]
      /\ \A f \in MetaFile : disk'[u][f] = disk[u][f]
      /\ disk'[u].data = disk[u].data
      /\ \A e \in Episode \ {NextEpisode} : disk'[u].videos[e] = disk[u].videos[e]
      /\ Images(x) = <<>> => disk' = disk
      /\ DOMAIN disk' = Uuid
      /\ \A v \in Uuid : /\ DOMAIN disk'[v] = {"data", "videos"} \cup MetaFile
                         /\ DOMAIN disk'[v].data = Episode
                         /\ DOMAIN disk'[v].videos = Episode
  <2>1. /\ DOMAIN disk = Uuid
        /\ \A v \in Uuid : /\ DOMAIN disk[v] = {"data", "videos"} \cup MetaFile
                           /\ DOMAIN disk[v].data = Episode
                           /\ DOMAIN disk[v].videos = Episode
    BY DEF TypeInv
  <2>2. CASE Images(x) = <<>>
    <3>1. disk' = disk
      BY <1>1, <2>2 DEF Assembles
    <3> QED BY SMTT(30), <2>1, <3>1
  <2>3. CASE Images(x) # <<>>
    <3>1. disk' = [disk EXCEPT ![u].videos[NextEpisode] = Torn]
      BY <1>1, <2>3 DEF Assembles
    <3> HIDE DEF u
    <3> QED BY SMTT(30), <1>3, <2>1, <2>3, <3>1 DEF MetaFile
  <2> QED BY <2>2, <2>3
<1>8. TypeInv'
  BY <1>2, <1>3, <1>5, <1>6, <1>7 DEF TypeInv
<1>9. ProgressInv'
  BY <1>2, <1>3, <1>5, <1>6 DEF RunInv, ProgressInv
<1>10. /\ separate_per_primitive => EpisodeFrames' = Append(frames, x)
       /\ ~ separate_per_primitive => EpisodeFrames' = <<FlattenSeq(frames) \o x>>
  <2>1. FlattenSeq(Append(frames, x)) = FlattenSeq(frames) \o x
    BY <1>4, FlatAppend DEF TypeInv
  <2> QED BY <1>2, <1>5, <2>1 DEF EpisodeFrames
<1>11. /\ \A k \in 1 .. n : Append(frames, x)[k] = frames[k]
       /\ Append(frames, x)[n + 1] = x
       /\ Len(Append(frames, x)) = n + 1 /\ DOMAIN Append(frames, x) = 1 .. n + 1
  BY <1>4, <1>5 DEF TypeInv
<1>12. RowsInv'
  <2>0. Assembled(EpisodeFrames)
    BY <1>2 DEF RunInv, RowsInv
  <2>1. CASE separate_per_primitive
    <3>1. EpisodeFrames = frames /\ EpisodeFrames' = Append(frames, x)
      BY <1>10, <2>1 DEF EpisodeFrames
    <3> DEFINE eps == Append(frames, x)
    <3>2. ASSUME NEW k \in 1 .. n + 1, NEW i \in DOMAIN eps[k] PROVE Fits(eps, k, i)
      <4>1. CASE k \in 1 .. n
        <5>1. eps[k] = frames[k] /\ k \in DOMAIN frames /\ i \in DOMAIN frames[k]
          BY <1>11, <3>2, <4>1, FramesType
        <5>2. Fits(frames, k, i)
          BY <2>0, <3>1, <5>1 DEF Assembled
        <5>3. [j \in 1 .. k - 1 |-> eps[j]] = [j \in 1 .. k - 1 |-> frames[j]]
          <6>1. \A j \in 1 .. k - 1 : eps[j] = frames[j]
            BY SMTT(30), <1>3, <1>11, <4>1
          <6> HIDE DEF eps
          <6> QED BY <6>1
        <5> HIDE DEF eps
        <5> QED BY SMTT(30), <5>1, <5>2, <5>3 DEF Fits
      <4>2. CASE k \notin 1 .. n
        <5>1. k = n + 1 /\ eps[k] = x /\ k - 1 = n
          BY <1>3, <1>11, <4>2
        <5>2. [j \in 1 .. k - 1 |-> eps[j]] = frames
          <6>1. \A j \in 1 .. n : eps[j] = frames[j]
            BY <1>11
          <6>2. frames = [j \in 1 .. n |-> frames[j]]
            BY SMTT(30), FramesType DEF TypeInv
          <6> HIDE DEF eps, n
          <6> QED BY <5>1, <6>1, <6>2
        <5>3. /\ x[i].index = Len(FlattenSeq(frames)) + i - 1
              /\ x[i].frame_index = i - 1
              /\ x[i].episode_index = n
              /\ x[i].task_index = metadata.tasks[bag.labels[l]]
              /\ l \in DOMAIN bag.labels
              /\ l = bag.segments[Kept(bag)[n + 1]].label_idx
          BY <1>1, <2>1, <3>2, <5>1 DEF Assembles, NextEpisode
        <5> HIDE DEF eps, n
        <5> QED BY <5>1, <5>2, <5>3 DEF Fits
      <4> QED BY <4>1, <4>2
    <3>3. Assembled(eps)
      <4>1. DOMAIN eps = 1 .. n + 1
        BY <1>11
      <4> HIDE DEF eps, n
      <4> QED BY <3>2, <4>1 DEF Assembled
    <3>4. \A e, k, i : Fits(e, k, i)' = Fits(e, k, i)
      BY <1>2 DEF Fits
    <3> HIDE DEF eps
    <3> QED BY <3>1, <3>3, <3>4 DEF RowsInv, Assembled, eps
  <2>2. CASE ~ separate_per_primitive
    <3> DEFINE all == FlattenSeq(frames)  m == Len(all)  both == all \o x  eps == <<both>>
    <3>1. EpisodeFrames = <<all>> /\ EpisodeFrames' = eps
      BY <1>10, <2>2 DEF EpisodeFrames
    <3>2. all \in Seq(Frame) /\ m \in Nat
      BY FramesType, LenProperties
    <3>3. ASSUME NEW i \in DOMAIN both PROVE Fits(eps, 1, i)
      <4>0. /\ [j \in 1 .. 1 - 1 |-> eps[j]] = <<>> /\ [j \in 1 .. 1 - 1 |-> <<all>>[j]] = <<>>
            /\ FlattenSeq(<<>>) = <<>> /\ Len(<<>>) = 0
        BY FlatNone
      <4>1. CASE i \in DOMAIN all
        <5>1. both[i] = all[i]
          BY <1>4, <3>2, <4>1
        <5>2. Fits(<<all>>, 1, i)
          BY <2>0, <3>1, <4>1 DEF Assembled
        <5> HIDE DEF all, both
        <5> QED BY <4>0, <5>1, <5>2 DEF Fits
      <4>2. CASE i \notin DOMAIN all
        <5>1. i - m \in DOMAIN x /\ both[i] = x[i - m] /\ i \in Nat
          BY SMTT(30), <1>4, <3>2, <3>3, <4>2
        <5>2. /\ both[i].index = m + (i - m) - 1
              /\ both[i].frame_index = m + (i - m) - 1
              /\ both[i].episode_index = 0
              /\ both[i].task_index = metadata.tasks[bag.labels[l]]
              /\ l \in DOMAIN bag.labels
          BY <1>1, <2>2, <5>1 DEF Assembles, NextEpisode
        <5>3. m + (i - m) - 1 = i - 1 /\ 0 + i - 1 = i - 1
          BY <3>2, <5>1
        <5> HIDE DEF both, all, m
        <5> QED BY <2>2, <4>0, <5>2, <5>3 DEF Fits
      <4> QED BY <4>1, <4>2
    <3>4. Assembled(eps)
      <4>1. DOMAIN eps = {1} /\ eps[1] = both
        OBVIOUS
      <4> HIDE DEF eps, both
      <4> QED BY <3>3, <4>1 DEF Assembled
    <3>5. \A e, k, i : Fits(e, k, i)' = Fits(e, k, i)
      BY <1>2 DEF Fits
    <3> HIDE DEF eps
    <3> QED BY <3>1, <3>4, <3>5 DEF RowsInv, Assembled, eps
  <2> QED BY <1>3, <2>1, <2>2
<1>13. StreamInv'
  <2>1. CASE separate_per_primitive
    <3>1. stream = <<>>
      BY SMTT(30), <1>2, <2>1 DEF RunInv, StreamInv
    <3>2. stream' = Images(x)
      BY <1>1, <1>4, <3>1 DEF Assembles
    <3>3. Last(EpisodeFrames') = x
      BY <1>10, <1>11, <2>1 DEF Last
    <3> QED BY <1>6, <2>1, <3>2, <3>3 DEF StreamInv
  <2>2. CASE ~ separate_per_primitive
    <3> DEFINE all == FlattenSeq(frames)
    <3>1. EpisodeFrames = <<all>> /\ EpisodeFrames' = <<all \o x>>
      BY <1>10, <2>2 DEF EpisodeFrames
    <3>2. Last(EpisodeFrames) = all /\ Last(EpisodeFrames') = all \o x
      BY <3>1 DEF Last
    <3>3. stream = Images(all)
      BY SMTT(30), <1>2, <2>2, <3>2 DEF RunInv, StreamInv
    <3>4. stream' = Images(all) \o Images(x)
      BY SMTT(30), <1>1, <3>3 DEF Assembles
    <3>5. stream' = Images(all \o x)
      BY <1>4, <3>4, FramesType, ImagesConcat
    <3> HIDE DEF all
    <3> QED BY <1>2, <1>6, <2>2, <3>2, <3>5 DEF StreamInv
  <2> QED BY <1>3, <2>1, <2>2
<1>14. EpisodesInv'
  <2>1. CASE separate_per_primitive
    <3>1. EpisodeFrames = frames /\ EpisodeFrames' = Append(frames, x) /\ pc' = "finalize"
      BY <1>6, <1>10, <2>1 DEF EpisodeFrames
    <3>2. ASSUME NEW k \in 1 .. n
          PROVE  /\ disk'[u].data[k - 1] = Whole(frames[k])
                 /\ Images(frames[k]) # <<>> => disk'[u].videos[k - 1] = Whole(Images(frames[k]))
      <4>1. Closed(k) /\ k \in DOMAIN EpisodeFrames
        BY <1>2, <2>1, <3>1, FramesType DEF Closed
      <4>2. /\ disk[u].data[k - 1] = Whole(frames[k])
            /\ Images(frames[k]) # <<>> => disk[u].videos[k - 1] = Whole(Images(frames[k]))
        BY <1>2, <3>1, <4>1 DEF RunInv, EpisodesInv
      <4>3. k - 1 \in Episode \ {NextEpisode}
        <5>1. k \in 1 .. Len(Kept(bag)) /\ k - 1 # n
          BY <1>3
        <5> QED BY <1>2, <2>1, <5>1, EpisodeIn DEF NextEpisode
      <4> QED BY <1>7, <4>2, <4>3
    <3>3. \A k \in DOMAIN EpisodeFrames' : Closed(k)' => k \in 1 .. n
      <4>1. \A k \in 1 .. n + 1 : Closed(k)' => k < n + 1
        BY <1>11, <3>1 DEF Closed, MetaFile
      <4> QED BY <1>3, <1>11, <3>1, <4>1
    <3>4. \A k \in 1 .. n : EpisodeFrames'[k] = frames[k]
      BY <1>11, <3>1
    <3>5. \A c : Whole(c)' = Whole(c)
      BY <1>2 DEF Whole
    <3>6. pc' # "data"
      BY <3>1
    <3> HIDE DEF n
    <3> QED BY <1>2, <3>2, <3>3, <3>4, <3>5, <3>6 DEF EpisodesInv
  <2>2. CASE ~ separate_per_primitive
    <3>1. DOMAIN EpisodeFrames' = {1} /\ Len(EpisodeFrames') = 1
      BY <1>10, <2>2
    <3>2. ~ Closed(1)' /\ pc' # "data"
      BY <1>2, <1>6, <2>2, <3>1 DEF Closed, MetaFile
    <3> QED BY <3>1, <3>2 DEF EpisodesInv
  <2> QED BY <1>3, <2>1, <2>2
<1>15. Behind(pc) = {} /\ Behind(pc') = {} /\ \A p : Behind(p)' = Behind(p)
  <2>1. Behind(pc) = {} /\ Behind(pc') = {}
    BY <1>2, <1>3, <1>6, BehindIs DEF MetaFile
  <2>2. Order' = Order
    BY <1>2 DEF Order
  <2> QED BY <2>1, <2>2 DEF Behind
<1>16. MetaInv'
  BY <1>15 DEF MetaInv
<1>17. FirstInv'
  <2> SUFFICES ASSUME Cardinality(writers[u]) = 1
               PROVE  /\ \A f \in MetaFile : ~ Written(disk'[u][f])
                      /\ \A e \in Episode : disk'[u].videos[e].state = "torn" =>
                            e = episode' /\ stream' # <<>>
    BY <1>2 DEF FirstInv
  <2>1. /\ \A f \in MetaFile : ~ Written(disk[u][f])
        /\ \A e \in Episode : disk[u].videos[e].state = "torn" => e = episode /\ stream # <<>>
    BY <1>2, <1>15 DEF RunInv, FirstInv
  <2>2. episode' = NextEpisode
    BY <1>2, <1>3, <1>5 DEF episode, NextEpisode
  <2>3. \A e \in Episode : disk[u].videos[e].state = "torn" => e = NextEpisode /\ stream # <<>>
    <3>1. separate_per_primitive => stream = <<>>
      BY <1>2 DEF RunInv, StreamInv
    <3>2. ~ separate_per_primitive => episode = NextEpisode
      BY SMTT(30) DEF episode, NextEpisode
    <3> QED BY <1>3, <2>1, <3>1, <3>2
  <2>4. stream \in Seq(Image) /\ stream' = stream \o Images(x)
    BY <1>1, <1>2, StreamType DEF Assembles
  <2>5. (stream # <<>> \/ Images(x) # <<>>) => stream' # <<>>
    BY <1>4, <2>4
  <2>6. ASSUME NEW e \in Episode, disk'[u].videos[e].state = "torn"
        PROVE  e = episode' /\ stream' # <<>>
    <3>1. CASE e # NextEpisode
      BY <1>7, <2>3, <2>6, <3>1
    <3>2. CASE e = NextEpisode /\ Images(x) = <<>>
      BY <1>7, <2>2, <2>3, <2>5, <2>6, <3>2
    <3>3. CASE e = NextEpisode /\ Images(x) # <<>>
      BY <2>2, <2>5, <3>3
    <3> QED BY <3>1, <3>2, <3>3
  <2> QED BY <1>7, <2>1, <2>6
<1>18. SettledInv'
  <2>1. writers'[u] # {} /\ ~ ok'[u]
    BY <1>2 DEF RunInv, ProgressInv
  <2>2. Cardinality(writers'[u]) = 1 => \E f \in MetaFile : ~ Written(disk'[u][f])
    <3>1. Cardinality(writers'[u]) = 1 => \A f \in MetaFile : ~ Written(disk'[u][f])
      BY <1>2, <1>6, <1>15, <1>17 DEF FirstInv
    <3> QED BY <3>1 DEF MetaFile
  <2>3. Settled(writers'[u], ok'[u], disk'[u])
    BY <2>1, <2>2, Unsettled
  <2> QED BY <1>2, <1>3, <1>7, <2>3, StillSettled DEF TypeInv
<1>19. MetadataInv'
  BY <1>2 DEF MetadataInv
<1> QED BY <1>8, <1>9, <1>12, <1>13, <1>14, <1>16, <1>17, <1>18, <1>19 DEF RunInv

(* The episode that is written is the last so far. *)
LEMMA EpisodeIs ==
  ASSUME IInv, pc \notin {"idle", "segment"}
  PROVE  /\ Len(EpisodeFrames) \in Nat \ {0} /\ DOMAIN EpisodeFrames = 1 .. Len(EpisodeFrames)
         /\ episode = Len(EpisodeFrames) - 1
         /\ Last(EpisodeFrames) = EpisodeFrames[Len(EpisodeFrames)]
         /\ bag \in Bag /\ bag.uuid \in Uuid
         /\ \A k \in DOMAIN EpisodeFrames : k - 1 \in Episode
<1> USE DEF IInv
<1>1. /\ frames # <<>> /\ Len(frames) \in Nat /\ bag \in Bag /\ separate_per_primitive \in BOOLEAN
      /\ Len(frames) <= Len(Kept(bag))
  BY FramesType DEF RunInv, ProgressInv, TypeInv
<1>2. Len(frames) # 0
  BY <1>1, EmptySeq DEF TypeInv
<1>3. Len(Kept(bag)) \in Nat
  BY <1>1, KeptType
<1>4. CASE separate_per_primitive
  <2> DEFINE n == Len(frames)
  <2>1. Len(EpisodeFrames) = n /\ DOMAIN EpisodeFrames = 1 .. n /\ episode = n - 1
    BY <1>4, FramesType DEF episode
  <2>2. \A k \in 1 .. n : k \in 1 .. Len(Kept(bag))
    BY <1>1, <1>3
  <2>3. \A k \in 1 .. n : k - 1 \in Episode
    BY <1>1, <2>2, EpisodeIn
  <2> HIDE DEF n
  <2> QED BY SMTT(30), <1>1, <1>2, <2>1, <2>3, BagType DEF Last, n
<1>5. CASE ~ separate_per_primitive
  <2>1. Len(EpisodeFrames) = 1 /\ DOMAIN EpisodeFrames = 1 .. 1 /\ episode = 0
    BY <1>5, FramesType DEF episode
  <2>2. 1 \in 1 .. Len(Kept(bag))
    BY <1>1, <1>2, <1>3
  <2>3. 1 - 1 \in Episode
    BY <1>1, <2>2, EpisodeIn
  <2>4. \A k \in 1 .. 1 : k - 1 \in Episode
    BY <2>3
  <2> QED BY <1>1, <2>1, <2>4, BagType DEF Last
<1> QED BY <1>1, <1>4, <1>5

LEMMA DiskType ==
  ASSUME TypeInv
  PROVE  /\ DOMAIN disk = Uuid
         /\ \A v \in Uuid : /\ DOMAIN disk[v] = {"data", "videos"} \cup MetaFile
                            /\ DOMAIN disk[v].data = Episode
                            /\ DOMAIN disk[v].videos = Episode
  BY DEF TypeInv

(* the file f of the data set u has become x, and nothing else *)
Becomes(u, f, x) ==
  /\ \A v \in Uuid \ {u} : disk'[v] = disk[v]
  /\ \A g \in MetaFile \ {f} : disk'[u][g] = disk[u][g]
  /\ f \in MetaFile => disk'[u][f] = x
  /\ \A e \in Episode :
       /\ disk'[u].data[e] = IF f = "data" /\ e = episode THEN x ELSE disk[u].data[e]
       /\ disk'[u].videos[e] = IF f = "videos" /\ e = episode THEN x ELSE disk[u].videos[e]
  /\ DOMAIN disk' = Uuid
  /\ \A v \in Uuid : /\ DOMAIN disk'[v] = {"data", "videos"} \cup MetaFile
                     /\ DOMAIN disk'[v].data = Episode
                     /\ DOMAIN disk'[v].videos = Episode

LEMMA MetaBecomes ==
  ASSUME TypeInv, NEW u \in Uuid, NEW f \in MetaFile, NEW x,
         disk' = [disk EXCEPT ![u][f] = x]
  PROVE  Becomes(u, f, x)
  BY DiskType DEF Becomes, MetaFile

LEMMA EpisodeBecomes ==
  ASSUME TypeInv, NEW u \in Uuid, NEW f \in {"data", "videos"}, NEW x, episode \in Episode,
         disk' = [disk EXCEPT ![u][f][episode] = x]
  PROVE  Becomes(u, f, x)
<1>1. CASE f = "data"
  BY <1>1, DiskType DEF Becomes, MetaFile
<1>2. CASE f = "videos"
  BY <1>2, DiskType DEF Becomes, MetaFile
<1> QED BY <1>1, <1>2

LEMMA FinalizeStep ==
  ASSUME IInv, Finalize
  PROVE  IInv'
<1> USE DEF IInv
<1> DEFINE u == bag.uuid
           eps == EpisodeFrames
           n == Len(eps)
<1>1. /\ pc = "finalize" /\ stream' = <<>>
      /\ UNCHANGED <<separate_per_primitive, metadata, bag, frames, runs, writers>>
  BY DEF Finalize
<1>2. pc' = "data" /\ ok' = ok
  <2>1. Onward
    BY AdvanceIs DEF Finalize, TypeInv
  <2> QED BY <1>1, <2>1 DEF Onward, MetaFile
<1>3. /\ n \in Nat \ {0} /\ DOMAIN eps = 1 .. n /\ episode = n - 1
      /\ Last(eps) = eps[n] /\ bag \in Bag /\ u \in Uuid
      /\ \A k \in 1 .. n : k - 1 \in Episode
  BY <1>1, EpisodeIs
<1>4. episode \in Episode
  BY <1>3
<1>5. stream = Images(eps[n])
  BY <1>1, <1>3 DEF RunInv, StreamInv
<1>6. /\ \A v \in Uuid \ {u} : disk'[v] = disk[v]
      /\ \A f \in MetaFile : disk'[u][f] = disk[u][f]
      /\ \A e \in Episode : disk'[u].data[e] = disk[u].data[e]
      /\ \A e \in Episode \ {episode} : disk'[u].videos[e] = disk[u].videos[e]
      /\ stream # <<>> => disk'[u].videos[episode] = Whole(stream)
      /\ stream = <<>> => disk' = disk
      /\ DOMAIN disk' = Uuid
      /\ \A v \in Uuid : /\ DOMAIN disk'[v] = {"data", "videos"} \cup MetaFile
                         /\ DOMAIN disk'[v].data = Episode
                         /\ DOMAIN disk'[v].videos = Episode
  <2>1. CASE stream = <<>>
    <3>1. disk' = disk
      BY <2>1 DEF Finalize
    <3> QED BY <2>1, <3>1, DiskType
  <2>2. CASE stream # <<>>
    <3>1. disk' = [disk EXCEPT ![u]["videos"][episode] = Whole(stream)]
      BY <2>2 DEF Finalize, PutEpisode
    <3>2. Becomes(u, "videos", Whole(stream))
      BY <1>3, <1>4, <3>1, EpisodeBecomes
    <3>3. "videos" \notin MetaFile /\ "videos" # "data"
      BY DEF MetaFile
    <3> HIDE DEF u
    <3> QED BY <1>4, <2>2, <3>2, <3>3 DEF Becomes
  <2> QED BY <2>1, <2>2
<1> HIDE DEF u, n, eps
<1>7. /\ eps' = eps /\ episode' = episode /\ u' = u /\ n' = n
      /\ (Assembled(EpisodeFrames))' = Assembled(EpisodeFrames)
      /\ \A p : Behind(p)' = Behind(p)
      /\ \A c : Whole(c)' = Whole(c)
  BY <1>1, SameEpisodes DEF u, n, eps
<1>8. TypeInv'
  BY <1>1, <1>2, <1>3, <1>6 DEF TypeInv
<1>9. ProgressInv'
  BY <1>1, <1>2 DEF RunInv, ProgressInv
<1>10. RowsInv'
  BY <1>1, <1>7 DEF RunInv, RowsInv
<1>11. StreamInv'
  BY <1>1, <1>2 DEF StreamInv
<1>12. EpisodesInv'
  <2> SUFFICES ASSUME NEW k \in 1 .. n
               PROVE  /\ k < n => disk'[u].data[k - 1] = Whole(eps[k])
                      /\ Images(eps[k]) # <<>> => disk'[u].videos[k - 1] = Whole(Images(eps[k]))
    BY <1>2, <1>3, <1>7 DEF EpisodesInv, Closed, MetaFile, u, n, eps
  <2>1. CASE k < n
    <3>1. k - 1 # episode /\ k - 1 \in Episode
      BY <1>3, <2>1
    <3>2. /\ disk[u].data[k - 1] = Whole(eps[k])
          /\ Images(eps[k]) # <<>> => disk[u].videos[k - 1] = Whole(Images(eps[k]))
      BY <1>1, <1>3, <2>1 DEF RunInv, EpisodesInv, Closed, u, n, eps
    <3> QED BY <1>6, <3>1, <3>2
  <2>2. CASE ~ (k < n)
    <3>1. k = n
      BY <1>3, <2>2
    <3> QED BY <1>3, <1>5, <1>6, <2>2, <3>1
  <2> QED BY <2>1, <2>2
<1>13. Behind(pc) = {} /\ Behind(pc') = {}
  BY <1>1, <1>2, BehindIs DEF TypeInv, MetaFile
<1>14. MetaInv'
  BY <1>7, <1>13 DEF MetaInv
<1>15. FirstInv'
  <2> SUFFICES ASSUME Cardinality(writers[u]) = 1
               PROVE  /\ \A f \in MetaFile : ~ Written(disk'[u][f])
                      /\ \A e \in Episode : disk'[u].videos[e].state # "torn"
    BY <1>1, <1>7 DEF FirstInv, u
  <2>1. /\ \A f \in MetaFile : ~ Written(disk[u][f])
        /\ \A e \in Episode : disk[u].videos[e].state = "torn" => e = episode /\ stream # <<>>
    BY <1>1, <1>13 DEF RunInv, FirstInv, u
  <2>2. Whole(stream).state # "torn"
    BY DEF Whole
  <2> QED BY <1>6, <2>1, <2>2
<1>16. SettledInv'
  <2>1. writers'[u] # {} /\ ~ ok'[u]
    BY <1>1, <1>2 DEF RunInv, ProgressInv, u
  <2>2. Cardinality(writers'[u]) = 1 => \E f \in MetaFile : ~ Written(disk'[u][f])
    <3>1. Cardinality(writers'[u]) = 1 => \A f \in MetaFile : ~ Written(disk'[u][f])
      BY <1>2, <1>7, <1>13, <1>15 DEF FirstInv, u
    <3> QED BY <3>1 DEF MetaFile
  <2>3. Settled(writers'[u], ok'[u], disk'[u])
    BY <2>1, <2>2, Unsettled
  <2> QED BY <1>1, <1>2, <1>3, <1>6, <2>3, StillSettled DEF TypeInv
<1>17. MetadataInv'
  BY <1>1 DEF MetadataInv
<1> QED BY <1>8, <1>9, <1>10, <1>11, <1>12, <1>14, <1>15, <1>16, <1>17 DEF RunInv

LEMMA ParquetStep ==
  ASSUME IInv, WriteParquet
  PROVE  IInv'
<1> USE DEF IInv
<1> DEFINE u == bag.uuid
           eps == EpisodeFrames
           n == Len(eps)
<1>1. /\ pc = "data"
      /\ UNCHANGED <<separate_per_primitive, metadata, bag, frames, stream, runs, writers>>
  BY DEF WriteParquet, run
<1>2. ok' = ok /\ pc' \in {"segment"} \cup MetaFile /\ Behind(pc) = {} /\ Behind(pc') = {}
      /\ (pc' = "segment" => Len(frames) < Len(Kept(bag)))
  <2>1. separate_per_primitive \in BOOLEAN /\ Behind("segment") = {} /\ Behind("data") = {}
    BY BehindIs DEF TypeInv, MetaFile
  <2>2. CASE Len(frames) < Len(Kept(bag))
    BY <1>1, <2>1, <2>2 DEF WriteParquet
  <2>3. CASE ~ (Len(frames) < Len(Kept(bag)))
    <3>1. Onward
      BY <2>1, <2>3, AdvanceIs DEF WriteParquet
    <3> QED BY <1>1, <2>1, <3>1 DEF Onward, MetaFile
  <2> QED BY <2>2, <2>3
<1>3. /\ n \in Nat \ {0} /\ DOMAIN eps = 1 .. n /\ episode = n - 1
      /\ Last(eps) = eps[n] /\ bag \in Bag /\ u \in Uuid
      /\ \A k \in 1 .. n : k - 1 \in Episode
  BY <1>1, EpisodeIs
<1>4. episode \in Episode
  BY <1>3
<1>5. stream = <<>>
  BY <1>1 DEF RunInv, StreamInv
<1>6. /\ \A v \in Uuid \ {u} : disk'[v] = disk[v]
      /\ \A f \in MetaFile : disk'[u][f] = disk[u][f]
      /\ \A e \in Episode : disk'[u].videos[e] = disk[u].videos[e]
      /\ \A e \in Episode \ {episode} : disk'[u].data[e] = disk[u].data[e]
      /\ disk'[u].data[episode] = Whole(eps[n])
      /\ DOMAIN disk' = Uuid
      /\ \A v \in Uuid : /\ DOMAIN disk'[v] = {"data", "videos"} \cup MetaFile
                         /\ DOMAIN disk'[v].data = Episode
                         /\ DOMAIN disk'[v].videos = Episode
  <2>1. disk' = [disk EXCEPT ![u]["data"][episode] = Whole(eps[n])]
    BY <1>3 DEF WriteParquet, PutEpisode
  <2>2. Becomes(u, "data", Whole(eps[n]))
    BY <1>3, <1>4, <2>1, EpisodeBecomes
  <2>3. "data" \notin MetaFile /\ "videos" # "data"
    BY DEF MetaFile
  <2> HIDE DEF u, eps, n
  <2> QED BY <1>4, <2>2, <2>3 DEF Becomes
<1> HIDE DEF u, n, eps
<1>7. /\ eps' = eps /\ episode' = episode /\ u' = u /\ n' = n
      /\ (Assembled(EpisodeFrames))' = Assembled(EpisodeFrames)
      /\ \A p : Behind(p)' = Behind(p)
      /\ \A c : Whole(c)' = Whole(c)
  BY <1>1, SameEpisodes DEF u, n, eps
<1>8. TypeInv'
  BY <1>1, <1>2, <1>3, <1>6 DEF TypeInv
<1>9. ProgressInv'
  BY <1>1, <1>2 DEF RunInv, ProgressInv, MetaFile
<1>10. RowsInv'
  BY <1>1, <1>7 DEF RunInv, RowsInv
<1>11. StreamInv'
  <2>1. pc' = "segment" => separate_per_primitive
    BY <1>1, <1>2 DEF RunInv, ProgressInv
  <2> QED BY <1>1, <1>2, <1>5, <2>1 DEF StreamInv, MetaFile
<1>12. EpisodesInv'
  <2>1. ASSUME NEW k \in 1 .. n
        PROVE  /\ disk'[u].data[k - 1] = Whole(eps[k])
               /\ Images(eps[k]) # <<>> => disk'[u].videos[k - 1] = Whole(Images(eps[k]))
    <3>1. k - 1 \in Episode
      BY <1>3
    <3>2. Images(eps[k]) # <<>> => disk[u].videos[k - 1] = Whole(Images(eps[k]))
      BY <1>1, <1>3 DEF RunInv, EpisodesInv, u, n, eps
    <3>3. CASE k < n
      <4>1. k - 1 # episode
        BY <1>3, <3>3
      <4>2. disk[u].data[k - 1] = Whole(eps[k])
        BY <1>1, <1>3, <3>3 DEF RunInv, EpisodesInv, Closed, u, n, eps
      <4> QED BY <1>6, <3>1, <3>2, <4>1, <4>2
    <3>4. CASE ~ (k < n)
      <4>1. k = n
        BY <1>3, <3>4
      <4> QED BY <1>3, <1>6, <3>1, <3>2, <4>1
    <3> QED BY <3>3, <3>4
  <2> QED BY <1>3, <1>7, <2>1 DEF EpisodesInv, u, n, eps
<1>13. MetaInv'
  BY <1>2, <1>7 DEF MetaInv
<1>14. FirstInv'
  <2> SUFFICES ASSUME Cardinality(writers[u]) = 1
               PROVE  /\ \A f \in MetaFile : ~ Written(disk'[u][f])
                      /\ \A e \in Episode : disk'[u].videos[e].state # "torn"
    BY <1>1, <1>7 DEF FirstInv, u
  <2>1. /\ \A f \in MetaFile : ~ Written(disk[u][f])
        /\ \A e \in Episode : disk[u].videos[e].state = "torn" => e = episode /\ stream # <<>>
    BY <1>1, <1>2 DEF RunInv, FirstInv, u
  <2> QED BY <1>5, <1>6, <2>1
<1>15. SettledInv'
  <2>1. writers'[u] # {} /\ ~ ok'[u]
    BY <1>1, <1>2 DEF RunInv, ProgressInv, u
  <2>2. Cardinality(writers'[u]) = 1 => \E f \in MetaFile : ~ Written(disk'[u][f])
    <3>1. pc' # "idle"
      BY <1>2 DEF MetaFile
    <3>2. Cardinality(writers'[u]) = 1 => \A f \in MetaFile : ~ Written(disk'[u][f])
      BY <1>2, <1>7, <1>14, <3>1 DEF FirstInv, u
    <3> QED BY <3>2 DEF MetaFile
  <2>3. Settled(writers'[u], ok'[u], disk'[u])
    BY <2>1, <2>2, Unsettled
  <2> QED BY <1>1, <1>2, <1>3, <1>6, <2>3, StillSettled DEF TypeInv
<1>16. MetadataInv'
  BY <1>1 DEF MetadataInv
<1> QED BY <1>8, <1>9, <1>10, <1>11, <1>12, <1>13, <1>14, <1>15, <1>16 DEF RunInv

(* any of the four metadata files *)
WritesMeta ==
  /\ pc \in MetaFile
  /\ Put(pc, Content(pc))
  /\ Advance
  /\ UNCHANGED <<separate_per_primitive, metadata, bag, frames, stream, total_videos>>
  /\ UNCHANGED <<runs, writers>>

LEMMA MetaStep ==
  ASSUME IInv, WritesMeta
  PROVE  IInv'
<1> USE DEF IInv
<1> DEFINE u == bag.uuid
           eps == EpisodeFrames
           n == Len(eps)
<1>1. /\ pc \in MetaFile /\ pc # "idle" /\ pc # "segment" /\ pc # "data" /\ pc # "finalize"
      /\ UNCHANGED <<separate_per_primitive, metadata, bag, frames, stream, total_videos>>
      /\ UNCHANGED <<runs, writers>>
  BY DEF WritesMeta, MetaFile
<1>2. Onward
  BY AdvanceIs DEF WritesMeta, TypeInv
<1>3. /\ n \in Nat \ {0} /\ DOMAIN eps = 1 .. n /\ bag \in Bag /\ u \in Uuid
      /\ \A k \in 1 .. n : k - 1 \in Episode
  BY <1>1, EpisodeIs
<1>4. stream = <<>>
  BY <1>1 DEF RunInv, StreamInv
<1>5. /\ \A v \in Uuid \ {u} : disk'[v] = disk[v]
      /\ \A f \in MetaFile \ {pc} : disk'[u][f] = disk[u][f]
      /\ disk'[u][pc] = Whole(Content(pc))
      /\ \A e \in Episode : /\ disk'[u].videos[e] = disk[u].videos[e]
                            /\ disk'[u].data[e] = disk[u].data[e]
      /\ DOMAIN disk' = Uuid
      /\ \A v \in Uuid : /\ DOMAIN disk'[v] = {"data", "videos"} \cup MetaFile
                         /\ DOMAIN disk'[v].data = Episode
                         /\ DOMAIN disk'[v].videos = Episode
  <2>1. disk' = [disk EXCEPT ![u][pc] = Whole(Content(pc))]
    BY DEF WritesMeta, Put
  <2>2. Becomes(u, pc, Whole(Content(pc)))
    BY <1>1, <1>3, <2>1, MetaBecomes
  <2>3. pc # "data" /\ pc # "videos"
    BY <1>1 DEF MetaFile
  <2> HIDE DEF u, eps, n
  <2> QED BY <1>1, <2>2, <2>3 DEF Becomes
<1> HIDE DEF u, n, eps
<1>6. /\ eps' = eps /\ u' = u /\ n' = n
      /\ (Assembled(EpisodeFrames))' = Assembled(EpisodeFrames)
      /\ \A p : Behind(p)' = Behind(p)
      /\ \A c : Whole(c)' = Whole(c)
      /\ \A f : Content(f)' = Content(f)
  BY <1>1, SameEpisodes, SameContent DEF u, n, eps
<1>7. \A f \in Behind(pc) \cup {pc} : disk'[u][f] = Whole(Content(f))
  <2>1. \A f \in Behind(pc) : f \in MetaFile \ {pc} /\ disk[u][f] = Whole(Content(f))
    BY <1>1, BehindIs DEF RunInv, MetaInv, TypeInv, u
  <2> QED BY <1>5, <2>1
<1>8. ASSUME NEW k \in 1 .. n
      PROVE  /\ disk'[u].data[k - 1] = Whole(eps[k])
             /\ Images(eps[k]) # <<>> => disk'[u].videos[k - 1] = Whole(Images(eps[k]))
  <2>1. /\ disk[u].data[k - 1] = Whole(eps[k])
        /\ Images(eps[k]) # <<>> => disk[u].videos[k - 1] = Whole(Images(eps[k]))
    BY <1>1, <1>3 DEF RunInv, EpisodesInv, Closed, u, n, eps
  <2> QED BY <1>3, <1>5, <2>1
<1>9. Cardinality(writers[u]) = 1 =>
        /\ \A f \in MetaFile \ (Behind(pc) \cup {pc}) : ~ Written(disk'[u][f])
        /\ \A e \in Episode : disk'[u].videos[e].state # "torn"
  <2>1. Cardinality(writers[u]) = 1 =>
          /\ \A f \in MetaFile \ Behind(pc) : ~ Written(disk[u][f])
          /\ \A e \in Episode : disk[u].videos[e].state = "torn" => e = episode /\ stream # <<>>
    BY <1>1 DEF RunInv, FirstInv, u
  <2> QED BY <1>4, <1>5, <2>1
<1>10. writers'[u] # {} /\ ~ ok[u] /\ writers' = writers
  BY <1>1 DEF RunInv, ProgressInv, u
<1>11. MetadataInv'
  BY <1>1 DEF MetadataInv
<1>12. CASE pc' # "idle"
  <2>1. ok' = ok /\ pc' \in MetaFile /\ Behind(pc') = Behind(pc) \cup {pc}
    BY <1>1, <1>2, <1>12 DEF Onward
  <2>2. TypeInv'
    BY <1>1, <1>3, <1>5, <2>1 DEF TypeInv
  <2>3. ProgressInv'
    BY <1>1, <2>1 DEF RunInv, ProgressInv, MetaFile
  <2>4. RowsInv'
    BY <1>1, <1>6 DEF RunInv, RowsInv
  <2>5. StreamInv'
    BY <1>1, <1>4, <2>1 DEF StreamInv, MetaFile
  <2>6. EpisodesInv'
    BY <1>3, <1>6, <1>8 DEF EpisodesInv, u, n, eps
  <2>7. MetaInv'
    BY <1>6, <1>7, <2>1 DEF MetaInv, u
  <2>8. FirstInv'
    BY <1>6, <1>9, <1>10, <2>1 DEF FirstInv, u
  <2>9. SettledInv'
    <3>1. Cardinality(writers'[u]) = 1 => \E f \in MetaFile : ~ Written(disk'[u][f])
      <4>1. pc' \in MetaFile \ Behind(pc')
        BY <2>1, BehindIs DEF TypeInv
      <4> QED BY <1>9, <1>10, <2>1, <4>1
    <3>2. Settled(writers'[u], ok'[u], disk'[u])
      BY <1>10, <2>1, <3>1, Unsettled
    <3> QED BY <1>3, <1>5, <1>10, <2>1, <3>2, StillSettled DEF TypeInv
  <2> QED BY <1>11, <2>2, <2>3, <2>4, <2>5, <2>6, <2>7, <2>8, <2>9 DEF RunInv
<1>13. CASE pc' = "idle"
  <2>1. Behind(pc) \cup {pc} = MetaFile /\ ok' = [ok EXCEPT ![u] = TRUE]
    BY <1>1, <1>2, <1>13 DEF Onward, MetaFile, u
  <2>2. TypeInv'
    BY <1>1, <1>3, <1>5, <1>13, <2>1 DEF TypeInv
  <2>3. RunInv'
    BY <1>13 DEF RunInv, ProgressInv, RowsInv, StreamInv, EpisodesInv, MetaInv, FirstInv
  <2> DEFINE d == disk'[u]
  <2>4. /\ d["info"] = Whole(Info) /\ d["tasks"] = Whole(metadata.tasks)
        /\ d["stats"] = Whole(EpisodesStats) /\ d["episodes"] = Whole(Episodes)
    BY <1>7, <2>1 DEF MetaFile, Content
  <2>5. /\ d.info.content = Info /\ d.tasks.content = metadata.tasks
        /\ d.stats.content = EpisodesStats /\ d.episodes.content = Episodes
    BY <2>4 DEF Whole
  <2>6. \A f \in MetaFile : Written(d[f])
    <3>1. \A f \in MetaFile : d[f] = Whole(Content(f))
      BY <1>7, <2>1
    <3>2. \A c : Whole(c).state = "whole"
      BY DEF Whole
    <3> HIDE DEF d
    <3> QED BY <3>1, <3>2 DEF Written
  <2>7. \A k \in 1 .. n : d.data[k - 1].state = "whole" /\ d.data[k - 1].content = eps[k]
    <3>1. \A c : Whole(c).state = "whole" /\ Whole(c).content = c
      BY DEF Whole
    <3> QED BY <1>8, <3>1
  <2>8. FilesAgree(d)
    <3>1. /\ frames # <<>> /\ Assembled(EpisodeFrames)
          /\ \A l \in DOMAIN bag.labels : bag.labels[l] \in DOMAIN metadata.tasks
      BY <1>1 DEF RunInv, RowsInv, ProgressInv
    <3> HIDE DEF d
    <3> QED BY <1>3, <2>5, <2>7, <3>1, Agreement DEF eps, n
  <2>9. ASSUME NEW e \in Episode, e < d.info.content.total_episodes,
               Images(d.data[e].content) # <<>>
        PROVE  d.videos[e] = [state |-> "whole", run |-> d.data[e].run,
                              content |-> Images(d.data[e].content)]
    <3>1. e \in Nat /\ e < n
      <4>1. d.info.content.total_episodes = n
        BY <2>5 DEF Info, eps, n
      <4>2. e \in Nat
        <5>1. PICK b \in Bag : e \in 0 .. Len(b.segments) - 1
          BY DEF Episode
        <5>2. Len(b.segments) \in Nat
          BY BagType
        <5> QED BY <5>1, <5>2
      <4> QED BY <2>9, <4>1, <4>2
    <3>2. e + 1 \in 1 .. n /\ (e + 1) - 1 = e
      BY <1>3, <3>1
    <3>3. /\ d.data[e] = Whole(eps[e + 1])
          /\ Images(eps[e + 1]) # <<>> => d.videos[e] = Whole(Images(eps[e + 1]))
      BY <1>8, <3>2
    <3>4. d.data[e].content = eps[e + 1] /\ d.data[e].run = runs
      BY <3>3 DEF Whole
    <3>5. d.videos[e] = Whole(Images(eps[e + 1]))
      BY <2>9, <3>3, <3>4
    <3> QED BY <3>4, <3>5 DEF Whole
  <2>10. Settled(writers'[u], ok'[u], disk'[u])
    <3>1. Cardinality(writers'[u]) = 1 => \A e \in Episode : d.videos[e].state # "torn"
      BY <1>9, <1>10
    <3> HIDE DEF d
    <3>2. Settled(writers'[u], ok'[u], d)
      BY <1>10, <2>6, <2>8, <2>9, <3>1 DEF Settled
    <3> QED BY <3>2 DEF d
  <2>11. SettledInv'
    <3>1. \A v \in Uuid \ {u} : writers'[v] = writers[v] /\ ok'[v] = ok[v] /\ disk'[v] = disk[v]
      BY <1>5, <1>10, <2>1 DEF TypeInv
    <3> QED BY <1>3, <2>10, <3>1, StillSettled DEF TypeInv
  <2> QED BY <1>11, <2>2, <2>3, <2>11
<1> QED BY <1>12, <1>13

(* A run ends where it is, or there is none; the file it was at may be torn. *)
LEMMA Stops ==
  ASSUME IInv, LeavesTorn, pc' = "idle", UNCHANGED <<frames, runs, writers, ok>>,
         separate_per_primitive' \in BOOLEAN, MetadataInv'
  PROVE  IInv'
<1> USE DEF IInv
<1>1. RunInv'
  BY DEF RunInv, ProgressInv, RowsInv, StreamInv, EpisodesInv, MetaInv, FirstInv
<1>2. CASE disk' = disk
  <2>1. TypeInv'
    BY <1>2 DEF TypeInv
  <2>2. SettledInv'
    <3>1. CASE pc = "idle"
      BY <1>2 DEF SettledInv
    <3>2. CASE pc # "idle"
      BY <1>2 DEF SettledInv
    <3> QED BY <3>1, <3>2
  <2> QED BY <1>1, <2>1, <2>2
<1>3. CASE disk' # disk
  <2> DEFINE u == bag.uuid
  <2>1. pc \in MetaFile \/ pc = "data"
    BY <1>3 DEF LeavesTorn
  <2>2. /\ pc \notin {"idle", "segment"} /\ pc # "idle"
        /\ bag \in Bag /\ u \in Uuid /\ episode \in Episode
    <3>1. pc \notin {"idle", "segment"}
      BY <2>1 DEF MetaFile
    <3>2. /\ Len(EpisodeFrames) \in Nat \ {0} /\ DOMAIN EpisodeFrames = 1 .. Len(EpisodeFrames)
          /\ episode = Len(EpisodeFrames) - 1 /\ bag \in Bag /\ u \in Uuid
          /\ \A k \in DOMAIN EpisodeFrames : k - 1 \in Episode
      BY <3>1, EpisodeIs
    <3>3. episode \in Episode
      <4> DEFINE m == Len(EpisodeFrames)
      <4>1. m \in Nat \ {0} /\ DOMAIN EpisodeFrames = 1 .. m /\ episode = m - 1
            /\ \A k \in DOMAIN EpisodeFrames : k - 1 \in Episode
        BY <3>2
      <4> HIDE DEF m
      <4>2. m \in 1 .. m
        BY <4>1
      <4> QED BY <4>1, <4>2
    <3>4. pc # "idle"
      BY <3>1
    <3>5. bag \in Bag /\ u \in Uuid
      BY <3>2
    <3> QED BY <3>1, <3>3, <3>4, <3>5
  <2>3. Becomes(u, pc, Torn)
    <3>1. CASE pc \in MetaFile
      <4>1. disk' = [disk EXCEPT ![u][pc] = Torn]
        BY <1>3, <3>1 DEF LeavesTorn, MetaFile
      <4> QED BY <2>2, <3>1, <4>1, MetaBecomes
    <3>2. CASE pc = "data"
      <4>1. disk' = [disk EXCEPT ![u]["data"][episode] = Torn]
        BY <1>3, <3>2 DEF LeavesTorn, MetaFile
      <4> QED BY <2>2, <3>2, <4>1, EpisodeBecomes
    <3> QED BY <2>1, <3>1, <3>2
  <2> HIDE DEF u
  <2>4. TypeInv'
    BY <2>2, <2>3 DEF TypeInv, Becomes
  <2>5. writers'[u] # {} /\ ~ ok'[u]
    BY <2>2 DEF RunInv, ProgressInv, u
  <2>6. Cardinality(writers'[u]) = 1 => \E f \in MetaFile : ~ Written(disk'[u][f])
    <3>1. CASE pc \in MetaFile
      <4>1. disk'[u][pc] = Torn
        BY <2>3, <3>1 DEF Becomes
      <4>2. ~ Written(Torn)
        BY DEF Written, Torn
      <4> QED BY <3>1, <4>1, <4>2
    <3>2. CASE pc = "data"
      <4>1. "info" \in MetaFile /\ "info" # "data" /\ Behind(pc) = {}
        BY <3>2, BehindIs DEF MetaFile, TypeInv
      <4>2. Cardinality(writers[u]) = 1 => ~ Written(disk[u]["info"])
        BY <2>2, <4>1 DEF RunInv, FirstInv, u
      <4>3. disk'[u]["info"] = disk[u]["info"]
        BY <2>3, <3>2, <4>1 DEF Becomes
      <4> QED BY <4>1, <4>2, <4>3
    <3> QED BY <2>1, <3>1, <3>2
  <2>7. Settled(writers'[u], ok'[u], disk'[u])
    BY <2>5, <2>6, Unsettled
  <2>8. SettledInv'
    BY <2>2, <2>3, <2>7, StillSettled DEF TypeInv, Becomes
  <2> QED BY <1>1, <2>4, <2>8
<1> QED BY <1>2, <1>3

LEMMA InitInv == Init => IInv
<1> SUFFICES ASSUME Init PROVE IInv
  OBVIOUS
<1>1. TypeInv
  <2>1. frames \in Seq(Seq(Frame)) /\ writers \in [Uuid -> SUBSET (1 .. runs)]
    BY DEF Init
  <2>2. DOMAIN disk = Uuid
    BY DEF Init
  <2>3. \A u \in Uuid : /\ DOMAIN disk[u] = {"data", "videos"} \cup MetaFile
                        /\ DOMAIN disk[u].data = Episode
                        /\ DOMAIN disk[u].videos = Episode
    BY DEF Init, MetaFile
  <2> QED BY <2>1, <2>2, <2>3 DEF Init, TypeInv
<1>2. MetadataInv
  BY FreshNumbered DEF Init, MetadataInv
<1>3. RunInv
  BY DEF Init, RunInv, ProgressInv, RowsInv, StreamInv, EpisodesInv, MetaInv, FirstInv
<1>4. SettledInv
  <2> SUFFICES ASSUME NEW u \in Uuid PROVE Settled(writers[u], ok[u], disk[u])
    BY DEF SettledInv
  <2>1. /\ writers[u] = {} /\ ~ ok[u]
        /\ \A f \in MetaFile : disk[u][f] = Absent
        /\ \A e \in Episode : disk[u].videos[e] = Absent
    BY DEF Init, MetaFile
  <2>2. ~ Written(Absent) /\ Absent.state # "torn"
    BY DEF Written, Absent
  <2>3. "info" \in MetaFile
    BY DEF MetaFile
  <2> QED BY <2>1, <2>2, <2>3 DEF Settled
<1> QED BY <1>1, <1>2, <1>3, <1>4 DEF IInv

LEMMA NextInv == IInv /\ [Next]_vars => IInv'
<1> SUFFICES ASSUME IInv, [Next]_vars PROVE IInv'
  OBVIOUS
<1>1. ASSUME NEW b \in Bag, Run(b) PROVE IInv'
  BY <1>1, RunStep
<1>2. CASE AssembleSegment
  BY <1>2, SegmentStep
<1>3. CASE Finalize
  BY <1>3, FinalizeStep
<1>4. CASE WriteParquet
  BY <1>4, ParquetStep
<1>5. CASE WriteInfo
  <2>1. metadata' = metadata
    <3>1. metadata \in Metadata /\ metadata.total_tasks = Cardinality(DOMAIN metadata.tasks)
      BY DEF IInv, MetadataInv, Numbered
    <3> QED BY <1>5, <3>1 DEF WriteInfo, Metadata
  <2>2. WritesMeta
    BY <1>5, <2>1 DEF WriteInfo, WritesMeta, Content, MetaFile, unchanged, run
  <2> QED BY <2>2, MetaStep
<1>6. CASE WriteTasks
  <2>1. WritesMeta
    BY <1>6 DEF WriteTasks, WritesMeta, Content, MetaFile, unchanged, run
  <2> QED BY <2>1, MetaStep
<1>7. CASE WriteEpisodeStats
  <2>1. WritesMeta
    BY <1>7 DEF WriteEpisodeStats, WritesMeta, Content, MetaFile, unchanged, run
  <2> QED BY <2>1, MetaStep
<1>8. CASE WriteEpisodes
  <2>1. WritesMeta
    BY <1>8 DEF WriteEpisodes, WritesMeta, Content, MetaFile, unchanged, run
  <2> QED BY <2>1, MetaStep
<1>9. CASE Fails
  <2>1. MetadataInv'
    BY <1>9 DEF Fails, IInv, MetadataInv
  <2>2. separate_per_primitive' \in BOOLEAN
    BY <1>9 DEF Fails, IInv, TypeInv
  <2> QED BY <1>9, <2>1, <2>2, Stops DEF Fails, run
<1>10. CASE Restart
  <2>1. MetadataInv'
    BY <1>10, FreshNumbered DEF Restart, MetadataInv
  <2> QED BY <1>10, <2>1, Stops DEF Restart, run
<1>11. CASE UNCHANGED vars
  <2>1. UNCHANGED <<separate_per_primitive, bag, frames, metadata, runs, total_videos,
                    pc, stream, disk, writers, ok>>
    BY <1>11 DEF vars, run
  <2>2. /\ EpisodeFrames' = EpisodeFrames /\ episode' = episode
        /\ (Assembled(EpisodeFrames))' = Assembled(EpisodeFrames)
        /\ \A p : Behind(p)' = Behind(p)
        /\ \A c : Whole(c)' = Whole(c)
        /\ \A f : Content(f)' = Content(f)
    BY <2>1, SameEpisodes, SameContent
  <2>3. TypeInv' /\ MetadataInv' /\ SettledInv'
    BY <2>1 DEF IInv, TypeInv, MetadataInv, SettledInv
  <2>4. RunInv'
    <3>1. ProgressInv' /\ RowsInv' /\ StreamInv'
      BY <2>1, <2>2 DEF IInv, RunInv, ProgressInv, RowsInv, StreamInv
    <3>2. EpisodesInv'
      BY <2>1, <2>2 DEF IInv, RunInv, EpisodesInv, Closed
    <3>3. MetaInv' /\ FirstInv'
      BY <2>1, <2>2 DEF IInv, RunInv, MetaInv, FirstInv
    <3> QED BY <3>1, <3>2, <3>3 DEF RunInv
  <2> QED BY <2>3, <2>4 DEF IInv
<1> QED BY <1>1, <1>2, <1>3, <1>4, <1>5, <1>6, <1>7, <1>8, <1>9, <1>10, <1>11 DEF Next

LEMMA Invariant == Spec => []IInv
<1> QED BY InitInv, NextInv, PTL DEF Spec

-----------------------------------------------------------------------------
(* The theorems *)

(* When the stage returns Ok the data set is consistent: of whichever bags, in
   whichever order, and whatever was left below the uuid before.             *)
THEOREM OkConsistent == Spec => []OkIsConsistent
<1>1. IInv => OkIsConsistent
  BY DEF IInv, SettledInv, Settled, OkIsConsistent
<1> QED BY Invariant, <1>1, PTL

(* Of a directory that one run has filled, cut off or not, the four metadata
   files are only there when all that they speak of is.                       *)
THEOREM MetadataLast == Spec => []MetadataComesLast
<1>1. IInv => MetadataComesLast
  BY DEF IInv, SettledInv, Settled, MetadataComesLast
<1> QED BY Invariant, <1>1, PTL

(* Every episode's video has the images of the rows of its data file, of the
   same run and in their order.                                               *)
THEOREM VideosFollow == Spec => []VideoFollowsRows
<1>1. IInv => VideoFollowsRows
  BY DEF IInv, SettledInv, Settled, VideoFollowsRows
<1> QED BY Invariant, <1>1, PTL
====
