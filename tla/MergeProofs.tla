---------------------------- MODULE MergeProofs ----------------------------
(***************************************************************************)
(* Theorems about Merge, for every shelf of datasets, every number of      *)
(* sources and of runs.                                                    *)
(*                                                                         *)
(* The invariant says what a merge has written when it is at a certain     *)
(* file, in terms of what it computed from its sources; the lemmas before  *)
(* it say what that is: the recorded episodes in their order, a frame      *)
(* offset that runs on from one to the next, and a task list without       *)
(* repetition that has them all.                                           *)
(***************************************************************************)
EXTENDS Merge, SequenceTheorems, WellFoundedInduction, TLAPS

-----------------------------------------------------------------------------
(* Induction and recursion over data *)

(* Induction over the natural numbers, for a set instead of a predicate: the
   library's own induction theorems take an operator, which no prover can
   instantiate.  From the well-foundedness of <.                             *)
LEMMA SetInduction ==
  ASSUME NEW S, S \subseteq Nat, 0 \in S, \A n \in S : n + 1 \in S
  PROVE  S = Nat
<1> SUFFICES ASSUME Nat \ S # {} PROVE FALSE
  OBVIOUS
<1> DEFINE R == OpToRel(<, Nat)  T == Nat \ S
<1>1. IsWellFoundedOn(R, Nat)
  BY NatLessThanWellFounded
<1>2. \E x \in T : \A y \in T : ~ (<<y, x>> \in R)
  <2> HIDE DEF R
  <2> QED BY <1>1, WFMin
<1>3. \A y, x \in Nat : <<y, x>> \in R <=> y < x
  BY DEF OpToRel
<1>4. PICK x \in T : \A y \in T : ~ (y < x)
  BY <1>2, <1>3
<1>5. x # 0 /\ x - 1 \in Nat /\ x - 1 \in S
  BY <1>4
<1> QED BY <1>5, <1>4

(* Induction up to a bound. *)
LEMMA UpTo ==
  ASSUME NEW n \in Nat, NEW S, 0 \in S, \A i \in 0 .. n - 1 : i \in S => i + 1 \in S
  PROVE  \A i \in 0 .. n : i \in S
<1> DEFINE U == {i \in Nat : i <= n => i \in S}
<1>1. U \subseteq Nat /\ 0 \in U
  OBVIOUS
<1>2. \A i \in U : i + 1 \in U
  OBVIOUS
<1>3. U = Nat
  <2> HIDE DEF U
  <2> QED BY <1>1, <1>2, SetInduction
<1> QED BY <1>3

(* g is computed from c by n steps of D. *)
Computes(g, n, V, c, D) ==
  /\ g \in [0 .. n -> V]
  /\ g[0] = c
  /\ \A i \in 1 .. n : g[i] = D[<<g[i - 1], i>>]

(* What is defined by recursion exists: values from V, step by step. *)
LEMMA Recursion ==
  ASSUME NEW n \in Nat, NEW V, NEW c \in V, NEW D \in [V \X (1 .. n) -> V]
  PROVE  \E g : Computes(g, n, V, c, D)
<1> DEFINE Up(m, g) ==
             g \in [0 .. m -> V] /\ g[0] = c /\ \A i \in 1 .. m : g[i] = D[<<g[i - 1], i>>]
           S == {m \in 0 .. n : \E g : Up(m, g)}
<1>1. 0 \in S
  <2>1. Up(0, [i \in 0 .. 0 |-> c])
    OBVIOUS
  <2> HIDE DEF Up
  <2> QED BY <2>1
<1>2. ASSUME NEW m \in 0 .. n - 1, m \in S PROVE m + 1 \in S
  <2>1. PICK g : Up(m, g)
    BY <1>2
  <2> DEFINE h == [i \in 0 .. m + 1 |-> IF i = m + 1 THEN D[<<g[m], m + 1>>] ELSE g[i]]
  <2>2. D[<<g[m], m + 1>>] \in V
    BY <2>1
  <2>3. h \in [0 .. m + 1 -> V] /\ h[0] = c
    BY <2>1, <2>2
  <2>4. ASSUME NEW i \in 1 .. m + 1 PROVE h[i] = D[<<h[i - 1], i>>]
    <3>1. CASE i = m + 1
      <4>1. h[i - 1] = g[m]
        BY <3>1
      <4>2. h[i] = D[<<g[m], m + 1>>]
        BY <3>1
      <4> HIDE DEF h
      <4> QED BY <4>1, <4>2, <3>1
    <3>2. CASE i # m + 1
      <4>1. i \in 1 .. m /\ h[i - 1] = g[i - 1]
        BY <3>2
      <4>2. h[i] = g[i]
        BY <3>2
      <4> HIDE DEF h
      <4> QED BY <4>1, <4>2, <2>1
    <3> QED BY <3>1, <3>2
  <2>5. Up(m + 1, h)
    BY <2>3, <2>4
  <2> HIDE DEF Up, h
  <2> QED BY <2>5
<1>3. n \in S
  <2> HIDE DEF S
  <2> QED BY <1>1, <1>2, UpTo
<1> QED BY <1>3 DEF Computes

(* The same from 1. *)
LEMMA From1 ==
  ASSUME NEW n \in Nat \ {0}, NEW S, 1 \in S, \A i \in 1 .. n - 1 : i \in S => i + 1 \in S
  PROVE  \A i \in 1 .. n : i \in S
<1> DEFINE U == {k \in Nat : k + 1 \in S}
<1>1. 0 \in U /\ n - 1 \in Nat
  OBVIOUS
<1>2. \A k \in 0 .. (n - 1) - 1 : k \in U => k + 1 \in U
  <2> SUFFICES ASSUME NEW k \in 0 .. (n - 1) - 1, k \in U PROVE k + 1 \in U
    OBVIOUS
  <2>1. k + 1 \in 1 .. n - 1 /\ k + 1 \in S
    OBVIOUS
  <2> QED BY <2>1
<1>3. \A k \in 0 .. n - 1 : k \in U
  <2> HIDE DEF U
  <2> QED BY <1>1, <1>2, UpTo
<1> SUFFICES ASSUME NEW i \in 1 .. n PROVE i \in S
  OBVIOUS
<1>4. i - 1 \in 0 .. n - 1
  OBVIOUS
<1>5. i - 1 \in U
  <2> HIDE DEF U
  <2> QED BY <1>3, <1>4
<1> QED BY <1>5

(* FlattenSeq concatenates its sequences one after the other: f has the
   results on the way.                                                      *)
Concatenates(f, T, n, seqs) ==
  /\ f \in [1 .. n -> Seq(T)]
  /\ f[1] = seqs[1]
  /\ \A i \in 1 .. n - 1 : f[i + 1] = f[i] \o seqs[i + 1]

LEMMA Flat ==
  ASSUME NEW T, NEW n \in Nat \ {0}, NEW seqs \in [1 .. n -> Seq(T)]
  PROVE  \E f : Concatenates(f, T, n, seqs) /\ FlattenSeq(seqs) = f[n]
<1> DEFINE P(k) == k = [i \in 1 .. n |-> IF i = 1 THEN seqs[i] ELSE k[i - 1] \o seqs[i]]
           D == [p \in Seq(T) \X (1 .. n - 1) |-> p[1] \o seqs[p[2] + 1]]
           f == CHOOSE g : g = [i \in 1 .. n |-> IF i = 1 THEN seqs[i] ELSE g[i - 1] \o seqs[i]]
<1>1. /\ n - 1 \in Nat /\ seqs[1] \in Seq(T)
      /\ D \in [Seq(T) \X (1 .. n - 1) -> Seq(T)]
  OBVIOUS
<1>2. PICK g \in [0 .. n - 1 -> Seq(T)] : 
        g[0] = seqs[1] /\ \A i \in 1 .. n - 1 : g[i] = D[<<g[i - 1], i>>]
  <2> DEFINE m == n - 1  c == seqs[1]  V == Seq(T)
  <2>1. m \in Nat /\ c \in V /\ D \in [V \X (1 .. m) -> V]
    BY <1>1
  <2>2. \E g : Computes(g, m, V, c, D)
    <3> HIDE DEF D, m, c, V
    <3> QED BY <2>1, Recursion
  <2> HIDE DEF D
  <2> QED BY <2>2 DEF Computes
<1> DEFINE h == [i \in 1 .. n |-> g[i - 1]]
<1>3. P(h)
  <2>1. ASSUME NEW i \in 1 .. n, i # 1 PROVE h[i] = h[i - 1] \o seqs[i]
    <3>1. i - 1 \in 1 .. n - 1 /\ i - 1 \in 1 .. n /\ (i - 1) + 1 = i
      BY <2>1
    <3>2. g[i - 1] = D[<<g[(i - 1) - 1], i - 1>>]
      BY <1>2, <3>1
    <3>3. g[(i - 1) - 1] \in Seq(T)
      BY <3>1
    <3>4. h[i - 1] = g[(i - 1) - 1] /\ h[i] = g[i - 1]
      BY <3>1
    <3> HIDE DEF h
    <3> QED BY <3>1, <3>2, <3>3, <3>4
  <2>2. h[1] = seqs[1]
    BY <1>2
  <2>3. \A i \in 1 .. n : h[i] = IF i = 1 THEN seqs[i] ELSE h[i - 1] \o seqs[i]
    <3> HIDE DEF h
    <3> QED BY <2>1, <2>2
  <2> DEFINE r == [i \in 1 .. n |-> IF i = 1 THEN seqs[i] ELSE h[i - 1] \o seqs[i]]
  <2>4. h = [i \in 1 .. n |-> h[i]]
    OBVIOUS
  <2>5. h = r
    <3> HIDE DEF h
    <3> QED BY <2>3, <2>4
  <2> QED BY <2>5
<1>4. P(f)
  <2>1. f = CHOOSE k : P(k)
    OBVIOUS
  <2> HIDE DEF P, f, h
  <2> QED BY <1>3, <2>1
<1>5. FlattenSeq(seqs) = f[n]
  <2>1. seqs \in Seq(Seq(T))
    BY SeqDef
  <2>2. Len(seqs) = n
    BY <2>1, LenProperties
  <2> QED BY <2>2 DEF FlattenSeq
<1> HIDE DEF f
<1>6. /\ f[1] = seqs[1]
      /\ \A i \in 1 .. n - 1 : f[i + 1] = f[i] \o seqs[i + 1]
  <2>1. f = [i \in 1 .. n |-> IF i = 1 THEN seqs[i] ELSE f[i - 1] \o seqs[i]]
    BY <1>4
  <2>2. f[1] = seqs[1]
    BY <2>1
  <2>3. ASSUME NEW i \in 1 .. n - 1 PROVE f[i + 1] = f[i] \o seqs[i + 1]
    <3>1. i + 1 \in 1 .. n /\ i + 1 # 1 /\ (i + 1) - 1 = i
      OBVIOUS
    <3>2. f[i + 1] = f[(i + 1) - 1] \o seqs[i + 1]
      BY <2>1, <3>1
    <3> QED BY <3>1, <3>2
  <2> QED BY <2>2, <2>3
<1>7. \A i \in 1 .. n : f[i] \in Seq(T)
  <2> DEFINE S == {i \in 1 .. n : f[i] \in Seq(T)}
  <2>1. 1 \in S
    BY <1>6
  <2>2. ASSUME NEW i \in 1 .. n - 1, i \in S PROVE i + 1 \in S
    <3>1. f[i + 1] = f[i] \o seqs[i + 1]
      BY <1>6
    <3>2. f[i] \in Seq(T) /\ seqs[i + 1] \in Seq(T) /\ i + 1 \in 1 .. n
      BY <2>2
    <3>3. f[i + 1] \in Seq(T)
      BY <3>1, <3>2
    <3> QED BY <3>2, <3>3
  <2>3. \A i \in 1 .. n : i \in S
    <3> HIDE DEF S
    <3> QED BY <2>1, <2>2, From1
  <2> QED BY <2>3
<1>8. f \in [1 .. n -> Seq(T)]
  BY <1>4, <1>7
<1>9. Concatenates(f, T, n, seqs)
  BY <1>6, <1>8 DEF Concatenates
<1> QED BY <1>5, <1>9
LEMMA FlatType ==
  ASSUME NEW T, NEW n \in Nat \ {0}, NEW seqs \in [1 .. n -> Seq(T)]
  PROVE  FlattenSeq(seqs) \in Seq(T)
<1>1. PICK f : Concatenates(f, T, n, seqs) /\ FlattenSeq(seqs) = f[n]
  BY Flat
<1> QED BY <1>1 DEF Concatenates

-----------------------------------------------------------------------------
(* The invariant *)

Files == {"info", "tasks", "episodes", "stats", "data", "video"}

(* the first n data files are this merge's *)
DataDone(n) ==
  \A k \in 1 .. n : Path(k) \in DOMAIN out.data /\ out.data[Path(k)] = DataFile(k)

TypeInv ==
  /\ sources \in [Slot -> Shelf]
  /\ DOMAIN out = Files
  /\ pc \in {"idle", "data", "video", "episodes", "stats", "tasks", "info"}
  /\ at \in Nat
  /\ pc # "idle" => Sources >= 2

(* what is behind a merge that is at pc *)
WrittenInv ==
  /\ pc = "data" => at >= 1 /\ DataDone(at - 1)
  /\ pc \in {"video", "episodes", "stats", "tasks", "info"} => DataDone(Len(Listed))
  /\ pc \in {"stats", "tasks", "info"} => out.episodes = EpisodesFile
  /\ pc \in {"tasks", "info"} => out.stats = StatsFile
  /\ pc = "info" => out.tasks = GlobalTasks

WholeInv ==
  result = "ok" =>
    /\ pc = "idle" /\ Sources >= 2
    /\ DataDone(Len(Listed))
    /\ out.episodes = EpisodesFile
    /\ out.stats = StatsFile
    /\ out.tasks = GlobalTasks
    /\ out.info.total_episodes = Len(Listed)
    /\ out.info.chunks_size = chunks_size

FreshInv ==
  ~ over => /\ pc # "idle" => out.info = None
            /\ out.info \in {None, Torn} \/ result = "ok"

IInv == TypeInv /\ WrittenInv /\ WholeInv /\ FreshInv

(* `After` follows the order of merge_datasets. *)
LEMMA AfterIs ==
  /\ Order[1] = "data"
  /\ After("data") = "video" /\ After("video") = "episodes"
  /\ After("episodes") = "stats" /\ After("stats") = "tasks"
  /\ After("tasks") = "info" /\ After("info") = "idle"
  BY DEF After, Order

(* What is computed from the sources stays as long as they do. *)
LEMMA SameSources ==
  ASSUME UNCHANGED sources
  PROVE  /\ Listed' = Listed /\ Mappings' = Mappings
         /\ GlobalTasks' = GlobalTasks /\ chunks_size' = chunks_size
         /\ EpisodesFile' = EpisodesFile /\ StatsFile' = StatsFile
         /\ \A k : Path(k)' = Path(k) /\ DataFile(k)' = DataFile(k)
<1>1. Listed' = Listed
  BY DEF Listed
<1>2. \A k : FramesUpTo(k)' = FramesUpTo(k)
  BY <1>1 DEF FramesUpTo
<1>3. GlobalTasks' = GlobalTasks
  BY DEF GlobalTasks
<1>4. Mappings' = Mappings
  BY <1>1, <1>2 DEF Mappings, Mapping
<1>5. chunks_size' = chunks_size
  BY DEF chunks_size
<1>6. \A k : DataFile(k)' = DataFile(k)
  BY <1>3, <1>4 DEF DataFile, Origin, Episode, RemapTask, IndexOf
<1>7. \A k : Path(k)' = Path(k)
  BY <1>5 DEF Path
<1>8. EpisodesFile' = EpisodesFile
  BY <1>4 DEF EpisodesFile, Origin
<1>9. StatsFile' = StatsFile
  BY <1>3, <1>4 DEF StatsFile, StatsEntry, StatOf, RemapStat, Episode, RemapTask, IndexOf
<1> QED BY <1>1, <1>3, <1>4, <1>5, <1>6, <1>7, <1>8, <1>9

(* A place is an episode of a dataset. *)
Places == {p \in Slot \X Nat : p[2] \in DOMAIN sources[p[1]].episodes}

PlacesOf == [s \in Slot |-> [e \in DOMAIN sources[s].episodes |-> <<s, e>>]]

LEMMA SourceType ==
  ASSUME TypeInv, NEW s \in Slot
  PROVE  /\ sources[s] \in Shelf
         /\ Len(sources[s].episodes) \in Nat
         /\ DOMAIN sources[s].episodes = 1 .. Len(sources[s].episodes)
         /\ \A e \in 1 .. Len(sources[s].episodes) :
              /\ sources[s].episodes[e].length \in Nat
              /\ sources[s].episodes[e].task_index \in Seq(Int)
              /\ Len(sources[s].episodes[e].task_index) = sources[s].episodes[e].length
<1> DEFINE E == [length : Nat, task_index : Seq(Int), has_video : BOOLEAN,
                 has_stats : BOOLEAN, has_data : BOOLEAN]
           eps == sources[s].episodes
<1>1. sources[s] \in Shelf
  BY DEF TypeInv
<1>2. eps \in Seq(E)
  BY <1>1, MergeAssumption
<1>3. Len(eps) \in Nat /\ DOMAIN eps = 1 .. Len(eps) /\ \A e \in 1 .. Len(eps) : eps[e] \in E
  <2> HIDE DEF E, eps
  <2> QED BY <1>2, LenProperties, ElementOfSeq
<1>4. ASSUME NEW e \in 1 .. Len(eps)
      PROVE  /\ eps[e].length \in Nat /\ eps[e].task_index \in Seq(Int)
             /\ Len(eps[e].task_index) = eps[e].length
  <2>1. eps[e] \in E
    BY <1>3
  <2>2. Len(eps[e].task_index) = eps[e].length
    BY <1>1, <1>3, MergeAssumption
  <2> HIDE DEF eps
  <2> QED BY <2>1, <2>2
<1> QED BY <1>1, <1>3, <1>4

LEMMA PlacesOfType ==
  ASSUME TypeInv
  PROVE  PlacesOf \in [1 .. Sources -> Seq(Places)]
<1> SUFFICES ASSUME NEW s \in Slot PROVE PlacesOf[s] \in Seq(Places)
  BY DEF PlacesOf, Slot
<1> DEFINE len == Len(sources[s].episodes)
<1>1. len \in Nat /\ DOMAIN sources[s].episodes = 1 .. len
  BY SourceType
<1>2. PlacesOf[s] = [e \in 1 .. len |-> <<s, e>>]
  BY <1>1 DEF PlacesOf
<1>3. \A e \in 1 .. len : <<s, e>> \in Places
  BY <1>1 DEF Places
<1>4. PlacesOf[s] \in [1 .. len -> Places]
  <2> HIDE DEF len
  <2> QED BY <1>2, <1>3
<1> HIDE DEF len
<1> QED BY <1>1, <1>4, SeqDef

LEMMA ListedType ==
  ASSUME TypeInv, Sources >= 2
  PROVE  /\ Listed \in Seq(Places)
         /\ Len(Listed) \in Nat /\ DOMAIN Listed = 1 .. Len(Listed)
         /\ Len(Mappings) = Len(Listed) /\ DOMAIN Mappings = 1 .. Len(Listed)
         /\ Mappings = <<>> <=> Len(Listed) = 0
<1>1. Sources \in Nat \ {0}
  BY MergeAssumption
<1>2. Listed = FlattenSeq(PlacesOf)
  BY DEF Listed, PlacesOf
<1>3. Listed \in Seq(Places)
  <2>1. PlacesOf \in [1 .. Sources -> Seq(Places)]
    BY PlacesOfType
  <2>2. FlattenSeq(PlacesOf) \in Seq(Places)
    BY <1>1, <2>1, FlatType
  <2> QED BY <1>2, <2>2
<1>4. Len(Listed) \in Nat /\ DOMAIN Listed = 1 .. Len(Listed)
  BY <1>3, LenProperties
<1>5. DOMAIN Mappings = 1 .. Len(Listed)
  BY <1>4 DEF Mappings
<1>6. \E S : Mappings \in Seq(S)
  <2> DEFINE S == {Mappings[k] : k \in 1 .. Len(Listed)}
  <2>1. Mappings \in [1 .. Len(Listed) -> S]
    BY <1>4 DEF Mappings
  <2> HIDE DEF S
  <2>2. Mappings \in Seq(S)
    BY <2>1, <1>4, SeqDef
  <2> QED BY <2>2
<1>7. Len(Mappings) = Len(Listed)
  BY <1>4, <1>5, <1>6, LenProperties
<1>8. Mappings = <<>> <=> Len(Listed) = 0
  BY <1>4, <1>6, <1>7, EmptySeq
<1> QED BY <1>3, <1>4, <1>5, <1>7, <1>8
-----------------------------------------------------------------------------
(* The invariant holds *)

LEMMA InitInv == Init => IInv
<1> SUFFICES ASSUME Init PROVE IInv
  OBVIOUS
<1>1. TypeInv
  BY DEF Init, TypeInv, Files
<1>2. WrittenInv /\ WholeInv /\ FreshInv
  BY DEF Init, WrittenInv, WholeInv, FreshInv
<1> QED BY <1>1, <1>2 DEF IInv

LEMMA BeginInv == ASSUME IInv, Begin PROVE IInv'
<1>1. CASE pc' = "idle" /\ result' = "error"
  <2>1. TypeInv'
    BY <1>1 DEF IInv, Begin, TypeInv
  <2>2. WrittenInv' /\ WholeInv'
    BY <1>1 DEF WrittenInv, WholeInv
  <2>3. FreshInv'
    BY <1>1 DEF IInv, Begin, FreshInv
  <2> QED BY <2>1, <2>2, <2>3 DEF IInv
<1>2. CASE pc' = Order[1] /\ result' = "none" /\ Sources >= 2
  <2>1. pc' = "data"
    BY <1>2, AfterIs
  <2>2. TypeInv'
    BY <1>2, <2>1 DEF IInv, Begin, TypeInv
  <2>3. at' = 1 /\ at' - 1 = 0
    BY DEF Begin
  <2>4. WrittenInv'
    BY <2>1, <2>3 DEF WrittenInv, DataDone
  <2>5. WholeInv' /\ FreshInv'
    BY <1>2, <2>1 DEF Begin, WholeInv, FreshInv
  <2> QED BY <2>2, <2>4, <2>5 DEF IInv
<1>3. Sources \in Nat
  BY MergeAssumption
<1> QED BY <1>1, <1>2, <1>3 DEF Begin

LEMMA WriteParquetInv == ASSUME IInv, WriteParquet PROVE IInv'
<1>1. pc = "data" /\ Sources >= 2 /\ at \in Nat /\ at >= 1 /\ TypeInv
  BY DEF IInv, TypeInv, WrittenInv, WriteParquet
<1>2. UNCHANGED sources
  BY DEF WriteParquet
<1>3. Len(Listed) \in Nat /\ Len(Mappings) = Len(Listed) /\ (Mappings = <<>> <=> Len(Listed) = 0)
  BY <1>1, ListedType
<1>4. \/ pc' = "data" /\ at' = at + 1 /\ at < Len(Listed)
      \/ pc' = "video" /\ at' = 1 /\ ~ (at < Len(Listed))
  <2>1. CASE at < Len(Mappings)
    <3>1. Advance
      BY DEF WriteParquet
    <3>2. at' = at + 1 /\ pc' = pc
      BY <2>1, <3>1, <1>1 DEF Advance
    <3> QED BY <2>1, <3>2, <1>1, <1>3
  <2>2. CASE ~ (at < Len(Mappings))
    <3>1. at' = 1 /\ pc' = After(pc)
      BY <2>2 DEF WriteParquet, Advance
    <3> QED BY <2>2, <3>1, <1>1, <1>3, AfterIs
  <2> QED BY <2>1, <2>2
<1>5. DOMAIN out' = Files /\ out'.info = out.info
  BY DEF IInv, TypeInv, WriteParquet, Files
<1>6. TypeInv'
  BY <1>1, <1>2, <1>4, <1>5 DEF TypeInv
<1>7. Mappings # <<>> => \A k \in 1 .. at : /\ Path(k) \in DOMAIN out'.data
                                           /\ out'.data[Path(k)] = DataFile(k)
  <2> SUFFICES ASSUME Mappings # <<>>, NEW k \in 1 .. at
               PROVE  Path(k) \in DOMAIN out'.data /\ out'.data[Path(k)] = DataFile(k)
    OBVIOUS
  <2>1. out' = [out EXCEPT !.data = Put(out.data, Path(at), DataFile(at))]
    BY DEF WriteParquet
  <2>2. out'.data = Put(out.data, Path(at), DataFile(at))
    BY <2>1 DEF IInv, TypeInv, Files
  <2>3. CASE k = at
    BY <2>2, <2>3 DEF Put
  <2>4. CASE k # at
    <3>1. k \in 1 .. at - 1
      BY <2>4, <1>1
    <3>2. Path(k) \in DOMAIN out.data /\ out.data[Path(k)] = DataFile(k)
      BY <3>1, <1>1 DEF IInv, WrittenInv, DataDone
    <3>3. Path(k) # Path(at)
      BY <2>4, <1>1 DEF Path
    <3> QED BY <2>2, <3>2, <3>3 DEF Put
  <2> QED BY <2>3, <2>4
<1>8. \A k \in 1 .. at : k <= Len(Listed) => /\ Path(k)' \in DOMAIN out'.data
                                              /\ out'.data[Path(k)'] = DataFile(k)'
  <2> SUFFICES ASSUME NEW k \in 1 .. at, k <= Len(Listed)
               PROVE  Path(k)' \in DOMAIN out'.data /\ out'.data[Path(k)'] = DataFile(k)'
    OBVIOUS
  <2>1. Mappings # <<>>
    BY <1>3
  <2>2. Path(k)' = Path(k) /\ DataFile(k)' = DataFile(k)
    BY <1>2, SameSources
  <2> QED BY <2>1, <2>2, <1>7
<1>9. WrittenInv'
  <2>1. CASE pc' = "data"
    <3>1. at' >= 1 /\ at' - 1 = at /\ at <= Len(Listed)
      BY <2>1, <1>1, <1>3, <1>4
    <3>2. \A k \in 1 .. at' - 1 : /\ Path(k)' \in DOMAIN out'.data
                                  /\ out'.data[Path(k)'] = DataFile(k)'
      BY <3>1, <1>1, <1>3, <1>8
    <3>3. DataDone(at - 1)'
      BY <3>2 DEF DataDone
    <3> QED BY <2>1, <3>1, <3>3 DEF WrittenInv
  <2>2. CASE pc' = "video"
    <3>1. \A k \in 1 .. Len(Listed) : /\ Path(k)' \in DOMAIN out'.data
                                      /\ out'.data[Path(k)'] = DataFile(k)'
      <4>1. Len(Listed) <= at
        BY <2>2, <1>1, <1>3, <1>4
      <4> QED BY <4>1, <1>1, <1>3, <1>8
    <3>2. DataDone(Len(Listed))'
      BY <3>1, <1>2, SameSources DEF DataDone
    <3> QED BY <2>2, <3>2 DEF WrittenInv
  <2> QED BY <1>4, <2>1, <2>2
<1>10. WholeInv' /\ FreshInv'
  BY <1>1, <1>4, <1>5 DEF IInv, WholeInv, FreshInv, WriteParquet
<1> QED BY <1>6, <1>9, <1>10 DEF IInv

(* A step that leaves the data files and the sources alone keeps what was
   written of them.                                                         *)
LEMMA DataKept ==
  ASSUME UNCHANGED sources, out'.data = out.data, DataDone(Len(Listed))
  PROVE  DataDone(Len(Listed))'
  BY SameSources DEF DataDone

LEMMA CopyVideoInv == ASSUME IInv, CopyVideo PROVE IInv'
<1>1. pc = "video" /\ Sources >= 2 /\ at \in Nat /\ TypeInv
  BY DEF IInv, TypeInv, CopyVideo
<1>2. UNCHANGED sources
  BY DEF CopyVideo
<1>3. pc' \in {"video", "episodes"} /\ at' \in Nat
  BY <1>1, AfterIs DEF CopyVideo, Advance
<1>4. DOMAIN out' = Files /\ out'.info = out.info /\ out'.data = out.data
  BY DEF IInv, TypeInv, CopyVideo, Files
<1>5. TypeInv'
  BY <1>1, <1>2, <1>3, <1>4 DEF TypeInv
<1>6. DataDone(Len(Listed))'
  BY <1>1, <1>2, <1>4, DataKept DEF IInv, WrittenInv
<1>7. WrittenInv'
  BY <1>3, <1>6 DEF WrittenInv
<1>8. WholeInv' /\ FreshInv'
  BY <1>1, <1>3, <1>4 DEF IInv, WholeInv, FreshInv, CopyVideo
<1> QED BY <1>5, <1>7, <1>8 DEF IInv

LEMMA WriteMetaInv == ASSUME IInv, WriteMeta PROVE IInv'
<1>1. /\ pc \in {"episodes", "stats", "tasks", "info"}
      /\ Sources >= 2 /\ TypeInv /\ DataDone(Len(Listed))
  BY DEF IInv, TypeInv, WrittenInv, WriteMeta
<1>2. UNCHANGED sources
  BY DEF WriteMeta
<1>3. \/ pc = "episodes" /\ pc' = "stats" /\ out' = [out EXCEPT !.episodes = EpisodesFile]
      \/ pc = "stats" /\ pc' = "tasks" /\ out' = [out EXCEPT !.stats = StatsFile]
      \/ pc = "tasks" /\ pc' = "info" /\ out' = [out EXCEPT !.tasks = GlobalTasks]
      \/ pc = "info" /\ pc' = "idle" /\ out' = [out EXCEPT !.info = InfoFile]
  <2>1. pc' = After(pc)
    BY <1>1 DEF WriteMeta, Advance
  <2> DEFINE content == CASE pc = "episodes" -> EpisodesFile
                          [] pc = "stats" -> StatsFile
                          [] pc = "tasks" -> GlobalTasks
                          [] pc = "info" -> InfoFile
  <2>2. out' = [out EXCEPT ![pc] = content]
    BY DEF WriteMeta
  <2>3. CASE pc = "episodes"
    <3>1. content = EpisodesFile
      BY <2>3
    <3> HIDE DEF content
    <3> QED BY <2>1, <2>2, <2>3, <3>1, AfterIs
  <2>4. CASE pc = "stats"
    <3>1. content = StatsFile
      BY <2>4
    <3> HIDE DEF content
    <3> QED BY <2>1, <2>2, <2>4, <3>1, AfterIs
  <2>5. CASE pc = "tasks"
    <3>1. content = GlobalTasks
      BY <2>5
    <3> HIDE DEF content
    <3> QED BY <2>1, <2>2, <2>5, <3>1, AfterIs
  <2>6. CASE pc = "info"
    <3>1. content = InfoFile
      BY <2>6
    <3> HIDE DEF content
    <3> QED BY <2>1, <2>2, <2>6, <3>1, AfterIs
  <2> QED BY <1>1, <2>3, <2>4, <2>5, <2>6
<1>4. /\ DOMAIN out' = Files /\ out'.data = out.data
      /\ out'.episodes = IF pc = "episodes" THEN EpisodesFile ELSE out.episodes
      /\ out'.stats = IF pc = "stats" THEN StatsFile ELSE out.stats
      /\ out'.tasks = IF pc = "tasks" THEN GlobalTasks ELSE out.tasks
      /\ out'.info = IF pc = "info" THEN InfoFile ELSE out.info
  BY <1>3 DEF IInv, TypeInv, Files
<1>5. at' = 1
  BY <1>1 DEF WriteMeta, Advance
<1>6. TypeInv'
  BY <1>1, <1>2, <1>3, <1>4, <1>5 DEF TypeInv
<1>7. DataDone(Len(Listed))'
  BY <1>1, <1>2, <1>4, DataKept
<1>8. /\ Listed' = Listed /\ EpisodesFile' = EpisodesFile /\ StatsFile' = StatsFile
      /\ GlobalTasks' = GlobalTasks /\ chunks_size' = chunks_size
  BY <1>2, SameSources
<1>9. WrittenInv'
  BY <1>3, <1>4, <1>7, <1>8 DEF IInv, WrittenInv
<1>10. result' = IF pc = "info" THEN "ok" ELSE result
  BY <1>3 DEF WriteMeta
<1>11. WholeInv'
  <2>1. CASE pc = "info"
    <3>1. /\ out.episodes = EpisodesFile /\ out.stats = StatsFile /\ out.tasks = GlobalTasks
      BY <2>1 DEF IInv, WrittenInv
    <3>2. out'.info = InfoFile /\ pc' = "idle"
      BY <2>1, <1>3, <1>4
    <3>3. InfoFile.total_episodes = Len(Mappings) /\ InfoFile.chunks_size = chunks_size
      BY DEF InfoFile
    <3>4. Len(Mappings) = Len(Listed)
      BY <1>1, ListedType
    <3> QED BY <2>1, <3>1, <3>2, <3>3, <3>4, <1>1, <1>4, <1>7, <1>8 DEF WholeInv
  <2>2. CASE pc # "info"
    BY <2>2, <1>1, <1>10 DEF IInv, WholeInv
  <2> QED BY <2>1, <2>2
<1>12. FreshInv'
  BY <1>3, <1>4, <1>10 DEF IInv, FreshInv, WriteMeta
<1> QED BY <1>6, <1>9, <1>11, <1>12 DEF IInv

LEMMA FailInv == ASSUME IInv, Fail PROVE IInv'
<1>1. pc' = "idle" /\ result' = "error" /\ pc # "idle" /\ UNCHANGED <<sources, at, over>>
  BY DEF Fail
<1>2. DOMAIN out' = Files /\ out'.info \in {out.info, Torn}
  BY DEF Fail, IInv, TypeInv, Files
<1>3. TypeInv'
  BY <1>1, <1>2 DEF IInv, TypeInv
<1>4. WrittenInv' /\ WholeInv' /\ FreshInv'
  BY <1>1, <1>2 DEF IInv, WrittenInv, WholeInv, FreshInv
<1> QED BY <1>3, <1>4 DEF IInv

LEMMA StutterInv == ASSUME IInv, UNCHANGED vars PROVE IInv'
<1>1. UNCHANGED sources /\ UNCHANGED <<out, pc, at, over, result>>
  BY DEF vars
<1>2. TypeInv' /\ FreshInv'
  BY <1>1 DEF IInv, TypeInv, FreshInv
<1>3. \A n : DataDone(n) => \A k \in 1 .. n : /\ Path(k)' \in DOMAIN out'.data
                                              /\ out'.data[Path(k)'] = DataFile(k)'
  BY <1>1, SameSources DEF DataDone
<1>4. pc = "data" => DataDone(at - 1)'
  BY <1>1, <1>3 DEF IInv, WrittenInv, DataDone
<1>5. DataDone(Len(Listed)) => DataDone(Len(Listed))'
  BY <1>1, DataKept
<1>6. WrittenInv' /\ WholeInv'
  BY <1>1, <1>4, <1>5, SameSources DEF IInv, WrittenInv, WholeInv
<1> QED BY <1>2, <1>6 DEF IInv

LEMMA StepInv == ASSUME IInv, [Next]_vars PROVE IInv'
  BY BeginInv, WriteParquetInv, CopyVideoInv, WriteMetaInv, FailInv, StutterInv DEF Next, Over

THEOREM Invariant == Spec => []IInv
<1>1. Init => IInv
  BY InitInv
<1>2. IInv /\ [Next]_vars => IInv'
  BY StepInv
<1> QED BY <1>1, <1>2, PTL DEF Spec

-----------------------------------------------------------------------------
(* What a merge computes from its sources *)

(* t is s with F applied to each element. *)
Maps(F, s, t) == Len(t) = Len(s) /\ \A k \in 1 .. Len(s) : t[k] = F[s[k]]

LEMMA ConcatMaps ==
  ASSUME NEW S, NEW T, NEW F, NEW s1 \in Seq(S), NEW s2 \in Seq(S),
         NEW t1 \in Seq(T), NEW t2 \in Seq(T), Maps(F, s1, t1), Maps(F, s2, t2)
  PROVE  Maps(F, s1 \o s2, t1 \o t2)
<1>1. /\ Len(s1) \in Nat /\ Len(s2) \in Nat
      /\ Len(t1) = Len(s1) /\ Len(t2) = Len(s2)
  BY LenProperties DEF Maps
<1>2. /\ Len(s1 \o s2) = Len(s1) + Len(s2)
      /\ \A k \in 1 .. Len(s1) + Len(s2) :
           (s1 \o s2)[k] = IF k <= Len(s1) THEN s1[k] ELSE s2[k - Len(s1)]
  BY ConcatProperties
<1>3. /\ Len(t1 \o t2) = Len(s1) + Len(s2)
      /\ \A k \in 1 .. Len(s1) + Len(s2) :
           (t1 \o t2)[k] = IF k <= Len(s1) THEN t1[k] ELSE t2[k - Len(s1)]
  <2>1. /\ Len(t1 \o t2) = Len(t1) + Len(t2)
        /\ \A k \in 1 .. Len(t1) + Len(t2) :
             (t1 \o t2)[k] = IF k <= Len(t1) THEN t1[k] ELSE t2[k - Len(t1)]
    BY ConcatProperties
  <2> QED BY <1>1, <2>1
<1>4. ASSUME NEW k \in 1 .. Len(s1) + Len(s2)
      PROVE  (t1 \o t2)[k] = F[(s1 \o s2)[k]]
  <2>1. CASE k <= Len(s1)
    <3>1. k \in 1 .. Len(s1)
      BY <1>1, <2>1
    <3>2. t1[k] = F[s1[k]]
      BY <3>1 DEF Maps
    <3> QED BY <1>2, <1>3, <2>1, <3>2
  <2>2. CASE ~ (k <= Len(s1))
    <3>1. k - Len(s1) \in 1 .. Len(s2)
      BY <1>1, <2>2
    <3>2. t2[k - Len(s1)] = F[s2[k - Len(s1)]]
      BY <3>1 DEF Maps
    <3> QED BY <1>2, <1>3, <2>2, <3>2
  <2> QED BY <2>1, <2>2
<1> QED BY <1>2, <1>3, <1>4 DEF Maps

(* What holds element by element of the sequences holds so of the flattened
   ones.                                                                    *)
LEMMA FlatMaps ==
  ASSUME NEW S, NEW T, NEW F, NEW n \in Nat \ {0},
         NEW A \in [1 .. n -> Seq(S)], NEW B \in [1 .. n -> Seq(T)],
         \A s \in 1 .. n : Maps(F, A[s], B[s])
  PROVE  Maps(F, FlattenSeq(A), FlattenSeq(B))
<1>1. PICK f : Concatenates(f, S, n, A) /\ FlattenSeq(A) = f[n]
  BY Flat
<1>2. PICK g : Concatenates(g, T, n, B) /\ FlattenSeq(B) = g[n]
  BY Flat
<1> DEFINE M == {i \in 1 .. n : Maps(F, f[i], g[i])}
<1>3. 1 \in M
  BY <1>1, <1>2 DEF Concatenates
<1>4. ASSUME NEW i \in 1 .. n - 1, i \in M PROVE i + 1 \in M
  <2>1. i \in 1 .. n /\ i + 1 \in 1 .. n
    OBVIOUS
  <2>2. f[i + 1] = f[i] \o A[i + 1] /\ g[i + 1] = g[i] \o B[i + 1]
    BY <1>1, <1>2 DEF Concatenates
  <2>3. f[i] \in Seq(S) /\ g[i] \in Seq(T) /\ A[i + 1] \in Seq(S) /\ B[i + 1] \in Seq(T)
    BY <1>1, <1>2, <2>1 DEF Concatenates
  <2>4. Maps(F, f[i], g[i]) /\ Maps(F, A[i + 1], B[i + 1])
    BY <1>4, <2>1
  <2>5. Maps(F, f[i + 1], g[i + 1])
    BY <2>2, <2>3, <2>4, ConcatMaps
  <2> QED BY <2>1, <2>5
<1>5. \A i \in 1 .. n : i \in M
  <2> HIDE DEF M
  <2> QED BY <1>3, <1>4, From1
<1>6. n \in M
  <2> HIDE DEF M
  <2> QED BY <1>5
<1> QED BY <1>1, <1>2, <1>6

(* Every element of every sequence is in the flattened one. *)
Holds(s, x) == \E k \in 1 .. Len(s) : s[k] = x

LEMMA ConcatHolds ==
  ASSUME NEW S, NEW s1 \in Seq(S), NEW s2 \in Seq(S), NEW x, Holds(s1, x) \/ Holds(s2, x)
  PROVE  Holds(s1 \o s2, x)
<1>1. Len(s1) \in Nat /\ Len(s2) \in Nat
  BY LenProperties
<1>2. /\ Len(s1 \o s2) = Len(s1) + Len(s2)
      /\ \A k \in 1 .. Len(s1) + Len(s2) :
           (s1 \o s2)[k] = IF k <= Len(s1) THEN s1[k] ELSE s2[k - Len(s1)]
  BY ConcatProperties
<1>3. CASE Holds(s1, x)
  <2>1. PICK k \in 1 .. Len(s1) : s1[k] = x
    BY <1>3 DEF Holds
  <2>2. k \in 1 .. Len(s1) + Len(s2) /\ k <= Len(s1)
    BY <1>1
  <2> QED BY <1>2, <2>1, <2>2 DEF Holds
<1>4. CASE Holds(s2, x)
  <2>1. PICK k \in 1 .. Len(s2) : s2[k] = x
    BY <1>4 DEF Holds
  <2>2. /\ k + Len(s1) \in 1 .. Len(s1) + Len(s2) /\ ~ (k + Len(s1) <= Len(s1))
        /\ (k + Len(s1)) - Len(s1) = k
    BY <1>1
  <2>3. (s1 \o s2)[k + Len(s1)] = x
    BY <1>2, <2>1, <2>2
  <2> QED BY <1>2, <2>2, <2>3 DEF Holds
<1> QED BY <1>3, <1>4

LEMMA FlatHolds ==
  ASSUME NEW S, NEW n \in Nat \ {0}, NEW A \in [1 .. n -> Seq(S)],
         NEW s \in 1 .. n, NEW x, Holds(A[s], x)
  PROVE  Holds(FlattenSeq(A), x)
<1>1. PICK f : Concatenates(f, S, n, A) /\ FlattenSeq(A) = f[n]
  BY Flat
<1> DEFINE M == {i \in 1 .. n : s <= i => Holds(f[i], x)}
<1>2. 1 \in M
  BY <1>1 DEF Concatenates
<1>3. ASSUME NEW i \in 1 .. n - 1, i \in M PROVE i + 1 \in M
  <2>1. i \in 1 .. n /\ i + 1 \in 1 .. n
    OBVIOUS
  <2>2. /\ f[i + 1] = f[i] \o A[i + 1]
        /\ f[i] \in Seq(S) /\ A[i + 1] \in Seq(S)
    BY <1>1, <2>1 DEF Concatenates
  <2>3. ASSUME s <= i + 1 PROVE Holds(f[i], x) \/ Holds(A[i + 1], x)
    BY <1>3, <2>1, <2>3
  <2>4. s <= i + 1 => Holds(f[i + 1], x)
    BY <2>2, <2>3, ConcatHolds
  <2> QED BY <2>1, <2>4
<1>4. \A i \in 1 .. n : i \in M
  <2> HIDE DEF M
  <2> QED BY <1>2, <1>3, From1
<1>5. n \in M /\ s <= n
  <2> HIDE DEF M
  <2> QED BY <1>4
<1> QED BY <1>1, <1>5

(* The frame offset: 0 before the first episode, and on by the length of
   each.                                                                    *)
LEMMA Offsets ==
  ASSUME TypeInv, Sources >= 2
  PROVE  /\ FramesUpTo(0) = 0
         /\ \A k \in 1 .. Len(Listed) :
              /\ FramesUpTo(k) = FramesUpTo(k - 1)
                                 + sources[Listed[k][1]].episodes[Listed[k][2]].length
              /\ FramesUpTo(k - 1) \in Nat
<1> DEFINE n == Len(Listed)
           len(k) == sources[Listed[k][1]].episodes[Listed[k][2]].length
           P(g) == g = [i \in 0 .. n |-> IF i = 0 THEN 0 ELSE g[i - 1] + len(i)]
           D == [p \in Nat \X (1 .. n) |-> p[1] + len(p[2])]
           f == CHOOSE g : g = [i \in 0 .. n |-> IF i = 0 THEN 0 ELSE g[i - 1] + len(i)]
<1>1. n \in Nat /\ \A k \in 1 .. n : len(k) \in Nat
  <2>1. n \in Nat /\ \A k \in 1 .. n : Listed[k] \in Places
    BY ListedType, ElementOfSeq
  <2> QED BY <2>1, SourceType DEF Places
<1>2. \A k : FramesUpTo(k) = f[k]
  BY DEF FramesUpTo
<1> HIDE DEF n, len
<1>3. D \in [Nat \X (1 .. n) -> Nat]
  BY <1>1
<1>4. PICK h : Computes(h, n, Nat, 0, D)
  <2> HIDE DEF D
  <2> QED BY <1>1, <1>3, Recursion
<1>5. P(h)
  <2>1. ASSUME NEW i \in 1 .. n PROVE h[i] = h[i - 1] + len(i)
    <3>1. i - 1 \in 0 .. n
      BY <1>1
    <3>2. h[i] = D[<<h[i - 1], i>>] /\ h[i - 1] \in Nat
      <4> HIDE DEF D
      <4> QED BY <3>1, <1>4 DEF Computes
    <3> QED BY <3>2
  <2>2. h[0] = 0 /\ DOMAIN h = 0 .. n /\ h = [i \in 0 .. n |-> h[i]]
    BY <1>4 DEF Computes
  <2>3. \A i \in 0 .. n : h[i] = IF i = 0 THEN 0 ELSE h[i - 1] + len(i)
    <3> SUFFICES ASSUME NEW i \in 0 .. n, i # 0 PROVE h[i] = h[i - 1] + len(i)
      BY <2>2
    <3>1. i \in 1 .. n
      BY <1>1
    <3> QED BY <2>1, <3>1
  <2> QED BY <2>2, <2>3
<1>6. P(f)
  <2>1. f = CHOOSE g : P(g)
    OBVIOUS
  <2> HIDE DEF P, f
  <2> QED BY <1>5, <2>1
<1> HIDE DEF f
<1>7. f[0] = 0 /\ \A i \in 1 .. n : f[i] = f[i - 1] + len(i)
  BY <1>1, <1>6
<1>8. \A i \in 0 .. n : f[i] \in Nat
  <2> DEFINE M == {i \in 0 .. n : f[i] \in Nat}
  <2>1. 0 \in M
    BY <1>1, <1>7
  <2>2. ASSUME NEW i \in 0 .. n - 1, i \in M PROVE i + 1 \in M
    <3>1. i + 1 \in 1 .. n /\ (i + 1) - 1 = i
      BY <1>1
    <3>2. f[i + 1] = f[i] + len(i + 1)
      BY <3>1, <1>7
    <3> QED BY <1>1, <2>2, <3>1, <3>2
  <2>3. \A i \in 0 .. n : i \in M
    <3> HIDE DEF M
    <3> QED BY <1>1, <2>1, <2>2, UpTo
  <2> QED BY <2>3
<1>9. \A k \in 1 .. n : f[k - 1] \in Nat
  BY <1>1, <1>8
<1> QED BY <1>2, <1>7, <1>9 DEF n, len

(* Recorded is Listed, place by place. *)
RecordOf(p) ==
  [origin |-> <<p[1], sources[p[1]].name, p[2] - 1>>,
   length |-> sources[p[1]].episodes[p[2]].length,
   task_index |-> sources[p[1]].episodes[p[2]].task_index,
   task |-> TextsOf(sources[p[1]], sources[p[1]].episodes[p[2]].task_index)]

LEMMA RecordedIsListed ==
  ASSUME TypeInv, Sources >= 2
  PROVE  /\ Len(Recorded) = Len(Listed)
         /\ \A k \in 1 .. Len(Listed) : Recorded[k] = RecordOf(Listed[k])
<1> DEFINE F == [p \in Places |-> RecordOf(p)]
           T == {RecordOf(p) : p \in Places}
           B == [s \in Slot |->
                  [e \in DOMAIN sources[s].episodes |->
                     [origin |-> <<s, sources[s].name, e - 1>>,
                      length |-> sources[s].episodes[e].length,
                      task_index |-> sources[s].episodes[e].task_index,
                      task |-> TextsOf(sources[s], sources[s].episodes[e].task_index)]]]
<1>1. Sources \in Nat \ {0}
  BY MergeAssumption
<1>2. Recorded = FlattenSeq(B) /\ Listed = FlattenSeq(PlacesOf)
  BY DEF Recorded, Listed, PlacesOf
<1>3. PlacesOf \in [1 .. Sources -> Seq(Places)]
  BY PlacesOfType
<1>4. ASSUME NEW s \in Slot
      PROVE  B[s] \in Seq(T) /\ Maps(F, PlacesOf[s], B[s])
  <2> DEFINE n == Len(sources[s].episodes)
  <2>1. n \in Nat /\ DOMAIN sources[s].episodes = 1 .. n
    BY SourceType
  <2>2. PlacesOf[s] \in Seq(Places) /\ PlacesOf[s] = [e \in 1 .. n |-> <<s, e>>]
    BY <1>3, <2>1 DEF PlacesOf, Slot
  <2>3. Len(PlacesOf[s]) = n
    <3> HIDE DEF n
    <3> QED BY <2>1, <2>2, LenProperties
  <2>4. \A e \in 1 .. n : B[s][e] = RecordOf(<<s, e>>)
    BY <2>1 DEF RecordOf
  <2>5. \A e \in 1 .. n : <<s, e>> \in Places
    BY <2>1 DEF Places
  <2>6. DOMAIN B[s] = 1 .. n /\ B[s] = [e \in 1 .. n |-> B[s][e]]
    BY <2>1
  <2>7. B[s] \in [1 .. n -> T]
    <3>1. \A e \in 1 .. n : B[s][e] \in T
      <4> HIDE DEF B, n
      <4> QED BY <2>4, <2>5
    <3> HIDE DEF B, n, T
    <3> QED BY <2>6, <3>1
  <2>8. B[s] \in Seq(T) /\ Len(B[s]) = n
    <3> HIDE DEF B, n, T
    <3>1. B[s] \in Seq(T)
      BY <2>1, <2>7, SeqDef
    <3> QED BY <3>1, <2>1, <2>6, LenProperties
  <2>9. \A e \in 1 .. n : B[s][e] = F[PlacesOf[s][e]]
    <3> HIDE DEF B, n
    <3> QED BY <2>2, <2>4, <2>5
  <2> HIDE DEF B, n, F
  <2> QED BY <2>3, <2>8, <2>9 DEF Maps
<1>5. B \in [1 .. Sources -> Seq(T)]
  <2>1. B = [s \in 1 .. Sources |-> B[s]]
    BY DEF Slot
  <2> HIDE DEF B, T
  <2> QED BY <1>4, <2>1 DEF Slot
<1>6. Maps(F, Listed, Recorded)
  <2>1. \A s \in 1 .. Sources : Maps(F, PlacesOf[s], B[s])
    <3> HIDE DEF B, F
    <3> QED BY <1>4 DEF Slot
  <2> HIDE DEF B, F, T
  <2> QED BY <1>1, <1>2, <1>3, <1>5, <2>1, FlatMaps
<1>7. \A k \in 1 .. Len(Listed) : Listed[k] \in Places
  BY ListedType, ElementOfSeq
<1> QED BY <1>6, <1>7 DEF Maps


(* deduplicate_tasks: the list has every text of every dataset, once. *)
LEMMA TasksAre ==
  ASSUME TypeInv, Sources >= 2
  PROVE  /\ Len(GlobalTasks) \in Nat /\ DOMAIN GlobalTasks = 1 .. Len(GlobalTasks)
         /\ IsInjective(GlobalTasks)
         /\ \A s \in Slot : \A j \in 1 .. Len(sources[s].tasks) :
              Holds(GlobalTasks, sources[s].tasks[j])
<1> DEFINE T == UNION {Range(sources[s].tasks) : s \in Slot}
           A == [s \in Slot |-> sources[s].tasks]
           texts == FlattenSeq(A)
           n == Len(texts)
           Next1(before, i) == IF texts[i] \in Range(before) THEN before
                               ELSE Append(before, texts[i])
           P(g) == g = [i \in 0 .. n |-> IF i = 0 THEN <<>> ELSE Next1(g[i - 1], i)]
           D == [p \in Seq(T) \X (1 .. n) |-> Next1(p[1], p[2])]
           f == CHOOSE g : g = [i \in 0 .. n |->
                  IF i = 0 THEN <<>>
                  ELSE IF texts[i] \in Range(g[i - 1]) THEN g[i - 1]
                       ELSE Append(g[i - 1], texts[i])]
<1>1. Sources \in Nat \ {0}
  BY MergeAssumption
<1>2. A \in [1 .. Sources -> Seq(T)]
  <2>1. ASSUME NEW s \in Slot PROVE sources[s].tasks \in Seq(T)
    <3>1. sources[s].tasks \in Seq(Range(sources[s].tasks))
      BY MergeAssumption DEF TypeInv
    <3>2. Range(sources[s].tasks) \subseteq T
      OBVIOUS
    <3> HIDE DEF T
    <3> QED BY <3>1, <3>2, SeqMonotonic
  <2> HIDE DEF T
  <2> QED BY <2>1 DEF Slot
<1>3. texts \in Seq(T)
  <2> HIDE DEF T, A
  <2> QED BY <1>1, <1>2, FlatType
<1>4. n \in Nat /\ \A i \in 1 .. n : texts[i] \in T
  <2> HIDE DEF T, A, texts
  <2> QED BY <1>3, LenProperties, ElementOfSeq
<1>5. GlobalTasks = f[n]
  BY DEF GlobalTasks
<1> HIDE DEF n, texts, T
<1>6. D \in [Seq(T) \X (1 .. n) -> Seq(T)]
  BY <1>4
<1>7. PICK h : Computes(h, n, Seq(T), <<>>, D)
  <2>1. <<>> \in Seq(T)
    BY EmptySeq
  <2> HIDE DEF D
  <2> QED BY <1>4, <1>6, <2>1, Recursion
<1>8. P(h)
  <2>1. ASSUME NEW i \in 1 .. n PROVE h[i] = Next1(h[i - 1], i)
    <3>1. i - 1 \in 0 .. n
      BY <1>4
    <3>2. h[i] = D[<<h[i - 1], i>>] /\ h[i - 1] \in Seq(T)
      <4> HIDE DEF D
      <4> QED BY <3>1, <1>7 DEF Computes
    <3>3. D[<<h[i - 1], i>>] = Next1(h[i - 1], i)
      BY <3>2
    <3> QED BY <3>2, <3>3
  <2>2. h[0] = <<>> /\ DOMAIN h = 0 .. n /\ h = [i \in 0 .. n |-> h[i]]
    BY <1>7 DEF Computes
  <2>3. \A i \in 0 .. n : h[i] = IF i = 0 THEN <<>> ELSE Next1(h[i - 1], i)
    <3> SUFFICES ASSUME NEW i \in 0 .. n, i # 0 PROVE h[i] = Next1(h[i - 1], i)
      BY <2>2
    <3>1. i \in 1 .. n
      BY <1>4
    <3> HIDE DEF Next1
    <3> QED BY <2>1, <3>1
  <2> HIDE DEF Next1
  <2> QED BY <2>2, <2>3
<1>9. P(f)
  <2>1. f = CHOOSE g : P(g)
    OBVIOUS
  <2> HIDE DEF P, f
  <2> QED BY <1>8, <2>1
<1> HIDE DEF f
<1>10. f[0] = <<>> /\ \A i \in 1 .. n : f[i] = Next1(f[i - 1], i)
  <2> HIDE DEF Next1
  <2> QED BY <1>4, <1>9
<1> DEFINE Good(i) == /\ f[i] \in Seq(T) /\ IsInjective(f[i])
                      /\ \A j \in 1 .. i : Holds(f[i], texts[j])
           M == {i \in 0 .. n : Good(i)}
<1>11. 0 \in M
  <2>1. <<>> \in Seq(T) /\ IsInjective(<<>>)
    BY EmptySeq DEF IsInjective
  <2>2. f[0] \in Seq(T) /\ IsInjective(f[0])
    <3>1. f[0] = <<>>
      BY <1>10
    <3> QED BY <2>1, <3>1
  <2>3. \A j \in 1 .. 0 : Holds(f[0], texts[j])
    OBVIOUS
  <2>4. 0 \in 0 .. n
    BY <1>4
  <2> QED BY <2>2, <2>3, <2>4
<1>12. ASSUME NEW i \in 0 .. n - 1, i \in M PROVE i + 1 \in M
  <2> DEFINE s == f[i]  t == texts[i + 1]
  <2>1. i + 1 \in 1 .. n /\ i + 1 \in 0 .. n /\ (i + 1) - 1 = i
    BY <1>4
  <2>2. Good(i)
    BY <1>12
  <2>3. f[i + 1] = IF t \in Range(s) THEN s ELSE Append(s, t)
    BY <1>10, <2>1
  <2>4. Len(s) \in Nat /\ DOMAIN s = 1 .. Len(s) /\ s \in Seq(T) /\ t \in T
    BY <2>1, <2>2, <1>4, LenProperties
  <2>5. CASE t \in Range(s)
    <3>1. f[i + 1] = s
      BY <2>3, <2>5
    <3>2. Holds(s, t)
      BY <2>4, <2>5 DEF Range, Holds
    <3>3. \A j \in 1 .. i + 1 : Holds(s, texts[j])
      <4> SUFFICES ASSUME NEW j \in 1 .. i + 1 PROVE Holds(s, texts[j])
        OBVIOUS
      <4>1. j = i + 1 \/ j \in 1 .. i
        BY <2>1
      <4> QED BY <4>1, <2>2, <3>2
    <3> QED BY <2>1, <2>2, <3>1, <3>3
  <2>6. CASE t \notin Range(s)
    <3>1. f[i + 1] = Append(s, t)
      BY <2>3, <2>6
    <3>2. /\ Append(s, t) \in Seq(T)
          /\ Len(Append(s, t)) = Len(s) + 1
          /\ DOMAIN Append(s, t) = 1 .. Len(s) + 1
          /\ \A j \in 1 .. Len(s) : Append(s, t)[j] = s[j]
          /\ Append(s, t)[Len(s) + 1] = t
      <4> HIDE DEF s, t
      <4>1. Append(s, t) \in Seq(T) /\ Len(Append(s, t)) = Len(s) + 1
        BY <2>4
      <4>2. DOMAIN Append(s, t) = 1 .. Len(s) + 1
        BY <4>1, LenProperties
      <4> QED BY <4>1, <4>2, <2>4
    <3>3. \A j \in 1 .. Len(s) : s[j] # t
      BY <2>4, <2>6 DEF Range
    <3>4. IsInjective(s)
      BY <2>2
    <3>5. IsInjective(Append(s, t))
      <4> HIDE DEF s, t
      <4> SUFFICES ASSUME NEW a \in 1 .. Len(s) + 1, NEW b \in 1 .. Len(s) + 1,
                          Append(s, t)[a] = Append(s, t)[b]
                   PROVE  a = b
        BY <3>2 DEF IsInjective
      <4>1. a \in 1 .. Len(s) \/ a = Len(s) + 1
        BY <2>4
      <4>2. b \in 1 .. Len(s) \/ b = Len(s) + 1
        BY <2>4
      <4>3. CASE a \in 1 .. Len(s) /\ b \in 1 .. Len(s)
        BY <4>3, <3>2, <3>4, <2>4 DEF IsInjective
      <4>4. CASE a \in 1 .. Len(s) /\ b = Len(s) + 1
        BY <4>4, <3>2, <3>3
      <4>5. CASE a = Len(s) + 1 /\ b \in 1 .. Len(s)
        BY <4>5, <3>2, <3>3
      <4> QED BY <4>1, <4>2, <4>3, <4>4, <4>5
    <3>6. Holds(Append(s, t), t)
      <4>1. Len(s) + 1 \in 1 .. Len(Append(s, t)) /\ Append(s, t)[Len(s) + 1] = t
        BY <2>4, <3>2
      <4> HIDE DEF s, t
      <4> QED BY <4>1 DEF Holds
    <3>7. ASSUME NEW x, Holds(s, x) PROVE Holds(Append(s, t), x)
      <4>1. PICK j \in 1 .. Len(s) : s[j] = x
        BY <3>7 DEF Holds
      <4>2. j \in 1 .. Len(Append(s, t)) /\ Append(s, t)[j] = x
        BY <2>4, <3>2, <4>1
      <4> HIDE DEF s, t
      <4> QED BY <4>2 DEF Holds
    <3>8. \A j \in 1 .. i + 1 : Holds(Append(s, t), texts[j])
      <4> SUFFICES ASSUME NEW j \in 1 .. i + 1 PROVE Holds(Append(s, t), texts[j])
        OBVIOUS
      <4>1. j = i + 1 \/ j \in 1 .. i
        BY <2>1
      <4>2. CASE j = i + 1
        BY <4>2, <3>6
      <4>3. CASE j \in 1 .. i
        BY <4>3, <2>2, <3>7
      <4> QED BY <4>1, <4>2, <4>3
    <3> HIDE DEF t
    <3> QED BY <2>1, <3>1, <3>2, <3>5, <3>8
  <2> QED BY <2>5, <2>6
<1>13. Good(n)
  <2>1. \A i \in 0 .. n : i \in M
    <3> HIDE DEF M
    <3> QED BY <1>4, <1>11, <1>12, UpTo
  <2>2. n \in M
    <3> HIDE DEF M
    <3> QED BY <1>4, <2>1
  <2> QED BY <2>2
<1>14. Len(GlobalTasks) \in Nat /\ DOMAIN GlobalTasks = 1 .. Len(GlobalTasks)
  BY <1>5, <1>13, LenProperties
<1>15. ASSUME NEW s \in Slot, NEW j \in 1 .. Len(sources[s].tasks)
       PROVE  Holds(GlobalTasks, sources[s].tasks[j])
  <2> DEFINE x == sources[s].tasks[j]
  <2>1. Holds(A[s], x) /\ s \in 1 .. Sources
    BY DEF Holds, Slot
  <2>2. Holds(texts, x)
    <3> HIDE DEF A, x
    <3> QED BY <1>1, <1>2, <2>1, FlatHolds DEF texts
  <2>3. PICK i \in 1 .. n : texts[i] = x
    BY <2>2 DEF Holds, n
  <2>4. Holds(f[n], x)
    BY <2>3, <1>13
  <2> QED BY <2>4, <1>5
<1> QED BY <1>5, <1>13, <1>14, <1>15

-----------------------------------------------------------------------------
(* The theorems *)

(* An index that is a task keeps its text, one that is none stays. *)
LEMMA TaskOf ==
  ASSUME TypeInv, Sources >= 2, NEW s \in Slot, NEW i \in Int
  PROVE  /\ RemapTask(s, i) \in Int
         /\ IF i \in 0 .. Len(sources[s].tasks) - 1
            THEN /\ RemapTask(s, i) \in 0 .. Len(GlobalTasks) - 1
                 /\ GlobalTasks[RemapTask(s, i) + 1] = sources[s].tasks[i + 1]
            ELSE RemapTask(s, i) = i
<1>1. Len(sources[s].tasks) \in Nat
  <2>1. sources[s].tasks \in Seq(Range(sources[s].tasks))
    BY MergeAssumption DEF TypeInv
  <2> QED BY <2>1, LenProperties
<1>2. CASE ~ (i \in 0 .. Len(sources[s].tasks) - 1)
  <2>1. ~ (i >= 0 /\ i < Len(sources[s].tasks))
    BY <1>1, <1>2
  <2> QED BY <1>2, <2>1 DEF RemapTask
<1>3. CASE i \in 0 .. Len(sources[s].tasks) - 1
  <2> DEFINE x == sources[s].tasks[i + 1]
  <2>1. i >= 0 /\ i < Len(sources[s].tasks) /\ i + 1 \in 1 .. Len(sources[s].tasks)
    BY <1>1, <1>3
  <2>2. PICK k \in 1 .. Len(GlobalTasks) : GlobalTasks[k] = x
    BY <2>1, TasksAre DEF Holds
  <2>3. k - 1 \in 0 .. Len(GlobalTasks) - 1 /\ (k - 1) + 1 = k
    BY TasksAre
  <2>4. IndexOf(x) \in 0 .. Len(GlobalTasks) - 1 /\ GlobalTasks[IndexOf(x) + 1] = x
    <3>1. \E j \in 0 .. Len(GlobalTasks) - 1 : GlobalTasks[j + 1] = x
      BY <2>2, <2>3
    <3> HIDE DEF x
    <3> QED BY <3>1 DEF IndexOf
  <2>5. RemapTask(s, i) = IndexOf(x)
    BY <2>1 DEF RemapTask
  <2>6. 0 .. Len(GlobalTasks) - 1 \subseteq Int
    BY TasksAre
  <2> QED BY <1>3, <2>4, <2>5, <2>6
<1> QED BY <1>2, <1>3

(* the column of an episode, and what remap_task_column makes of it *)
OldTasks(k) == sources[Listed[k][1]].episodes[Listed[k][2]].task_index
Remapped(s, column) == [row \in DOMAIN column |-> RemapTask(s, column[row])]

LEMMA RemappedType ==
  ASSUME TypeInv, Sources >= 2, NEW s \in Slot, NEW column \in Seq(Int)
  PROVE  /\ Remapped(s, column) \in Seq(Int) /\ Len(Remapped(s, column)) = Len(column)
         /\ DOMAIN column = 1 .. Len(column) /\ Len(column) \in Nat
         /\ \A row \in 1 .. Len(column) :
              column[row] \in Int /\ Remapped(s, column)[row] = RemapTask(s, column[row])
<1>1. /\ Len(column) \in Nat /\ DOMAIN column = 1 .. Len(column)
      /\ \A row \in 1 .. Len(column) : column[row] \in Int
  BY LenProperties, ElementOfSeq
<1>2. Remapped(s, column) = [row \in 1 .. Len(column) |-> RemapTask(s, column[row])]
  BY <1>1 DEF Remapped
<1>3. \A row \in 1 .. Len(column) : RemapTask(s, column[row]) \in Int
  BY <1>1, TaskOf
<1>4. Remapped(s, column) \in [1 .. Len(column) -> Int]
  BY <1>2, <1>3
<1>5. Remapped(s, column) \in Seq(Int) /\ Len(Remapped(s, column)) = Len(column)
  <2>1. Remapped(s, column) \in Seq(Int)
    BY <1>1, <1>4, SeqDef
  <2> QED BY <1>1, <1>4, <2>1, LenProperties
<1> QED BY <1>1, <1>2, <1>5

(* A data file is that of its place, typed, and so never torn. *)
LEMMA DataFileIs ==
  ASSUME TypeInv, Sources >= 2, NEW k \in 1 .. Len(Listed)
  PROVE  /\ DataFile(k) # Torn
         /\ DataFile(k).origin = Recorded[k].origin
         /\ DataFile(k).rows = Recorded[k].length
         /\ DataFile(k).rows \in Nat
         /\ DataFile(k).episode_index = k - 1
         /\ DataFile(k).index = FramesUpTo(k - 1)
         /\ DataFile(k).task_index = Remapped(Listed[k][1], OldTasks(k))
         /\ Recorded[k].task_index = OldTasks(k)
         /\ Recorded[k].task = TextsOf(sources[Listed[k][1]], OldTasks(k))
         /\ OldTasks(k) \in Seq(Int) /\ Len(OldTasks(k)) = Recorded[k].length
         /\ Listed[k][1] \in Slot
         /\ Mappings[k].source = Listed[k][1] /\ Episode(Mappings[k]).task_index = OldTasks(k)
         /\ Mappings[k].frame_count = Recorded[k].length
         /\ Origin(Mappings[k]) = Recorded[k].origin
<1> DEFINE p == Listed[k]
           m == Mappings[k]
           e == sources[p[1]].episodes[p[2]]
<1>1. p \in Places /\ Len(Listed) \in Nat /\ DOMAIN Listed = 1 .. Len(Listed)
  BY ListedType, ElementOfSeq
<1>2. p[1] \in Slot /\ p[2] \in Nat /\ p[2] \in 1 .. Len(sources[p[1]].episodes)
  BY SMTT(30), <1>1, SourceType DEF Places
<1>3. /\ e.length \in Nat /\ e.task_index \in Seq(Int) /\ Len(e.task_index) = e.length
      /\ e.task_index = OldTasks(k)
  BY <1>2, SourceType DEF OldTasks
<1>4. /\ m.source = p[1] /\ m.old = p[2] - 1 /\ m.frame_count = e.length
      /\ m.global_frame_offset = FramesUpTo(k - 1)
  BY <1>1 DEF Mappings, Mapping
<1>5. Episode(m) = e /\ Origin(m) = <<p[1], sources[p[1]].name, p[2] - 1>>
  BY SMTT(30), <1>2, <1>4 DEF Episode, Origin
<1>6. /\ Recorded[k].origin = Origin(m) /\ Recorded[k].length = e.length
      /\ Recorded[k].task_index = e.task_index
      /\ Recorded[k].task = TextsOf(sources[p[1]], e.task_index)
  <2>1. Recorded[k] = RecordOf(p)
    BY RecordedIsListed
  <2>2. /\ RecordOf(p).origin = <<p[1], sources[p[1]].name, p[2] - 1>> /\ RecordOf(p).length = e.length
        /\ RecordOf(p).task_index = e.task_index
        /\ RecordOf(p).task = TextsOf(sources[p[1]], e.task_index)
    BY DEF RecordOf
  <2> HIDE DEF p, e, m
  <2> QED BY <1>5, <2>1, <2>2
<1>7. /\ DataFile(k).origin = Origin(m)
      /\ DataFile(k).rows = e.length
      /\ DataFile(k).episode_index = k - 1
      /\ DataFile(k).index = FramesUpTo(k - 1)
      /\ DataFile(k).task_index = Remapped(p[1], e.task_index)
  BY <1>4, <1>5 DEF DataFile, Remapped
<1>8. DataFile(k) # Torn
  <2>1. Origin(m) \in Slot \X {d.name : d \in Shelf} \X Nat
    <3>1. sources[p[1]].name \in {d.name : d \in Shelf}
      BY <1>2, SourceType
    <3>2. p[2] - 1 \in Nat
      BY <1>2
    <3> QED BY <1>2, <1>5, <3>1, <3>2
  <2>2. FramesUpTo(k - 1) \in Nat
    BY Offsets
  <2>3. Remapped(p[1], e.task_index) \in Seq(Int)
    BY <1>2, <1>3, RemappedType
  <2>4. DataFile(k) = [origin |-> Origin(m), rows |-> e.length, episode_index |-> k - 1,
                       index |-> FramesUpTo(k - 1),
                       task_index |-> Remapped(p[1], e.task_index)]
    BY <1>4, <1>5 DEF DataFile, Remapped
  <2>5. k - 1 \in Nat
    BY <1>1
  <2>6. DataFile(k) \in [origin : Slot \X {d.name : d \in Shelf} \X Nat, rows : Nat,
                         episode_index : Nat, index : Nat, task_index : Seq(Int)]
    <3> HIDE DEF e, m, p
    <3> QED BY <1>3, <2>1, <2>2, <2>3, <2>4, <2>5
  <2> QED BY <2>6, MergeAssumption
<1> HIDE DEF e
<1>9. /\ DataFile(k).task_index = Remapped(p[1], OldTasks(k))
      /\ Recorded[k].task_index = OldTasks(k) /\ Recorded[k].task = TextsOf(sources[p[1]], OldTasks(k))
      /\ OldTasks(k) \in Seq(Int) /\ Len(OldTasks(k)) = Recorded[k].length
      /\ Episode(m).task_index = OldTasks(k)
  BY <1>3, <1>5, <1>6, <1>7
<1> HIDE DEF p, m
<1>10. /\ DataFile(k).rows \in Nat /\ DataFile(k).rows = Recorded[k].length
       /\ m.frame_count = Recorded[k].length
  BY <1>3, <1>4, <1>6, <1>7
<1> QED BY <1>2, <1>4, <1>6, <1>7, <1>8, <1>9, <1>10 DEF p, m

(* The file a reader looks for is the one the merge wrote. *)
LEMMA FileIs ==
  ASSUME TypeInv, Sources >= 2, DataDone(Len(Listed)),
         out.info.chunks_size = chunks_size, NEW k \in 0 .. Len(Listed) - 1
  PROVE  /\ k + 1 \in 1 .. Len(Listed)
         /\ FileOf(k) \in DOMAIN out.data
         /\ out.data[FileOf(k)] = DataFile(k + 1)
<1>1. Len(Listed) \in Nat
  BY ListedType
<1>2. k + 1 \in 1 .. Len(Listed) /\ (k + 1) - 1 = k
  BY <1>1
<1>3. FileOf(k) = Path(k + 1)
  BY <1>2 DEF FileOf, Path
<1> QED BY <1>2, <1>3 DEF DataDone

LEMMA WholeIsRecorded ==
  ASSUME TypeInv, Sources >= 2, DataDone(Len(Listed)), out.episodes = EpisodesFile,
         out.info.total_episodes = Len(Listed), out.info.chunks_size = chunks_size
  PROVE  EpisodesAreTheRecorded
<1>1. Len(Recorded) = Len(Listed) /\ Len(Listed) \in Nat
  BY RecordedIsListed, ListedType
<1>2. ASSUME NEW k \in 0 .. Len(Listed) - 1
      PROVE  /\ FileOf(k) \in DOMAIN out.data
             /\ out.data[FileOf(k)] # Torn
             /\ out.data[FileOf(k)].origin = Recorded[k + 1].origin
             /\ out.data[FileOf(k)].episode_index = k
             /\ out.data[FileOf(k)].rows = Recorded[k + 1].length
             /\ out.episodes[k + 1] = [origin |-> Recorded[k + 1].origin, episode_index |-> k,
                                       length |-> Recorded[k + 1].length]
  <2>1. /\ k + 1 \in 1 .. Len(Listed) /\ (k + 1) - 1 = k
        /\ FileOf(k) \in DOMAIN out.data
        /\ out.data[FileOf(k)] = DataFile(k + 1)
    BY FileIs
  <2>2. /\ DataFile(k + 1) # Torn
        /\ DataFile(k + 1).origin = Recorded[k + 1].origin
        /\ DataFile(k + 1).rows = Recorded[k + 1].length
        /\ DataFile(k + 1).episode_index = k
        /\ Mappings[k + 1].frame_count = Recorded[k + 1].length
        /\ Origin(Mappings[k + 1]) = Recorded[k + 1].origin
    BY <2>1, DataFileIs
  <2>3. k + 1 \in DOMAIN Mappings
    BY <2>1, ListedType
  <2>4. out.episodes[k + 1] = [origin |-> Origin(Mappings[k + 1]), episode_index |-> (k + 1) - 1,
                               length |-> Mappings[k + 1].frame_count]
    BY <2>3 DEF EpisodesFile
  <2> QED BY <2>1, <2>2, <2>4
<1>3. ASSUME NEW k \in 0 .. Len(Listed) - 1
      PROVE  out.data[FileOf(k)].index =
               IF k = 0 THEN 0 ELSE out.data[FileOf(k - 1)].index + out.data[FileOf(k - 1)].rows
  <2>1. k + 1 \in 1 .. Len(Listed) /\ (k + 1) - 1 = k /\ out.data[FileOf(k)] = DataFile(k + 1)
    BY FileIs
  <2>2. DataFile(k + 1).index = FramesUpTo(k)
    BY <2>1, DataFileIs
  <2>3. CASE k = 0
    BY SMTT(30), <2>1, <2>2, <2>3, Offsets
  <2>4. CASE k # 0
    <3>1. k - 1 \in 0 .. Len(Listed) - 1 /\ (k - 1) + 1 = k /\ k \in 1 .. Len(Listed)
      BY <1>1, <2>4
    <3>2. out.data[FileOf(k - 1)] = DataFile(k)
      BY <3>1, FileIs
    <3>3. /\ DataFile(k).index = FramesUpTo(k - 1)
          /\ DataFile(k).rows = Recorded[k].length
      BY <3>1, DataFileIs
    <3>4. Recorded[k].length = sources[Listed[k][1]].episodes[Listed[k][2]].length
      <4>1. Recorded[k] = RecordOf(Listed[k])
        BY <3>1, RecordedIsListed
      <4>2. \A p : RecordOf(p).length = sources[p[1]].episodes[p[2]].length
        BY DEF RecordOf
      <4> QED BY <4>1, <4>2
    <3>5. FramesUpTo(k) = FramesUpTo(k - 1)
                          + sources[Listed[k][1]].episodes[Listed[k][2]].length
      BY <3>1, Offsets
    <3> QED BY <2>1, <2>2, <2>4, <3>2, <3>3, <3>4, <3>5
  <2> QED BY <2>3, <2>4
<1> QED BY <1>1, <1>2, <1>3 DEF EpisodesAreTheRecorded

(* A merge that succeeds gives a whole dataset, every recorded episode once,
   in order and with an index column without gaps, whatever an earlier merge
   left in the output directory.                                            *)
THEOREM SuccessWhole == Spec => []SuccessIsWhole
<1>1. IInv => SuccessIsWhole
  BY WholeIsRecorded DEF IInv, WholeInv, SuccessIsWhole
<1> QED BY <1>1, Invariant, PTL

(* In a directory where no earlier merge left an info.json, an info.json that
   can be read is the last thing a whole dataset got: a merge that fails or
   is cut off at any file leaves nothing that passes for a dataset.          *)
THEOREM CommittedWhole == Spec => []CommittedIsWhole
<1>1. IInv => CommittedIsWhole
  <2> SUFFICES ASSUME IInv, Committed, ~ over PROVE EpisodesAreTheRecorded
    BY DEF CommittedIsWhole
  <2>1. result = "ok"
    BY DEF IInv, FreshInv, Committed
  <2> QED BY <2>1, WholeIsRecorded DEF IInv, WholeInv
<1> QED BY <1>1, Invariant, PTL

(* After a merge that succeeds the text that tasks.jsonl has for the task
   index of a frame is the text its own dataset had for the old one, however
   the datasets number and share their tasks and however many an episode
   has, and an index that no task of its dataset had stays what it was; each
   text is listed once.                                                      *)
THEOREM TasksKept == Spec => []TaskKept
<1>1. IInv => TaskKept
  <2> SUFFICES ASSUME IInv, result = "ok" PROVE TaskKept
    BY DEF TaskKept
  <2>1. /\ TypeInv /\ Sources >= 2 /\ DataDone(Len(Listed))
        /\ out.tasks = GlobalTasks /\ out.info.chunks_size = chunks_size
    BY DEF IInv, WholeInv
  <2>2. IsInjective(out.tasks)
    BY <2>1, TasksAre
  <2>3. Len(Recorded) = Len(Listed)
    BY <2>1, RecordedIsListed
  <2>4. ASSUME NEW k \in 0 .. Len(Listed) - 1
        PROVE  LET was == Recorded[k + 1]
                   new == out.data[FileOf(k)].task_index
               IN  /\ Len(new) = was.length
                   /\ \A row \in 1 .. was.length :
                        IF was.task[row] = None THEN new[row] = was.task_index[row]
                        ELSE /\ new[row] \in 0 .. Len(out.tasks) - 1
                             /\ out.tasks[new[row] + 1] = was.task[row]
    <3> DEFINE s == Listed[k + 1][1]
               tasks == sources[s].tasks
               old == OldTasks(k + 1)
               new == out.data[FileOf(k)].task_index
               was == Recorded[k + 1]
    <3>1. k + 1 \in 1 .. Len(Listed) /\ out.data[FileOf(k)] = DataFile(k + 1)
      BY <2>1, FileIs
    <3>2. /\ s \in Slot /\ new = Remapped(s, old) /\ old \in Seq(Int) /\ Len(old) = was.length
          /\ was.task_index = old /\ was.task = TextsOf(sources[s], old)
      BY <2>1, <3>1, DataFileIs
    <3> HIDE DEF new, was, old, s
    <3>3. /\ Len(new) = was.length /\ DOMAIN old = 1 .. was.length
          /\ \A row \in 1 .. was.length : old[row] \in Int /\ new[row] = RemapTask(s, old[row])
      BY <2>1, <3>2, RemappedType
    <3>4. ASSUME NEW row \in 1 .. was.length
          PROVE  IF was.task[row] = None THEN new[row] = was.task_index[row]
                 ELSE new[row] \in 0 .. Len(out.tasks) - 1 /\ out.tasks[new[row] + 1] = was.task[row]
      <4> DEFINE i == old[row]
      <4>1. i \in Int /\ new[row] = RemapTask(s, i) /\ was.task_index[row] = i
        BY <3>2, <3>3
      <4>2. was.task[row] = IF i \in 0 .. Len(tasks) - 1 THEN tasks[i + 1] ELSE None
        BY <3>2, <3>3 DEF TextsOf
      <4> HIDE DEF i
      <4>3. IF i \in 0 .. Len(tasks) - 1
            THEN new[row] \in 0 .. Len(GlobalTasks) - 1 /\ GlobalTasks[new[row] + 1] = tasks[i + 1]
            ELSE new[row] = i
        BY <2>1, <3>2, <4>1, TaskOf
      <4>4. ASSUME i \in 0 .. Len(tasks) - 1 PROVE tasks[i + 1] # None
        <5>1. tasks \in Seq(Range(tasks)) /\ None \notin Range(tasks)
          BY <2>1, <3>2, SourceType, MergeAssumption
        <5>2. Len(tasks) \in Nat /\ DOMAIN tasks = 1 .. Len(tasks)
          <6> HIDE DEF tasks
          <6> QED BY <5>1, LenProperties
        <5>3. i + 1 \in DOMAIN tasks
          <6> HIDE DEF tasks
          <6> QED BY <4>4, <5>2
        <5> QED BY <5>1, <5>3 DEF Range
      <4> HIDE DEF tasks
      <4> QED BY <2>1, <4>1, <4>2, <4>3, <4>4
    <3> QED BY <3>3, <3>4 DEF new, was
  <2> QED BY <2>2, <2>3, <2>4 DEF TaskKept
<1> QED BY <1>1, Invariant, PTL

-----------------------------------------------------------------------------
(* Statistics *)

(* A column that is not empty has a smallest and a largest value. *)
LEMMA BoundsOf ==
  ASSUME NEW column \in Seq(Int), column # <<>>
  PROVE  /\ Min(Range(column)) \in Range(column) /\ Max(Range(column)) \in Range(column)
         /\ \A x \in Range(column) : Min(Range(column)) <= x /\ x <= Max(Range(column))
<1> DEFINE n == Len(column)
           Lowest(i, j) == \A k \in 1 .. i : column[j] <= column[k]
           Highest(i, j) == \A k \in 1 .. i : column[k] <= column[j]
           M == {i \in 1 .. n : (\E j \in 1 .. i : Lowest(i, j)) /\ (\E j \in 1 .. i : Highest(i, j))}
<1>1. /\ n \in Nat \ {0} /\ DOMAIN column = 1 .. n
      /\ \A k \in 1 .. n : column[k] \in Int
  BY LenProperties, ElementOfSeq, EmptySeq
<1> HIDE DEF n
<1>2. 1 \in M
  BY <1>1
<1>3. ASSUME NEW i \in 1 .. n - 1, i \in M PROVE i + 1 \in M
  <2>1. /\ i + 1 \in 1 .. n /\ i + 1 \in 1 .. i + 1 /\ 1 .. i \subseteq 1 .. n
        /\ \A k \in 1 .. i + 1 : k \in 1 .. i \/ k = i + 1
    BY <1>1
  <2>2. PICK j \in 1 .. i : Lowest(i, j)
    BY <1>3
  <2>3. PICK h \in 1 .. i : Highest(i, h)
    BY <1>3
  <2>4. column[i + 1] \in Int /\ column[j] \in Int /\ column[h] \in Int
    BY <1>1, <2>1
  <2>5. \A k \in 1 .. i : column[k] \in Int
    BY <1>1, <2>1
  <2>6. \E l \in 1 .. i + 1 : Lowest(i + 1, l)
    <3>1. CASE column[j] <= column[i + 1]
      <4>1. j \in 1 .. i + 1 /\ Lowest(i + 1, j)
        BY <2>1, <2>2, <3>1
      <4> QED BY <4>1
    <3>2. CASE ~ (column[j] <= column[i + 1])
      <4>1. ASSUME NEW k \in 1 .. i + 1 PROVE column[i + 1] <= column[k]
        <5>1. CASE k = i + 1
          BY <2>4, <5>1
        <5>2. CASE k \in 1 .. i
          <6>1. column[j] <= column[k] /\ column[k] \in Int
            BY <2>2, <2>5, <5>2
          <6> QED BY <2>4, <3>2, <6>1
        <5> QED BY <2>1, <4>1, <5>1, <5>2
      <4>2. Lowest(i + 1, i + 1)
        BY <4>1
      <4> QED BY <2>1, <4>2
    <3> QED BY <3>1, <3>2
  <2>7. \E l \in 1 .. i + 1 : Highest(i + 1, l)
    <3>1. CASE column[i + 1] <= column[h]
      <4>1. h \in 1 .. i + 1 /\ Highest(i + 1, h)
        BY <2>1, <2>3, <3>1
      <4> QED BY <4>1
    <3>2. CASE ~ (column[i + 1] <= column[h])
      <4>1. ASSUME NEW k \in 1 .. i + 1 PROVE column[k] <= column[i + 1]
        <5>1. CASE k = i + 1
          BY <2>4, <5>1
        <5>2. CASE k \in 1 .. i
          <6>1. column[k] <= column[h] /\ column[k] \in Int
            BY <2>3, <2>5, <5>2
          <6> QED BY <2>4, <3>2, <6>1
        <5> QED BY <2>1, <4>1, <5>1, <5>2
      <4>2. Highest(i + 1, i + 1)
        BY <4>1
      <4> QED BY <2>1, <4>2
    <3> QED BY <3>1, <3>2
  <2> QED BY <2>1, <2>6, <2>7
<1>4. n \in M
  <2>1. \A i \in 1 .. n : i \in M
    <3> HIDE DEF M
    <3> QED BY <1>1, <1>2, <1>3, From1
  <2> HIDE DEF M
  <2> QED BY <1>1, <2>1
<1>5. PICK j \in 1 .. n : Lowest(n, j)
  BY <1>4
<1>6. PICK h \in 1 .. n : Highest(n, h)
  BY <1>4
<1>7. Range(column) = {column[k] : k \in 1 .. n}
  BY <1>1 DEF Range
<1>8. \E x \in Range(column) : \A y \in Range(column) : x <= y
  BY <1>5, <1>7
<1>9. \E x \in Range(column) : \A y \in Range(column) : x >= y
  BY <1>1, <1>6, <1>7
<1>10. /\ Min(Range(column)) \in Range(column)
       /\ \A y \in Range(column) : Min(Range(column)) <= y
  BY <1>8 DEF Min
<1>11. /\ Max(Range(column)) \in Range(column)
       /\ \A y \in Range(column) : Max(Range(column)) >= y
  BY <1>9 DEF Max
<1>12. Range(column) \subseteq Int
  BY <1>1, <1>7
<1> QED BY <1>10, <1>11, <1>12

(* Statistics remapped without the rows are those of the remapped rows, where
   the rows have one task, and those of the old rows where they have several. *)
LEMMA StatIs ==
  ASSUME TypeInv, Sources >= 2, NEW s \in Slot, NEW column \in Seq(Int)
  PROVE  RemapStat(s, StatOf(column)) =
           StatOf(IF IsConstant(column) THEN Remapped(s, column) ELSE column)
<1>1. /\ Len(column) \in Nat /\ DOMAIN column = 1 .. Len(column)
      /\ \A row \in 1 .. Len(column) : column[row] \in Int
      /\ Remapped(s, column) \in Seq(Int) /\ Len(Remapped(s, column)) = Len(column)
      /\ \A row \in 1 .. Len(column) : Remapped(s, column)[row] = RemapTask(s, column[row])
  BY RemappedType
<1>2. CASE column = <<>>
  <2>1. Remapped(s, column) = <<>>
    BY <1>1, <1>2, EmptySeq
  <2> QED BY <1>2, <2>1 DEF RemapStat, StatOf
<1>3. CASE column # <<>>
  <2> DEFINE lo == Min(Range(column))
             hi == Max(Range(column))
  <2>1. /\ lo \in Range(column) /\ hi \in Range(column)
        /\ \A x \in Range(column) : lo <= x /\ x <= hi
    BY <1>3, BoundsOf
  <2>2. StatOf(column) = [min |-> lo, max |-> hi]
    BY <1>3 DEF StatOf
  <2>3. Range(column) \subseteq Int /\ \A row \in 1 .. Len(column) : column[row] \in Range(column)
    BY <1>1 DEF Range
  <2> HIDE DEF lo, hi
  <2>4. lo \in Int /\ hi \in Int
    BY <2>1, <2>3
  <2>5. StatOf(column) # None
    <3>1. StatOf(column) \in [min : Int, max : Int]
      BY <2>2, <2>4
    <3> QED BY <3>1, MergeAssumption
  <2>6. CASE IsConstant(column)
    <3>1. lo = hi
      <4>1. \E i, j \in 1 .. Len(column) : column[i] = lo /\ column[j] = hi
        BY <1>1, <2>1 DEF Range
      <4> QED BY <1>1, <2>6, <4>1 DEF IsConstant
    <3>2. \A row \in 1 .. Len(column) : column[row] = lo
      BY <2>1, <2>3, <2>4, <3>1
    <3> DEFINE new == Remapped(s, column)
               v == RemapTask(s, lo)
    <3>3. new # <<>> /\ DOMAIN new = 1 .. Len(column) /\ Len(column) # 0
      BY <1>1, <1>3, LenProperties, EmptySeq
    <3>4. Range(new) = {v}
      <4>1. \A row \in 1 .. Len(column) : new[row] = v
        BY <1>1, <3>2
      <4>2. 1 \in 1 .. Len(column)
        BY <1>1, <3>3
      <4> HIDE DEF new, v
      <4> QED BY <3>3, <4>1, <4>2 DEF Range
    <3>5. v \in Int
      BY <2>4, TaskOf
    <3>6. Min({v}) = v /\ Max({v}) = v
      <4> HIDE DEF v
      <4>1. \A y \in {v} : v <= y /\ v >= y
        BY <3>5
      <4> QED BY <4>1 DEF Min, Max
    <3>7. StatOf(new) = [min |-> v, max |-> v]
      <4> HIDE DEF new, v
      <4> QED BY <3>3, <3>4, <3>6 DEF StatOf
    <3>8. RemapStat(s, StatOf(column)) = [min |-> v, max |-> v]
      BY <2>2, <2>5, <3>1 DEF RemapStat
    <3> HIDE DEF new, v
    <3> QED BY <2>6, <3>7, <3>8 DEF new
  <2>7. CASE ~ IsConstant(column)
    <3>1. PICK i, j \in 1 .. Len(column) : column[i] # column[j]
      BY <1>1, <2>7 DEF IsConstant
    <3>2. lo # hi
      <4>1. /\ lo <= column[i] /\ column[i] <= hi /\ lo <= column[j] /\ column[j] <= hi
            /\ column[i] \in Int /\ column[j] \in Int
        BY <1>1, <2>1, <2>3
      <4> QED BY <2>4, <3>1, <4>1
    <3>3. RemapStat(s, StatOf(column)) = StatOf(column)
      BY <2>2, <3>2 DEF RemapStat
    <3> QED BY <2>7, <3>3
  <2> QED BY <2>6, <2>7
<1> QED BY <1>2, <1>3

(* After a merge that succeeds each entry of episodes_stats.jsonl, computed
   apart from the parquet file it is about, has that file's own bounds of
   the index column, and of the task column where its rows have one task.
   Where they have several it has the bounds they had in their source.       *)
THEOREM StatsDescribe == Spec => []StatsDescribeRows
<1>1. IInv => StatsDescribeRows
  <2> SUFFICES ASSUME IInv, result = "ok", NEW i \in DOMAIN out.stats
               PROVE  LET k == out.stats[i].episode_index
                          file == out.data[FileOf(k)]
                          was == Recorded[k + 1].task_index
                      IN  /\ file.rows > 0 => /\ out.stats[i].min = file.index
                                             /\ out.stats[i].max = file.index + (file.rows - 1)
                          /\ out.stats[i].task_index =
                               StatOf(IF IsConstant(was) THEN file.task_index ELSE was)
    BY DEF StatsDescribeRows
  <2>1. /\ TypeInv /\ Sources >= 2 /\ DataDone(Len(Listed))
        /\ out.stats = StatsFile /\ out.info.chunks_size = chunks_size
    BY DEF IInv, WholeInv
  <2>2. i \in 1 .. Len(Listed) /\ out.stats[i] = StatsEntry(i)
    BY <2>1, ListedType DEF StatsFile
  <2>3. /\ StatsEntry(i).episode_index = i - 1
        /\ StatsEntry(i).min = Mappings[i].global_frame_offset
        /\ StatsEntry(i).max = Mappings[i].global_frame_offset
                               + (IF Mappings[i].frame_count = 0 THEN 0
                                  ELSE Mappings[i].frame_count - 1)
        /\ StatsEntry(i).task_index =
             RemapStat(Mappings[i].source, StatOf(Episode(Mappings[i]).task_index))
    BY DEF StatsEntry
  <2>4. i - 1 \in 0 .. Len(Listed) - 1 /\ (i - 1) + 1 = i
    BY <2>1, <2>2, ListedType
  <2>5. out.data[FileOf(i - 1)] = DataFile(i)
    BY <2>1, <2>4, FileIs
  <2>6. /\ DataFile(i).rows = Mappings[i].frame_count
        /\ DataFile(i).rows \in Nat
        /\ DataFile(i).task_index = Remapped(Listed[i][1], OldTasks(i))
        /\ Recorded[i].task_index = OldTasks(i) /\ OldTasks(i) \in Seq(Int)
        /\ Listed[i][1] \in Slot
        /\ Mappings[i].source = Listed[i][1] /\ Episode(Mappings[i]).task_index = OldTasks(i)
    BY <2>1, <2>2, DataFileIs
  <2>7. DataFile(i).index = Mappings[i].global_frame_offset
    BY DEF DataFile
  <2>8. StatsEntry(i).task_index =
          StatOf(IF IsConstant(OldTasks(i)) THEN DataFile(i).task_index ELSE OldTasks(i))
    BY <2>1, <2>3, <2>6, StatIs
  <2>9. out.stats[i].episode_index = i - 1 /\ Recorded[(i - 1) + 1] = Recorded[i]
    BY <2>2, <2>3, <2>4
  <2> QED BY <2>2, <2>3, <2>5, <2>6, <2>7, <2>8, <2>9
<1> QED BY <1>1, Invariant, PTL
=============================================================================
