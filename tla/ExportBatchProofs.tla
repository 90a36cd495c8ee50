-------------------------- MODULE ExportBatchProofs --------------------------
(***************************************************************************)
(* The safety of `rebake export` for every number of bags, every --jobs    *)
(* value, every choice of uuids, and wherever an export fails.             *)
(***************************************************************************)
EXTENDS ExportBatch, FiniteSetTheorems, TLAPS

(* The parent's part of TypeOK. *)
Typed ==
  /\ jobs \in Nat /\ jobs <= MaxJobs
  /\ pc \in {"run", "sequential", "single", "spawn", "poll", "returned"}
  /\ next \in 1 .. N + 1
  /\ running \subseteq Input /\ unpolled \subseteq Input
  /\ failed \subseteq Input /\ lost \subseteq Input
  /\ result \in {"none", "ok", "failed", "not_started"}
  /\ job \in [Input -> {"idle", "succeeded", "failed"} \cup Step]

(* A bag is held or failed, never both, once taken. *)
Places ==
  /\ \A i \in running : i < next /\ i \notin failed
  /\ \A i \in failed : i < next
  /\ lost \subseteq failed
  /\ unpolled \subseteq running
  /\ pc # "poll" => unpolled = {}

(* What the parent's bookkeeping says of the work itself. *)
Work ==
  /\ \A i \in Input : i >= next => job[i] = "idle"
  /\ \A i \in Input : i < next => i \in running \cup failed \/ job[i] = "succeeded"
  /\ \A i \in Input : Alive(i) => i \in running \cup lost

(* What is settled at each point of control. *)
AtControl ==
  /\ pc = "run" => next = 1 /\ failed = {}
  /\ pc \in {"run", "sequential", "returned"} => running = {}
  /\ pc = "single" => \E i \in Input : running = {i}
  /\ pc = "returned" <=> result # "none"
  /\ result \in {"ok", "failed"} => next = N + 1 /\ (result = "ok" <=> failed = {})
  /\ result = "not_started" => next = 1

Bounded == IsFiniteSet(running) /\ Cardinality(running) <= Parallelism

Done == {i \in Input : i < next /\ i \notin running /\ i \notin failed}

Counted == IsFiniteSet(Done) /\ success_count = Cardinality(Done)

IInv == Typed /\ Places /\ Work /\ AtControl /\ Bounded /\ Counted

-----------------------------------------------------------------------------
LEMMA PendingCases ==
  ASSUME Typed
  PROVE  /\ next \in Nat
         /\ pending = {} <=> next = N + 1
         /\ pending # {} <=> next \in Input
         /\ \A i \in Input : i \in pending <=> i >= next
<1> USE ExportAssumption DEF Typed, pending, Input
<1>1. next \in Input => next \in pending
  OBVIOUS
<1>2. pending = {} <=> next = N + 1
  BY <1>1
<1>3. next \in Nat /\ (next \in Input <=> next # N + 1)
  OBVIOUS
<1>4. \A i \in Input : i \in pending <=> i >= next
  OBVIOUS
<1>5. QED
  BY <1>1, <1>2, <1>3, <1>4

LEMMA ParallelismType ==
  ASSUME jobs \in Nat, jobs <= MaxJobs
  PROVE  Parallelism \in Nat \ {0} /\ Parallelism <= MaxJobs
BY ExportAssumption DEF Parallelism

LEMMA InputFinite == IsFiniteSet(Input) /\ Cardinality(Input) = N
BY ExportAssumption, FS_Interval DEF Input

LEMMA InitInv == Init => IInv
<1> SUFFICES ASSUME Init PROVE IInv
  OBVIOUS
<1> USE ExportAssumption DEF Init
<1>1. Typed
  BY DEF Typed, Step, Input
<1>2. Places /\ AtControl
  BY DEF Places, AtControl
<1>3. Work
  BY DEF Work, Alive, Step, File, Input
<1>4. Bounded
  BY FS_EmptySet, ParallelismType DEF Bounded
<1>5. Done = {}
  BY DEF Done, Input
<1>6. Counted
  BY <1>5, FS_EmptySet DEF Counted
<1>7. QED
  BY <1>1, <1>2, <1>3, <1>4, <1>6 DEF IInv

-----------------------------------------------------------------------------
(* The parent's steps *)

LEMMA MoveOnInv == IInv /\ (RunExport \/ SpawnEnd \/ PollEnd) => IInv'
<1> SUFFICES ASSUME IInv, RunExport \/ SpawnEnd \/ PollEnd PROVE IInv'
  OBVIOUS
<1> USE PendingCases DEF IInv, RunExport, SpawnEnd, PollEnd, export
<1>1. Typed'
  BY DEF Typed, Verdict
<1>2. Places'
  BY DEF Places
<1>3. Work'
  BY DEF Work, Alive
<1>4. AtControl'
  BY DEF AtControl, Verdict
<1>5. Bounded'
  BY DEF Bounded, Parallelism
<1>6. Counted'
  BY DEF Counted, Done
<1>7. QED
  BY <1>1, <1>2, <1>3, <1>4, <1>5, <1>6

(* The next bag is given to this process, or to a child. *)
LEMMA TakeInv ==
  ASSUME IInv, next \in Input, next' = next + 1,
         running' = running \cup {next}, Cardinality(running) < Parallelism,
         job' = [job EXCEPT ![next] = "ingest"],
         \/ pc = "spawn" /\ pc' = "spawn"
         \/ pc = "sequential" /\ pc' = "single" /\ running = {},
         UNCHANGED <<jobs, unpolled, success_count, failed, lost, result>>
  PROVE  IInv'
<1> USE ExportAssumption DEF IInv
<1>1. next \in Nat
  BY PendingCases
<1>2. Typed'
  BY <1>1 DEF Typed, Input, Step
<1>3. Places'
  BY <1>1 DEF Places, Typed
<1>4. Work'
  BY <1>1 DEF Work, Places, Typed, Input, Alive
<1>5. AtControl'
  BY <1>1 DEF AtControl, Typed
<1>6. next \notin running
  BY <1>1 DEF Places
<1>7. /\ IsFiniteSet(running \cup {next})
      /\ Cardinality(running \cup {next}) = Cardinality(running) + 1
  BY <1>6, FS_AddElement DEF Bounded
<1>8. Cardinality(running) \in Nat /\ Parallelism \in Nat /\ Parallelism' = Parallelism
  BY FS_CardinalityType, ParallelismType DEF Bounded, Typed, Parallelism
<1>9. Bounded'
  BY <1>7, <1>8 DEF Bounded
<1>10. Done' = Done
  BY <1>1 DEF Done, Input
<1>11. Counted'
  BY <1>10 DEF Counted
<1>12. QED
  BY <1>2, <1>3, <1>4, <1>5, <1>9, <1>11

LEMMA NextBagInv == IInv /\ NextBag => IInv'
<1> SUFFICES ASSUME IInv, NextBag PROVE IInv'
  OBVIOUS
<1>1. pc = "sequential" /\ running = {}
  BY DEF NextBag, IInv, AtControl
<1>2. CASE pending = {}
  <2> USE <1>1, <1>2, PendingCases DEF IInv, NextBag
  <2>1. Typed'
    BY DEF Typed, Verdict
  <2>2. Places' /\ Work'
    BY DEF Places, Work, Alive
  <2>3. AtControl'
    BY DEF AtControl, Verdict
  <2>4. Bounded'
    BY DEF Bounded, Parallelism
  <2>5. Counted'
    BY DEF Counted, Done
  <2>6. QED
    BY <2>1, <2>2, <2>3, <2>4, <2>5
<1>3. CASE pending # {}
  <2>1. Cardinality(running) < Parallelism
    BY <1>1, FS_EmptySet, ParallelismType DEF IInv, Typed
  <2>2. next \in Input
    BY <1>3, PendingCases DEF IInv
  <2>3. QED
    BY <1>1, <1>3, <2>1, <2>2, TakeInv DEF NextBag
<1>4. QED
  BY <1>2, <1>3

LEMMA SpawnErrInv == IInv /\ SpawnErr => IInv'
<1> SUFFICES ASSUME IInv, SpawnErr PROVE IInv'
  OBVIOUS
<1> USE ExportAssumption DEF IInv, SpawnErr, export
<1>1. pc = "spawn" /\ next \in Input /\ next \in Nat
  BY PendingCases DEF MaySpawn
<1>2. Typed'
  BY <1>1 DEF Typed, Input
<1>3. Places'
  BY <1>1 DEF Places, Typed
<1>4. Work'
  BY <1>1 DEF Work, Places, Typed, Input, Alive
<1>5. AtControl'
  BY <1>1 DEF AtControl, Typed
<1>6. Bounded'
  BY DEF Bounded, Parallelism
<1>7. Done' = Done
  BY <1>1 DEF Done, Input
<1>8. Counted'
  BY <1>7 DEF Counted
<1>9. QED
  BY <1>2, <1>3, <1>4, <1>5, <1>6, <1>8

(* A bag that is let go is counted once, as succeeded or as failed. *)
LEMMA LetGo ==
  ASSUME IInv, NEW i \in Input, i \in running, running' = running \ {i},
         UNCHANGED <<jobs, next, job>>,
         \/ /\ job[i] = "succeeded" /\ success_count' = success_count + 1
            /\ UNCHANGED <<failed, lost>>
         \/ /\ failed' = failed \cup {i} /\ UNCHANGED success_count
            /\ \/ lost' = lost \cup {i}
               \/ job[i] = "failed" /\ UNCHANGED lost,
         unpolled' \subseteq unpolled \ {i}, pc' # "poll" => unpolled' = {}
  PROVE  Places' /\ Work' /\ Bounded' /\ Counted'
<1> USE DEF IInv
<1>0. i < next /\ i \notin failed
  BY DEF Places
<1>1. Places'
  BY DEF Places
<1>2. Work'
  BY DEF Work, Alive, Step, File
<1>3. /\ IsFiniteSet(running \ {i})
      /\ Cardinality(running \ {i}) = Cardinality(running) - 1
  BY FS_RemoveElement DEF Bounded
<1>4. Cardinality(running) \in Nat /\ Parallelism \in Nat /\ Parallelism' = Parallelism
  BY FS_CardinalityType, ParallelismType DEF Bounded, Typed, Parallelism
<1>5. Bounded'
  BY <1>3, <1>4 DEF Bounded
<1>6. ASSUME success_count' = success_count + 1, UNCHANGED failed PROVE Counted'
  <2>1. Done' = Done \cup {i} /\ i \notin Done
    BY <1>0, <1>6 DEF Done
  <2>2. QED
    BY <1>6, <2>1, FS_AddElement DEF Counted
<1>7. ASSUME failed' = failed \cup {i}, UNCHANGED success_count PROVE Counted'
  <2>1. Done' = Done
    BY <1>0, <1>7 DEF Done
  <2>2. QED
    BY <1>7, <2>1 DEF Counted
<1>8. Counted'
  BY <1>6, <1>7
<1>9. QED
  BY <1>1, <1>2, <1>5, <1>8

LEMMA SingleInv == ASSUME IInv, NEW i \in Input, SingleReturns(i) PROVE IInv'
<1> USE DEF SingleReturns, export
<1>1. PICK k \in Input : running = {k}
  BY DEF IInv, AtControl
<1>2. running' = running \ {i} /\ unpolled' = {}
  BY <1>1 DEF IInv, Places
<1>3. Places' /\ Work' /\ Bounded' /\ Counted'
  BY <1>2, LetGo
<1>4. Typed'
  BY DEF IInv, Typed
<1>5. AtControl'
  BY DEF IInv, AtControl
<1>6. QED
  BY <1>3, <1>4, <1>5 DEF IInv

LEMMA PollInv == ASSUME IInv, NEW i \in Input, Poll(i) PROVE IInv'
<1> USE DEF Poll, export
<1>1. Typed'
  BY DEF IInv, Typed, PollFinished, PollFailed, PollAlive, PollErr
<1>2. AtControl'
  BY DEF IInv, AtControl
<1>3. i \in running /\ unpolled' \subseteq unpolled \ {i} /\ pc' = "poll"
  BY DEF IInv, Places
<1>4. CASE PollAlive(i)
  <2> USE <1>4 DEF IInv, PollAlive
  <2>1. Places'
    BY DEF Places
  <2>2. Work'
    BY DEF Work, Alive
  <2>3. Bounded'
    BY DEF Bounded, Parallelism
  <2>4. Counted'
    BY DEF Counted, Done
  <2>5. QED
    BY <1>1, <1>2, <2>1, <2>2, <2>3, <2>4
<1>5. CASE PollFinished(i) \/ PollFailed(i) \/ PollErr(i)
  <2>1. Places' /\ Work' /\ Bounded' /\ Counted'
    BY <1>3, <1>5, LetGo DEF PollFinished, PollFailed, PollErr
  <2>2. QED
    BY <1>1, <1>2, <2>1 DEF IInv
<1>6. QED
  BY <1>4, <1>5

(* The work goes on: what is alive stays alive, or ends. *)
LEMMA WorkInv == ASSUME IInv, NEW i \in Input, ProcessSingleRosbag(i) PROVE IInv'
<1>1. UNCHANGED parent /\ Alive(i)
  BY DEF ProcessSingleRosbag, Ingest, StartVideos, EncodeVideos, WriteTopicParquets,
         WriteMetadata, WriteTopicTypeMap, WriteVideoRegistry, WriteParquet, Fails, Succeeds,
         Alive, Step, File
<1>2. PICK s \in {"succeeded", "failed"} \cup Step : job' = [job EXCEPT ![i] = s]
  BY DEF ProcessSingleRosbag, Ingest, StartVideos, EncodeVideos, WriteTopicParquets,
         WriteMetadata, WriteTopicTypeMap, WriteVideoRegistry, WriteParquet, Fails, Succeeds,
         Step, File
<1> USE <1>1, <1>2 DEF IInv, parent
<1>3. Typed'
  BY DEF Typed
<1>4. Places'
  BY DEF Places
<1>5. i < next /\ i \in running \cup lost
  BY DEF Work, Alive, Step, File, Typed, Input
<1>6. Work'
  <2>1. \A j \in Input \ {i} : job'[j] = job[j]
    BY DEF Typed
  <2>2. \A j \in Input \ {i} : Alive(j)' <=> Alive(j)
    BY <2>1 DEF Alive
  <2>3. next \in Nat /\ i \in Nat /\ i \in running \cup failed
    BY <1>5, ExportAssumption DEF Typed, Places, Input
  <2>4. QED
    BY <1>5, <2>1, <2>2, <2>3 DEF Work
<1>7. AtControl'
  BY DEF AtControl
<1>8. Bounded' /\ Counted'
  BY DEF Bounded, Counted, Done, Parallelism
<1>9. QED
  BY <1>3, <1>4, <1>6, <1>7, <1>8

LEMMA StepInv == IInv /\ [Next]_vars => IInv'
<1> SUFFICES ASSUME IInv, [Next]_vars PROVE IInv'
  OBVIOUS
<1>1. CASE SpawnOk
  <2>1. next \in Input
    BY <1>1, PendingCases DEF SpawnOk, MaySpawn, IInv
  <2>2. QED
    BY <1>1, <2>1, TakeInv DEF SpawnOk, MaySpawn
<1>2. CASE UNCHANGED vars
  BY <1>2 DEF vars, IInv, Typed, Places, Work, Alive, AtControl, Bounded, Parallelism,
              Counted, Done
<1>3. QED
  BY <1>1, <1>2, MoveOnInv, NextBagInv, SpawnErrInv, SingleInv, PollInv, WorkInv
  DEF Next, Parent, Returned

-----------------------------------------------------------------------------
(* The counts of the summary add up, and no bag that was not exported is
   missing from the failures.                                               *)
THEOREM EveryBagAccountedFor == Spec => []AllAccountedFor
<1>1. IInv => AllAccountedFor
  <2> SUFFICES ASSUME IInv, result \in {"ok", "failed"} PROVE AllAccountedFor
    BY DEF AllAccountedFor
  <2>1. next = N + 1 /\ running = {} /\ (result = "ok" <=> failed = {})
    BY DEF IInv, AtControl
  <2>2. Done = Input \ failed
    BY <2>1, ExportAssumption DEF Done, Input
  <2>3. /\ failed \subseteq Input /\ IsFiniteSet(failed) /\ Cardinality(failed) \in Nat
        /\ Cardinality(Input \cap failed) = Cardinality(failed)
    <3>1. failed \subseteq Input /\ Input \cap failed = failed
      BY DEF IInv, Typed
    <3>2. QED
      BY <3>1, InputFinite, FS_Subset, FS_CardinalityType
  <2>4. Cardinality(Input \ failed) = N - Cardinality(failed)
    <3>1. Cardinality(Input \ failed) = Cardinality(Input) - Cardinality(Input \cap failed)
      BY InputFinite, FS_Difference, Zenon
    <3>2. QED
      BY <3>1, <2>3, InputFinite
  <2>5. success_count + Cardinality(failed) = N
    BY <2>2, <2>3, <2>4, ExportAssumption DEF IInv, Counted
  <2>6. {i \in Input : job[i] # "succeeded"} \subseteq failed
    BY <2>1, ExportAssumption DEF IInv, Work, Input
  <2>7. QED
    BY <2>1, <2>5, <2>6 DEF AllAccountedFor
<1>2. QED
  BY <1>1, InitInv, StepInv, PTL DEF Spec

(* At most --jobs exports work at a time, save those that were let go. *)
THEOREM JobsBound == Spec => []AtMostJobsAlive
<1>1. IInv => AtMostJobsAlive
  <2> SUFFICES ASSUME IInv PROVE AtMostJobsAlive
    OBVIOUS
  <2> DEFINE A == {i \in Input : Alive(i)} \ lost
  <2>1. A \subseteq running
    BY DEF IInv, Work
  <2>2. Cardinality(A) <= Cardinality(running)
    BY <2>1, FS_Subset DEF IInv, Bounded
  <2>3. IsFiniteSet(A) /\ Cardinality(A) \in Nat /\ Cardinality(running) \in Nat
    BY <2>1, FS_Subset, FS_CardinalityType DEF IInv, Bounded
  <2>4. Parallelism \in Nat
    BY ParallelismType DEF IInv, Typed
  <2>5. QED
    BY <2>2, <2>3, <2>4 DEF IInv, Bounded, AtMostJobsAlive
<1>2. QED
  BY <1>1, InitInv, StepInv, PTL DEF Spec

-----------------------------------------------------------------------------
(* The bundles, when no other bag writes in them. *)

Later == [videos |-> {"topics", "metadata", "type_map", "registry", "return", "succeeded"},
          topics |-> {"metadata", "type_map", "registry", "return", "succeeded"},
          metadata |-> {"type_map", "registry", "return", "succeeded"},
          type_map |-> {"registry", "return", "succeeded"}]

(* Each file is written before the export goes on to the next. *)
WrittenInOrder(i) ==
  \A f \in File \ {"registry"} :
    i \in Filmed /\ job[i] \in Later[f] => disk[UuidOf[i]][f] = {i}

RegistryLast(i) ==
  disk[UuidOf[i]]["registry"] = {i} =>
    /\ job[i] \in {"return", "succeeded", "failed"}
    /\ \A f \in File : disk[UuidOf[i]][f] = {i}

(* Before its first video i has written nothing; and an export with images
   that ended well has put its registry in the place of an earlier one.     *)
Registered(i) ==
  /\ job[i] \in {"idle", "ingest", "videos"} => \A f \in File : i \notin disk[UuidOf[i]][f]
  /\ i \in Filmed /\ job[i] \in {"return", "succeeded"} => disk[UuidOf[i]]["registry"] = {i}

DiskInv ==
  /\ disk \in [Uuid -> [File -> SUBSET (Input \cup {Earlier, Torn})]]
  /\ \A i \in Input : job[i] = "registry" => i \in Filmed
  /\ \A i \in Input : ~Disturbed(i) =>
       /\ WrittenInOrder(i) /\ RegistryLast(i) /\ Registered(i)
       /\ job[i] = "encoding" => disk[UuidOf[i]]["videos"] = {i, Torn}

LEMMA InitDisk == Init => DiskInv
<1> SUFFICES ASSUME Init PROVE DiskInv
  OBVIOUS
<1>1. disk \in [Uuid -> [File -> SUBSET {Earlier, Torn}]]
  BY ExportAssumption DEF Init
<1>2. ASSUME NEW i \in Input
      PROVE  job[i] = "idle" /\ \A f \in File : i \notin disk[UuidOf[i]][f]
  <2>1. UuidOf[i] \in Uuid /\ i # Earlier /\ i # Torn
    BY ExportAssumption DEF Uuid
  <2>2. \A f \in File : disk[UuidOf[i]][f] \subseteq {Earlier, Torn}
    BY <1>1, <2>1
  <2>3. job[i] = "idle"
    BY DEF Init
  <2>4. QED
    BY <2>1, <2>2, <2>3
<1>3. \A i \in Input : WrittenInOrder(i) /\ Registered(i)
  BY <1>2 DEF WrittenInOrder, Registered, Later, File
<1>4. \A i \in Input : RegistryLast(i)
  BY <1>2 DEF RegistryLast, File
<1>5. disk \in [Uuid -> [File -> SUBSET (Input \cup {Earlier, Torn})]]
  BY <1>1
<1>6. QED
  BY <1>2, <1>3, <1>4, <1>5 DEF DiskInv

(* A step of i does to its own bundle what its job calls for. *)
LEMMA OwnStep ==
  ASSUME IInv, DiskInv, NEW i \in Input, ProcessSingleRosbag(i), ~Disturbed(i)
  PROVE  WrittenInOrder(i)' /\ RegistryLast(i)' /\ Registered(i)'
<1> DEFINE b == disk[UuidOf[i]]
<1>0. /\ WrittenInOrder(i) /\ RegistryLast(i) /\ Registered(i)
      /\ job[i] = "registry" => i \in Filmed
      /\ job \in [Input -> {"idle", "succeeded", "failed"} \cup Step]
      /\ disk \in [Uuid -> [File -> SUBSET (Input \cup {Earlier, Torn})]]
      /\ UuidOf[i] \in Uuid
      /\ Torn # i
  BY ExportAssumption DEF DiskInv, IInv, Typed, Uuid
<1>1. CASE Ingest(i) \/ Fails(i) \/ Succeeds(i)
  <2>1. disk' = disk /\ job'[i] \in {"videos", "topics", "failed", "succeeded"}
        /\ (job'[i] = "succeeded" => job[i] = "return")
        /\ (job'[i] \in {"videos", "topics"} => job[i] = "ingest")
        /\ (job'[i] = "topics" => i \notin Filmed)
    BY <1>0, <1>1 DEF Ingest, Fails, Succeeds
  <2>2. WrittenInOrder(i)'
    BY <1>0, <2>1 DEF WrittenInOrder, Later, File
  <2>3. RegistryLast(i)'
    BY <1>0, <2>1 DEF RegistryLast
  <2>4. Registered(i)'
    BY <1>0, <2>1 DEF Registered
  <2>5. QED
    BY <2>2, <2>3, <2>4
<1>2. CASE StartVideos(i)
  <2>1. /\ disk'[UuidOf[i]]["videos"] = {i, Torn}
        /\ \A g \in File \ {"videos"} : disk'[UuidOf[i]][g] = b[g]
        /\ job[i] = "videos" /\ job'[i] = "encoding"
    BY <1>0, <1>2 DEF StartVideos, File
  <2>2. WrittenInOrder(i)'
    BY <2>1 DEF WrittenInOrder, Later, File
  <2>3. RegistryLast(i)'
    BY <1>0, <2>1 DEF RegistryLast, File
  <2>4. Registered(i)'
    BY <1>0, <2>1 DEF Registered, File
  <2>5. QED
    BY <2>2, <2>3, <2>4
<1>3. CASE EncodeVideos(i)
  <2>1. /\ disk'[UuidOf[i]]["videos"] = (b["videos"] \cup {i}) \ {Torn}
        /\ \A g \in File \ {"videos"} : disk'[UuidOf[i]][g] = b[g]
        /\ job[i] = "encoding" /\ job'[i] = "topics"
    BY <1>0, <1>3 DEF EncodeVideos, File
  <2>2. b["videos"] = {i, Torn}
    BY <2>1 DEF DiskInv
  <2>3. disk'[UuidOf[i]]["videos"] = {i}
    BY <1>0, <2>1, <2>2
  <2>4. WrittenInOrder(i)'
    BY <2>1, <2>3 DEF WrittenInOrder, Later, File
  <2>5. RegistryLast(i)'
    BY <1>0, <2>1 DEF RegistryLast, File
  <2>6. Registered(i)'
    BY <1>0, <2>1 DEF Registered, File
  <2>7. QED
    BY <2>4, <2>5, <2>6
<1>4. ASSUME NEW f \in {"topics", "metadata", "type_map"}, NEW then,
             WriteParquet(i, f, then),
             f = "topics" => then = "metadata",
             f = "metadata" => then = "type_map",
             f = "type_map" => then = (IF i \in Filmed THEN "registry" ELSE "return")
      PROVE  WrittenInOrder(i)' /\ RegistryLast(i)' /\ Registered(i)'
  <2>1. /\ \A g \in File \ {f} : disk'[UuidOf[i]][g] = b[g]
        /\ job[i] = f
        /\ \/ job'[i] = "failed"
           \/ job'[i] = then /\ disk'[UuidOf[i]][f] = {i}
    BY <1>0, <1>4 DEF WriteParquet, File
  <2>2. WrittenInOrder(i)'
    BY <1>0, <1>4, <2>1 DEF WrittenInOrder, Later, File
  <2>3. RegistryLast(i)'
    BY <1>0, <1>4, <2>1 DEF RegistryLast, File
  <2>4. Registered(i)'
    BY <1>0, <1>4, <2>1 DEF Registered, File
  <2>5. QED
    BY <2>2, <2>3, <2>4
<1>5. CASE WriteVideoRegistry(i)
  <2>1. /\ \A g \in File \ {"registry"} : disk'[UuidOf[i]][g] = b[g]
        /\ job[i] = "registry" /\ i \in Filmed
        /\ \/ job'[i] = "failed" /\ disk'[UuidOf[i]]["registry"] = {i, Torn}
           \/ job'[i] = "return" /\ disk'[UuidOf[i]]["registry"] = {i}
    BY <1>0, <1>5 DEF WriteVideoRegistry, WriteParquet, File
  <2>2. \A g \in File \ {"registry"} : b[g] = {i}
    BY <1>0, <2>1 DEF WrittenInOrder, Later, File
  <2>3. WrittenInOrder(i)'
    BY <2>1, <2>2 DEF WrittenInOrder
  <2>4. RegistryLast(i)'
    BY <1>0, <2>1, <2>2 DEF RegistryLast
  <2>5. Registered(i)'
    BY <1>0, <2>1, <2>2 DEF Registered
  <2>6. QED
    BY <2>3, <2>4, <2>5
<1>6. QED
  BY <1>1, <1>2, <1>3, <1>4, <1>5
  DEF ProcessSingleRosbag, WriteTopicParquets, WriteMetadata, WriteTopicTypeMap

(* A step of j leaves the bundle of i alone, or disturbs it. *)
LEMMA OthersStep ==
  ASSUME IInv, DiskInv, NEW i \in Input, NEW j \in Input \ {i},
         ProcessSingleRosbag(j), ~Disturbed(i)'
  PROVE  /\ job'[i] = job[i] /\ disk'[UuidOf[i]] = disk[UuidOf[i]]
         /\ ~Disturbed(i)
<1>0. /\ job \in [Input -> {"idle", "succeeded", "failed"} \cup Step]
      /\ disk \in [Uuid -> [File -> SUBSET (Input \cup {Earlier, Torn})]]
      /\ UuidOf[i] \in Uuid /\ UuidOf[j] \in Uuid
  BY DEF DiskInv, IInv, Typed, Uuid
<1>1. PICK s \in {"succeeded", "failed"} \cup Step : job' = [job EXCEPT ![j] = s]
  BY DEF ProcessSingleRosbag, Ingest, StartVideos, EncodeVideos, WriteTopicParquets,
         WriteMetadata, WriteTopicTypeMap, WriteVideoRegistry, WriteParquet, Fails, Succeeds,
         Step, File
<1>2. job[j] # "idle" /\ job'[j] # "idle" /\ \A k \in Input \ {j} : job'[k] = job[k]
  BY <1>0, <1>1
  DEF ProcessSingleRosbag, Ingest, StartVideos, EncodeVideos, WriteTopicParquets,
      WriteMetadata, WriteTopicTypeMap, WriteVideoRegistry, WriteParquet, Fails, Succeeds,
      Alive, Step, File
<1>3. UuidOf[j] # UuidOf[i]
  BY <1>2 DEF Disturbed
<1>4. disk'[UuidOf[i]] = disk[UuidOf[i]]
  BY <1>0, <1>3
  DEF ProcessSingleRosbag, Ingest, StartVideos, EncodeVideos, WriteTopicParquets,
      WriteMetadata, WriteTopicTypeMap, WriteVideoRegistry, WriteParquet, Fails, Succeeds
<1>5. ~Disturbed(i)
  BY <1>2, <1>3 DEF Disturbed
<1>6. QED
  BY <1>2, <1>4, <1>5

LEMMA DiskType ==
  ASSUME IInv, DiskInv, NEW i \in Input, ProcessSingleRosbag(i)
  PROVE  /\ disk' \in [Uuid -> [File -> SUBSET (Input \cup {Earlier, Torn})]]
         /\ \A k \in Input : job'[k] = "registry" => k \in Filmed
         /\ ~Disturbed(i)' => ~Disturbed(i)
         /\ job'[i] = "encoding" => disk'[UuidOf[i]]["videos"] = {i, Torn}
<1>0. /\ job \in [Input -> {"idle", "succeeded", "failed"} \cup Step]
      /\ disk \in [Uuid -> [File -> SUBSET (Input \cup {Earlier, Torn})]]
      /\ UuidOf[i] \in Uuid
      /\ \A k \in Input : job[k] = "registry" => k \in Filmed
  BY DEF DiskInv, IInv, Typed, Uuid
<1> USE <1>0 DEF ProcessSingleRosbag, WriteTopicParquets, WriteMetadata, WriteTopicTypeMap,
                 WriteVideoRegistry
<1>1. PICK s \in {"succeeded", "failed"} \cup Step : job' = [job EXCEPT ![i] = s]
  BY DEF Ingest, StartVideos, EncodeVideos, WriteParquet, Fails, Succeeds, Step, File
<1>2. \A k \in Input \ {i} : job'[k] = job[k]
  BY <1>1
<1>3. disk' \in [Uuid -> [File -> SUBSET (Input \cup {Earlier, Torn})]]
  <2>1. CASE Ingest(i) \/ Fails(i) \/ Succeeds(i)
    BY <2>1 DEF Ingest, Fails, Succeeds
  <2>2. CASE StartVideos(i) \/ EncodeVideos(i)
    BY <2>2 DEF StartVideos, EncodeVideos, File
  <2>3. ASSUME NEW f \in File, NEW then, WriteParquet(i, f, then)
        PROVE  disk' \in [Uuid -> [File -> SUBSET (Input \cup {Earlier, Torn})]]
    <3>1. {i} \in SUBSET (Input \cup {Earlier, Torn}) /\ {i, Torn} \in SUBSET (Input \cup {Earlier, Torn})
      OBVIOUS
    <3>2. PICK v \in SUBSET (Input \cup {Earlier, Torn}) : disk' = [disk EXCEPT ![UuidOf[i]][f] = v]
      BY <2>3, <3>1 DEF WriteParquet
    <3>3. QED
      BY <1>0, <3>2
  <2>4. QED
    BY <2>1, <2>2, <2>3 DEF File
<1>4. job'[i] = "registry" => i \in Filmed
  BY DEF Ingest, StartVideos, EncodeVideos, WriteParquet, Fails, Succeeds
<1>5. ~Disturbed(i)' => ~Disturbed(i)
  BY <1>2 DEF Disturbed
<1>6. job'[i] = "encoding" => disk'[UuidOf[i]]["videos"] = {i, Torn}
  <2>1. job'[i] = "encoding" => StartVideos(i)
    BY DEF Ingest, EncodeVideos, WriteParquet, Fails, Succeeds
  <2>2. QED
    BY <2>1 DEF StartVideos, File
<1>7. QED
  BY <1>2, <1>3, <1>4, <1>5, <1>6

LEMMA StepDisk == IInv /\ DiskInv /\ [Next]_vars => DiskInv'
<1> SUFFICES ASSUME IInv, DiskInv, [Next]_vars PROVE DiskInv'
  OBVIOUS
<1>1. ASSUME NEW j \in Input, ProcessSingleRosbag(j) PROVE DiskInv'
  <2>1. ASSUME NEW i \in Input, ~Disturbed(i)'
        PROVE  /\ WrittenInOrder(i)' /\ RegistryLast(i)' /\ Registered(i)'
               /\ job'[i] = "encoding" => disk'[UuidOf[i]]["videos"] = {i, Torn}
    <3>1. CASE i = j
      BY <1>1, <2>1, <3>1, OwnStep, DiskType
    <3>2. CASE i # j
      <4>1. /\ job'[i] = job[i] /\ disk'[UuidOf[i]] = disk[UuidOf[i]]
            /\ ~Disturbed(i)
        BY <1>1, <2>1, <3>2, OthersStep
      <4>2. /\ WrittenInOrder(i) /\ RegistryLast(i) /\ Registered(i)
            /\ job[i] = "encoding" => disk[UuidOf[i]]["videos"] = {i, Torn}
        BY <4>1 DEF DiskInv
      <4>3. WrittenInOrder(i)' /\ RegistryLast(i)'
        BY <4>1, <4>2 DEF WrittenInOrder, RegistryLast
      <4>4. Registered(i)'
        BY <4>1, <4>2 DEF Registered
      <4>5. QED
        BY <4>1, <4>2, <4>3, <4>4
    <3>3. QED
      BY <3>1, <3>2
  <2>2. QED
    BY <1>1, <2>1, DiskType DEF DiskInv
<1>2. CASE UNCHANGED <<job, disk>>
  BY <1>2 DEF DiskInv, Disturbed, WrittenInOrder, RegistryLast, Registered
<1>3. ASSUME next \in Input, job' = [job EXCEPT ![next] = "ingest"], UNCHANGED disk
      PROVE  DiskInv'
  <2>1. job[next] = "idle" /\ job'[next] = "ingest"
        /\ \A i \in Input \ {next} : job'[i] = job[i]
    BY <1>3 DEF IInv, Typed, Work, Input
  <2>2. \A i \in Input : ~Disturbed(i)' => ~Disturbed(i)
    BY <2>1 DEF Disturbed
  <2>3. ASSUME NEW i \in Input, ~Disturbed(i)'
        PROVE  /\ WrittenInOrder(i)' /\ RegistryLast(i)' /\ Registered(i)'
               /\ job'[i] = "encoding" => disk'[UuidOf[i]]["videos"] = {i, Torn}
    <3>1. CASE i = next
      <4>1. RegistryLast(i) /\ Registered(i)
        BY <2>2, <2>3 DEF DiskInv
      <4>2. QED
        BY <1>3, <2>1, <3>1, <4>1 DEF WrittenInOrder, RegistryLast, Registered, Later, File
    <3>2. CASE i # next
      BY <1>3, <2>1, <2>2, <2>3, <3>2 DEF DiskInv, WrittenInOrder, RegistryLast, Registered
    <3>3. QED
      BY <3>1, <3>2
  <2>4. QED
    BY <1>3, <2>1, <2>3 DEF DiskInv
<1>4. CASE Parent
  <2>1. \/ UNCHANGED <<job, disk>>
        \/ pending # {} /\ job' = [job EXCEPT ![next] = "ingest"] /\ UNCHANGED disk
    BY <1>4
    DEF Parent, RunExport, NextBag, SpawnOk, SpawnErr, SpawnEnd, PollEnd, SingleReturns, Poll,
        MaySpawn, export
  <2>2. QED
    BY <1>2, <1>3, <2>1, PendingCases DEF IInv
<1>5. QED
  BY <1>1, <1>2, <1>4 DEF Next, Returned, vars

(* The parent's counts, the jobs and the bundles are of their types. *)
THEOREM TypeCorrect == Spec => []TypeOK
<1>1. IInv /\ DiskInv => TypeOK
  <2> SUFFICES ASSUME IInv, DiskInv PROVE TypeOK
    OBVIOUS
  <2>1. IsFiniteSet(Done) /\ Done \subseteq Input /\ success_count = Cardinality(Done)
    BY DEF IInv, Counted, Done
  <2>2. success_count \in Nat /\ success_count <= N
    BY <2>1, InputFinite, FS_Subset, FS_CardinalityType
  <2>3. success_count \in 0 .. N /\ jobs \in 0 .. MaxJobs
    BY <2>2, ExportAssumption DEF IInv, Typed
  <2>4. QED
    BY <2>3 DEF IInv, Typed, DiskInv, TypeOK
<1>2. QED
  BY <1>1, InitInv, StepInv, InitDisk, StepDisk, PTL DEF Spec

(* Whoever finds the registry of an export in a bundle finds a whole bundle, at
   any time, after any failure and over anything that was there before; and an
   earlier registry stands beside new files only while an export is under way,
   or after one that failed or had no images; unless a second bag of the same
   uuid writes to the bundle.                                                 *)
THEOREM RegistryTrusted == Spec => []RegistryMeansWhole
<1>1. ASSUME IInv, DiskInv PROVE RegistryMeansWhole
  <2> SUFFICES ASSUME NEW i \in Input, ~Disturbed(i)
               PROVE  /\ disk[UuidOf[i]]["registry"] = {i} => \A f \in File : disk[UuidOf[i]][f] = {i}
                      /\ disk[UuidOf[i]]["registry"] # {i} /\ (\E f \in File : i \in disk[UuidOf[i]][f])
                           => OldRegistryStands(i)
    BY DEF RegistryMeansWhole
  <2>1. RegistryLast(i) /\ Registered(i)
    BY <1>1 DEF DiskInv
  <2>2. job[i] \in {"idle", "succeeded", "failed"} \cup Step
    BY <1>1 DEF IInv, Typed
  <2>3. \/ job[i] \in {"idle", "ingest", "videos"} \/ job[i] \in {"return", "succeeded"}
        \/ OldRegistryStands(i)
    BY <2>2 DEF Step, File, OldRegistryStands
  <2>4. QED
    BY <2>1, <2>3 DEF RegistryLast, Registered, OldRegistryStands
<1>2. QED
  BY <1>1, InitInv, StepInv, InitDisk, StepDisk, PTL DEF Spec

-----------------------------------------------------------------------------
(* The command implements the contract of a batch. *)

st == [i \in Input |-> StatusOf(i)]

(* What the contract sees of the bookkeeping. *)
LEMMA Seen ==
  ASSUME IInv
  PROVE  /\ Contract!Having("waiting") = {i \in Input : i >= next}
         /\ Contract!Having("working") = running
         /\ Contract!Having("failed") = failed
         /\ ~Contract!Stopping
<1>1. \A i \in Input : /\ StatusOf(i) = "waiting" <=> i >= next
                       /\ StatusOf(i) = "working" <=> i \in running
                       /\ StatusOf(i) = "failed" <=> i \in failed
  BY PendingCases, ExportAssumption DEF IInv, Typed, Places, StatusOf, Input
<1>2. QED
  BY <1>1 DEF Contract!Having, Contract!Stopping, Contract!Input, Input, IInv, Typed

LEMMA Unseen ==
  ASSUME UNCHANGED <<next, running, failed, result>>
  PROVE  UNCHANGED Contract!vars
BY DEF Contract!vars, StatusOf, pending

LEMMA OneMoves ==
  ASSUME NEW i \in Input, NEW s,
         \A j \in Input \ {i} : StatusOf(j)' = StatusOf(j),
         StatusOf(i)' = s
  PROVE  st' = [st EXCEPT ![i] = s]
BY DEF st

(* The instance brings a Cardinality of its own, with the same definition. *)
LEMMA SameCardinality == \A S : Contract!Cardinality(S) = Cardinality(S)
BY Zenon DEF Cardinality, Contract!Cardinality

LEMMA TakesUp ==
  ASSUME IInv, NEW k \in Input, k = next, result = "none", UNCHANGED result,
         Cardinality(running) < Parallelism, next' = next + 1,
         \/ running' = running \cup {k} /\ UNCHANGED failed
         \/ failed' = failed \cup {k} /\ UNCHANGED running
  PROVE  Contract!TakeUp(k)
<1>1. k \notin running /\ k \notin failed /\ next \in Nat
  BY PendingCases DEF IInv, Places
<1>2. \A j \in Input : /\ j \in pending <=> j >= next
                       /\ j \in pending' <=> j >= next + 1
  BY ExportAssumption DEF pending, Input, IInv, Typed
<1>3. k \in pending /\ k \notin pending'
  BY <1>1, <1>2
<1>4. \A j \in Input \ {k} : j \in pending' <=> j \in pending
  BY <1>1, <1>2 DEF Input
<1>5. \A j \in Input \ {k} : StatusOf(j)' = StatusOf(j)
  BY <1>4 DEF StatusOf
<1>6. \E s \in {"working", "failed"} : StatusOf(k)' = s
  BY <1>1, <1>3 DEF StatusOf
<1>7. \E s \in {"working", "failed"} : st' = [st EXCEPT ![k] = s]
  BY <1>5, <1>6, OneMoves
<1>8. st[k] = "waiting"
  BY <1>3 DEF st, StatusOf
<1>9. \A j \in Contract!Having("waiting") : k <= j
  BY Seen DEF Input
<1>10. Cardinality(running) \in Nat /\ Parallelism \in Nat /\ Parallelism <= MaxJobs
  BY FS_CardinalityType, ParallelismType DEF IInv, Bounded, Typed
<1>11. Contract!Cardinality(Contract!Having("working")) < MaxJobs /\ ~Contract!Stopping
  BY <1>10, Seen, SameCardinality, ExportAssumption
<1>12. QED
  BY <1>7, <1>8, <1>9, <1>11 DEF Contract!TakeUp, st

LEMMA Resolves ==
  ASSUME IInv, NEW i \in Input, i \in running, running' = running \ {i},
         UNCHANGED <<next, result>>,
         UNCHANGED failed \/ failed' = failed \cup {i}
  PROVE  Contract!Resolve(i)
<1>1. i \notin pending /\ i \notin failed /\ pending' = pending
  BY PendingCases, ExportAssumption DEF IInv, Places, Typed, Input, pending
<1>2. \A j \in Input \ {i} : StatusOf(j)' = StatusOf(j)
  BY <1>1 DEF StatusOf
<1>3. \E s \in {"succeeded", "failed"} : StatusOf(i)' = s
  BY <1>1 DEF StatusOf
<1>4. \E s \in {"succeeded", "failed"} : st' = [st EXCEPT ![i] = s]
  BY <1>2, <1>3, OneMoves
<1>5. st[i] = "working"
  BY <1>1 DEF st, StatusOf
<1>6. QED
  BY <1>4, <1>5 DEF Contract!Resolve, st

LEMMA Returning ==
  ASSUME IInv, pc # "returned", running = {}, pending = {}, result' = Verdict,
         UNCHANGED <<next, running, failed>>
  PROVE  Contract!Return
<1>1. st' = st
  BY DEF st, StatusOf, pending
<1>2. result = "none" /\ next = N + 1
  BY PendingCases DEF IInv, AtControl
<1>3. Contract!Having("waiting") = {}
  BY <1>2, Seen, ExportAssumption DEF Input
<1>4. QED
  BY <1>1, <1>2, <1>3, Seen DEF Contract!Return, Verdict, st

LEMMA InitContract == Init => Contract!Init
BY ExportAssumption DEF Init, Contract!Init, Contract!Input, StatusOf, pending, Input

LEMMA StepContract == IInv /\ [Next]_vars => [Contract!Next]_(Contract!vars)
<1> SUFFICES ASSUME IInv, [Next]_vars PROVE [Contract!Next]_(Contract!vars)
  OBVIOUS
<1> USE DEF Contract!Next, Contract!Input, Input
<1>1. result = "none" <=> pc # "returned"
  BY DEF IInv, AtControl
<1>2. CASE RunExport
  <2>1. CASE result' = result
    BY <1>2, <2>1, Unseen DEF RunExport
  <2>2. CASE result' # result
    <3>1. Contract!Having("waiting") = Input
      <4>1. next = 1
        BY <1>2 DEF RunExport, IInv, AtControl
      <4>2. {i \in Input : i >= 1} = Input
        BY ExportAssumption
      <4>3. QED
        BY <4>1, <4>2, Seen
    <3>2. st' = st
      BY <1>2 DEF RunExport, st, StatusOf, pending
    <3>3. result = "none" /\ result' = "not_started"
      BY <1>1, <1>2, <2>2 DEF RunExport
    <3>4. Contract!Refuse
      BY <3>1, <3>2, <3>3 DEF Contract!Refuse, st
    <3>5. QED
      BY <3>4
  <2>3. QED
    BY <2>1, <2>2
<1>3. CASE NextBag
  <2>1. running = {} /\ result = "none" /\ pc # "returned"
    BY <1>1, <1>3 DEF NextBag, IInv, AtControl
  <2>2. CASE pending = {}
    <3>1. Contract!Return
      BY <1>3, <2>1, <2>2, Returning DEF NextBag
    <3>2. QED
      BY <3>1
  <2>3. CASE pending # {}
    <3>1. PICK k \in Input : k = next
      BY <2>3, PendingCases DEF IInv
    <3>2. Cardinality(running) < Parallelism
      BY <2>1, FS_EmptySet, ParallelismType DEF IInv, Typed
    <3>3. Contract!TakeUp(k)
      BY <1>3, <2>1, <2>3, <3>1, <3>2, TakesUp DEF NextBag
    <3>4. QED
      BY <3>3
  <2>4. QED
    BY <2>2, <2>3
<1>4. ASSUME NEW i \in Input, SingleReturns(i) PROVE Contract!Resolve(i)
  <2>1. PICK k \in Input : running = {k}
    BY <1>4 DEF IInv, AtControl, SingleReturns
  <2>2. QED
    BY <1>4, <2>1, Resolves DEF SingleReturns
<1>5. CASE SpawnOk \/ SpawnErr
  <2>1. PICK k \in Input : k = next
    BY <1>5, PendingCases DEF SpawnOk, SpawnErr, MaySpawn, IInv
  <2>2. result = "none"
    BY <1>1, <1>5 DEF SpawnOk, SpawnErr
  <2>3. Contract!TakeUp(k)
    BY <1>5, <2>1, <2>2, TakesUp DEF SpawnOk, SpawnErr, MaySpawn
  <2>4. QED
    BY <2>3
<1>6. ASSUME NEW i \in Input, Poll(i) PROVE Contract!Resolve(i) \/ UNCHANGED Contract!vars
  <2>1. i \in running
    BY <1>6 DEF Poll, IInv, Places
  <2>2. CASE PollAlive(i)
    BY <1>6, <2>2, Unseen DEF Poll, PollAlive
  <2>3. CASE PollFinished(i) \/ PollFailed(i) \/ PollErr(i)
    BY <1>6, <2>1, <2>3, Resolves DEF Poll, PollFinished, PollFailed, PollErr
  <2>4. QED
    BY <1>6, <2>2, <2>3 DEF Poll
<1>7. CASE PollEnd
  <2>1. CASE pending = {} /\ running = {}
    <3>1. Contract!Return
      BY <1>7, <2>1, Returning DEF PollEnd
    <3>2. QED
      BY <3>1
  <2>2. CASE ~(pending = {} /\ running = {})
    BY <1>7, <2>2, Unseen DEF PollEnd
  <2>3. QED
    BY <2>1, <2>2
<1>8. CASE SpawnEnd \/ Returned \/ UNCHANGED vars
  BY <1>8, Unseen DEF SpawnEnd, Returned, vars
<1>9. ASSUME NEW i \in Input, ProcessSingleRosbag(i) PROVE UNCHANGED Contract!vars
  BY <1>9, Unseen
  DEF ProcessSingleRosbag, Ingest, StartVideos, EncodeVideos, WriteTopicParquets,
      WriteMetadata, WriteTopicTypeMap, WriteVideoRegistry, WriteParquet, Fails, Succeeds,
      parent
<1>10. QED
  BY <1>2, <1>3, <1>4, <1>5, <1>6, <1>7, <1>8, <1>9 DEF Next, Parent

(* `rebake export` implements the contract of a batch command, with no
   stopping and at least one place.                                         *)
THEOREM ImplementsContract == Spec => KeepsContract
<1>1. Init => Contract!Init
  BY InitContract
<1>2. IInv /\ [Next]_vars => [Contract!Next]_(Contract!vars)
  BY StepContract
<1>3. QED
  BY <1>1, <1>2, InitInv, StepInv, PTL DEF Spec, KeepsContract, Contract!Spec
=============================================================================
