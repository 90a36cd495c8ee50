---------------------------- MODULE ExportBatch ----------------------------
(***************************************************************************)
(* `rebake export`: every bag of a list is written as a bundle of parquet  *)
(* files and videos, by this process one after the other or by children    *)
(* that a polling loop spawns and watches.  Unlike `rebake run` it never   *)
(* stops early: a failure is noted and the rest goes on.                   *)
(*                                                                         *)
(* A bundle is the directory {output}/{uuid}.  Bags of one uuid share it,  *)
(* in whatever order or parallel their exports run; and with the exports   *)
(* of earlier commands, which may have left any part of it, as the         *)
(* directory is made if it is missing and never cleaned.                   *)
(*                                                                         *)
(* A file is the set of bags whose export has written in it since it was   *)
(* last created; Torn is a member until one of them closes it, so {i} is   *)
(* the file that i wrote, whole, and {Earlier} one that was there before.  *)
(***************************************************************************)
EXTENDS Naturals, FiniteSets

CONSTANTS
  N,         \* number of bags, at least 1: collect_rosbags refuses none
  MaxJobs,   \* the largest --jobs that is tried
  UuidOf,    \* the uuid in the metadata of each bag
  Filmed,    \* the bags with images or depth images
  Hung,      \* the bags whose export may never end; liveness only
  Left,      \* what earlier commands may have left in the bundles
  Earlier,   \* their exports, as writers of files
  Torn

Input == 1 .. N

Uuid == {UuidOf[i] : i \in Input}

(* what ParquetVideoExporter writes, in this order *)
File == {"videos", "topics", "metadata", "type_map", "registry"}

ASSUME ExportAssumption ==
  /\ N \in Nat \ {0}
  /\ MaxJobs \in Nat \ {0}
  /\ Filmed \subseteq Input /\ Hung \subseteq Input
  /\ Torn \notin Input /\ Earlier \notin Input
  /\ Left \subseteq [Uuid -> [File -> SUBSET {Earlier, Torn}]]

VARIABLES
  jobs,       \* args.jobs
  pc,         \* where the parent is
  next,       \* first input not yet taken from `pending`
  running,    \* inputs the parent holds a child of (or works on itself)
  unpolled,   \* those not yet polled in this pass of the polling loop
  success_count,
  failed,     \* inputs recorded as failed; its size is error_count
  lost,       \* inputs whose child was let go when its status check failed
  result,     \* what run_export has returned
  job,        \* the step process_single_rosbag is at, or how it ended
  disk        \* the bundles, file by file

parent == <<jobs, pc, next, running, unpolled, success_count, failed, lost, result>>
export == <<job, disk>>
vars == <<jobs, pc, next, running, unpolled, success_count, failed, lost, result,
          job, disk>>

Step == {"ingest", "encoding", "return"} \cup File

TypeOK ==
  /\ jobs \in 0 .. MaxJobs
  /\ pc \in {"run", "sequential", "single", "spawn", "poll", "returned"}
  /\ next \in 1 .. N + 1
  /\ running \subseteq Input /\ unpolled \subseteq Input
  /\ failed \subseteq Input /\ lost \subseteq Input
  /\ success_count \in 0 .. N
  /\ result \in {"none", "ok", "failed", "not_started"}
  /\ job \in [Input -> {"idle", "succeeded", "failed"} \cup Step]
  /\ disk \in [Uuid -> [File -> SUBSET (Input \cup {Earlier, Torn})]]

pending == next .. N
Parallelism == IF jobs = 0 THEN 1 ELSE jobs   \* args.jobs.max(1)
Alive(i) == job[i] \in Step

Init ==
  /\ jobs \in 0 .. MaxJobs
  /\ pc = "run"
  /\ next = 1
  /\ running = {} /\ unpolled = {}
  /\ success_count = 0 /\ failed = {} /\ lost = {}
  /\ result = "none"
  /\ job = [i \in Input |-> "idle"]
  /\ disk \in Left

-----------------------------------------------------------------------------
(* process_single_rosbag, in the parent or in a child *)

(* ingest, the uuid enricher, the checks of the exporter; the directories *)
Ingest(i) ==
  /\ job[i] = "ingest"
  /\ job' = [job EXCEPT ![i] = IF i \in Filmed THEN "videos" ELSE "topics"]
  /\ UNCHANGED <<parent, disk>>

(* The first frame of the first topic creates a video, cutting an earlier
   one to nothing; encoding takes long, and others may do the same.         *)
StartVideos(i) ==
  /\ job[i] = "videos"
  /\ job' = [job EXCEPT ![i] = "encoding"]
  /\ disk' = [disk EXCEPT ![UuidOf[i]]["videos"] = {i, Torn}]
  /\ UNCHANGED parent

(* Faulty: the registry is written as soon as there are videos. *)
EncodeVideosThenRegistry(i) ==
  /\ job[i] = "encoding"
  /\ job' = [job EXCEPT ![i] = "registry"]
  /\ disk' = [disk EXCEPT ![UuidOf[i]]["videos"] = (@ \cup {i}) \ {Torn}]
  /\ UNCHANGED parent

(* encode_videos and encode_depth_videos end *)
EncodeVideos(i) ==
  /\ job[i] = "encoding"
  /\ job' = [job EXCEPT ![i] = "topics"]
  /\ disk' = [disk EXCEPT ![UuidOf[i]]["videos"] = (@ \cup {i}) \ {Torn}]
  /\ UNCHANGED parent

(* File::create and ParquetWriter::finish, which may fail half way *)
WriteParquet(i, f, then) ==
  /\ job[i] = f
  /\ \/ /\ disk' = [disk EXCEPT ![UuidOf[i]][f] = {i}]
        /\ job' = [job EXCEPT ![i] = then]
     \/ /\ disk' = [disk EXCEPT ![UuidOf[i]][f] = {i, Torn}]
        /\ job' = [job EXCEPT ![i] = "failed"]
  /\ UNCHANGED parent

WriteTopicParquets(i) == WriteParquet(i, "topics", "metadata")

WriteMetadata(i) == WriteParquet(i, "metadata", "type_map")

WriteTopicTypeMap(i) ==
  WriteParquet(i, "type_map", IF i \in Filmed THEN "registry" ELSE "return")

WriteVideoRegistry(i) == WriteParquet(i, "registry", "return")

(* any step may fail, and a process may be killed: its files stay as they are *)
Fails(i) ==
  /\ Alive(i)
  /\ job' = [job EXCEPT ![i] = "failed"]
  /\ UNCHANGED <<parent, disk>>

Succeeds(i) ==
  /\ job[i] = "return"
  /\ job' = [job EXCEPT ![i] = "succeeded"]
  /\ UNCHANGED <<parent, disk>>

ProcessSingleRosbag(i) ==
  \/ Ingest(i) \/ StartVideos(i)
  \/ EncodeVideos(i) \/ WriteTopicParquets(i) \/ WriteMetadata(i)
  \/ WriteTopicTypeMap(i) \/ WriteVideoRegistry(i)
  \/ Fails(i) \/ Succeeds(i)

-----------------------------------------------------------------------------
(* run_export: collect_rosbags_from_paths, then one of the two *)
RunExport ==
  /\ pc = "run"
  /\ \/ pc' = (IF N = 1 \/ jobs <= 1 THEN "sequential" ELSE "spawn") /\ UNCHANGED result
     \/ pc' = "returned" /\ result' = "not_started"
  /\ UNCHANGED <<jobs, next, running, unpolled, success_count, failed, lost, export>>

(* Faulty: the verdict looks at the last bag alone. *)
VerdictOfLast == IF N \in failed THEN "failed" ELSE "ok"

Verdict == IF failed = {} THEN "ok" ELSE "failed"

(* run_sequential_export: the loop takes the next bag, or ends *)
NextBag ==
  /\ pc = "sequential"
  /\ IF pending = {}
     THEN /\ pc' = "returned" /\ result' = Verdict
          /\ UNCHANGED <<next, running, job>>
     ELSE /\ pc' = "single"
          /\ next' = next + 1
          /\ running' = {next}
          /\ job' = [job EXCEPT ![next] = "ingest"]
          /\ UNCHANGED result
  /\ UNCHANGED <<jobs, unpolled, success_count, failed, lost, disk>>

(* process_single_rosbag has returned; an error is printed and counted *)
SingleReturns(i) ==
  /\ pc = "single"
  /\ i \in running
  /\ \/ job[i] = "succeeded" /\ success_count' = success_count + 1 /\ UNCHANGED failed
     \/ job[i] = "failed" /\ failed' = failed \cup {i} /\ UNCHANGED success_count
  /\ running' = {}
  /\ pc' = "sequential"
  /\ UNCHANGED <<jobs, next, unpolled, lost, result, export>>

-----------------------------------------------------------------------------
(* run_parallel_export *)

MaySpawn == Cardinality(running) < Parallelism /\ pending # {}

SpawnOk ==
  /\ pc = "spawn"
  /\ MaySpawn
  /\ next' = next + 1
  /\ running' = running \cup {next}
  /\ job' = [job EXCEPT ![next] = "ingest"]
  /\ UNCHANGED <<jobs, pc, unpolled, success_count, failed, lost, result, disk>>

SpawnErr ==
  /\ pc = "spawn"
  /\ MaySpawn
  /\ next' = next + 1
  /\ failed' = failed \cup {next}
  /\ UNCHANGED <<jobs, pc, running, unpolled, success_count, lost, result, export>>

(* Faulty: the first pass waits for room before it polls. *)
SpawnEndWhenDrained ==
  /\ pc = "spawn"
  /\ ~MaySpawn /\ \A i \in running : ~Alive(i)
  /\ unpolled' = running
  /\ pc' = "poll"
  /\ UNCHANGED <<jobs, next, running, success_count, failed, lost, result, export>>

SpawnEnd ==
  /\ pc = "spawn"
  /\ ~MaySpawn
  /\ unpolled' = running
  /\ pc' = "poll"
  /\ UNCHANGED <<jobs, next, running, success_count, failed, lost, result, export>>

PollFinished(i) ==
  /\ job[i] = "succeeded"
  /\ success_count' = success_count + 1
  /\ running' = running \ {i}
  /\ UNCHANGED <<failed, lost>>

(* an exit status, or a signal *)
PollFailed(i) ==
  /\ job[i] = "failed"
  /\ failed' = failed \cup {i}
  /\ running' = running \ {i}
  /\ UNCHANGED <<success_count, lost>>

PollAlive(i) ==
  /\ Alive(i)
  /\ UNCHANGED <<running, success_count, failed, lost>>

(* Faulty: a child whose status could not be read is dropped unrecorded. *)
PollErrUnrecorded(i) ==
  /\ lost' = lost \cup {i}
  /\ running' = running \ {i}
  /\ UNCHANGED <<success_count, failed>>

(* try_wait fails: the Child is dropped, its process goes on *)
PollErr(i) ==
  /\ failed' = failed \cup {i}
  /\ lost' = lost \cup {i}
  /\ running' = running \ {i}
  /\ UNCHANGED success_count

Poll(i) ==
  /\ pc = "poll"
  /\ i \in unpolled
  /\ unpolled' = unpolled \ {i}
  /\ PollFinished(i) \/ PollFailed(i) \/ PollAlive(i) \/ PollErr(i)
  /\ UNCHANGED <<jobs, pc, next, result, export>>

(* the loop goes round while anything is pending or running *)
PollEnd ==
  /\ pc = "poll"
  /\ unpolled = {}
  /\ IF pending = {} /\ running = {}
     THEN pc' = "returned" /\ result' = Verdict
     ELSE pc' = "spawn" /\ UNCHANGED result
  /\ UNCHANGED <<jobs, next, running, unpolled, success_count, failed, lost, export>>

-----------------------------------------------------------------------------
Parent ==
  \/ RunExport \/ NextBag \/ SpawnOk \/ SpawnErr \/ SpawnEnd \/ PollEnd
  \/ \E i \in Input : SingleReturns(i) \/ Poll(i)

(* run_export has returned: the command may stop here *)
Returned == pc = "returned" /\ UNCHANGED vars

Next == Parent \/ (\E i \in Input : ProcessSingleRosbag(i)) \/ Returned

Spec == Init /\ [][Next]_vars

(* The parent's loop always makes its next step: nothing in it blocks. *)
ParentFair == WF_vars(Parent)

(* An export ends, for better or worse, but for those that hang. *)
ExportsFair == \A i \in Input \ Hung : WF_vars(ProcessSingleRosbag(i))

FairSpec == Spec /\ ParentFair /\ ExportsFair

-----------------------------------------------------------------------------
(* Properties *)

(* The two counts add up to all bags when the command returns, and a bag
   that was not exported is among the failed: neither a crash, nor a spawn
   that failed, nor a status that could not be read drops one
   (run_sequential_export, run_parallel_export).                            *)
AllAccountedFor ==
  result \in {"ok", "failed"} =>
    /\ success_count + Cardinality(failed) = N
    /\ {i \in Input : job[i] # "succeeded"} \subseteq failed
    /\ result = "ok" <=> failed = {}

(* No more than --jobs exports work at a time, but for those whose status
   could not be read: their places are given away while they go on.        *)
AtMostJobsAlive == Cardinality({i \in Input : Alive(i)} \ lost) <= Parallelism

(* The bundle of i is written to by another export too. *)
Disturbed(i) == \E j \in Input \ {i} : UuidOf[j] = UuidOf[i] /\ job[j] # "idle"

(* A registry of before may stand beside files that i has written: from the
   first video on until i writes its own, and for good when i fails before
   that or has no images, for which none is written.                        *)
OldRegistryStands(i) ==
  \/ job[i] \in {"encoding", "topics", "metadata", "type_map", "registry", "failed"}
  \/ i \notin Filmed

(* A bundle with the registry of videos of an export is whole: the videos and
   every table are the same bag's and none is cut short, whenever one looks and
   however the export ended.  The registry of an earlier command vouches for no
   more than what that command left: it stands beside files of this one only as
   OldRegistryStands says, and never after an export with images has ended well.
   Another bag of the same uuid, which writes to the same directory, can break
   this (run of ParquetVideoExporter: it writes in place, the registry last).  *)
RegistryMeansWhole ==
  \A i \in Input : ~Disturbed(i) =>
    LET bundle == disk[UuidOf[i]]
    IN  /\ bundle["registry"] = {i} => \A f \in File : bundle[f] = {i}
        /\ bundle["registry"] # {i} /\ (\E f \in File : i \in bundle[f]) => OldRegistryStands(i)

(* Liveness.  An export that hangs takes one place of --jobs and no more:
   with a place left, every bag is taken up (run_parallel_export).          *)
HangDoesNotStarve ==
  Parallelism > Cardinality(Hung) ~> pending = {} \/ pc = "returned"

(* The contract of a batch, with what the parent knows of each bag. *)
StatusOf(i) ==
  IF i \in pending THEN "waiting"
  ELSE IF i \in running THEN "working"
  ELSE IF i \in failed THEN "failed"
  ELSE "succeeded"

Contract == INSTANCE BatchContract
  WITH Width <- MaxJobs,
       StopOnError <- FALSE,
       status <- [i \in Input |-> StatusOf(i)],
       verdict <- result

(* `rebake export` keeps the contract of a batch command. *)
KeepsContract == Contract!Spec
=============================================================================
