----------------------------- MODULE PipelineRun -----------------------------
(***************************************************************************)
(* `rebake run` with save_contexts: the bags of a command line are put     *)
(* through a pipeline, by this process or by children, and after each      *)
(* stage every topic of the context is written to                          *)
(*   {work_dir}/{folder of the bag}/{index}_{stage}/{topic}.parquet.       *)
(* The batch is Orchestrator's, whose `job` is worked out here step by     *)
(* step.                                                                   *)
(*                                                                         *)
(* A file is the set of what was written in it since it was last created,  *)
(* with Torn in it until one of its writers closes it.                     *)
(***************************************************************************)
EXTENDS Orchestrator, Sequences

CONSTANTS
  Jobs,         \* --jobs where it is more than 1: MaxParallel is for the other case
  Tree,         \* the bag files: [folder, ext, backup]
  Arguments,    \* command lines: sets of [via, folder, file]
  Stages,       \* the names of the stages
  Contexts,     \* the sets of topics a stage may return
  Torn

Nothing == "nothing"     \* no topic

ASSUME PipelineAssumption ==
  /\ MaxParallel <= 1 /\ Jobs > 1
  /\ Stages \in Seq(STRING) /\ Stages # <<>>
  /\ Nothing \notin UNION Contexts

VARIABLES
  input,     \* the paths, as collected
  in_process,
  work,      \* of each input: where its pipeline is
  disk,      \* the files of work_dir
  aborted    \* this process has panicked

pipelineVars == <<vars, input, in_process, work, disk, aborted>>

Children == INSTANCE Orchestrator WITH MaxParallel <- Jobs

(***************************************************************************)
(* Which bags.  A path is [via, file]: via tells "x" from "./x", which are *)
(* two paths to one file.                                                  *)
(***************************************************************************)
NoFile == [folder |-> "none", ext |-> "none", backup |-> FALSE]   \* the argument is a folder
Here == "here"     \* the folder the command runs in, which a path does not name

(* given by name: the extension in any case, and no backup *)
Accepted(f) == f.ext \in {"bag", "mcap", "MCAP"} /\ ~f.backup

(* found in a folder *)
Collectable(f) == f.ext \in {"bag", "mcap"} /\ ~f.backup

collect_rosbags(a) ==
  {[via |-> a.via, file |-> f] :
     f \in IF a.file = NoFile THEN {g \in Tree : g.folder = a.folder /\ Collectable(g)} ELSE {a.file}}

Refused(a) == IF a.file = NoFile THEN collect_rosbags(a) = {} ELSE ~Accepted(a.file)

collect_rosbags_from_paths(args) == UNION {collect_rosbags(a) : a \in args}

(* sorted by name, which may be any order of them *)
Inputs(args) ==
  LET paths == collect_rosbags_from_paths(args)
  IN  {f \in [Input -> paths] : {f[i] : i \in Input} = paths}

(***************************************************************************)
(* The pipeline of one input: [step, topics, todo, open, saved].  step is  *)
(* where it is, topics what its last stage returned, todo those yet to be  *)
(* saved, open the one whose file is open, saved what the contexts held    *)
(* that were saved so far.                                                 *)
(***************************************************************************)
Idle == [step |-> "off", topics |-> {}, todo |-> {}, open |-> Nothing, saved |-> <<>>]

dir_name(i) == input[i].file.folder

stage_index(i) == Len(work[i].saved) + 1

(* Faulty: without the index. *)
stage_dir_by_name(i) == <<dir_name(i), Stages[stage_index(i)]>>

stage_dir(i) == <<dir_name(i), Stages[stage_index(i)], stage_index(i)>>

(* topics without their "/" *)
output_path(dir, t) == Append(dir, t)

(* File::create: a new file, or what was there is gone *)
Created(path) == [p \in DOMAIN disk \cup {path} |-> IF p = path THEN {Torn} ELSE disk[p]]

Working(i, step) == job[i] = "alive" /\ work[i].step = step /\ ~aborted

Goto(i, step) == work' = [work EXCEPT ![i] = [Idle EXCEPT !.step = step, !.saved = work[i].saved]]

Through(i) == work[i].step = "stage" /\ stage_index(i) > Len(Stages)

(* Pipeline::run: the folder, or an error when the path does not name one *)
BeginPipeline(i) ==
  /\ Working(i, "begin")
  /\ IF dir_name(i) = Here THEN Goto(i, "failed") ELSE Goto(i, "stage") \/ Goto(i, "failed")
  /\ UNCHANGED <<vars, input, in_process, disk, aborted>>

(* A stage returns a context with the topics it had or others. *)
RunStage(i) ==
  /\ Working(i, "stage")
  /\ stage_index(i) <= Len(Stages)
  /\ \/ \E T \in Contexts : work' = [work EXCEPT ![i].step = "save", ![i].topics = T, ![i].todo = T]
     \/ Goto(i, "failed")
  /\ UNCHANGED <<vars, input, in_process, disk, aborted>>

(* save_context: the topics in the order of a HashMap *)
CreateFile(i) ==
  /\ Working(i, "save")
  /\ work[i].open = Nothing
  /\ \E t \in work[i].todo :
       /\ work' = [work EXCEPT ![i].todo = @ \ {t}, ![i].open = t]
       /\ disk' = Created(output_path(stage_dir(i), t))
  /\ UNCHANGED <<vars, input, in_process, aborted>>

FinishFile(i) ==
  /\ Working(i, "save")
  /\ work[i].open # Nothing
  /\ LET t == work[i].open IN
       disk' = [disk EXCEPT ![output_path(stage_dir(i), t)] = (@ \ {Torn}) \cup {<<i, stage_index(i), t>>}]
  /\ work' = [work EXCEPT ![i].open = Nothing]
  /\ UNCHANGED <<vars, input, in_process, aborted>>

(* Faulty: a table that cannot be written is passed over. *)
SaveFailsQuietly(i) ==
  /\ Working(i, "save")
  /\ work' = [work EXCEPT ![i].todo = {}, ![i].open = Nothing]
  /\ UNCHANGED <<vars, input, in_process, disk, aborted>>

SaveFails(i) ==
  /\ Working(i, "save")
  /\ work[i].todo # {} \/ work[i].open # Nothing
  /\ Goto(i, "failed")
  /\ UNCHANGED <<vars, input, in_process, disk, aborted>>

ContextSaved(i) ==
  /\ Working(i, "save")
  /\ work[i].todo = {} /\ work[i].open = Nothing
  /\ work' = [work EXCEPT ![i] = [Idle EXCEPT !.step = "stage", !.saved = Append(work[i].saved, work[i].topics)]]
  /\ UNCHANGED <<vars, input, in_process, disk, aborted>>

(***************************************************************************)
(* The batch.                                                              *)
(***************************************************************************)
PipelineInit ==
  /\ \E args \in Arguments :
       /\ \A a \in args : ~Refused(a)
       /\ Cardinality(collect_rosbags_from_paths(args)) = N
       /\ input \in Inputs(args)
  /\ Init
  /\ in_process \in BOOLEAN
  /\ work = [i \in Input |-> Idle]
  /\ disk = <<>>
  /\ aborted = FALSE

(* What a step of the batch is for the pipelines: an input that is taken up
   begins, one whose pipeline is through succeeds, and one that failed does,
   as does a child that crashes or is killed, wherever it is.               *)
Follows ==
  /\ \A i \in Input : job[i] = "alive" /\ job'[i] = "succeeded" => Through(i)
  /\ \A i \in Input : job[i] = "alive" /\ job'[i] = "failed" /\ in_process => work[i].step = "failed"
  /\ work' = [i \in Input |->
       IF job[i] = job'[i] THEN work[i]
       ELSE [Idle EXCEPT !.step = IF job'[i] = "alive" THEN "begin" ELSE "off", !.saved = work[i].saved]]

BatchInProcess ==
  /\ in_process /\ ~aborted
  /\ Run \/ InProcess \/ FinishInputBatch
  /\ Follows
  /\ UNCHANGED <<input, in_process, disk, aborted>>

BatchIsolated ==
  /\ ~in_process
  /\ \/ Children!Run \/ Children!Isolated \/ Children!FinishInputBatch
     \/ \E i \in Input : Children!Child(i)
  /\ Follows
  /\ UNCHANGED <<input, in_process, disk, aborted>>

(* A panic in a stage, which in a child is a failure like others. *)
Panic ==
  /\ in_process
  /\ \E i \in Input : Working(i, "stage")
  /\ aborted' = TRUE
  /\ UNCHANGED <<vars, input, in_process, work, disk>>

PipelineStep(i) ==
  \/ BeginPipeline(i) \/ RunStage(i)
  \/ CreateFile(i) \/ FinishFile(i) \/ SaveFails(i) \/ ContextSaved(i)

Over == (result # "none" \/ aborted) /\ UNCHANGED pipelineVars

PipelineNext ==
  \/ BatchInProcess
  \/ BatchIsolated
  \/ Panic
  \/ \E i \in Input : PipelineStep(i)
  \/ Over

PipelineSpec == PipelineInit /\ [][PipelineNext]_pipelineVars

(***************************************************************************)
(* Properties.                                                             *)
(***************************************************************************)
(* Folders are named after the last part of a path only, so that bags of one
   folder, and of folders of one name, share theirs.  In process the later
   one has it to itself while it works.                                     *)
HasFolder(i) ==
  \A j \in Input \ {i} :
    dir_name(j) = dir_name(i) => in_process /\ (j < i \/ job[j] = "idle")

(* The contexts saved of an input are its own, whole, and of all stages up
   to where its pipeline got, whatever other inputs do, and also when it or
   they fail, crash or are killed; and Ok says that all stages of all inputs
   were gone through (save_contexts: "the state of the dataset after each
   stage is saved to a subdirectory within work_dir").                      *)
SavedIsOwn ==
  /\ \A i \in Input : HasFolder(i) =>
       \A k \in DOMAIN work[i].saved : \A t \in work[i].saved[k] :
         LET path == output_path(<<dir_name(i), Stages[k], k>>, t)
         IN  path \in DOMAIN disk /\ disk[path] = {<<i, k, t>>}
  /\ result = "ok" => \A i \in Input : Len(work[i].saved) = Len(Stages)
=============================================================================
