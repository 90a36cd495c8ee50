---------------------------- MODULE Orchestrator ----------------------------
(***************************************************************************)
(* `Orchestrator::run`: a batch of inputs is put through the pipeline,     *)
(* either one after the other in this process or by child processes that a *)
(* polling loop spawns, watches and, under stop_on_error, kills.           *)
(*                                                                         *)
(* The inputs are 1 .. N in the order of the Vec.  `pending` only ever     *)
(* loses its first element, so it is the suffix next .. N.  The order of   *)
(* the Vec `running` decides only the order of log lines and is left out.  *)
(***************************************************************************)
EXTENDS Naturals, FiniteSets

CONSTANTS
  N,             \* inputs.len()
  MaxParallel,   \* the max_parallel argument (--jobs), 0 allowed
  StopOnError    \* config.stop_on_error

ASSUME OrchestratorAssumption ==
  /\ N \in Nat
  /\ MaxParallel \in Nat
  /\ StopOnError \in BOOLEAN

Input == 1 .. N

(* max_parallel.max(1).min(inputs.len()), for a nonempty list of inputs *)
AtLeastOne == IF MaxParallel = 0 THEN 1 ELSE MaxParallel
Parallelism == IF AtLeastOne <= N THEN AtLeastOne ELSE N

VARIABLES
  pc,           \* where the parent is, see Control
  next,         \* first input not yet taken from `pending`
  running,      \* inputs the parent holds a child of (or works on itself)
  unpolled,     \* those not yet polled in this pass of the polling loop
  failed,       \* inputs recorded as failed
  should_stop,
  job,          \* the work itself: what the process of each input does
  killed,       \* inputs whose child was sent a kill
  lost,         \* inputs whose child was let go when its status check failed
  result        \* what run() has returned

parent == <<pc, next, running, unpolled, failed, should_stop, killed, lost, result>>
vars == <<pc, next, running, unpolled, failed, should_stop, job, killed, lost, result>>

Control == {"run", "in_process", "single_input", "setup", "loop", "kill", "spawn",
            "poll", "finish", "returned"}

TypeOK ==
  /\ pc \in Control
  /\ next \in 1 .. N + 1
  /\ running \subseteq Input /\ unpolled \subseteq Input /\ failed \subseteq Input
  /\ should_stop \in BOOLEAN
  /\ job \in [Input -> {"idle", "alive", "succeeded", "failed", "dead"}]
  /\ killed \subseteq Input /\ lost \subseteq Input
  /\ result \in {"none", "ok", "input_error", "batch_error", "setup_error"}

pending == next .. N

Init ==
  /\ pc = "run"
  /\ next = 1
  /\ running = {} /\ unpolled = {} /\ failed = {}
  /\ should_stop = FALSE
  /\ job = [i \in Input |-> "idle"]
  /\ killed = {} /\ lost = {}
  /\ result = "none"

-----------------------------------------------------------------------------
(* run: nothing to do, this process, or child processes *)

Run ==
  /\ pc = "run"
  /\ \/ N = 0 /\ pc' = "returned" /\ result' = "ok"
     \/ N > 0 /\ Parallelism <= 1 /\ pc' = "in_process" /\ UNCHANGED result
     \/ N > 0 /\ Parallelism > 1 /\ pc' = "setup" /\ UNCHANGED result
  /\ UNCHANGED <<next, running, unpolled, failed, should_stop, job, killed, lost>>

-----------------------------------------------------------------------------
(* run_in_process *)

NextInput ==
  /\ pc = "in_process"
  /\ IF pending = {}
     THEN /\ pc' = "finish"
          /\ UNCHANGED <<next, running, job>>
     ELSE /\ pc' = "single_input"
          /\ next' = next + 1
          /\ running' = {next}
          /\ job' = [job EXCEPT ![next] = "alive"]
  /\ UNCHANGED <<unpolled, failed, should_stop, killed, lost, result>>

(* run_single_input returns, and the loop goes on or breaks *)
SingleInputOk ==
  /\ pc = "single_input"
  /\ \E i \in running : job' = [job EXCEPT ![i] = "succeeded"]
  /\ running' = {}
  /\ pc' = "in_process"
  /\ UNCHANGED <<next, unpolled, failed, should_stop, killed, lost, result>>

SingleInputErr ==
  /\ pc = "single_input"
  /\ \E i \in running : /\ job' = [job EXCEPT ![i] = "failed"]
                        /\ failed' = failed \cup {i}
  /\ running' = {}
  /\ pc' = IF StopOnError THEN "finish" ELSE "in_process"
  /\ UNCHANGED <<next, unpolled, should_stop, killed, lost, result>>

-----------------------------------------------------------------------------
(* run_with_process_isolation *)

(* current_exe and serialize_config may fail before anything is spawned *)
Setup ==
  /\ pc = "setup"
  /\ \/ pc' = "loop" /\ UNCHANGED result
     \/ pc' = "returned" /\ result' = "setup_error"
  /\ UNCHANGED <<next, running, unpolled, failed, should_stop, job, killed, lost>>

(* Faulty: a stopping batch breaks without killing its children. *)
LoopHeadBreaks ==
  /\ pc = "loop"
  /\ pc' = IF (pending = {} /\ running = {}) \/ (should_stop /\ StopOnError)
           THEN "finish" ELSE "spawn"
  /\ UNCHANGED <<next, running, unpolled, failed, should_stop, job, killed, lost, result>>

(* Faulty: a stopping batch waits for its children. *)
LoopHeadWaits ==
  /\ pc = "loop"
  /\ pc' = IF running = {} /\ (pending = {} \/ (should_stop /\ StopOnError))
           THEN "finish" ELSE "spawn"
  /\ UNCHANGED <<next, running, unpolled, failed, should_stop, job, killed, lost, result>>

LoopHead ==
  /\ pc = "loop"
  /\ pc' = IF pending = {} /\ running = {} THEN "finish"
           ELSE IF should_stop /\ StopOnError THEN "kill" ELSE "spawn"
  /\ UNCHANGED <<next, running, unpolled, failed, should_stop, job, killed, lost, result>>

(* Faulty: a killed child is reported as failed. *)
KillReported(i) ==
  /\ pc = "kill"
  /\ i \in running
  /\ running' = running \ {i}
  /\ killed' = killed \cup {i}
  /\ failed' = failed \cup {i}
  /\ UNCHANGED <<pc, next, unpolled, should_stop, job, lost, result>>

(* child.kill(), whose result is ignored; the child is not waited for *)
Kill(i) ==
  /\ pc = "kill"
  /\ i \in running
  /\ running' = running \ {i}
  /\ killed' = killed \cup {i}
  /\ UNCHANGED <<pc, next, unpolled, failed, should_stop, job, lost, result>>

KillBreak ==
  /\ pc = "kill"
  /\ running = {}
  /\ pc' = "finish"
  /\ UNCHANGED <<next, running, unpolled, failed, should_stop, job, killed, lost, result>>

(* Faulty: one child too many. *)
MaySpawnOneMore ==
  /\ Cardinality(running) <= Parallelism
  /\ pending # {}
  /\ ~(should_stop /\ StopOnError)

MaySpawn ==
  /\ Cardinality(running) < Parallelism
  /\ pending # {}
  /\ ~(should_stop /\ StopOnError)

SpawnOk ==
  /\ pc = "spawn"
  /\ MaySpawn
  /\ next' = next + 1
  /\ running' = running \cup {next}
  /\ job' = [job EXCEPT ![next] = "alive"]
  /\ UNCHANGED <<pc, unpolled, failed, should_stop, killed, lost, result>>

(* Faulty: an input that could not be spawned is dropped. *)
SpawnErrUnrecorded ==
  /\ pc = "spawn"
  /\ MaySpawn
  /\ next' = next + 1
  /\ UNCHANGED <<pc, running, unpolled, failed, should_stop, job, killed, lost, result>>

SpawnErr ==
  /\ pc = "spawn"
  /\ MaySpawn
  /\ next' = next + 1
  /\ failed' = failed \cup {next}
  /\ should_stop' = TRUE
  /\ UNCHANGED <<pc, running, unpolled, job, killed, lost, result>>

SpawnEnd ==
  /\ pc = "spawn"
  /\ ~MaySpawn
  /\ unpolled' = running
  /\ pc' = "poll"
  /\ UNCHANGED <<next, running, failed, should_stop, job, killed, lost, result>>

(* Faulty: a child that finished goes back into still_running. *)
PollFinishedKept(i) ==
  /\ pc = "poll"
  /\ i \in unpolled
  /\ job[i] = "succeeded"
  /\ unpolled' = unpolled \ {i}
  /\ UNCHANGED <<pc, next, running, failed, should_stop, job, killed, lost, result>>

(* try_wait: exited with success, exited otherwise, still alive, or error *)
PollFinished(i) ==
  /\ pc = "poll"
  /\ i \in unpolled
  /\ job[i] = "succeeded"
  /\ unpolled' = unpolled \ {i}
  /\ running' = running \ {i}
  /\ UNCHANGED <<pc, next, failed, should_stop, job, killed, lost, result>>

(* Faulty: the failure is recorded and should_stop is not set. *)
PollFailedGoesOn(i) ==
  /\ pc = "poll"
  /\ i \in unpolled
  /\ job[i] = "failed"
  /\ unpolled' = unpolled \ {i}
  /\ running' = running \ {i}
  /\ failed' = failed \cup {i}
  /\ UNCHANGED <<pc, next, should_stop, job, killed, lost, result>>

PollFailed(i) ==
  /\ pc = "poll"
  /\ i \in unpolled
  /\ job[i] = "failed"
  /\ unpolled' = unpolled \ {i}
  /\ running' = running \ {i}
  /\ failed' = failed \cup {i}
  /\ should_stop' = TRUE
  /\ UNCHANGED <<pc, next, job, killed, lost, result>>

PollAlive(i) ==
  /\ pc = "poll"
  /\ i \in unpolled
  /\ job[i] = "alive"
  /\ unpolled' = unpolled \ {i}
  /\ UNCHANGED <<pc, next, running, failed, should_stop, job, killed, lost, result>>

(* The Child is dropped, which neither kills nor waits for the process. *)
PollErr(i) ==
  /\ pc = "poll"
  /\ i \in unpolled
  /\ unpolled' = unpolled \ {i}
  /\ running' = running \ {i}
  /\ failed' = failed \cup {i}
  /\ should_stop' = TRUE
  /\ lost' = lost \cup {i}
  /\ UNCHANGED <<pc, next, job, killed, result>>

PollEnd ==
  /\ pc = "poll"
  /\ unpolled = {}
  /\ pc' = "loop"
  /\ UNCHANGED <<next, running, unpolled, failed, should_stop, job, killed, lost, result>>

-----------------------------------------------------------------------------
(* finish_input_batch *)

FinishInputBatch ==
  /\ pc = "finish"
  /\ pc' = "returned"
  /\ result' = IF failed = {} THEN "ok"
               ELSE IF N = 1 /\ Cardinality(failed) = 1 THEN "input_error"
               ELSE "batch_error"
  /\ UNCHANGED <<next, running, unpolled, failed, should_stop, job, killed, lost>>

-----------------------------------------------------------------------------
(* A child runs the in-process path on one input and exits with its verdict;
   it may also crash, which its exit status reports like a failure.  A child
   that was sent a kill may still get to exit by itself before it dies.     *)

IsChild(i) == pc # "single_input" /\ job[i] = "alive"

ChildSucceeds(i) ==
  /\ IsChild(i)
  /\ job' = [job EXCEPT ![i] = "succeeded"]
  /\ UNCHANGED parent

ChildFails(i) ==
  /\ IsChild(i)
  /\ job' = [job EXCEPT ![i] = "failed"]
  /\ UNCHANGED parent

ChildIsKilled(i) ==
  /\ IsChild(i)
  /\ i \in killed
  /\ job' = [job EXCEPT ![i] = "dead"]
  /\ UNCHANGED parent

-----------------------------------------------------------------------------
InProcess == NextInput \/ SingleInputOk \/ SingleInputErr

Poll(i) == PollFinished(i) \/ PollFailed(i) \/ PollAlive(i) \/ PollErr(i)

Isolated ==
  \/ Setup \/ LoopHead \/ KillBreak
  \/ SpawnOk \/ SpawnErr \/ SpawnEnd \/ PollEnd
  \/ \E i \in Input : Kill(i) \/ Poll(i)

Parent == Run \/ InProcess \/ Isolated \/ FinishInputBatch

Child(i) == ChildSucceeds(i) \/ ChildFails(i) \/ ChildIsKilled(i)

(* run() has returned: the command may stop here *)
Returned == pc = "returned" /\ UNCHANGED vars

Next == Parent \/ (\E i \in Input : Child(i)) \/ Returned

Spec == Init /\ [][Next]_vars

(* The parent's loop always makes its next step: nothing in it blocks.  *)
ParentFair == WF_vars(Parent)

(* A pipeline run ends, for better or worse; assumed only where said so. *)
ChildrenFair == \A i \in Input : WF_vars(Child(i))

FairSpec == Spec /\ ParentFair

-----------------------------------------------------------------------------
(* Properties *)

(* What is still at work after a failure or a lost child is not forgotten:
   Ok is returned only when the work on every input really succeeded,
   whatever the poll saw and whenever it looked (finish_input_batch).       *)
OkMeansAllSucceeded ==
  result = "ok" => \A i \in Input : job[i] = "succeeded"

(* When the batch ran at all, an input that did not succeed is in the list
   of failures, unless the batch stopped early: then it was killed or never
   taken up, and some other input is reported (finish_input_batch).         *)
NothingUnaccounted ==
  result \in {"ok", "input_error", "batch_error"} =>
    \A i \in Input :
      \/ job[i] = "succeeded"
      \/ i \in failed
      \/ StopOnError /\ failed # {} /\ i \in killed \cup pending

(* An input is blamed only for a failure of its own: its process failed,
   could not be spawned, or could not be watched.  A child the parent killed
   is never reported as failed (the kill loop of stop_on_error).            *)
FailureIsReal ==
  \A i \in failed :
    /\ job[i] \in {"failed", "idle"} \/ i \in lost
    /\ i \notin killed

(* No more than --jobs processes work at a time, but for those that were
   killed and have not died yet, or whose status could not be read.         *)
AtMostJobsAlive ==
  Cardinality({i \in Input : job[i] = "alive"} \ (killed \cup lost)) <= Parallelism

(* run() leaves no child behind, except those it killed without waiting and
   those it let go because their status could not be read.                  *)
NoChildLeftBehind ==
  result # "none" => {i \in Input : job[i] = "alive"} \subseteq killed \cup lost

(* Under stop_on_error nothing is started once a failure is known, in either
   path, though the failure may be found in the middle of a spawn loop.     *)
NoStartAfterFailure ==
  [][StopOnError /\ failed # {} =>
       \A i \in Input : job[i] = "idle" => job'[i] = "idle"]_vars

(* Liveness.  run() returns if the pipelines it started all end. *)
Returns == ChildrenFair => <>(result # "none")

(* Under stop_on_error a failure ends the command even when the other
   children never do: it kills them and does not wait.                      *)
StopDoesNotWait == StopOnError /\ failed # {} ~> result # "none"

(* The contract of a batch, with what the parent knows of each input. *)
StatusOf(i) ==
  IF i \in pending THEN "waiting"
  ELSE IF i \in running THEN "working"
  ELSE IF i \in failed THEN "failed"
  ELSE IF i \in killed THEN "abandoned"
  ELSE "succeeded"

VerdictOf(r) ==
  CASE r \in {"none", "ok"} -> r
    [] r = "setup_error" -> "not_started"
    [] OTHER -> "failed"

Contract == INSTANCE BatchContract
  WITH Width <- AtLeastOne,
       status <- [i \in Input |-> StatusOf(i)],
       verdict <- VerdictOf(result)

(* `rebake run` keeps the contract of a batch command. *)
KeepsContract == Contract!Spec
=============================================================================
