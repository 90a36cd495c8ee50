--------------------------- MODULE BatchContract ---------------------------
(***************************************************************************)
(* What a batch command promises its caller, without processes, polling or *)
(* signals: every input is taken up at most once and in order, at most     *)
(* Width of them are waited for at a time, a batch that stops on errors    *)
(* takes up nothing after the first failure it knows of, and the verdict   *)
(* agrees with what became of the inputs.  `rebake run` (Orchestrator) and *)
(* `rebake export` (ExportBatch) are shown to implement it.                *)
(***************************************************************************)
EXTENDS Naturals, FiniteSets

CONSTANTS
  N,            \* number of inputs, a natural number
  Width,        \* how many inputs may be waited for at a time, at least 1
  StopOnError   \* does a failure end the batch? a Boolean

Input == 1 .. N

VARIABLES
  status,   \* what the batch knows of each input
  verdict   \* what the command has returned, "none" before it returns

vars == <<status, verdict>>

Having(s) == {i \in Input : status[i] = s}

Stopping == StopOnError /\ Having("failed") # {}

Init ==
  /\ status = [i \in Input |-> "waiting"]
  /\ verdict = "none"

(* An input is taken up, or refused by the system before it could run. *)
TakeUp(i) ==
  /\ verdict = "none"
  /\ status[i] = "waiting"
  /\ \A j \in Having("waiting") : i <= j
  /\ Cardinality(Having("working")) < Width
  /\ ~Stopping
  /\ \E s \in {"working", "failed"} : status' = [status EXCEPT ![i] = s]
  /\ UNCHANGED verdict

(* The batch learns how an input ended, or gives it up while stopping. *)
Resolve(i) ==
  /\ status[i] = "working"
  /\ \E s \in {"succeeded", "failed"} \cup (IF Stopping THEN {"abandoned"} ELSE {}) :
       status' = [status EXCEPT ![i] = s]
  /\ UNCHANGED verdict

Return ==
  /\ verdict = "none"
  /\ Having("working") = {}
  /\ Having("waiting") = {} \/ Stopping
  /\ verdict' = IF Having("failed") = {} THEN "ok" ELSE "failed"
  /\ UNCHANGED status

(* The command gives up before it takes up any input. *)
Refuse ==
  /\ verdict = "none"
  /\ Having("waiting") = Input
  /\ verdict' = "not_started"
  /\ UNCHANGED status

Next ==
  \/ \E i \in Input : TakeUp(i) \/ Resolve(i)
  \/ Return
  \/ Refuse

Spec == Init /\ [][Next]_vars
=============================================================================
