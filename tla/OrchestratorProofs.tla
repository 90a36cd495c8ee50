-------------------------- MODULE OrchestratorProofs --------------------------
(***************************************************************************)
(* The safety of `Orchestrator::run` for every number of inputs, every     *)
(* --jobs value and both settings of stop_on_error; and, from what holds   *)
(* whatever --jobs is (Core), that of the pipelines a run puts the inputs  *)
(* through, in this process or in children (PipelineRun).                  *)
(***************************************************************************)
EXTENDS PipelineRun, FiniteSetTheorems, TLAPS

(* TypeOK without its Boolean, which the provers treat apart. *)
Typed ==
  /\ pc \in Control
  /\ next \in 1 .. N + 1
  /\ running \subseteq Input /\ unpolled \subseteq Input /\ failed \subseteq Input
  /\ job \in [Input -> {"idle", "alive", "succeeded", "failed", "dead"}]
  /\ killed \subseteq Input /\ lost \subseteq Input
  /\ result \in {"none", "ok", "input_error", "batch_error", "setup_error"}

Flag == should_stop \in BOOLEAN

(* An input is held, failed or killed, never two of these, once taken. *)
Places ==
  /\ \A i \in running : i < next /\ i \notin failed /\ i \notin killed
  /\ \A i \in failed : i < next /\ i \notin killed
  /\ \A i \in killed : i < next
  /\ lost \subseteq failed
  /\ unpolled \subseteq running
  /\ pc # "poll" => unpolled = {}

(* What the parent's bookkeeping says of the work itself. *)
Work ==
  /\ \A i \in Input : i >= next => job[i] = "idle"
  /\ \A i \in Input : i < next => i \in running \cup failed \cup killed \/ job[i] = "succeeded"
  /\ \A i \in failed : job[i] \in {"failed", "idle"} \/ i \in lost

(* The batch is cut short by a failure. *)
Halting == StopOnError /\ failed # {}

Stops ==
  /\ should_stop => failed # {}
  /\ killed # {} => Halting
  /\ pc = "kill" => Halting
  /\ pc \in {"loop", "spawn", "poll"} /\ failed # {} => should_stop

(* What is settled at each point of control. *)
AtControl ==
  /\ pc \in {"run", "setup"} => next = 1 /\ failed = {} /\ ~Halting
  /\ pc \in {"run", "setup", "in_process", "finish", "returned"} => running = {}
  /\ pc = "single_input" => \E i \in Input : running = {i} /\ job[i] = "alive"
  /\ pc \in {"in_process", "single_input"} => ~Halting
  /\ pc \in {"finish", "returned"} /\ result # "setup_error" => next = N + 1 \/ Halting
  /\ pc = "returned" <=> result # "none"
  /\ result = "ok" => failed = {}
  /\ result \in {"input_error", "batch_error"} => failed # {}
  /\ result = "setup_error" => next = 1

(* The part that holds whatever --jobs is. *)
Core == Typed /\ Flag /\ Places /\ Work /\ Stops /\ AtControl

Bounded == IsFiniteSet(running) /\ Cardinality(running) <= Parallelism

Alone == pc \in {"in_process", "single_input"} => Parallelism = 1

IInv == Core /\ Bounded /\ Alone

-----------------------------------------------------------------------------
LEMMA TypeOKSplit == TypeOK <=> Typed /\ Flag
BY DEF TypeOK, Typed, Flag

LEMMA ParallelismType ==
  /\ Parallelism \in Nat
  /\ AtLeastOne \in Nat \ {0}
  /\ Parallelism <= AtLeastOne
  /\ N > 0 /\ Parallelism <= 1 => Parallelism = 1
BY OrchestratorAssumption DEF Parallelism, AtLeastOne

(* The two cases of `pending`: used up, or next is an input. *)
LEMMA PendingCases ==
  ASSUME Typed
  PROVE  /\ next \in Nat
         /\ pending = {} <=> next = N + 1
         /\ pending # {} <=> next \in Input
         /\ \A i \in Input : i \in pending <=> i >= next
<1> USE OrchestratorAssumption DEF Typed, pending, Input
<1>1. next \in Input => next \in pending
  OBVIOUS
<1>2. pending = {} <=> next = N + 1
  BY <1>1
<1>3. next \in Nat /\ (next \in Input <=> next # N + 1)
  OBVIOUS
<1>4. \A i \in Input : i \in pending <=> i >= next
  OBVIOUS
<1>5. QED
  BY <1>2, <1>3, <1>4

LEMMA InitCore == Init => Core
<1> SUFFICES ASSUME Init PROVE Core
  OBVIOUS
<1> USE OrchestratorAssumption DEF Init
<1>1. Typed
  BY DEF Typed, Control, Input
<1>2. Flag
  BY DEF Flag
<1>3. Places /\ Work
  BY DEF Places, Work, Input
<1>4. Stops /\ AtControl
  BY DEF Stops, AtControl, Halting
<1>5. QED
  BY <1>1, <1>2, <1>3, <1>4 DEF Core

LEMMA InitInv == Init => IInv
BY InitCore, ParallelismType, FS_EmptySet DEF IInv, Bounded, Alone, Init

-----------------------------------------------------------------------------
(* run and run_in_process: `running` is the one input being worked on. *)

(* Run, whichever path it takes. *)
LEMMA RunCore ==
  ASSUME Core, pc = "run",
         \/ N = 0 /\ pc' = "returned" /\ result' = "ok"
         \/ N > 0 /\ pc' \in {"in_process", "setup"} /\ UNCHANGED result,
         UNCHANGED <<next, running, unpolled, failed, should_stop, job, killed, lost>>
  PROVE  Core'
<1> USE OrchestratorAssumption DEF Core
<1>1. Typed' /\ Flag'
  BY DEF Typed, Flag, Control
<1>2. Places' /\ Work'
  BY DEF Places, Work
<1>3. Halting' <=> Halting
  BY DEF Halting
<1>4. Stops'
  BY <1>3 DEF Stops
<1>5. AtControl'
  BY <1>3 DEF AtControl, Typed
<1>6. QED
  BY <1>1, <1>2, <1>4, <1>5

LEMMA NextInputCore == Core /\ NextInput => Core'
<1> SUFFICES ASSUME Core, NextInput PROVE Core'
  OBVIOUS
<1> USE OrchestratorAssumption, PendingCases DEF Core, NextInput
<1>0. Flag' /\ (Halting' <=> Halting)
  BY DEF Halting, Flag
<1>1. running = {}
  BY DEF AtControl
<1>2. CASE pending = {}
  <2>1. Typed' /\ Places' /\ Work'
    BY <1>2 DEF Typed, Places, Work, Control
  <2>2. Stops' /\ AtControl'
    BY <1>0, <1>2 DEF Stops, AtControl, Typed
  <2>3. QED
    BY <1>0, <2>1, <2>2
<1>3. CASE pending # {}
  <2>1. Typed'
    BY <1>3 DEF Typed, Control, Input
  <2>2. Places' /\ Work'
    BY <1>1, <1>3 DEF Typed, Places, Work, Input
  <2>3. Stops' /\ AtControl'
    BY <1>0, <1>1, <1>3 DEF Stops, AtControl, Typed
  <2>4. QED
    BY <1>0, <2>1, <2>2, <2>3
<1>4. QED
  BY <1>2, <1>3

LEMMA SingleInputCore == Core /\ (SingleInputOk \/ SingleInputErr) => Core'
<1> SUFFICES ASSUME Core, SingleInputOk \/ SingleInputErr PROVE Core'
  OBVIOUS
<1> USE DEF Core
<1>1. PICK i \in Input : running = {i} /\ job[i] = "alive"
  BY DEF AtControl, SingleInputOk, SingleInputErr
<1>2. Flag'
  BY DEF Flag, SingleInputOk, SingleInputErr
<1>3. CASE SingleInputOk
  <2> USE <1>3 DEF SingleInputOk
  <2>0. job' = [job EXCEPT ![i] = "succeeded"]
    BY <1>1
  <2>1. Halting' <=> Halting
    BY DEF Halting
  <2>2. Typed'
    BY <2>0 DEF Typed, Control
  <2>3. Places'
    BY <1>1 DEF Places
  <2>4. Work'
    BY <1>1, <2>0 DEF Places, Work, Typed
  <2>5. Stops' /\ AtControl'
    BY <2>1 DEF Stops, AtControl, Typed
  <2>6. QED
    BY <1>2, <2>2, <2>3, <2>4, <2>5
<1>4. CASE SingleInputErr
  <2> USE <1>4 DEF SingleInputErr
  <2>1. /\ job' = [job EXCEPT ![i] = "failed"]
        /\ failed' = failed \cup {i}
    BY <1>1
  <2>2. Halting' <=> StopOnError
    BY <2>1 DEF Halting
  <2>3. Typed'
    BY <2>1 DEF Typed, Control
  <2>4. Places'
    BY <1>1, <2>1 DEF Places
  <2>5. Work'
    BY <1>1, <2>1 DEF Places, Work, Typed
  <2>6. Stops'
    BY <2>1, <2>2 DEF Stops, Halting
  <2>7. AtControl'
    BY <2>1, <2>2 DEF AtControl, Typed
  <2>8. QED
    BY <1>2, <2>3, <2>4, <2>5, <2>6, <2>7
<1>5. QED
  BY <1>3, <1>4

-----------------------------------------------------------------------------
(* run_with_process_isolation *)

(* SpawnEnd, however many children may work. *)
SpawnEnds ==
  /\ pc = "spawn"
  /\ unpolled' = running
  /\ pc' = "poll"
  /\ UNCHANGED <<next, running, failed, should_stop, job, killed, lost, result>>

(* The steps that move the parent on and touch no input. *)
LEMMA MoveOnCore == Core /\ (Setup \/ LoopHead \/ KillBreak \/ SpawnEnds \/ PollEnd) => Core'
<1> SUFFICES ASSUME Core, Setup \/ LoopHead \/ KillBreak \/ SpawnEnds \/ PollEnd PROVE Core'
  OBVIOUS
<1> USE PendingCases DEF Core, Setup, LoopHead, KillBreak, SpawnEnds, PollEnd
<1>1. Flag' /\ (Halting' <=> Halting)
  BY DEF Halting, Flag
<1>2. Typed'
  BY DEF Typed, Control
<1>3. Places'
  BY DEF Places
<1>4. Work'
  BY DEF Work
<1>5. Stops'
  BY <1>1 DEF Stops, AtControl, Halting
<1>6. AtControl'
  BY <1>1 DEF AtControl, Stops
<1>7. QED
  BY <1>1, <1>2, <1>3, <1>4, <1>5, <1>6

LEMMA KillCore == ASSUME Core, NEW i \in Input, Kill(i) PROVE Core'
<1> USE DEF Core, Kill
<1>1. Flag' /\ (Halting' <=> Halting) /\ Halting
  BY DEF Halting, Flag, Stops
<1>2. Typed'
  BY DEF Typed
<1>3. Places'
  BY DEF Places
<1>4. Work'
  BY DEF Work
<1>5. Stops'
  BY <1>1 DEF Stops
<1>6. AtControl'
  BY <1>1 DEF AtControl
<1>7. QED
  BY <1>1, <1>2, <1>3, <1>4, <1>5, <1>6

(* SpawnOk and SpawnErr, however many children may work. *)
Spawns ==
  /\ pc = "spawn"
  /\ pending # {}
  /\ ~(should_stop /\ StopOnError)
  /\ next' = next + 1
  /\ \/ /\ running' = running \cup {next}
        /\ job' = [job EXCEPT ![next] = "alive"]
        /\ UNCHANGED <<pc, unpolled, failed, should_stop, killed, lost, result>>
     \/ /\ failed' = failed \cup {next}
        /\ should_stop' = TRUE
        /\ UNCHANGED <<pc, running, unpolled, job, killed, lost, result>>

LEMMA SpawnCore == Core /\ Spawns => Core'
<1> SUFFICES ASSUME Core, Spawns PROVE Core'
  OBVIOUS
<1> USE OrchestratorAssumption DEF Core
<1>1. pc = "spawn" /\ pc' = pc /\ next \in Input /\ next \in Nat /\ next' = next + 1
  BY PendingCases DEF Spawns
<1>2. Flag'
  BY DEF Flag, Spawns
<1>3. Halting => Halting'
  BY DEF Halting, Spawns
<1>4. CASE /\ running' = running \cup {next}
           /\ job' = [job EXCEPT ![next] = "alive"]
           /\ UNCHANGED <<pc, unpolled, failed, should_stop, killed, lost, result>>
  <2>1. Typed'
    BY <1>1, <1>4 DEF Typed, Input
  <2>2. Places'
    BY <1>1, <1>4 DEF Places, Typed
  <2>3. Work'
    BY <1>1, <1>4 DEF Work, Places, Typed, Input
  <2>4. Halting' <=> Halting
    BY <1>4 DEF Halting
  <2>5. Stops' /\ AtControl'
    BY <1>1, <1>4, <2>4 DEF Stops, AtControl, Typed
  <2>6. QED
    BY <1>2, <2>1, <2>2, <2>3, <2>5
<1>5. CASE /\ failed' = failed \cup {next}
           /\ should_stop' = TRUE
           /\ UNCHANGED <<pc, running, unpolled, job, killed, lost, result>>
  <2>1. Typed'
    BY <1>1, <1>5 DEF Typed, Input
  <2>2. Places'
    BY <1>1, <1>5 DEF Places, Typed
  <2>3. Work'
    BY <1>1, <1>5 DEF Work, Places, Typed, Input
  <2>4. Stops'
    BY <1>1, <1>3, <1>5 DEF Stops
  <2>5. AtControl'
    BY <1>1, <1>3, <1>5 DEF AtControl, Typed
  <2>6. QED
    BY <1>2, <2>1, <2>2, <2>3, <2>4, <2>5
<1>6. QED
  BY <1>4, <1>5 DEF Spawns

LEMMA PollCore == ASSUME Core, NEW i \in Input, Poll(i) PROVE Core'
<1> USE DEF Core
<1>1. CASE PollFinished(i) \/ PollAlive(i)
  <2> USE <1>1 DEF PollFinished, PollAlive
  <2>1. Flag' /\ (Halting' <=> Halting)
    BY DEF Halting, Flag
  <2>2. Typed'
    BY DEF Typed
  <2>3. Places'
    BY DEF Places
  <2>4. Work'
    BY DEF Work
  <2>5. Stops'
    BY <2>1 DEF Stops
  <2>6. AtControl'
    BY <2>1 DEF AtControl
  <2>7. QED
    BY <2>1, <2>2, <2>3, <2>4, <2>5, <2>6
<1>2. CASE PollFailed(i) \/ PollErr(i)
  <2> USE <1>2 DEF PollFailed, PollErr
  <2>1. Flag' /\ (Halting => Halting')
    BY DEF Halting, Flag
  <2>2. Typed'
    BY DEF Typed
  <2>3. Places'
    BY DEF Places
  <2>4. Work'
    BY DEF Work
  <2>5. Stops'
    BY <2>1 DEF Stops
  <2>6. AtControl'
    BY <2>1 DEF AtControl
  <2>7. QED
    BY <2>1, <2>2, <2>3, <2>4, <2>5, <2>6
<1>3. QED
  BY <1>1, <1>2 DEF Poll

LEMMA FinishCore == Core /\ FinishInputBatch => Core'
<1> SUFFICES ASSUME Core, FinishInputBatch PROVE Core'
  OBVIOUS
<1> USE DEF Core, FinishInputBatch
<1>1. Flag' /\ (Halting' <=> Halting)
  BY DEF Halting, Flag
<1>2. Typed'
  BY DEF Typed, Control
<1>3. Places' /\ Work'
  BY DEF Places, Work
<1>4. Stops'
  BY <1>1 DEF Stops
<1>5. result' \in {"ok", "input_error", "batch_error"} /\ (result' = "ok" <=> failed = {})
  OBVIOUS
<1>6. AtControl'
  BY <1>1, <1>5 DEF AtControl
<1>7. QED
  BY <1>1, <1>2, <1>3, <1>4, <1>6

-----------------------------------------------------------------------------
(* The child processes *)

LEMMA ChildCore == ASSUME Core, NEW i \in Input, Child(i) PROVE Core'
<1> USE DEF Core
<1>1. /\ job[i] = "alive" /\ pc # "single_input"
      /\ \E s \in {"succeeded", "failed", "dead"} :
           job' = [job EXCEPT ![i] = s] /\ (s = "dead" => i \in killed)
      /\ UNCHANGED parent
  BY DEF Child, ChildSucceeds, ChildFails, ChildIsKilled, IsChild
<1>2. Flag' /\ (Halting' <=> Halting)
  BY <1>1 DEF Halting, Flag, parent
<1>3. Typed'
  BY <1>1 DEF Typed, parent
<1>4. Places' /\ Stops'
  BY <1>1, <1>2 DEF Places, Stops, parent
<1>5. Work'
  BY <1>1 DEF Work, Typed, parent
<1>6. AtControl'
  BY <1>1, <1>2 DEF AtControl, parent
<1>7. QED
  BY <1>2, <1>3, <1>4, <1>5, <1>6

-----------------------------------------------------------------------------
(* All steps together; what --jobs decides is added. *)

LEMMA StepCore == Core /\ [Next]_vars => Core'
<1> SUFFICES ASSUME Core, [Next]_vars PROVE Core'
  OBVIOUS
<1>1. CASE UNCHANGED vars
  <2>1. Halting' <=> Halting
    BY <1>1 DEF vars, Halting
  <2>2. QED
    BY <1>1, <2>1 DEF vars, Core, Typed, Flag, Places, Work, Stops, AtControl
<1>2. CASE Run
  BY <1>2, RunCore DEF Run
<1>3. CASE SpawnOk \/ SpawnErr \/ SpawnEnd
  <2>1. Spawns \/ SpawnEnds
    BY <1>3 DEF SpawnOk, SpawnErr, SpawnEnd, MaySpawn, Spawns, SpawnEnds
  <2>2. QED
    BY <2>1, SpawnCore, MoveOnCore
<1>4. CASE Parent
  BY <1>2, <1>3, <1>4, NextInputCore, SingleInputCore, MoveOnCore, KillCore, PollCore, FinishCore
  DEF Parent, InProcess, Isolated
<1>5. CASE \E i \in Input : Child(i)
  BY <1>5, ChildCore
<1>6. QED
  BY <1>1, <1>4, <1>5 DEF Next, Returned

(* Letting go of a child keeps the parallelism bound. *)
LEMMA LetGoBounded ==
  ASSUME Bounded, NEW i, running' = running \ {i} PROVE Bounded'
<1>1. /\ IsFiniteSet(running \ {i})
      /\ Cardinality(running \ {i}) =
           IF i \in running THEN Cardinality(running) - 1 ELSE Cardinality(running)
  BY FS_RemoveElement DEF Bounded
<1>2. Cardinality(running) \in Nat
  BY FS_CardinalityType DEF Bounded
<1>3. QED
  BY <1>1, <1>2, ParallelismType DEF Bounded

LEMMA SpawnBounded == IInv /\ SpawnOk => Bounded'
<1> SUFFICES ASSUME IInv, SpawnOk PROVE Bounded'
  OBVIOUS
<1>1. next \in Nat /\ next \notin running /\ running' = running \cup {next}
  BY PendingCases DEF SpawnOk, MaySpawn, IInv, Core, Places
<1>2. Cardinality(running) < Parallelism
  BY DEF SpawnOk, MaySpawn
<1>3. /\ IsFiniteSet(running \cup {next})
      /\ Cardinality(running \cup {next}) = Cardinality(running) + 1
  BY <1>1, FS_AddElement DEF IInv, Bounded
<1>4. Cardinality(running) \in Nat
  BY FS_CardinalityType DEF IInv, Bounded
<1>5. QED
  BY <1>1, <1>2, <1>3, <1>4, ParallelismType DEF Bounded

LEMMA StepBounded == IInv /\ [Next]_vars => Bounded'
<1> SUFFICES ASSUME IInv, [Next]_vars PROVE Bounded'
  OBVIOUS
<1>1. CASE running' = running
  BY <1>1 DEF IInv, Bounded
<1>2. CASE NextInput
  <2>1. Parallelism = 1
    BY <1>2 DEF NextInput, IInv, Alone
  <2>2. CASE running' = {next}
    <3>1. IsFiniteSet({next}) /\ Cardinality({next}) = 1
      BY FS_Singleton
    <3>2. QED
      BY <2>1, <2>2, <3>1 DEF Bounded
  <2>3. QED
    BY <1>1, <1>2, <2>2 DEF NextInput
<1>3. CASE running' = {}
  BY <1>3, FS_EmptySet, ParallelismType DEF Bounded
<1>4. CASE \E i \in Input : running' = running \ {i}
  BY <1>4, LetGoBounded DEF IInv
<1>5. CASE SpawnOk
  BY <1>5, SpawnBounded
<1>6. QED
  BY <1>1, <1>2, <1>3, <1>4, <1>5
  DEF Next, Parent, Run, InProcess, SingleInputOk, SingleInputErr, Isolated, Setup, LoopHead,
      KillBreak, SpawnErr, SpawnEnd, PollEnd, Kill, Poll, PollFinished, PollFailed, PollAlive,
      PollErr, FinishInputBatch, Child, ChildSucceeds, ChildFails, ChildIsKilled, parent,
      Returned, vars

LEMMA StepInv == IInv /\ [Next]_vars => IInv'
<1> SUFFICES ASSUME IInv, [Next]_vars PROVE IInv'
  OBVIOUS
<1>1. Core' /\ Bounded'
  BY StepCore, StepBounded DEF IInv
<1>2. Parallelism' = Parallelism
  OBVIOUS
<1>3. Alone'
  BY <1>2, ParallelismType DEF IInv, Alone, Next, Parent, Run, InProcess, NextInput, SingleInputOk,
      SingleInputErr, Isolated, Setup, LoopHead, KillBreak, SpawnOk, SpawnErr, SpawnEnd, PollEnd,
      Kill, Poll, PollFinished, PollFailed, PollAlive, PollErr, FinishInputBatch, Child,
      ChildSucceeds, ChildFails, ChildIsKilled, parent, Returned, vars
<1>4. QED
  BY <1>1, <1>3 DEF IInv

-----------------------------------------------------------------------------
(* The state of a run is always one the variables' roles allow. *)
THEOREM TypeCorrect == Spec => []TypeOK
<1>1. IInv => TypeOK
  BY TypeOKSplit DEF IInv, Core
<1>2. QED
  BY <1>1, InitInv, StepInv, PTL DEF Spec

(* When run() returns Ok, the work on every input succeeded. *)
THEOREM OkIsEarned == Spec => []OkMeansAllSucceeded
<1>1. IInv => OkMeansAllSucceeded
  <2> SUFFICES ASSUME IInv, result = "ok", NEW i \in Input PROVE job[i] = "succeeded"
    BY DEF OkMeansAllSucceeded
  <2>1. failed = {} /\ running = {} /\ killed = {} /\ next = N + 1
    BY DEF IInv, Core, AtControl, Stops, Halting
  <2>2. QED
    BY <2>1, OrchestratorAssumption DEF IInv, Core, Work, Input
<1>2. QED
  BY <1>1, InitInv, StepInv, PTL DEF Spec

(* A batch that ran accounts for every input in its verdict. *)
THEOREM AllAccountedFor == Spec => []NothingUnaccounted
<1>1. IInv => NothingUnaccounted
  <2> SUFFICES ASSUME IInv, result \in {"ok", "input_error", "batch_error"}, NEW i \in Input
               PROVE  \/ job[i] = "succeeded"
                      \/ i \in failed
                      \/ StopOnError /\ failed # {} /\ i \in killed \cup pending
    BY DEF NothingUnaccounted
  <2>1. running = {} /\ (killed # {} => Halting) /\ (next = N + 1 \/ Halting)
    BY DEF IInv, Core, AtControl, Stops
  <2>2. CASE i < next
    BY <2>1, <2>2 DEF IInv, Core, Work, Halting
  <2>3. CASE i >= next
    <3>1. i \in pending
      BY <2>3, PendingCases DEF IInv, Core
    <3>2. next # N + 1
      BY <3>1, PendingCases DEF IInv, Core
    <3>3. QED
      BY <2>1, <3>1, <3>2 DEF Halting
  <2>4. i < next \/ i >= next
    BY OrchestratorAssumption DEF IInv, Core, Typed, Input
  <2>5. QED
    BY <2>2, <2>3, <2>4
<1>2. QED
  BY <1>1, InitInv, StepInv, PTL DEF Spec

(* Only real failures are reported, and never a child the parent killed. *)
THEOREM BlameIsReal == Spec => []FailureIsReal
<1>1. IInv => FailureIsReal
  BY DEF IInv, Core, FailureIsReal, Places, Work
<1>2. QED
  BY <1>1, InitInv, StepInv, PTL DEF Spec

(* No child outlives run() unnoticed. *)
THEOREM NoneLeftBehind == Spec => []NoChildLeftBehind
<1>1. IInv => NoChildLeftBehind
  <2> SUFFICES ASSUME IInv, result # "none", NEW i \in Input, job[i] = "alive"
               PROVE  i \in killed \cup lost
    BY DEF NoChildLeftBehind
  <2>1. running = {}
    BY DEF IInv, Core, AtControl
  <2>2. i < next
    BY OrchestratorAssumption DEF IInv, Core, Work, Typed, Input
  <2>3. QED
    BY <2>1, <2>2 DEF IInv, Core, Work
<1>2. QED
  BY <1>1, InitInv, StepInv, PTL DEF Spec

(* At most --jobs processes work at a time, save those killed or lost. *)
THEOREM JobsBound == Spec => []AtMostJobsAlive
<1>1. IInv => AtMostJobsAlive
  <2> SUFFICES ASSUME IInv PROVE AtMostJobsAlive
    OBVIOUS
  <2> DEFINE A == {i \in Input : job[i] = "alive"} \ (killed \cup lost)
  <2>1. A \subseteq running
    BY OrchestratorAssumption DEF IInv, Core, Work, Typed, Input
  <2>2. Cardinality(A) <= Cardinality(running)
    BY <2>1, FS_Subset DEF IInv, Core, Bounded
  <2>3. IsFiniteSet(A) /\ Cardinality(A) \in Nat /\ Cardinality(running) \in Nat
    BY <2>1, FS_Subset, FS_CardinalityType DEF IInv, Core, Bounded
  <2>4. QED
    BY <2>2, <2>3, ParallelismType DEF IInv, Core, Bounded, AtMostJobsAlive
<1>2. QED
  BY <1>1, InitInv, StepInv, PTL DEF Spec

-----------------------------------------------------------------------------
(* Under stop_on_error no input is started once a failure is known. *)
THEOREM NothingStartsAfterFailure == Spec => NoStartAfterFailure
<1>1. IInv /\ [Next]_vars =>
        [StopOnError /\ failed # {} =>
           \A i \in Input : job[i] = "idle" => job'[i] = "idle"]_vars
  <2> SUFFICES ASSUME IInv, [Next]_vars, Halting, NEW i \in Input, job[i] = "idle"
               PROVE  job'[i] = "idle"
    BY DEF Halting
  <2>1. pc \notin {"run", "setup", "in_process", "single_input"}
    BY DEF IInv, Core, AtControl
  <2>2. ~(SpawnOk /\ pc = "spawn")
    BY DEF IInv, Core, Stops, Halting, SpawnOk, MaySpawn
  <2>3. CASE \E k \in Input : Child(k)
    BY <2>3 DEF Child, ChildSucceeds, ChildFails, ChildIsKilled, IsChild, IInv, Core, Typed
  <2>4. CASE Parent
    BY <2>1, <2>2, <2>4
    DEF Parent, Run, InProcess, NextInput, SingleInputOk, SingleInputErr, Isolated, Setup,
        LoopHead, KillBreak, SpawnOk, SpawnErr, SpawnEnd, PollEnd, Kill, Poll, PollFinished,
        PollFailed, PollAlive, PollErr, FinishInputBatch
  <2>5. CASE UNCHANGED vars
    BY <2>5 DEF vars
  <2>6. QED
    BY <2>3, <2>4, <2>5 DEF Next, Returned
<1>2. QED
  BY <1>1, InitInv, StepInv, PTL DEF Spec, NoStartAfterFailure

-----------------------------------------------------------------------------
(* The run implements the contract of a batch. *)

st == [i \in Input |-> StatusOf(i)]

(* What the contract sees of the bookkeeping. *)
LEMMA Seen ==
  ASSUME IInv
  PROVE  /\ Contract!Having("waiting") = {i \in Input : i >= next}
         /\ Contract!Having("working") = running
         /\ Contract!Having("failed") = failed
         /\ Contract!Stopping <=> Halting
<1>1. \A i \in Input : /\ StatusOf(i) = "waiting" <=> i >= next
                       /\ StatusOf(i) = "working" <=> i \in running
                       /\ StatusOf(i) = "failed" <=> i \in failed
  BY PendingCases, OrchestratorAssumption DEF IInv, Core, Typed, Places, StatusOf, Input
<1>2. /\ Contract!Having("waiting") = {i \in Input : i >= next}
      /\ Contract!Having("working") = running
      /\ Contract!Having("failed") = failed
  BY <1>1 DEF Contract!Having, Contract!Input, Input, IInv, Core, Typed
<1>3. QED
  BY <1>2 DEF Contract!Stopping, Halting

(* A step that leaves the bookkeeping alone is not seen. *)
LEMMA SameStatus ==
  ASSUME UNCHANGED <<next, running, failed, killed>> PROVE st' = st
BY DEF st, StatusOf, pending

LEMMA Unseen ==
  ASSUME UNCHANGED <<next, running, failed, killed, result>>
  PROVE  UNCHANGED Contract!vars
BY DEF Contract!vars, StatusOf, VerdictOf, pending

(* A step that moves one input on changes the status of that input only. *)
LEMMA OneMoves ==
  ASSUME NEW i \in Input, NEW s,
         \A j \in Input \ {i} : StatusOf(j)' = StatusOf(j),
         StatusOf(i)' = s
  PROVE  st' = [st EXCEPT ![i] = s]
BY DEF st

(* The instance brings a Cardinality of its own, with the same definition. *)
LEMMA SameCardinality == \A S : Contract!Cardinality(S) = Cardinality(S)
BY Zenon DEF Cardinality, Contract!Cardinality

(* Taking an input up: it joins the children, or fails before it could run. *)
LEMMA TakesUp ==
  ASSUME IInv, NEW k \in Input, k = next, ~Halting, result = "none",
         UNCHANGED <<killed, result>>,
         Cardinality(running) < AtLeastOne, next' = next + 1,
         \/ running' = running \cup {k} /\ UNCHANGED failed
         \/ failed' = failed \cup {k} /\ UNCHANGED running
  PROVE  Contract!TakeUp(k)
<1>1. k \notin running /\ k \notin failed /\ k \notin killed /\ next \in Nat
  BY PendingCases DEF IInv, Core, Places
<1>2. \A j \in Input : /\ j \in pending <=> j >= next
                       /\ j \in pending' <=> j >= next + 1
  BY OrchestratorAssumption DEF pending, Input, IInv, Core, Typed
<1>3. k \in pending /\ k \notin pending'
  BY <1>1, <1>2
<1>4. \A j \in Input \ {k} : j \in pending' <=> j \in pending
  BY <1>1, <1>2 DEF Input
<1>5. \A j \in Input \ {k} : StatusOf(j)' = StatusOf(j)
  BY <1>4 DEF StatusOf
<1>6. \E s \in {"working", "failed"} : StatusOf(k)' = s
  BY <1>1, <1>3 DEF StatusOf
<1>7. \E s \in {"working", "failed"} : st' = [st EXCEPT ![k] = s]
  BY <1>5, <1>6, OneMoves
<1>8. st[k] = "waiting" /\ VerdictOf(result) = "none" /\ VerdictOf(result)' = VerdictOf(result)
  BY <1>3 DEF st, StatusOf, VerdictOf
<1>9. \A j \in Contract!Having("waiting") : k <= j
  BY Seen DEF Input
<1>10. Contract!Cardinality(Contract!Having("working")) < AtLeastOne /\ ~Contract!Stopping
  BY Seen, SameCardinality
<1>11. QED
  BY <1>7, <1>8, <1>9, <1>10 DEF Contract!TakeUp, st

(* Letting an input go: finished, failed, or killed while stopping. *)
LEMMA Resolves ==
  ASSUME IInv, NEW i \in Input, i \in running, running' = running \ {i},
         UNCHANGED <<next, result>>,
         \/ UNCHANGED <<failed, killed>>
         \/ failed' = failed \cup {i} /\ UNCHANGED killed
         \/ killed' = killed \cup {i} /\ UNCHANGED failed /\ Halting
  PROVE  Contract!Resolve(i)
<1>1. i \notin pending /\ i \notin failed /\ i \notin killed /\ pending' = pending
  BY PendingCases, OrchestratorAssumption DEF IInv, Core, Places, Typed, Input, pending
<1>2. \A j \in Input \ {i} : StatusOf(j)' = StatusOf(j)
  BY <1>1 DEF StatusOf
<1>3. \E s \in {"succeeded", "failed"} \cup (IF Contract!Stopping THEN {"abandoned"} ELSE {}) :
        StatusOf(i)' = s
  BY <1>1, Seen DEF StatusOf
<1>4. \E s \in {"succeeded", "failed"} \cup (IF Contract!Stopping THEN {"abandoned"} ELSE {}) :
        st' = [st EXCEPT ![i] = s]
  BY <1>2, <1>3, OneMoves
<1>5. st[i] = "working"
  BY <1>1 DEF st, StatusOf
<1>6. QED
  BY <1>4, <1>5 DEF Contract!Resolve, st

(* Returning with the verdict the failures call for. *)
LEMMA Returning ==
  ASSUME IInv, result = "none", running = {}, next = N + 1 \/ Halting,
         UNCHANGED <<next, running, failed, killed>>,
         result' \in {"ok", "input_error", "batch_error"}, result' = "ok" <=> failed = {}
  PROVE  Contract!Return
<1>1. st' = st
  BY SameStatus
<1>2. VerdictOf(result) = "none" /\ VerdictOf(result)' = IF failed = {} THEN "ok" ELSE "failed"
  BY DEF VerdictOf
<1>3. Contract!Having("waiting") = {} \/ Contract!Stopping
  BY Seen, OrchestratorAssumption DEF Input
<1>4. QED
  BY <1>1, <1>2, <1>3, Seen DEF Contract!Return, st

LEMMA InitContract == Init => Contract!Init
BY OrchestratorAssumption DEF Init, Contract!Init, Contract!Input, StatusOf, VerdictOf, pending, Input

LEMMA StepContract == IInv /\ [Next]_vars => [Contract!Next]_(Contract!vars)
<1> SUFFICES ASSUME IInv, [Next]_vars PROVE [Contract!Next]_(Contract!vars)
  OBVIOUS
<1> USE DEF Contract!Next, Contract!Input, Input
<1>1. result = "none" <=> pc # "returned"
  BY DEF IInv, Core, AtControl
<1>2. CASE Run
  <2>1. CASE N = 0
    <3>1. running = {} /\ next = N + 1 /\ failed = {}
      BY <1>2, <2>1 DEF Run, IInv, Core, AtControl
    <3>2. Contract!Return
      BY <1>1, <1>2, <2>1, <3>1, Returning DEF Run
    <3>3. QED
      BY <3>2
  <2>2. CASE N # 0
    BY <1>2, <2>2, Unseen DEF Run
  <2>3. QED
    BY <2>1, <2>2
<1>3. CASE NextInput
  <2>1. CASE pending = {}
    BY <1>3, <2>1, Unseen DEF NextInput
  <2>2. CASE pending # {}
    <3>1. PICK k \in Input : k = next
      BY <2>2, PendingCases DEF IInv, Core
    <3>2. running = {} /\ ~Halting /\ result = "none"
      BY <1>1, <1>3 DEF NextInput, IInv, Core, AtControl
    <3>3. Cardinality(running) < AtLeastOne
      BY <3>2, FS_EmptySet, ParallelismType
    <3>4. Contract!TakeUp(k)
      BY <1>3, <2>2, <3>1, <3>2, <3>3, TakesUp DEF NextInput
    <3>5. QED
      BY <3>4
  <2>3. QED
    BY <2>1, <2>2
<1>4. CASE SingleInputOk \/ SingleInputErr
  <2>1. PICK i \in Input : running = {i}
    BY <1>4 DEF IInv, Core, AtControl, SingleInputOk, SingleInputErr
  <2>2. Contract!Resolve(i)
    BY <1>4, <2>1, Resolves DEF SingleInputOk, SingleInputErr
  <2>3. QED
    BY <2>2
<1>5. CASE Setup
  <2>1. CASE result' = result
    BY <1>5, <2>1, Unseen DEF Setup
  <2>2. CASE result' # result
    <3>1. Contract!Having("waiting") = Input
      <4>1. next = 1
        BY <1>5 DEF Setup, IInv, Core, AtControl
      <4>2. {i \in Input : i >= 1} = Input
        BY OrchestratorAssumption
      <4>3. QED
        BY <4>1, <4>2, Seen
    <3>2. st' = st
      BY <1>5, SameStatus DEF Setup
    <3>3. VerdictOf(result) = "none" /\ VerdictOf(result)' = "not_started"
      BY <1>1, <1>5, <2>2 DEF Setup, VerdictOf
    <3>4. Contract!Refuse
      BY <3>1, <3>2, <3>3 DEF Contract!Refuse, st
    <3>5. QED
      BY <3>4
  <2>3. QED
    BY <2>1, <2>2
<1>6. ASSUME NEW i \in Input, Kill(i) PROVE Contract!Resolve(i)
  BY <1>6, Resolves DEF Kill, IInv, Core, Stops
<1>7. CASE SpawnOk \/ SpawnErr
  <2>1. PICK k \in Input : k = next
    BY <1>7, PendingCases DEF SpawnOk, SpawnErr, MaySpawn, IInv, Core
  <2>2. result = "none" /\ ~Halting
    BY <1>1, <1>7 DEF SpawnOk, SpawnErr, MaySpawn, IInv, Core, Stops, Halting
  <2>3. Cardinality(running) < AtLeastOne
    BY <1>7, ParallelismType, FS_CardinalityType DEF SpawnOk, SpawnErr, MaySpawn, IInv, Core, Bounded
  <2>4. Contract!TakeUp(k)
    BY <1>7, <2>1, <2>2, <2>3, TakesUp DEF SpawnOk, SpawnErr
  <2>5. QED
    BY <2>4
<1>8. ASSUME NEW i \in Input, PollFinished(i) \/ PollFailed(i) \/ PollErr(i)
      PROVE  Contract!Resolve(i)
  BY <1>8, Resolves DEF PollFinished, PollFailed, PollErr, IInv, Core, Places
<1>9. CASE FinishInputBatch
  <2>1. /\ result = "none" /\ running = {} /\ (next = N + 1 \/ Halting)
        /\ result' \in {"ok", "input_error", "batch_error"}
        /\ result' = "ok" <=> failed = {}
    BY <1>1, <1>9 DEF FinishInputBatch, IInv, Core, AtControl
  <2>2. Contract!Return
    BY <1>9, <2>1, Returning DEF FinishInputBatch
  <2>3. QED
    BY <2>2
<1>10. CASE \/ LoopHead \/ KillBreak \/ SpawnEnd \/ PollEnd \/ Returned \/ UNCHANGED vars
           \/ \E i \in Input : PollAlive(i) \/ Child(i)
  BY <1>10, Unseen
  DEF LoopHead, KillBreak, SpawnEnd, PollEnd, Returned, vars, PollAlive, Child, ChildSucceeds,
      ChildFails, ChildIsKilled, parent
<1>11. QED
  BY <1>2, <1>3, <1>4, <1>5, <1>6, <1>7, <1>8, <1>9, <1>10
  DEF Next, Parent, InProcess, Isolated, Poll

(* `rebake run` implements the contract of a batch command. *)
THEOREM ImplementsContract == Spec => KeepsContract
<1>1. Init => Contract!Init
  BY InitContract
<1>2. IInv /\ [Next]_vars => [Contract!Next]_(Contract!vars)
  BY StepContract
<1>3. QED
  BY <1>1, <1>2, InitInv, StepInv, PTL DEF Spec, KeepsContract, Contract!Spec

-----------------------------------------------------------------------------
(***************************************************************************)
(* The pipelines of the inputs, whether the batch runs them in this        *)
(* process or in children.                                                 *)
(***************************************************************************)
Topics == UNION Contexts

(* Where an input may be. *)
WorkRecord ==
  [step : {"off", "begin", "stage", "save", "failed"},
   topics : SUBSET Topics, todo : SUBSET Topics, open : Topics \cup {Nothing},
   saved : Seq(SUBSET Topics)]

WorkTyped == work \in [Input -> WorkRecord]

(* How many contexts it has saved. *)
Along ==
  \A i \in Input :
    /\ Len(work[i].saved) <= Len(Stages)
    /\ work[i].step = "save" => Len(work[i].saved) < Len(Stages)
    /\ work[i].step # "save" => work[i].open = Nothing
    /\ job[i] = "idle" => work[i].saved = <<>> /\ work[i].step = "off"
    /\ job[i] = "succeeded" => Len(work[i].saved) = Len(Stages)

(* In process the inputs take turns. *)
TakeTurns ==
  in_process =>
    /\ pc \in {"run", "in_process", "single_input", "finish", "returned"}
    /\ killed = {} /\ lost = {}
    /\ pc = "single_input" => running = {next - 1}

PathOf(i, k, t) == output_path(<<dir_name(i), Stages[k], k>>, t)

Holds(path, content) == path \in DOMAIN disk /\ disk[path] = content

Whole(i, k, t) == Holds(PathOf(i, k, t), {<<i, k, t>>})

(* What an input has written so far, while nobody else writes there. *)
KeptOf(i) ==
  /\ \A k \in DOMAIN work[i].saved : \A t \in work[i].saved[k] : Whole(i, k, t)
  /\ work[i].step = "save" =>
       /\ \A t \in work[i].topics \ (work[i].todo \cup {work[i].open}) : Whole(i, stage_index(i), t)
       /\ work[i].open # Nothing => Holds(PathOf(i, stage_index(i), work[i].open), {Torn})

Kept == \A i \in Input : HasFolder(i) => KeptOf(i)

PipelineInv == Core /\ WorkTyped /\ Along /\ TakeTurns /\ Kept

-----------------------------------------------------------------------------
(* The batch of children takes the steps of a batch with another --jobs. *)
LEMMA ChildrenCore ==
  ASSUME Core, \/ Children!Run \/ Children!Isolated \/ Children!FinishInputBatch
               \/ \E i \in Input : Children!Child(i)
  PROVE  Core'
<1>1. CASE Children!Run
  BY <1>1, RunCore DEF Children!Run
<1>2. CASE Children!SpawnOk \/ Children!SpawnErr \/ Children!SpawnEnd
  <2>1. Spawns \/ SpawnEnds
    BY <1>2 DEF Children!SpawnOk, Children!SpawnErr, Children!SpawnEnd, Children!MaySpawn,
                Children!pending, pending, Spawns, SpawnEnds
  <2>2. QED
    BY <2>1, SpawnCore, MoveOnCore
<1>3. CASE Children!Setup \/ Children!LoopHead \/ Children!KillBreak \/ Children!PollEnd
  <2>1. Setup \/ LoopHead \/ KillBreak \/ PollEnd
    BY <1>3 DEF Children!Setup, Children!LoopHead, Children!KillBreak, Children!PollEnd,
                Children!pending, pending, Setup, LoopHead, KillBreak, PollEnd
  <2>2. QED
    BY <2>1, MoveOnCore
<1>4. CASE \E i \in Input : Children!Kill(i) \/ Children!Poll(i)
  <2>1. PICK i \in Input : Children!Kill(i) \/ Children!Poll(i)
    BY <1>4
  <2>2. Kill(i) \/ Poll(i)
    BY <2>1 DEF Children!Kill, Children!Poll, Children!PollFinished, Children!PollFailed,
                Children!PollAlive, Children!PollErr, Kill, Poll, PollFinished, PollFailed,
                PollAlive, PollErr
  <2>3. QED
    BY <2>2, KillCore, PollCore
<1>5. CASE Children!FinishInputBatch
  <2>1. FinishInputBatch
    BY <1>5, Zenon DEF Children!FinishInputBatch, FinishInputBatch, Cardinality, Children!Cardinality
  <2>2. QED
    BY <2>1, FinishCore
<1>6. CASE \E i \in Input : Children!Child(i)
  <2>1. PICK i \in Input : Children!Child(i)
    BY <1>6
  <2>2. Child(i)
    BY <2>1 DEF Children!Child, Children!ChildSucceeds, Children!ChildFails, Children!ChildIsKilled,
                Children!IsChild, Children!parent, Child, ChildSucceeds, ChildFails, ChildIsKilled,
                IsChild, parent
  <2>3. QED
    BY <2>2, ChildCore
<1>7. QED
  BY <1>1, <1>2, <1>3, <1>4, <1>5, <1>6 DEF Children!Isolated, Children!Input, Input

(* The work on an input begins once and ends once. *)
JobGoesOn ==
  \A i \in Input :
    \/ job'[i] = job[i]
    \/ job[i] = "idle" /\ job'[i] = "alive"
    \/ job[i] = "alive" /\ job'[i] \in {"succeeded", "failed", "dead"}

LEMMA BatchStep ==
  ASSUME Core, BatchInProcess \/ BatchIsolated
  PROVE  Core' /\ JobGoesOn
<1>1. CASE BatchInProcess
  <2>1. Core'
    BY <1>1, RunCore, NextInputCore, SingleInputCore, FinishCore DEF BatchInProcess, Run, InProcess
  <2>2. CASE NextInput
    <3>1. job' = job \/ (next \in Input /\ job' = [job EXCEPT ![next] = "alive"] /\ job[next] = "idle")
      BY <2>2, PendingCases DEF NextInput, Core, Work
    <3>2. QED
      BY <2>1, <3>1 DEF JobGoesOn, Core, Typed
  <2>3. CASE SingleInputOk \/ SingleInputErr
    <3>1. PICK i \in Input : running = {i} /\ job[i] = "alive"
      BY <2>3 DEF Core, AtControl, SingleInputOk, SingleInputErr
    <3>2. \E s \in {"succeeded", "failed"} : job' = [job EXCEPT ![i] = s]
      BY <2>3, <3>1 DEF SingleInputOk, SingleInputErr
    <3>3. QED
      BY <2>1, <3>1, <3>2 DEF JobGoesOn, Core, Typed
  <2>4. CASE job' = job
    BY <2>1, <2>4 DEF JobGoesOn
  <2>5. QED
    BY <1>1, <2>1, <2>2, <2>3, <2>4 DEF BatchInProcess, Run, InProcess, FinishInputBatch
<1>2. CASE BatchIsolated
  <2>1. Core'
    BY <1>2, ChildrenCore DEF BatchIsolated
  <2>2. CASE \E i \in Input : Children!Child(i)
    BY <2>1, <2>2 DEF Children!Child, Children!ChildSucceeds, Children!ChildFails, Children!ChildIsKilled,
                Children!IsChild, JobGoesOn, Core, Typed
  <2>3. CASE Children!SpawnOk
    <3>1. next \in Input /\ job' = [job EXCEPT ![next] = "alive"] /\ job[next] = "idle"
      BY <2>3, PendingCases DEF Children!SpawnOk, Children!MaySpawn, Children!pending, pending, Core, Work
    <3>2. QED
      BY <2>1, <3>1 DEF JobGoesOn, Core, Typed
  <2>4. CASE job' = job
    BY <2>1, <2>4 DEF JobGoesOn
  <2>5. QED
    BY <1>2, <2>1, <2>2, <2>3, <2>4
    DEF BatchIsolated, Children!Run, Children!Isolated, Children!FinishInputBatch, Children!Setup,
        Children!LoopHead, Children!KillBreak, Children!SpawnErr, Children!SpawnEnd, Children!PollEnd,
        Children!Kill, Children!Poll, Children!PollFinished, Children!PollFailed, Children!PollAlive,
        Children!PollErr
<1>3. QED
  BY <1>1, <1>2

-----------------------------------------------------------------------------
(* Paths are told apart by folder, stage and topic. *)
LEMMA PathsDiffer ==
  ASSUME NEW i, NEW j, NEW k, NEW l, NEW t, NEW u, PathOf(i, k, t) = PathOf(j, l, u)
  PROVE  dir_name(i) = dir_name(j) /\ k = l /\ t = u
<1> DEFINE p == <<dir_name(i), Stages[k], k>>
           q == <<dir_name(j), Stages[l], l>>
           S == {dir_name(i), Stages[k], k, dir_name(j), Stages[l], l}
<1>1. p \in Seq(S) /\ q \in Seq(S) /\ Len(p) = 3 /\ Len(q) = 3
  OBVIOUS
<1>2. /\ Append(p, t)[1] = dir_name(i) /\ Append(p, t)[3] = k /\ Append(p, t)[4] = t
      /\ Append(q, u)[1] = dir_name(j) /\ Append(q, u)[3] = l /\ Append(q, u)[4] = u
  OBVIOUS
<1>3. QED
  BY <1>2 DEF PathOf, output_path

(* Only the file that is written to changes. *)
LEMMA OtherFiles ==
  ASSUME NEW p, NEW c, disk' = Created(p) \/ disk' = [disk EXCEPT ![p] = c],
         NEW q, NEW d, q # p, Holds(q, d)
  PROVE  Holds(q, d)'
BY DEF Holds, Created

(* The bookkeeping of an input has its fields. *)
LEMMA WorkFields ==
  ASSUME WorkTyped, NEW i \in Input
  PROVE  /\ work[i].saved \in Seq(SUBSET Topics) /\ Len(work[i].saved) \in Nat
         /\ work[i].topics \subseteq Topics /\ work[i].todo \subseteq Topics
         /\ stage_index(i) \in Nat /\ stage_index(i) = Len(work[i].saved) + 1
         /\ Len(Stages) \in Nat
BY PipelineAssumption DEF WorkTyped, WorkRecord, stage_index

LEMMA InitPipeline == PipelineInit => PipelineInv
<1> SUFFICES ASSUME PipelineInit PROVE PipelineInv
  OBVIOUS
<1> USE DEF PipelineInit
<1>1. Core
  BY InitCore
<1>2. \A i \in Input : work[i] = Idle
  OBVIOUS
<1>3. WorkTyped
  BY <1>2 DEF WorkTyped, WorkRecord, Idle
<1>4. Along
  BY <1>2, PipelineAssumption DEF Along, Idle, Init
<1>5. TakeTurns
  BY DEF TakeTurns, Init
<1>6. Kept
  BY <1>2 DEF Kept, KeptOf, Idle
<1>7. QED
  BY <1>1, <1>3, <1>4, <1>5, <1>6 DEF PipelineInv

-----------------------------------------------------------------------------
(* The steps of the batch: no file changes, and no context is saved. *)
LEMMA BatchKeeps ==
  ASSUME PipelineInv, BatchInProcess \/ BatchIsolated
  PROVE  PipelineInv'
<1> DEFINE Moved(i) == [Idle EXCEPT !.step = IF job'[i] = "alive" THEN "begin" ELSE "off",
                                    !.saved = work[i].saved]
<1>1. Core' /\ JobGoesOn
  BY BatchStep DEF PipelineInv
<1>2. /\ Follows
      /\ UNCHANGED <<input, in_process, disk, aborted>>
  BY DEF BatchInProcess, BatchIsolated
<1>3. \A i \in Input : work'[i] = IF job[i] = job'[i] THEN work[i] ELSE Moved(i)
  BY <1>2 DEF Follows
<1>4. \A i \in Input : /\ Moved(i).step \in {"off", "begin"} /\ Moved(i).saved = work[i].saved
                       /\ job'[i] # "alive" => Moved(i).step = "off"
                       /\ Moved(i).topics = {} /\ Moved(i).todo = {} /\ Moved(i).open = Nothing
  BY DEF Idle
<1>5. WorkTyped'
  <2>1. \A i \in Input : Moved(i) \in WorkRecord
    <3> SUFFICES ASSUME NEW i \in Input PROVE Moved(i) \in WorkRecord
      OBVIOUS
    <3>1. work[i].saved \in Seq(SUBSET Topics)
      BY WorkFields DEF PipelineInv
    <3>2. QED
      BY <3>1 DEF Idle, WorkRecord
  <2>2. work' = [i \in Input |-> IF job[i] = job'[i] THEN work[i] ELSE Moved(i)]
    BY <1>2 DEF Follows
  <2>3. QED
    BY <2>1, <2>2 DEF WorkTyped, PipelineInv
<1>6. Along'
  <2> SUFFICES ASSUME NEW i \in Input
               PROVE  /\ Len(work'[i].saved) <= Len(Stages)
                      /\ work'[i].step = "save" => Len(work'[i].saved) < Len(Stages)
                      /\ work'[i].step # "save" => work'[i].open = Nothing
                      /\ job'[i] = "idle" => work'[i].saved = <<>> /\ work'[i].step = "off"
                      /\ job'[i] = "succeeded" => Len(work'[i].saved) = Len(Stages)
    BY DEF Along
  <2>1. CASE job'[i] = job[i]
    <3>1. work'[i] = work[i]
      BY <1>3, <2>1
    <3>2. QED
      BY <2>1, <3>1 DEF PipelineInv, Along
  <2>2. CASE job'[i] # job[i]
    <3> HIDE DEF Moved
    <3>1. work'[i].saved = work[i].saved /\ work'[i].step \in {"off", "begin"} /\ job'[i] # "idle"
      BY <1>1, <1>3, <1>4, <2>2 DEF JobGoesOn
    <3>2. job'[i] = "succeeded" => job[i] = "alive" /\ Through(i)
      BY <1>1, <1>2, <2>2 DEF JobGoesOn, Follows
    <3>3. job'[i] = "succeeded" => Len(work[i].saved) = Len(Stages)
      BY <3>2, WorkFields DEF Through, PipelineInv, Along
    <3>4. work'[i].open = Nothing
      BY <1>3, <1>4, <2>2
    <3>5. QED
      BY <3>1, <3>3, <3>4 DEF PipelineInv, Along
  <2>3. QED
    BY <2>1, <2>2
<1>7. TakeTurns'
  <2>1. CASE BatchInProcess
    <3>1. pc' \in {"run", "in_process", "single_input", "finish", "returned"}
      BY <2>1, OrchestratorAssumption, PipelineAssumption
      DEF BatchInProcess, Run, InProcess, NextInput, SingleInputOk, SingleInputErr,
          FinishInputBatch, Parallelism, AtLeastOne, PipelineInv, TakeTurns
    <3>2. killed' = {} /\ lost' = {}
      BY <2>1 DEF BatchInProcess, Run, InProcess, NextInput, SingleInputOk, SingleInputErr,
                  FinishInputBatch, PipelineInv, TakeTurns
    <3>3. pc' = "single_input" => running' = {next' - 1}
      <4>1. CASE NextInput
        BY <4>1, PendingCases DEF NextInput, PipelineInv, Core
      <4>2. CASE ~NextInput
        BY <2>1, <4>2 DEF BatchInProcess, Run, InProcess, SingleInputOk, SingleInputErr, FinishInputBatch
      <4>3. QED
        BY <4>1, <4>2
    <3>4. QED
      BY <3>1, <3>2, <3>3 DEF TakeTurns
  <2>2. CASE BatchIsolated
    BY <2>2 DEF BatchIsolated, TakeTurns
  <2>3. QED
    BY <2>1, <2>2
<1>8. Kept'
  <2> SUFFICES ASSUME NEW i \in Input, HasFolder(i)' PROVE KeptOf(i)'
    BY DEF Kept
  <2>1. HasFolder(i)
    <3>1. \A j \in Input : job'[j] = "idle" => job[j] = "idle"
      BY <1>1 DEF JobGoesOn
    <3>2. \A j \in Input : dir_name(j)' = dir_name(j)
      BY <1>2 DEF dir_name
    <3>3. QED
      BY <1>2, <3>1, <3>2 DEF HasFolder
  <2>2. \A k, t : Whole(i, k, t)' <=> Whole(i, k, t)
    BY <1>2 DEF Whole, Holds, PathOf, output_path, dir_name
  <2>3. CASE job'[i] = job[i]
    <3>1. work'[i] = work[i]
      BY <1>3, <2>3
    <3>2. stage_index(i)' = stage_index(i)
      BY <3>1 DEF stage_index
    <3>3. \A k, t : Holds(PathOf(i, k, t), {Torn})' <=> Holds(PathOf(i, k, t), {Torn})
      BY <1>2 DEF Holds, PathOf, output_path, dir_name
    <3>4. QED
      BY <2>1, <2>2, <3>1, <3>2, <3>3 DEF PipelineInv, Kept, KeptOf
  <2>4. CASE job'[i] # job[i]
    <3> HIDE DEF Moved
    <3>1. work'[i].saved = work[i].saved /\ work'[i].step # "save"
      BY <1>3, <1>4, <2>4
    <3>2. QED
      BY <2>1, <2>2, <3>1 DEF PipelineInv, Kept, KeptOf
  <2>5. QED
    BY <2>3, <2>4
<1>9. QED
  BY <1>1, <1>5, <1>6, <1>7, <1>8 DEF PipelineInv

-----------------------------------------------------------------------------
(* The steps of one pipeline. *)

LEMMA SameCore == Core /\ UNCHANGED vars => Core'
<1> SUFFICES ASSUME Core, UNCHANGED vars PROVE Core'
  OBVIOUS
<1>1. Halting' <=> Halting
  BY DEF vars, Halting
<1>2. QED
  BY <1>1 DEF vars, Core, Typed, Flag, Places, Work, Stops, AtControl

(* While another input works in its folder, one that is to have the folder
   for itself has not begun: in process they take turns.                    *)
LEMMA NotBegun ==
  ASSUME PipelineInv, NEW i \in Input, NEW j \in Input, i # j,
         HasFolder(i), dir_name(j) = dir_name(i), job[j] = "alive"
  PROVE  work[i].saved = <<>> /\ work[i].step = "off"
<1>1. in_process /\ j < i
  BY DEF HasFolder
<1>2. next \in Nat /\ (\A k \in Input : k >= next => job[k] = "idle")
  BY PendingCases DEF PipelineInv, Core, Work
<1>3. j < next
  BY <1>2, OrchestratorAssumption DEF Input
<1>4. j \in running
  BY <1>1, <1>3 DEF PipelineInv, Core, Work, TakeTurns
<1>5. pc = "single_input" /\ running = {next - 1}
  BY <1>1, <1>4 DEF PipelineInv, Core, AtControl, TakeTurns
<1>6. i >= next
  BY <1>1, <1>2, <1>4, <1>5, OrchestratorAssumption DEF Input
<1>7. QED
  BY <1>2, <1>6 DEF PipelineInv, Along

(* What an input writes is no file of another that has its folder. *)
LEMMA OthersKeep ==
  ASSUME PipelineInv, NEW i \in Input, NEW j \in Input, i # j, job[j] = "alive",
         UNCHANGED <<vars, input, in_process>>, work'[i] = work[i],
         \/ UNCHANGED disk
         \/ \E t, c : LET p == PathOf(j, stage_index(j), t)
                      IN  disk' = Created(p) \/ disk' = [disk EXCEPT ![p] = c],
         HasFolder(i)'
  PROVE  KeptOf(i)'
<1>1. HasFolder(i)
  BY DEF HasFolder, dir_name, vars
<1>2. KeptOf(i)
  BY <1>1 DEF PipelineInv, Kept
<1>3. stage_index(i)' = stage_index(i) /\ (\A k, t : PathOf(i, k, t)' = PathOf(i, k, t))
  BY DEF stage_index, PathOf, output_path, dir_name
<1>4. CASE dir_name(j) = dir_name(i)
  <2>1. work[i].saved = <<>> /\ work[i].step = "off"
    BY <1>1, <1>4, NotBegun
  <2>2. QED
    BY <2>1 DEF KeptOf
<1>5. CASE dir_name(j) # dir_name(i)
  <2>1. ASSUME NEW k, NEW t, NEW c, Holds(PathOf(i, k, t), c) PROVE Holds(PathOf(i, k, t), c)'
    <3>1. CASE UNCHANGED disk
      BY <1>3, <2>1, <3>1 DEF Holds
    <3>2. CASE \E u, d : LET p == PathOf(j, stage_index(j), u)
                         IN  disk' = Created(p) \/ disk' = [disk EXCEPT ![p] = d]
      <4>1. PICK u : \E d : LET p == PathOf(j, stage_index(j), u)
                            IN  disk' = Created(p) \/ disk' = [disk EXCEPT ![p] = d]
        BY <3>2
      <4>2. PICK d : LET p == PathOf(j, stage_index(j), u)
                     IN  disk' = Created(p) \/ disk' = [disk EXCEPT ![p] = d]
        BY <4>1
      <4>3. PathOf(i, k, t) # PathOf(j, stage_index(j), u)
        BY <1>5, PathsDiffer
      <4> DEFINE p == PathOf(j, stage_index(j), u)
                 q == PathOf(i, k, t)
      <4>4. disk' = Created(p) \/ disk' = [disk EXCEPT ![p] = d]
        BY <4>2
      <4>5. q # p /\ Holds(q, c) /\ q' = q
        BY <1>3, <2>1, <4>3
      <4> HIDE DEF p, q
      <4>6. q \in DOMAIN disk' /\ disk'[q] = c
        BY <4>4, <4>5 DEF Holds, Created
      <4>7. QED
        BY <4>5, <4>6 DEF Holds, q
    <3>3. QED
      BY <3>1, <3>2
  <2>2. \A k, t : Whole(i, k, t) => Whole(i, k, t)'
    BY <2>1 DEF Whole
  <2>3. QED
    BY <1>2, <1>3, <2>1, <2>2 DEF KeptOf
<1>6. QED
  BY <1>4, <1>5

(* A step of one pipeline keeps the invariant if it keeps what concerns it. *)
LEMMA OneWorks ==
  ASSUME PipelineInv, NEW j \in Input, job[j] = "alive",
         UNCHANGED <<vars, input, in_process>>,
         NEW w \in WorkRecord, work' = [work EXCEPT ![j] = w],
         Len(w.saved) <= Len(Stages),
         w.step = "save" => Len(w.saved) < Len(Stages),
         w.step # "save" => w.open = Nothing,
         \/ UNCHANGED disk
         \/ \E t, c : LET p == PathOf(j, stage_index(j), t)
                      IN  disk' = Created(p) \/ disk' = [disk EXCEPT ![p] = c],
         HasFolder(j) => KeptOf(j)'
  PROVE  PipelineInv'
<1>1. Core'
  BY SameCore DEF PipelineInv
<1>2. WorkTyped' /\ work'[j] = w /\ (\A i \in Input \ {j} : work'[i] = work[i])
  BY DEF PipelineInv, WorkTyped
<1>3. Along'
  BY <1>2 DEF PipelineInv, Along, vars
<1>4. TakeTurns'
  BY DEF PipelineInv, TakeTurns, vars
<1>5. ASSUME NEW i \in Input, HasFolder(i)' PROVE KeptOf(i)'
  <2>1. CASE i = j
    BY <1>5, <2>1 DEF HasFolder, dir_name, vars
  <2>2. CASE i # j
    BY <1>2, <1>5, <2>2, OthersKeep
  <2>3. QED
    BY <2>1, <2>2
<1>6. QED
  BY <1>1, <1>2, <1>3, <1>4, <1>5 DEF PipelineInv, Kept

(* An input between two stages has saved what it had. *)
LEMMA SavedStays ==
  ASSUME PipelineInv, NEW j \in Input, UNCHANGED <<input, disk>>,
         work'[j].saved = work[j].saved, work'[j].step # "save", HasFolder(j)
  PROVE  KeptOf(j)'
<1>1. KeptOf(j)
  BY DEF PipelineInv, Kept
<1>2. \A k, t : Whole(j, k, t)' <=> Whole(j, k, t)
  BY DEF Whole, Holds, PathOf, output_path, dir_name
<1>3. QED
  BY <1>1, <1>2 DEF KeptOf

LEMMA GoesTo ==
  ASSUME PipelineInv, NEW j \in Input, job[j] = "alive",
         UNCHANGED <<vars, input, in_process, disk>>,
         NEW step \in {"stage", "failed"}, Goto(j, step)
  PROVE  PipelineInv'
<1> DEFINE w == [Idle EXCEPT !.step = step, !.saved = work[j].saved]
<1>1. work[j].saved \in Seq(SUBSET Topics)
  BY WorkFields DEF PipelineInv
<1>2. w \in WorkRecord /\ w.saved = work[j].saved /\ w.step = step /\ w.open = Nothing
  BY <1>1 DEF WorkRecord, Idle
<1>3. work' = [work EXCEPT ![j] = w]
  BY DEF Goto
<1> HIDE DEF w
<1>4. work'[j] = w
  BY <1>3 DEF PipelineInv, WorkTyped
<1>5. Len(w.saved) <= Len(Stages) /\ w.step # "save"
  BY <1>2 DEF PipelineInv, Along
<1>6. HasFolder(j) => KeptOf(j)'
  BY <1>2, <1>4, <1>5, SavedStays
<1>7. QED
  BY <1>2, <1>3, <1>5, <1>6, OneWorks

LEMMA RunStageKeeps == ASSUME PipelineInv, NEW j \in Input, RunStage(j) PROVE PipelineInv'
<1>1. /\ job[j] = "alive" /\ work[j].step = "stage" /\ UNCHANGED <<vars, input, in_process, disk>>
      /\ stage_index(j) <= Len(Stages)
  BY DEF RunStage, Working
<1>2. CASE Goto(j, "failed")
  BY <1>1, <1>2, GoesTo
<1>3. ASSUME NEW T \in Contexts,
             work' = [work EXCEPT ![j].step = "save", ![j].topics = T, ![j].todo = T]
      PROVE  PipelineInv'
  <2> DEFINE w == [work[j] EXCEPT !.step = "save", !.topics = T, !.todo = T]
  <2>1. work[j] \in WorkRecord /\ work \in [Input -> WorkRecord]
    BY DEF PipelineInv, WorkTyped
  <2>2. T \subseteq Topics
    BY DEF Topics
  <2>3. /\ w \in WorkRecord /\ w.saved = work[j].saved /\ w.step = "save" /\ w.topics = T /\ w.todo = T
        /\ w.open = work[j].open
    BY <2>1, <2>2 DEF WorkRecord
  <2>4. work' = [work EXCEPT ![j] = w]
    BY <1>3, <2>1 DEF WorkRecord
  <2> HIDE DEF w
  <2>5. Len(w.saved) < Len(Stages) /\ Len(w.saved) <= Len(Stages) /\ w.open = Nothing
    BY <1>1, <2>3, WorkFields DEF PipelineInv, Along
  <2>6. work'[j] = w
    BY <2>1, <2>4
  <2>7. HasFolder(j) => KeptOf(j)'
    <3> SUFFICES ASSUME HasFolder(j) PROVE KeptOf(j)'
      OBVIOUS
    <3>1. KeptOf(j)
      BY DEF PipelineInv, Kept
    <3>2. \A k, t : Whole(j, k, t)' <=> Whole(j, k, t)
      BY <1>1 DEF Whole, Holds, PathOf, output_path, dir_name
    <3>3. \A k \in DOMAIN work'[j].saved : \A t \in work'[j].saved[k] : Whole(j, k, t)'
      BY <2>3, <2>6, <3>1, <3>2 DEF KeptOf
    <3>4. work'[j].topics \ (work'[j].todo \cup {work'[j].open}) = {} /\ work'[j].open = Nothing
      BY <2>3, <2>5, <2>6
    <3>5. QED
      BY <3>3, <3>4 DEF KeptOf
  <2>8. QED
    BY <1>1, <2>3, <2>4, <2>5, <2>7, OneWorks
<1>4. QED
  BY <1>2, <1>3 DEF RunStage

LEMMA CreateFileKeeps == ASSUME PipelineInv, NEW j \in Input, CreateFile(j) PROVE PipelineInv'
<1>1. /\ job[j] = "alive" /\ work[j].step = "save" /\ work[j].open = Nothing
      /\ UNCHANGED <<vars, input, in_process>>
  BY DEF CreateFile, Working
<1>2. PICK t \in work[j].todo :
        /\ work' = [work EXCEPT ![j].todo = @ \ {t}, ![j].open = t]
        /\ disk' = Created(PathOf(j, stage_index(j), t))
  BY DEF CreateFile, stage_dir, PathOf
<1> DEFINE w == [work[j] EXCEPT !.todo = work[j].todo \ {t}, !.open = t]
<1>0. PICK n \in Nat : n = stage_index(j)
  BY WorkFields DEF PipelineInv
<1>3. work[j] \in WorkRecord /\ work \in [Input -> WorkRecord] /\ t \in Topics
  BY WorkFields DEF PipelineInv, WorkTyped
<1>4. /\ w \in WorkRecord /\ w.saved = work[j].saved /\ w.step = "save" /\ w.topics = work[j].topics
      /\ w.todo = work[j].todo \ {t} /\ w.open = t
  BY <1>1, <1>3 DEF WorkRecord
<1>5. work' = [work EXCEPT ![j] = w]
  BY <1>2, <1>3 DEF WorkRecord
<1> HIDE DEF w
<1>6. Len(w.saved) < Len(Stages) /\ Len(w.saved) <= Len(Stages)
  BY <1>1, <1>4, WorkFields DEF PipelineInv, Along
<1>7. work'[j] = w /\ stage_index(j)' = n /\ n = Len(work[j].saved) + 1 /\ Len(work[j].saved) \in Nat
  BY <1>0, <1>3, <1>4, <1>5, WorkFields DEF PipelineInv, stage_index
<1>8. ASSUME HasFolder(j) PROVE KeptOf(j)'
  <2>1. KeptOf(j)
    BY <1>8 DEF PipelineInv, Kept
  <2>2. disk' = Created(PathOf(j, n, t))
    BY <1>0, <1>2
  <2>3. \A k, u : PathOf(j, k, u)' = PathOf(j, k, u)
    BY <1>1 DEF PathOf, output_path, dir_name
  <2>4. Holds(PathOf(j, n, t), {Torn})'
    BY <1>7, <2>2, <2>3 DEF Holds, Created
  <2>5. ASSUME NEW k, NEW u, k # n \/ u # t, Whole(j, k, u) PROVE Whole(j, k, u)'
    <3>1. PathOf(j, k, u) # PathOf(j, n, t)
      BY <2>5, PathsDiffer
    <3>2. QED
      BY <2>2, <2>3, <2>5, <3>1 DEF Whole, Holds, Created
  <2>6. \A k \in DOMAIN work[j].saved : k # n
    BY <1>7, WorkFields DEF PipelineInv
  <2>7. \A k \in DOMAIN w.saved : \A u \in w.saved[k] : Whole(j, k, u)'
    BY <1>4, <2>1, <2>5, <2>6 DEF KeptOf
  <2>8. \A u \in w.topics \ (w.todo \cup {w.open}) : Whole(j, n, u)'
    <3> SUFFICES ASSUME NEW u \in w.topics \ (w.todo \cup {w.open}) PROVE Whole(j, n, u)'
      OBVIOUS
    <3>1. u \in Topics /\ u # Nothing /\ u # t /\ u \in work[j].topics /\ u \notin work[j].todo
      BY <1>4, PipelineAssumption, WorkFields DEF PipelineInv, Topics
    <3>2. Whole(j, n, u)
      BY <1>0, <1>1, <2>1, <3>1 DEF KeptOf
    <3>3. QED
      BY <2>5, <3>1, <3>2
  <2>9. QED
    BY <1>4, <1>7, <2>4, <2>7, <2>8 DEF KeptOf
<1>9. \E u, c : LET p == PathOf(j, stage_index(j), u)
                IN  disk' = Created(p) \/ disk' = [disk EXCEPT ![p] = c]
  BY <1>2
<1>10. QED
  BY <1>1, <1>4, <1>5, <1>6, <1>8, <1>9, OneWorks

LEMMA FinishFileKeeps == ASSUME PipelineInv, NEW j \in Input, FinishFile(j) PROVE PipelineInv'
<1>1. /\ job[j] = "alive" /\ work[j].step = "save" /\ work[j].open # Nothing
      /\ UNCHANGED <<vars, input, in_process>>
      /\ work' = [work EXCEPT ![j].open = Nothing]
  BY DEF FinishFile, Working
<1>2. PICK n \in Nat : n = stage_index(j)
  BY WorkFields DEF PipelineInv
<1>3. PICK t : t = work[j].open
  OBVIOUS
<1>4. PICK p : p = PathOf(j, n, t)
  OBVIOUS
<1> DEFINE w == [work[j] EXCEPT !.open = Nothing]
           c == (disk[p] \ {Torn}) \cup {<<j, n, t>>}
<1>5. disk' = [disk EXCEPT ![p] = c]
  BY <1>2, <1>3, <1>4 DEF FinishFile, stage_dir, PathOf
<1>6. work[j] \in WorkRecord /\ work \in [Input -> WorkRecord]
  BY DEF PipelineInv, WorkTyped
<1>7. /\ w \in WorkRecord /\ w.saved = work[j].saved /\ w.step = "save" /\ w.topics = work[j].topics
      /\ w.todo = work[j].todo /\ w.open = Nothing
  BY <1>1, <1>6 DEF WorkRecord
<1>8. work' = [work EXCEPT ![j] = w]
  BY <1>1, <1>6 DEF WorkRecord
<1> HIDE DEF w
<1>9. Len(w.saved) < Len(Stages) /\ Len(w.saved) <= Len(Stages)
  BY <1>1, <1>7, WorkFields DEF PipelineInv, Along
<1>10. work'[j] = w /\ stage_index(j)' = n /\ n = Len(work[j].saved) + 1 /\ Len(work[j].saved) \in Nat
  BY <1>2, <1>6, <1>7, <1>8, WorkFields DEF PipelineInv, stage_index
<1>11. ASSUME HasFolder(j) PROVE KeptOf(j)'
  <2>1. KeptOf(j)
    BY <1>11 DEF PipelineInv, Kept
  <2>2. \A k, u : PathOf(j, k, u)' = PathOf(j, k, u)
    BY <1>1 DEF PathOf, output_path, dir_name
  <2>3. Holds(p, {Torn})
    BY <1>1, <1>2, <1>3, <1>4, <2>1 DEF KeptOf
  <2>4. c = {<<j, n, t>>}
    BY <2>3 DEF Holds
  <2> HIDE DEF c
  <2>5. p \in DOMAIN disk' /\ disk'[p] = {<<j, n, t>>}
    BY <1>5, <2>3, <2>4 DEF Holds
  <2>6. Whole(j, n, t)'
    BY <1>4, <2>2, <2>5 DEF Whole, Holds
  <2>7. ASSUME NEW k, NEW u, k # n \/ u # t, Whole(j, k, u) PROVE Whole(j, k, u)'
    <3>1. PathOf(j, k, u) # p
      BY <1>4, <2>7, PathsDiffer
    <3>2. QED
      BY <1>5, <2>2, <2>7, <3>1 DEF Whole, Holds
  <2>8. \A k \in DOMAIN work[j].saved : k # n
    BY <1>10, WorkFields DEF PipelineInv
  <2>9. \A k \in DOMAIN w.saved : \A u \in w.saved[k] : Whole(j, k, u)'
    BY <1>7, <2>1, <2>7, <2>8 DEF KeptOf
  <2>10. \A u \in w.topics \ (w.todo \cup {w.open}) : Whole(j, n, u)'
    <3> SUFFICES ASSUME NEW u \in w.topics \ (w.todo \cup {w.open}) PROVE Whole(j, n, u)'
      OBVIOUS
    <3>1. CASE u = t
      BY <2>6, <3>1
    <3>2. CASE u # t
      <4>1. Whole(j, n, u)
        BY <1>1, <1>2, <1>3, <1>7, <2>1, <3>2 DEF KeptOf
      <4>2. QED
        BY <2>7, <3>2, <4>1
    <3>3. QED
      BY <3>1, <3>2
  <2>11. QED
    BY <1>7, <1>10, <2>9, <2>10 DEF KeptOf
<1>12. \E u, d : LET q == PathOf(j, stage_index(j), u)
                 IN  disk' = Created(q) \/ disk' = [disk EXCEPT ![q] = d]
  BY <1>2, <1>4, <1>5
<1>13. QED
  BY <1>1, <1>7, <1>8, <1>9, <1>11, <1>12, OneWorks

LEMMA ContextSavedKeeps == ASSUME PipelineInv, NEW j \in Input, ContextSaved(j) PROVE PipelineInv'
<1>1. /\ job[j] = "alive" /\ work[j].step = "save" /\ work[j].open = Nothing /\ work[j].todo = {}
      /\ UNCHANGED <<vars, input, in_process, disk>>
  BY DEF ContextSaved, Working
<1> DEFINE s == Append(work[j].saved, work[j].topics)
           w == [Idle EXCEPT !.step = "stage", !.saved = s]
<1>2. /\ s \in Seq(SUBSET Topics) /\ Len(s) = Len(work[j].saved) + 1 /\ Len(work[j].saved) \in Nat
      /\ \A k \in DOMAIN s : \/ k \in DOMAIN work[j].saved /\ s[k] = work[j].saved[k]
                             \/ k = stage_index(j) /\ s[k] = work[j].topics
  BY WorkFields DEF PipelineInv
<1>3. work' = [work EXCEPT ![j] = w]
  BY DEF ContextSaved
<1> HIDE DEF s
<1>4. w \in WorkRecord /\ w.saved = s /\ w.step = "stage" /\ w.open = Nothing
  BY <1>2 DEF WorkRecord, Idle
<1> HIDE DEF w
<1>5. Len(w.saved) <= Len(Stages)
  BY <1>1, <1>2, <1>4, WorkFields DEF PipelineInv, Along
<1>6. work'[j] = w
  BY <1>3 DEF PipelineInv, WorkTyped
<1>7. ASSUME HasFolder(j) PROVE KeptOf(j)'
  <2>1. KeptOf(j)
    BY <1>7 DEF PipelineInv, Kept
  <2>2. \A k, u : Whole(j, k, u)' <=> Whole(j, k, u)
    BY <1>1 DEF Whole, Holds, PathOf, output_path, dir_name
  <2>3. Nothing \notin work[j].topics
    BY PipelineAssumption, WorkFields DEF PipelineInv, Topics
  <2>4. \A u \in work[j].topics : Whole(j, stage_index(j), u)
    BY <1>1, <2>1, <2>3 DEF KeptOf
  <2>5. \A k \in DOMAIN s : \A u \in s[k] : Whole(j, k, u)
    BY <1>2, <2>1, <2>4 DEF KeptOf
  <2>6. QED
    BY <1>4, <1>6, <2>2, <2>5 DEF KeptOf
<1>8. QED
  BY <1>1, <1>3, <1>4, <1>5, <1>7, OneWorks

LEMMA PipelineStepKeeps ==
  ASSUME PipelineInv, NEW j \in Input, PipelineStep(j)
  PROVE  PipelineInv'
<1>1. CASE BeginPipeline(j) \/ SaveFails(j)
  BY <1>1, GoesTo DEF BeginPipeline, SaveFails, Working
<1>2. QED
  BY <1>1, RunStageKeeps, CreateFileKeeps, FinishFileKeeps, ContextSavedKeeps DEF PipelineStep

LEMMA NextPipeline == PipelineInv /\ [PipelineNext]_pipelineVars => PipelineInv'
<1> SUFFICES ASSUME PipelineInv, [PipelineNext]_pipelineVars PROVE PipelineInv'
  OBVIOUS
<1>1. CASE UNCHANGED <<vars, input, in_process, work, disk>>
  <2>1. Core'
    BY <1>1, SameCore DEF PipelineInv
  <2>2. \A i \in Input : KeptOf(i)' <=> KeptOf(i)
    BY <1>1 DEF KeptOf, Whole, Holds, PathOf, output_path, dir_name, stage_index
  <2>3. \A i \in Input : HasFolder(i)' <=> HasFolder(i)
    BY <1>1 DEF HasFolder, dir_name, vars
  <2>4. QED
    BY <1>1, <2>1, <2>2, <2>3 DEF PipelineInv, WorkTyped, Along, TakeTurns, Kept, vars
<1>2. CASE BatchInProcess \/ BatchIsolated
  BY <1>2, BatchKeeps
<1>3. CASE \E i \in Input : PipelineStep(i)
  BY <1>3, PipelineStepKeeps
<1>4. QED
  BY <1>1, <1>2, <1>3 DEF PipelineNext, Panic, Over, pipelineVars

(* What is saved of an input that has a folder of its own is its own, whole
   and of every stage it went through; and Ok says that all inputs went
   through all stages.                                                      *)
THEOREM SavedIsOwnHolds == PipelineSpec => []SavedIsOwn
<1>1. PipelineInv => SavedIsOwn
  <2> SUFFICES ASSUME PipelineInv PROVE SavedIsOwn
    OBVIOUS
  <2>1. \A i \in Input : HasFolder(i) =>
          \A k \in DOMAIN work[i].saved : \A t \in work[i].saved[k] : Whole(i, k, t)
    BY DEF PipelineInv, Kept, KeptOf
  <2>2. ASSUME result = "ok", NEW i \in Input PROVE Len(work[i].saved) = Len(Stages)
    <3>1. failed = {} /\ running = {} /\ killed = {} /\ next = N + 1
      BY <2>2 DEF PipelineInv, Core, AtControl, Stops, Halting
    <3>2. job[i] = "succeeded"
      BY <3>1, OrchestratorAssumption DEF PipelineInv, Core, Work, Input
    <3>3. QED
      BY <3>2 DEF PipelineInv, Along
  <2>3. QED
    BY <2>1, <2>2 DEF SavedIsOwn, Whole, Holds, PathOf
<1>2. QED
  BY <1>1, InitPipeline, NextPipeline, PTL DEF PipelineSpec
=============================================================================
