--------------------------- MODULE MCOrchestrator ---------------------------
(* A batch of either path: MaxParallel inputs at a time, by children, or    *)
(* one after the other in this process.  What follows Run in the latter     *)
(* does not ask for MaxParallel.                                            *)
EXTENDS Orchestrator

Sequential == INSTANCE Orchestrator WITH MaxParallel <- 1

MCNext == Next \/ Sequential!Run

MCSpec == Init /\ [][MCNext]_vars /\ ParentFair
=============================================================================
