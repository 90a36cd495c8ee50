SPECIFICATION PipelineSpec
CONSTANTS
  N = 2
  MaxParallel = 1
  Jobs = 2
  StopOnError = FALSE
  Tree <- MCTree
  Arguments <- MCArguments
  Stages <- MCStages
  Contexts <- MCContexts
  Torn = Torn
INVARIANTS
  SavedIsOwn
