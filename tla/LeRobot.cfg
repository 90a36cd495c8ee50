SPECIFICATION Spec
CONSTANTS
  Bag <- MCBag
  None = None
  MaxRuns = 3
INVARIANTS
  OkIsConsistent
  MetadataComesLast
  VideoFollowsRows
CHECK_DEADLOCK FALSE
