SPECIFICATION Spec
CONSTANTS
  pick = pick
  place = place
  None = None
  Torn = Torn
  Shelf <- MCShelf
  Sources = 2
  ChunksSize = None
  MaxRuns = 2
INVARIANTS
  SuccessIsWhole
  CommittedIsWhole
  TaskKept
  StatsDescribeRows
