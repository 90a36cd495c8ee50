SPECIFICATION Spec
CONSTANTS
  pick = pick
  place = place
  None = None
  Torn = Torn
  Shelf <- MCShelfBlind
  Sources = 2
  ChunksSize = None
  MaxRuns = 2
INVARIANTS
  VideoIsOwn
