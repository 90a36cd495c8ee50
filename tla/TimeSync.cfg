SPECIFICATION Spec
CONSTANTS
  Topic = {camera, joints}
  Method = {"zoh", "nn", "merge"}
  Fps = {1, 3}
  Second = 3
  I64Max = 31
  MaxTime = 4
  MaxLen = 3
INVARIANTS
  NoHole
  Nearest
  FreshOnce
  MergeKeepsLast
