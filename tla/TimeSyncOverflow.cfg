SPECIFICATION Spec
CONSTANTS
  Topic = {camera, joints}
  Method = {"nn"}
  Fps = {1, 3}
  Second = 3
  I64Max = 7
  MaxTime = 4
  MaxLen = 3
INVARIANTS
  Nearest
