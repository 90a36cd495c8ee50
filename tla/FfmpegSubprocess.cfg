SPECIFICATION FairSpec
CONSTANTS
  FrameLen = 3
  InCap = 2
  ErrCap = 1
  BufLen = 2
  Limit = 2
  MaxErr = 3
  MaxFrames = 2
INVARIANTS
  CapturedIsTail
  ReportIsComplete
  OkMeansEncoded
  NothingLeftBehind
PROPERTIES
  CallsReturn
  CloseIsPrompt
