SPECIFICATION Spec
CONSTANTS
  Image <- MCImage
  None = None
  Requests <- MCRequests
  Values <- MCValues
  Machine <- MCMachine
  MaxMessages = 4
  MaxConnections = 2
  MaxCalls = 3
  FrameDuration = 2
  MaxForwardFrames = 1
  Delay = 1
  KeyframeEvery = 2
INVARIANTS
  RequestIsHonoured
  EpisodeShowsIndexedFrames
  RegisteredIsWhole
  AnswersAreRight
CHECK_DEADLOCK FALSE
