SPECIFICATION TopicsSpec
CONSTANTS
  Texts <- MCTexts
  Prefixed <- MCPrefixed
  MaxMessages = 2
  MaxLength = 2
  None = None
  IntLimit = 8388608
  DepthTopics <- MCDepthTopics
  DepthRequests <- MCDepthRequests
  DepthMachine <- MCDepthMachine
  DepthDelay = 1
INVARIANTS
  RowsAreMessages
  NoSpuriousFailure
  DepthIsKept
