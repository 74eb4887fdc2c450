SPECIFICATION Spec
CONSTANTS
  Responses <- MCResponses
  Endpoints = 2
  MaxRequests = 2
  MaxInterim = 1
  MaxHeader = 16
  MaxLine = 8
  MaxBody = 3
  ReadChunk = 2
CHECK_DEADLOCK FALSE
INVARIANTS BodyExact CompleteReturned SocketsReleased
