SPECIFICATION FairServerSpec
CONSTANTS
  w = w
  w2 = w2
  p1 = p1
  Worker = w
  Fibers <- MCFibers
  Paths <- MCPaths
  Clients <- MCClients
  Chunks = 2
  MaxVersion = 2
  MaxConns = 1
  MaxKeepAlive = 2
  MaxBodySize = 2
  MaxHeaderSize = 3
CHECK_DEADLOCK FALSE
INVARIANTS RequestsExact ResponsesExact CacheCurrent
PROPERTY WorkerReturns
