SPECIFICATION Spec
CONSTANTS
  Conns = {c1}
  Readers = {r1}
  Dispatchers = {d1}
  MaxRequests = 2
  MaxKeepAlive = 2
  MaxConnections = 1
CHECK_DEADLOCK FALSE
INVARIANT IdleOnly
