SPECIFICATION FairSpec
CONSTANTS
  Conns = {c1, c2}
  Readers = {r1, r2}
  Dispatchers = {d1, d2}
  MaxRequests = 2
  MaxKeepAlive = 2
  MaxConnections = 2
CHECK_DEADLOCK FALSE
INVARIANTS ResponsesInOrder IdxExact OneFiberEach
PROPERTY RequestsSettled
