SPECIFICATION FairSpec
CONSTANTS
  Nodes = {n1, n2}
  Dispatchers = {d1, d2}
  Requests = {get1, get2, post1}
  Retriable = {get1, get2}
  DispatchRetry = 1
CHECK_DEADLOCK FALSE
INVARIANTS ExecutionBounded AnswerMatches NodesExact RanksDistinct
PROPERTY TakenAnswered
