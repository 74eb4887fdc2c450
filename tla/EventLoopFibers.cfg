SPECIFICATION FairSpec
CONSTANTS
  Scripts = {s1}
  Workers = {w1, w2}
  Ops = {o1}
  MaxGuards = 1
  MaxWakes = 2
INVARIANTS GuardedLoopRuns
PROPERTIES JoinReturns WaitServed
