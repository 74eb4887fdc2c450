SPECIFICATION Spec
CONSTANTS
  States = {s1, s2, s3}
  StreamLen = 4
  Ends = {2, 4}
  MaxRequest = 2
SYMMETRY StateSymmetry
CHECK_DEADLOCK FALSE
INVARIANTS StreamExact ResultInBounds PendingOwned
