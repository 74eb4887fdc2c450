SPECIFICATION Spec
CONSTANTS
  Scripts = {s1, s2}
  Workers = {w1, w2}
  Ops = {o1}
  MaxGuards = 1
  MaxWakes = 1
SYMMETRY Symmetry
INVARIANTS ExecutorsExact OneDriver RestartAlone
