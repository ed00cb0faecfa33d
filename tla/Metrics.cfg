\* Three records of one function, two durations, two times.
CONSTANTS
  Invocations = {i1, i2, i3}
  Functions = {f}
  Durations = {10, 20}
  Times = {1, 2}
  None = None
SPECIFICATION Spec
SYMMETRY Symmetry
INVARIANTS TypeOK QuietReadExact FailsOnlyOnLoss
