\* Three requests to one backend with two schemas.
CONSTANTS
  Requests = {r1, r2, r3}
  Hashes = {a, b}
  None = None
SPECIFICATION Spec
SYMMETRY Symmetry
INVARIANTS TypeOK GeneratedIsCurrent CacheExact
\* Every request may have been answered.
CHECK_DEADLOCK FALSE
