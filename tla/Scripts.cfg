CONSTANTS
  Calls = {c1, c2, c3}
  ScriptIds = {s1, s2}
  Codes = {k1, k2}
  None = None
SPECIFICATION Spec
INVARIANTS TypeOK FoundInTime RunsStored
PROPERTIES ImplementsStream
CHECK_DEADLOCK FALSE
