\* Two server processes on one file, three faults at any place; ready servers with
\* nothing left to store stop.
CONSTANTS
  Servers = {s1, s2}
  InMemory = {}
  Functions = {f1, f2}
  File = File
  MaxFaults = 3
SPECIFICATION FairSpec
CHECK_DEADLOCK FALSE
INVARIANTS TypeOK ReadyToUse StoredSurvives
PROPERTIES Recovers
