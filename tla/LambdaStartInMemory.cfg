\* One server process with the configuration meant for tests.
CONSTANTS
  Servers = {s1}
  InMemory = {s1}
  Functions = {f1}
  File = File
  MaxFaults = 1
SPECIFICATION Spec
INVARIANTS ReadyToUse
