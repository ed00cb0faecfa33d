\* Two executions, each in a server process of its own.
CONSTANTS
  x1 = x1
  x2 = x2
  h1 = h1
  h2 = h2
  Executions = {x1, x2}
  Hosts = {h1, h2}
  HostOf <- TwoHosts
  Ports = 3
  FirstPort = 2
  MaxAttempts = 2
  MaxConsole = 1
  None = None
SPECIFICATION Spec
INVARIANTS OwnWorker
CHECK_DEADLOCK FALSE
