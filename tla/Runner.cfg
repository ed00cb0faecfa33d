\* Two executions of one server process, whose counter wraps.
CONSTANTS
  x1 = x1
  x2 = x2
  h1 = h1
  h2 = h2
  Executions = {x1, x2}
  Hosts = {h1}
  HostOf <- OneHost
  Ports = 3
  FirstPort = 2
  MaxAttempts = 2
  MaxConsole = 1
  None = None
SPECIFICATION FairSpec
INVARIANTS TypeOK OwnWorker FailureReported
PROPERTIES ImplementsStream
CHECK_DEADLOCK FALSE
