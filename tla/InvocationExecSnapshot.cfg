\* One invocation, one registry call at a time, one function published once.
CONSTANTS
  FunctionIds = {f1}
  Names = {n1}
  Aliases = {a1}
  Codes = {c1}
  Handlers = {h1, h2}
  Clients = {p1}
  MaxVersion = 1
  Invocations = {v1}
  None = None
SPECIFICATION InvocationSpec
INVARIANTS ExecRunsSnapshot
