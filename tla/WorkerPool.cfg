\* Four callers compete for three workers; the port of the second is taken.
CONSTANTS
  Callers = {c1, c2, c3, c4}
  Size = 3
  Occupied <- MCOccupied
  MaxAttempts = 2
SPECIFICATION FairSpec
INVARIANTS TypeOK WorkerAlwaysFound GuardsExclusive BusyIffHeld PermitsConserved
PROPERTIES AcquireReturns
CHECK_DEADLOCK FALSE
