SPECIFICATION FairSpec
CONSTANTS
  Jobs = {j1, j2}
  Callers = {c1}
  None = None
  MaxPending = 2
  MaxRecords = 2
  MaxAttempts = 1
  MaxInstances = 2
CONSTRAINT Bounded
INVARIANTS
  TerminalIsDrained
PROPERTIES
  FenceHolds
  QueuedIsDispatched
  CancelReturns
  ShutdownEnds
CHECK_DEADLOCK FALSE
