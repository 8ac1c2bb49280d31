SPECIFICATION Spec
CONSTANTS
  Workers = {w1, w2}
  None = None
  MaxAttempts = 2
SYMMETRY Symmetry
CHECK_DEADLOCK TRUE
INVARIANT FailedIsDrained
