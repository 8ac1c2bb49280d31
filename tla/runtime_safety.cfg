SPECIFICATION Spec
CONSTANTS
  Workers = {w1, w2}
  None = None
  MaxAttempts = 2
SYMMETRY Symmetry
CONSTRAINT Bounded
CHECK_DEADLOCK TRUE
INVARIANTS OneContainer AbortedIsGone OnlyStopRemoves StoppedIsGone
PROPERTY IntentBlocks
