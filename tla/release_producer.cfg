SPECIFICATION Spec
CONSTANTS
  Jobs = {j1, j2}
  Revisions = {r1, r2, r3}
  Workers = {w1, w2}
  None = None
  ProducerOnly = TRUE
  Idempotent = TRUE
  AttemptBound = 1
SYMMETRY Symmetry
CONSTRAINT Bounded
INVARIANTS
  ControlNamesTraffic
  SettledByItsOwnAction
  KnownGoodIsProven
  RolledBackIsNotTrusted
  RollbackCanFinish
PROPERTIES
  RollbackFreezesPromotion
  KeepsPromise
CHECK_DEADLOCK FALSE
