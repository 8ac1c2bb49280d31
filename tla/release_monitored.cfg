SPECIFICATION MonitoredSpec
CONSTANTS
  Jobs = {j1}
  Revisions = {r1, r2}
  Workers = {w1}
  Monitors = {m1, m2}
  Policies = {probation, watch}
  Probation = probation
  MaxProbes = 2
  Threshold = 2
  None = None
  ProducerOnly = FALSE
  Idempotent = TRUE
  AttemptBound = 1
SYMMETRY Symmetry
INVARIANTS
  SteadyVerdicts
CHECK_DEADLOCK FALSE
