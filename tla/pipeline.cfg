SPECIFICATION Spec
CONSTANTS
  baseline = baseline
  candidate = candidate
  Workers = {w1, w2}
  Cohorts = {baseline, candidate}
  Borrowed = {baseline}
  None = None
  MaxAttempts = 2
  MaxStarts = 2
  MaxMishaps = 2
SYMMETRY Symmetry
CONSTRAINT Bounded
INVARIANTS
  EvidenceFromOneStart
  OneCollector
  RegistrationStands
CHECK_DEADLOCK FALSE
