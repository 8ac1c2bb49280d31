SPECIFICATION Spec
CONSTANTS
  r1 = r1
  r2 = r2
  r3 = r3
  e1 = e1
  e2 = e2
  Revisions = {r1, r2, r3}
  Endpoints = {e1, e2}
  EndpointOf <- SharedEndpoint
  Requests = {q1, q2, q3}
  Cleaners = {c1}
  None = None
  Released = Released
  AdmissionLimit = 2
  ClientLimit = 1
  CutoverBound = 2
SYMMETRY Symmetry
INVARIANTS
  ConnectedRuns
  InUseRuns
  DrainIsFinal
  PoolStaysOpen
  RetiredStaysReclaimable
CHECK_DEADLOCK FALSE
