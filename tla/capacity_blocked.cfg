SPECIFICATION Spec
CONSTANTS
  p1 = p1
  p2 = p2
  Plans = {p1, p2}
  Expected <- SameAnchor
  Cycles = 1
  Runners = {c1, c2}
  Requests = {q1}
  Primary = Primary
  None = None
  PerMember = 1
  HighSamples = 1
  LowSamples = 2
  MaxSamples = 5
  MaxGen = 2
SYMMETRY Symmetry
CONSTRAINT Bounded
INVARIANTS
  BlockedKeepsSlot
CHECK_DEADLOCK FALSE
