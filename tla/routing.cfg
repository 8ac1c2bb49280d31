SPECIFICATION FairSpec
CONSTANTS
  Requests = {q1, q2}
  Replicas = {r1}
  None = None
  Capacity = 1
  MaxPending = 2
INVARIANTS
  ReservationsFit
PROPERTIES
  ReleasedIsGone
  DisabledIsQuarantined
  KeepsSlots
  RequestEnds
CHECK_DEADLOCK FALSE
