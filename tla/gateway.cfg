SPECIFICATION FairSpec
CONSTANTS
  Requests = {r1, r2}
  Capacity = 1
  QuotaLimit = 1
  MaxLosses = 1
INVARIANTS
  SlotsCoverWork
  HonestDone
PROPERTIES
  SlotReturns
  QuotaReopens
