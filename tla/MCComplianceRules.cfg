CONSTANTS
  x1 = x1
  x2 = x2
  x3 = x3
  x4 = x4
  listed = listed
  Transactions = {x1, x2, x3, x4}
  Payload <- MCPayload
  SanctionsHits <- MCHits
  FxApprox <- MCFxApprox
  LargeTransaction = 1000000
  StructuringFrom = 9500
  VelocityLimit = 1
  Hour = 2
  TrackerCap = 2
  MaxTime = 4
  MaxRestarts = 1
  MaxLookupFaults = 1
SPECIFICATION Spec
CHECK_DEADLOCK FALSE
INVARIANTS
  VelocityExact
  MissesExplained
