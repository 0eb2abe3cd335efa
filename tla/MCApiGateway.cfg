CONSTANTS
  traderKey = traderKey
  auditorKey = auditorKey
  legacyKey = legacyKey
  settle = settle
  approve = approve
  Keys = {traderKey, auditorKey, legacyKey}
  GatewayKey = legacyKey
  DbRole <- MCDbRole
  Operations = {settle, approve}
  Holders <- MCHolders
  CarriedRole <- MCCarriedRole
  PathOf <- MCPathOf
  MaxAttempts <- MCAttempts
  Window = 2
  MaxRequests = 1
  MaxConnections = 1
  MaxTime = 3
  MaxRestarts = 1
  MaxKafkaFaults = 1
SPECIFICATION FairSpec
CHECK_DEADLOCK FALSE
INVARIANTS
  GatewayTypeOK
  RateBounded
  ForwardedIsEntitled
  AnswersAreTrue
  AuditGapsExplained
PROPERTIES
  RefusedOnlyAtLimit
  EveryRequestAnswered
