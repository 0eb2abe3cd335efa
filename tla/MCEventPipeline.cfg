CONSTANTS
  settled = settled
  issued = issued
  Nothing = Nothing
  Publishers = {p1}
  Events = {settled, issued}
  Consumers = {c1, c2}
  Malformed = {bad}
  Parties <- MCParties
  BatchSize = 2
  MaxHandlerRetries = 2
  MaxPublisherFaults = 0
  MaxConsumerFaults = 1
  MaxRebalances = 2
  MaxConsumerCrashes = 1
SPECIFICATION Spec
SYMMETRY MembersAlike
CHECK_DEADLOCK FALSE
INVARIANTS
  PipelineTypeOK
  ExtraScreeningsBounded
  LossesBounded
