CONSTANTS
  settled = settled
  issued = issued
  Nothing = Nothing
  Publishers = {p1, p2}
  Events = {settled, issued}
  Consumers = {c1}
  Malformed = {bad}
  Parties <- MCParties
  BatchSize = 2
  MaxHandlerRetries = 3
  MaxPublisherFaults = 2
  MaxConsumerFaults = 0
  MaxRebalances = 0
  MaxConsumerCrashes = 0
SPECIFICATION FairSpec
CHECK_DEADLOCK FALSE
INVARIANTS
  PublishedIsInLog
  OnlyUnreadablePassed
PROPERTIES
  EverythingScreened
