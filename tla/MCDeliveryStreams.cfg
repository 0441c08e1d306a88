SPECIFICATION ApiSpec
CONSTANTS
  Connector = {c1}
  Declarable <- OnlyOrdered
  Credential = {k1}
  MaxRecord = 2
  NumIntents = 3
  Aggregate = {g1, g2}
  MaxAggregateRevision = 2
  MaxAttempts = 1
  Worker = {w1}
  NoIntent = NoIntent
PROPERTY UnrelatedStreamsClaimable
CHECK_DEADLOCK FALSE
