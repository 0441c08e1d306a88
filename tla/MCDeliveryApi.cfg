SPECIFICATION ApiSpec
CONSTANTS
  Connector = {c1}
  Declarable <- MCDeclarable
  Credential = {k1}
  MaxRecord = 3
  NumIntents = 2
  Aggregate = {g1}
  MaxAggregateRevision = 2
  MaxAttempts = 2
  Worker = {w1, w2}
  NoIntent = NoIntent
SYMMETRY WorkerSymmetry
INVARIANT NoOvertaking
INVARIANT OutboxReflectsAttempts
PROPERTY ConnectorHeldThroughCommit
CHECK_DEADLOCK FALSE
