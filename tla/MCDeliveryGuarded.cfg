SPECIFICATION Spec
CONSTANTS
  Connector = {c1}
  Declarable <- MCDeclarable
  Credential = {k1}
  MaxRecord = 4
  NumIntents = 1
  Aggregate = {g1}
  MaxAggregateRevision = 1
  MaxAttempts = 2
  Worker = {w1, w2}
  NoIntent = NoIntent
SYMMETRY WorkerSymmetry
INVARIANT AmbiguousNeverBlindRetried
INVARIANT SettledByItsClaimer
INVARIANT ClaimAvoidsOpenAttempts
PROPERTY RefinesContract
CHECK_DEADLOCK FALSE
