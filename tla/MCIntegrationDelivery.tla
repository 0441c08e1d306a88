------------------------- MODULE MCIntegrationDelivery -------------------------
(* Connectors that may turn ordering on and idempotency off, and back.      *)
EXTENDS IntegrationDelivery, TLC

OrderedOnly == [supportsIdempotencyKey |-> FALSE, perAggregateOrdering |-> TRUE,
                reportsTerminalState |-> FALSE]
IdempotentOnly == [supportsIdempotencyKey |-> TRUE, perAggregateOrdering |-> FALSE,
                   reportsTerminalState |-> TRUE]

OnlyOrdered == {OrderedOnly}

MCDeclarable == {OrderedOnly, IdempotentOnly}

WorkerSymmetry == Permutations(Worker)
================================================================================
