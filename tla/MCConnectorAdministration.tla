----------------------- MODULE MCConnectorAdministration -----------------------
(***************************************************************************)
(* What the platform keeps for its connectors and its databases: two        *)
(* administrators of one connector, two capability contracts, two           *)
(* credentials, and five record revisions; the integration tables under     *)
(* their migrations, with one intent that may be attempted, or two of one   *)
(* stream; the gate behind which the tests of both meet a database; the     *)
(* commands that prepare a development one; and three calls of two members  *)
(* of staff to two AI models. They share no variable: `focus` says which of *)
(* them acts. Values that only need to be told apart are shared.            *)
(***************************************************************************)
EXTENDS ConnectorAdministration, IntegrationMigrations, DisposableValidation,
        AiRouting, DevelopmentTools, TLC

CONSTANTS i1, i2, k1, p1, p2, p3, v1, v2

VARIABLE focus

IdempotentOnly == [supportsIdempotencyKey |-> TRUE, perAggregateOrdering |-> FALSE,
                   reportsTerminalState |-> FALSE]
MCDeclarable ==
  {IdempotentOnly,
   [supportsIdempotencyKey |-> FALSE, perAggregateOrdering |-> TRUE,
    reportsTerminalState |-> FALSE]}

RulesOfDef(m) == IF m = i1 THEN {[scope |-> "user", period |-> "daily", limit |-> 1],
                                  [scope |-> "organization", period |-> "monthly", limit |-> 2]}
                 ELSE {[scope |-> "model", period |-> "daily", limit |-> 1],
                       [scope |-> "provider", period |-> "monthly", limit |-> 2]}
ModelOfDef(c) == IF c = p3 THEN i1 ELSE i2
ProviderOfDef(m) == i1 \* both models are one provider's
DepartmentOfDef == [u \in {i1, i2} |-> i1]
Symmetry == Permutations({p1, p2}) \cup Permutations({v1, v2})

MCInit ==
  /\ focus \in {"administration", "attempts", "streams", "gate", "ai", "tools"}
  /\ Init /\ MigrationsInit /\ GateInit /\ AiInit /\ ToolsInit
  /\ focus \notin {"attempts", "streams"} => schema = 58 /\ settings.ordering
  /\ focus # "administration" =>
       \A c \in Connector : connector[c].capabilities = IdempotentOnly /\ connector[c].credential = k1
  /\ focus # "tools" => principal = "missing"
  /\ focus # "gate" => options = [evidence |-> FALSE, compile |-> FALSE]

MCNext ==
  /\ UNCHANGED focus
  /\ \/ focus = "administration" /\ Next /\ UNCHANGED <<migrationVars, gateVars, aiVars, toolVars>>
     \/ /\ focus = "attempts" /\ MigrationsNext /\ UNCHANGED <<adminVars, gateVars, aiVars, toolVars>>
        /\ outbox'[i2] = Null /\ Len(history') <= 2
     \/ /\ focus = "streams" /\ MigrationsNext /\ UNCHANGED <<adminVars, gateVars, aiVars, toolVars>>
        /\ tries' = <<>>
     \/ focus = "gate" /\ GateNext /\ UNCHANGED <<adminVars, migrationVars, aiVars, toolVars>>
     \/ focus = "ai" /\ AiNext /\ UNCHANGED <<adminVars, migrationVars, gateVars, toolVars>>
     \/ focus = "tools" /\ ToolsNext /\ UNCHANGED <<adminVars, migrationVars, gateVars, aiVars>>

MCSpec == MCInit /\ [][MCNext]_<<focus, adminVars, migrationVars, gateVars, aiVars, toolVars>>
================================================================================
