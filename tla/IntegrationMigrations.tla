----------------------- MODULE IntegrationMigrations -----------------------
(***************************************************************************)
(* The integration tables while their migrations, ordinals 51 to 58, are   *)
(* applied and rolled back under live data: one connector and its audit,   *)
(* the intents of one aggregate, the delivery attempts, and the revisions  *)
(* of the platform's safety policy. A writer is anyone, the worker         *)
(* functions and a privileged hand alike: a write is any row that the      *)
(* triggers and constraints of the applied migrations accept.              *)
(*                                                                         *)
(* Each migration is one transaction under exclusive locks, up to the      *)
(* latest of the release at hand or down by one. A column that is not      *)
(* there is Null. Lifecycle, identities and the two transitions that need  *)
(* a capability are those of ConnectorRegistry and IntegrationDelivery.    *)
(***************************************************************************)
EXTENDS Naturals, Sequences, FiniteSets

CONSTANTS Null, Intents, ExecutionPolicies,
          MaxRevision, MaxTries, MaxCeilings   \* bounds on what is recorded

ASSUME IntegrationMigrationsAssumption ==
  /\ Null \notin ExecutionPolicies \cup BOOLEAN
  /\ MaxRevision \in Nat \ {0} /\ {MaxTries, MaxCeilings} \subseteq Nat

VARIABLES
  schema,     \* the ordinal of the last migration applied
  settings,   \* the integration_connector row
  history,    \* integration_connector_audit, in record_revision order
  outbox,     \* integration_outbox
  tries,      \* integration_delivery_attempt, in the order of insertion
  ceilings    \* how many revisions integration_execution_safety_policy has

migrationVars == <<schema, settings, history, outbox, tries, ceilings>>

Outcomes == {"succeeded", "failed_transient", "failed_permanent", "ambiguous"}
FailureCategories == {"destination_timeout", "rate_limited", "destination_rejected"}
ReasonCodes == {"lease_expired_pre_dispatch", "lease_expired_uncertain"}
States == {"pending", "dispatching", "accepted", "acknowledged", "retrying", "ambiguous",
           "failed_permanent", "dead_lettered", "refused"}

(* completed_at is set with the outcome, so an outcome stands for both. *)
NewTry(i) ==
  [of |-> i, outcome |-> Null, category |-> Null, reason |-> Null, lease |-> Null,
   dispatched |-> Null, claimPolicy |-> Null, settlementPolicy |-> Null, retryAfter |-> Null]
TryRows ==
  [of : Intents, outcome : Outcomes \cup {Null}, category : FailureCategories \cup {Null},
   reason : ReasonCodes \cup {Null}, lease : {Null, "set"}, dispatched : {Null, "set"},
   claimPolicy : 1..MaxCeilings \cup {Null}, settlementPolicy : 1..MaxCeilings \cup {Null},
   retryAfter : {Null, "immediately"}]
IntentRows ==
  [pin : 1..MaxRevision, revision : {1, Null}, ordered : BOOLEAN \cup {Null},
   due : {Null, "due"}, state : States]
ASSUME NoIntentIsNull == Null \notin IntentRows

AuditRows ==
  [configuration : 1..MaxRevision, advanced : BOOLEAN, ordering : BOOLEAN,
   policy : ExecutionPolicies \cup {Null},
   category : {"registered", "capabilities_changed", "credential_reference_rotated",
               "execution_policy_changed"}]

Present == {i \in Intents : outbox[i] # Null}
Tried == DOMAIN tries

MigrationsTypeOK ==
  /\ schema \in 51..58 /\ ceilings \in 0..MaxCeilings
  /\ settings \in [configuration : 1..MaxRevision, ordering : BOOLEAN, credential : BOOLEAN,
                   policy : ExecutionPolicies \cup {Null}]
  /\ history \in Seq(AuditRows) /\ tries \in Seq(TryRows)
  /\ outbox \in [Intents -> IntentRows \cup {Null}]

(* One connector is registered; the release at hand ends with the outbox, or with what there is. *)
MigrationsInit ==
  /\ schema \in {51, 58}
  /\ \E ordering \in BOOLEAN :
       /\ settings = [configuration |-> 1, ordering |-> ordering, credential |-> FALSE,
                      policy |-> Null]
       /\ history = <<[configuration |-> 1, advanced |-> TRUE, ordering |-> ordering,
                       policy |-> Null, category |-> "registered"]>>
  /\ outbox = [i \in Intents |-> Null] /\ tries = <<>> /\ ceilings = 0

-----------------------------------------------------------------------------
(* The connector's guard since its registry: a change of configuration or of the credential, never
   both, and a new configuration revision for the first. *)
ConnectorGuard(old, new) ==
  LET semantic == new.ordering # old.ordering \/ new.policy # old.policy
      credential == new.credential # old.credential
  IN /\ semantic # credential
     /\ new.configuration = old.configuration + (IF semantic THEN 1 ELSE 0)

(* What migration 57 adds: a change of execution policy comes alone. *)
SingleConcern(old, new) == new.policy # old.policy => new.ordering = old.ordering

(* The audit row mirrors the connector, and its category says whether the revision advanced. *)
AuditGuard(old, new, category) ==
  (category = "credential_reference_rotated") = (new.configuration = old.configuration)

(* What migration 57 adds: its category is that of a policy delta, and of no other change. *)
PolicyCategory(old, new, category) ==
  (category = "execution_policy_changed") = (new.policy # old.policy)

CategoryVocabulary(ordinal) ==
  {"registered", "capabilities_changed", "credential_reference_rotated"} \cup
  IF ordinal >= 57 THEN {"execution_policy_changed"} ELSE {}

(* A connector changes with its audit row, or at commit not at all. *)
ChangeConnector ==
  \E new \in [configuration : 1..MaxRevision, ordering : BOOLEAN, credential : BOOLEAN,
              policy : IF schema >= 57 THEN ExecutionPolicies \cup {Null} ELSE {Null}],
     category \in CategoryVocabulary(schema) \ {"registered"} :
    /\ Len(history) < MaxRevision
    /\ ConnectorGuard(settings, new) /\ AuditGuard(settings, new, category)
    /\ schema >= 57 => SingleConcern(settings, new) /\ PolicyCategory(settings, new, category)
    /\ settings' = new
    /\ history' = Append(history,
         [configuration |-> new.configuration, ordering |-> new.ordering, policy |-> new.policy,
          advanced |-> category # "credential_reference_rotated", category |-> category])
    /\ UNCHANGED <<schema, outbox, tries, ceilings>>

(* A platform revision is complete when inserted, and never updated or deleted. *)
RecordCeilings ==
  /\ schema >= 57 /\ ceilings < MaxCeilings
  /\ ceilings' = ceilings + 1
  /\ UNCHANGED <<schema, settings, history, outbox, tries>>

-----------------------------------------------------------------------------
(* The ordering contract of the configuration revision an intent pinned. *)
PinnedOrdering(intent, rows) ==
  LET pinned == {n \in DOMAIN rows : rows[n].advanced /\ rows[n].configuration = intent.pin}
  IN \E n \in pinned : rows[n].ordering

\* Mutant: the contract is the connector's current one.
CurrentOrdering(intent, rows) == rows[Len(rows)].ordering

(* The contract an intent is given when migration 55 meets it, or when it is enqueued later. *)
DerivedOrdering(intent, rows) == PinnedOrdering(intent, rows)

OrderedNeedsRevision(intent) == intent.ordered = TRUE => intent.revision # Null
ScheduledWhileRetrying(intent) == intent.due # Null => intent.state = "retrying"

(* The partial unique index: one intent of an ordered stream in flight. *)
InFlight(rows) == {i \in Intents : /\ rows[i] # Null /\ rows[i].ordered = TRUE
                                   /\ rows[i].state \in {"dispatching", "ambiguous"}}

Enqueue(i) ==
  \E revision \in {1, Null} :
    LET bare == [pin |-> settings.configuration, revision |-> revision, ordered |-> Null,
                 due |-> Null, state |-> "pending"]
        intent == IF schema < 55 THEN bare
                  ELSE [bare EXCEPT !.ordered = DerivedOrdering(bare, history)]
    IN /\ outbox[i] = Null /\ OrderedNeedsRevision(intent)
       /\ outbox' = [outbox EXCEPT ![i] = intent]
       /\ UNCHANGED <<schema, settings, history, tries, ceilings>>

Edges ==
  ({"pending"} \X {"dispatching", "refused"}) \cup
  ({"dispatching"} \X {"accepted", "retrying", "ambiguous", "failed_permanent", "dead_lettered"})
  \cup ({"retrying"} \X {"dispatching", "dead_lettered"}) \cup {<<"accepted", "acknowledged">>}
  \cup ({"ambiguous"} \X {"dispatching", "accepted", "failed_permanent", "dead_lettered"})

(* Migration 52 lets an intent's state move, 55 its schedule with it. *)
Transition(i) ==
  \E to \in States, due \in IF schema >= 55 THEN {Null, "due"} ELSE {Null} :
    LET moved == [outbox[i] EXCEPT !.state = to, !.due = due]
        rows == [outbox EXCEPT ![i] = moved]
    IN /\ schema >= 52 /\ outbox[i] # Null
       /\ <<outbox[i].state, to>> \in Edges
       /\ ScheduledWhileRetrying(moved)
       /\ Cardinality(InFlight(rows)) <= 1
       /\ outbox' = rows
       /\ UNCHANGED <<schema, settings, history, tries, ceilings>>

-----------------------------------------------------------------------------
Settled(try) == try.outcome # Null
Failed(try) == Settled(try) /\ try.outcome # "succeeded"

(* Migration 52: a success has no category; until 54 a failure has one. *)
SettlementShape(try) == try.outcome = "succeeded" => try.category = Null
FailureNamesCategory(try) == Failed(try) => try.category # Null

(* Migration 54's settlement matrix. *)
SettlementMatrix(try) ==
  /\ Failed(try) => try.category # Null \/ try.reason # Null
  /\ ~Settled(try) => try.category = Null /\ try.reason = Null
  /\ try.outcome = "succeeded" => try.reason = Null
  /\ try.reason = Null \/ try.category = Null
  /\ try.outcome = "failed_permanent" => try.category # Null
  /\ try.reason = "lease_expired_pre_dispatch" =>
       try.outcome = "failed_transient" /\ try.dispatched = Null
  /\ try.reason = "lease_expired_uncertain" =>
       try.outcome = "ambiguous" /\ try.dispatched # Null
  /\ try.outcome = "failed_transient" => try.category \in {Null, "rate_limited"}
  /\ try.category = "destination_timeout" => try.outcome = "ambiguous"

\* Mutant: the check that would break every attempt settled before the migration.
PinIffSettled(try) ==
  /\ (try.settlementPolicy # Null) = Settled(try)
  /\ {try.claimPolicy, try.settlementPolicy} \subseteq 1..ceilings \cup {Null}

(* Migration 57: pins are of recorded revisions, that of a settlement with the settlement. *)
PolicyPins(try) ==
  /\ try.settlementPolicy # Null => Settled(try)
  /\ {try.claimPolicy, try.settlementPolicy} \subseteq 1..ceilings \cup {Null}

(* Migration 58: what a destination asked for is evidence of a rate-limited answer only. *)
RetryAfterShape(try) == try.retryAfter # Null => Settled(try) /\ try.category = "rate_limited"

(* The constraints on an attempt at an ordinal. *)
TryConstraints(ordinal, try) ==
  /\ SettlementShape(try)
  /\ IF ordinal < 54 THEN FailureNamesCategory(try) ELSE SettlementMatrix(try)
  /\ ordinal >= 57 => PolicyPins(try)
  /\ ordinal >= 58 => RetryAfterShape(try)

(* A column that no applied migration has added. *)
NoSuchColumns(ordinal, try) ==
  /\ ordinal < 54 => {try.lease, try.dispatched, try.reason} = {Null}
  /\ ordinal < 57 => {try.claimPolicy, try.settlementPolicy} = {Null}
  /\ ordinal < 58 => try.retryAfter = Null

(* An attempt is created open, one open attempt to an intent; its lease and the platform revision
   of its claim may come with it. *)
OpenTry(i) ==
  \E lease \in {Null, "set"}, claimPolicy \in 1..ceilings \cup {Null} :
    LET try == [NewTry(i) EXCEPT !.lease = lease, !.claimPolicy = claimPolicy]
    IN /\ schema >= 52 /\ Len(tries) < MaxTries /\ outbox[i] # Null
       /\ \A n \in Tried : tries[n].of = i => Settled(tries[n])
       /\ NoSuchColumns(schema, try) /\ TryConstraints(schema, try)
       /\ tries' = Append(tries, try)
       /\ UNCHANGED <<schema, settings, history, outbox, ceilings>>

(* Migration 54 lets an open attempt pass its dispatch boundary, once and before it is settled. *)
PassesBoundary(old, new) == old.dispatched = Null /\ new.dispatched # Null
BoundaryGuard(old, new) ==
  /\ new.lease = old.lease
  /\ old.dispatched # Null => new.dispatched = old.dispatched
  /\ IF PassesBoundary(old, new) THEN {new.outcome, new.reason, new.category} = {Null}
     ELSE Settled(new)

(* Migration 57: the revision of the claim stays, that of the settlement comes with it. *)
PinGuard(old, new) ==
  /\ new.claimPolicy = old.claimPolicy
  /\ new.settlementPolicy # Null => Settled(new)

(* Migration 58: the evidence comes with the settlement of a rate-limited answer. *)
RetryAfterGuard(old, new) == new.retryAfter # Null => Settled(new) /\ new.category = "rate_limited"

(* What the attempt guard lets an update of an open attempt do. *)
TryGuard(old, new) ==
  /\ new.of = old.of
  /\ IF schema >= 54 THEN BoundaryGuard(old, new) ELSE Settled(new)
  /\ schema >= 57 => PinGuard(old, new)
  /\ schema >= 58 => RetryAfterGuard(old, new)

(* An attempt is settled once, and then immutable. *)
WriteTry(n) ==
  /\ ~Settled(tries[n])
  /\ \E new \in TryRows :
       /\ TryGuard(tries[n], new)
       /\ NoSuchColumns(schema, new) /\ TryConstraints(schema, new)
       /\ tries' = [tries EXCEPT ![n] = new]
       /\ UNCHANGED <<schema, settings, history, outbox, ceilings>>

-----------------------------------------------------------------------------
Holds(columns) == \E n \in Tried, column \in columns : tries[n][column] # Null
Without(columns) ==
  [n \in Tried |-> [column \in DOMAIN tries[n] |->
                      IF column \in columns THEN Null ELSE tries[n][column]]]

(* The constraints that a migration adds, or restores, are validated against every row. *)
RowsFit(ordinal) ==
  /\ \A n \in Tried : TryConstraints(ordinal, tries[n])
  /\ \A n \in DOMAIN history : history[n].category \in CategoryVocabulary(ordinal)

(* Migration 55 gives every intent its contract, and refuses what it cannot order. *)
Ordered ==
  [i \in Intents |-> IF outbox[i] = Null THEN Null
                     ELSE [outbox[i] EXCEPT !.ordered = DerivedOrdering(outbox[i], history)]]
OrderingUp ==
  /\ \A i \in Present : OrderedNeedsRevision(Ordered[i])
  /\ Cardinality(InFlight(Ordered)) <= 1
  /\ outbox' = Ordered

Up ==
  /\ schema < 58 /\ schema' = schema + 1
  /\ RowsFit(schema + 1)
  /\ IF schema + 1 = 55 THEN OrderingUp ELSE UNCHANGED outbox
  /\ UNCHANGED <<settings, history, tries, ceilings>>

-----------------------------------------------------------------------------
(* What refuses a rollback: evidence in what it would drop, or a use of it that is not over. *)
AttemptsHeld == tries # <<>> \/ \E i \in Present : outbox[i].state # "pending"
ClaimHeld == \E n \in Tried : ~Settled(tries[n])
LeaseEvidenceHeld == Holds({"lease", "dispatched", "reason"})
OrderingEvidenceHeld ==
  \E i \in Present : \/ outbox[i].due # Null
                     \/ outbox[i].ordered # PinnedOrdering(outbox[i], history)
PolicyEvidenceHeld ==
  \/ settings.policy # Null \/ \E n \in DOMAIN history : history[n].policy # Null
  \/ ceilings > 0 \/ Holds({"claimPolicy", "settlementPolicy"})
RetryAfterHeld == Holds({"retryAfter"})

Refused ==
  CASE schema = 58 -> RetryAfterHeld
    [] schema = 57 -> PolicyEvidenceHeld
    [] schema = 56 -> FALSE
    [] schema = 55 -> OrderingEvidenceHeld
    [] schema = 54 -> LeaseEvidenceHeld
    [] schema = 53 -> ClaimHeld
    [] schema = 52 -> AttemptsHeld
    [] OTHER -> TRUE

RetryAfterDown == schema = 58 /\ tries' = Without({"retryAfter"}) /\ UNCHANGED outbox
PolicyDown == schema = 57 /\ tries' = Without({"claimPolicy", "settlementPolicy"}) /\ UNCHANGED outbox

(* The claim function is the one before; what the later ones wrote stays. *)
ClaimFunctionDown == schema = 56 /\ UNCHANGED <<outbox, tries>>

OrderingDown ==
  /\ schema = 55 /\ UNCHANGED tries
  /\ outbox' = [i \in Intents |-> IF outbox[i] = Null THEN Null
                                  ELSE [outbox[i] EXCEPT !.ordered = Null, !.due = Null]]
LeaseDown == schema = 54 /\ tries' = Without({"lease", "dispatched", "reason"}) /\ UNCHANGED outbox
FunctionsDown == schema = 53 /\ UNCHANGED <<outbox, tries>>
AttemptsDown == schema = 52 /\ tries' = <<>> /\ UNCHANGED outbox

(* A rollback restores the guards and checks before its migration, so these must hold. *)
Down ==
  /\ ~Refused /\ RowsFit(schema - 1)
  /\ schema' = schema - 1
  /\ \/ RetryAfterDown \/ PolicyDown \/ ClaimFunctionDown \/ OrderingDown
     \/ LeaseDown \/ FunctionsDown \/ AttemptsDown
  /\ UNCHANGED <<settings, history, ceilings>>

MigrationsNext ==
  \/ ChangeConnector \/ RecordCeilings \/ Up \/ Down
  \/ \E i \in Intents : Enqueue(i) \/ Transition(i) \/ OpenTry(i)
  \/ \E n \in Tried : WriteTry(n)

MigrationsSpec == MigrationsInit /\ [][MigrationsNext]_migrationVars

-----------------------------------------------------------------------------
(* What was promised to an intent when it pinned its configuration revision. *)
Promised(intent, rows) ==
  IF intent.ordered # Null THEN intent.ordered ELSE PinnedOrdering(intent, rows)

(* No sequence of writes, migrations and rollbacks loses or rewrites evidence: what an attempt, the
   audit or a policy revision says stays said, an intent keeps the ordering it was promised through
   any round trip, and a schedule ends only with its state
   (20261025000000-add-integration-ordering-retry-eligibility.ts:364). *)
EvidenceSurvives ==
  [][/\ \A n \in Tried :
          /\ n \in Tried'
          /\ \A column \in DOMAIN tries[n] :
               tries[n][column] # Null => tries'[n][column] = tries[n][column]
     /\ \A n \in DOMAIN history : n \in DOMAIN history' /\ history'[n] = history[n]
     /\ ceilings' >= ceilings
     /\ \A i \in Present :
          /\ i \in Present'
          /\ Promised(outbox'[i], history') = Promised(outbox[i], history)
          /\ outbox[i].due # Null /\ outbox'[i].state = "retrying" => outbox'[i].due # Null
    ]_migrationVars

(* What the rows have become never stands in the way: migrations 57 and 58 can be applied whatever
   was settled before them, and a rollback that nothing refuses finds that the checks it restores
   hold (20261027000000-add-integration-execution-policy-persistence.ts:270). *)
RowsNeverBlockMigration ==
  /\ schema \in {56, 57} => RowsFit(schema + 1)
  /\ ~Refused => RowsFit(schema - 1)
=============================================================================
