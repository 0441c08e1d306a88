--------------------------- MODULE ConnectorRegistry ---------------------------
(***************************************************************************)
(* The integration connector registry of one active Organization: the      *)
(* integration_connector rows, the append-only audit rows that snapshot    *)
(* each accepted mutation, and the four mutations of                       *)
(* ConnectorMetadataRepository.  Each mutation is one transaction: it      *)
(* locks the connector FOR UPDATE, compares the caller's expected record   *)
(* revision, updates the row and writes its audit row.                     *)
(*                                                                         *)
(* Two revisions move at different rates.  record is the concurrency token *)
(* and advances on every mutation.  configuration is the semantic pin that *)
(* intents carry; a credential rotation leaves it alone.                   *)
(***************************************************************************)
EXTENDS Naturals, Sequences

CONSTANTS
  Connector,    \* connector identities registered by the Organization
  Declarable,   \* the capability contracts an administrator may declare
  Credential,   \* credential references, an absent one included
  MaxRecord     \* bound on record revisions, for model checking

Capabilities == [supportsIdempotencyKey : BOOLEAN,
                 perAggregateOrdering   : BOOLEAN,
                 reportsTerminalState   : BOOLEAN]

ASSUME RegistryAssumption ==
  /\ Declarable \subseteq Capabilities
  /\ MaxRecord \in Nat

VARIABLES
  connector,    \* connector[c]: the current row
  audit         \* audit[c]: the audit rows, in record-revision order

registryVars == <<connector, audit>>

Lifecycle == {"configured", "active", "degraded", "disabled", "retired"}
Category  == {"registered", "lifecycle_changed", "capabilities_changed",
              "credential_reference_rotated"}

Row == [lifecycle     : Lifecycle \union {"unregistered"},
        record        : Nat,
        configuration : Nat,
        capabilities  : Capabilities,
        credential    : Credential]

AuditRow == [record        : Nat,
             configuration : Nat,
             advanced      : BOOLEAN,
             category      : Category,
             lifecycle     : Lifecycle,
             capabilities  : Capabilities]

Registered(c) == connector[c].lifecycle # "unregistered"

\* A connector may be dispatched to only while active or degraded.
Dispatching(c) == connector[c].lifecycle \in {"active", "degraded"}

\* The lifecycle edges: nothing leaves retired, nothing returns to configured.
LifecycleEdges ==
  {<<"configured", "active">>, <<"configured", "disabled">>,
   <<"configured", "retired">>,
   <<"active", "degraded">>, <<"active", "disabled">>, <<"active", "retired">>,
   <<"degraded", "active">>, <<"degraded", "disabled">>,
   <<"degraded", "retired">>,
   <<"disabled", "active">>, <<"disabled", "retired">>}

AdvancesConfiguration(category) == category # "credential_reference_rotated"

\* Mutant: only a capability change is recorded as advancing.
AuditOfCapabilityChangesOnly(row, category) ==
  [record |-> row.record, configuration |-> row.configuration,
   advanced |-> category \in {"registered", "capabilities_changed"},
   category |-> category, lifecycle |-> row.lifecycle,
   capabilities |-> row.capabilities]

\* The audit row that mirrors a committed connector row.
AuditOf(row, category) ==
  [record        |-> row.record,
   configuration |-> row.configuration,
   advanced      |-> AdvancesConfiguration(category),
   category      |-> category,
   lifecycle     |-> row.lifecycle,
   capabilities  |-> row.capabilities]

\* The audit rows that snapshot the semantics of a configuration revision.
Snapshots(rows, revision) ==
  {r \in DOMAIN rows : rows[r].configuration = revision /\ rows[r].advanced}

\* The capabilities in force at a configuration revision.
CapabilitiesAt(c, revision) ==
  audit[c][CHOOSE r \in Snapshots(audit[c], revision) : TRUE].capabilities

RegistryInit ==
  /\ \E k \in Credential, cap \in Declarable :
        connector = [c \in Connector |->
          [lifecycle |-> "unregistered", record |-> 0, configuration |-> 0,
           capabilities |-> cap, credential |-> k]]
  /\ audit = [c \in Connector |-> << >>]

\* Registers a connector at revision 1; a second registration of the same
\* key is refused as a duplicate.
Register(c, cap, k) ==
  /\ ~Registered(c)
  /\ LET row == [lifecycle |-> "configured", record |-> 1, configuration |-> 1,
                 capabilities |-> cap, credential |-> k]
     IN /\ connector' = [connector EXCEPT ![c] = row]
        /\ audit' = [audit EXCEPT ![c] = <<AuditOf(row, "registered")>>]

\* Mutant: every mutation advances the configuration revision.
AdvancedAlways(row, category) ==
  [row EXCEPT !.record = @ + 1, !.configuration = @ + 1]

\* Mutant: a rotation leaves the concurrency token alone as well.
AdvancedUnlessRotation(row, category) ==
  IF AdvancesConfiguration(category)
  THEN [row EXCEPT !.record = @ + 1, !.configuration = @ + 1]
  ELSE row

\* The revisions a mutation of the given category leaves behind.
Advanced(row, category) ==
  [row EXCEPT !.record = @ + 1,
              !.configuration =
                 IF AdvancesConfiguration(category) THEN @ + 1 ELSE @]

\* One accepted mutation: the expected record revision still holds, the row
\* becomes next with its revisions advanced, and the audit row is appended.
Mutate(c, expected, next, category) ==
  /\ Registered(c)
  /\ connector[c].record = expected
  /\ expected < MaxRecord
  /\ LET row == Advanced(next, category)
     IN /\ connector' = [connector EXCEPT ![c] = row]
        /\ audit' = [audit EXCEPT ![c] = Append(@, AuditOf(row, category))]

ChangeLifecycle(c, expected, state) ==
  /\ <<connector[c].lifecycle, state>> \in LifecycleEdges
  /\ Mutate(c, expected, [connector[c] EXCEPT !.lifecycle = state],
            "lifecycle_changed")

UpdateCapabilities(c, expected, cap) ==
  /\ connector[c].capabilities # cap
  /\ Mutate(c, expected, [connector[c] EXCEPT !.capabilities = cap],
            "capabilities_changed")

RotateCredentialReference(c, expected, k) ==
  /\ connector[c].credential # k
  /\ Mutate(c, expected, [connector[c] EXCEPT !.credential = k],
            "credential_reference_rotated")

--------------------------------------------------------------------------------

RegistryTypeOK ==
  /\ connector \in [Connector -> Row]
  /\ audit \in [Connector -> Seq(AuditRow)]

\* Row r of an audit sequence records record revision r, its configuration
\* revision moves exactly where it says it advanced, and the newest row
\* mirrors the connector row.
Explains(rows, row) ==
  /\ Len(rows) = row.record
  /\ \A r \in DOMAIN rows :
       /\ rows[r].record = r
       /\ rows[r].configuration =
            (IF r = 1 THEN 0 ELSE rows[r - 1].configuration)
            + (IF rows[r].advanced THEN 1 ELSE 0)
  /\ rows # << >> => rows[Len(rows)] = AuditOf(row, rows[Len(rows)].category)
  /\ rows = << >> <=> row.lifecycle = "unregistered"

\* Every accepted mutation left exactly one audit row, and the audit rows
\* explain the connector's committed state.  This is what
\* verify_integration_connector_audited and the audit guard promise.
AuditExplainsConnector == \A c \in Connector : Explains(audit[c], connector[c])

\* Each configuration revision up to the row's own has exactly one snapshot.
Resolves(rows, row) ==
  \A revision \in 1..row.configuration :
    \E r \in DOMAIN rows : Snapshots(rows, revision) = {r}

\* A pin taken at any time still resolves, and resolves to one capability
\* contract (the partial unique index on advancing audit rows).
EveryPinResolves == \A c \in Connector : Resolves(audit[c], connector[c])
================================================================================
