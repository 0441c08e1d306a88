---------------------------- MODULE PlatformProofs ----------------------------
(***************************************************************************)
(* Theorems about what the platform keeps beside the requests: the         *)
(* integration tables under their migrations, the gate of the disposable   *)
(* validation, the AI router, the development tools, and the connector     *)
(* registry under concurrent administration. The five share no variable.   *)
(* Each part states an inductive invariant, shows that every action keeps  *)
(* it, and draws the properties from it.                                   *)
(***************************************************************************)
EXTENDS IntegrationMigrations, DisposableValidation, AiRouting, DevelopmentTools,
        ConnectorAdministration, ConnectorRegistryProofs, FiniteSetTheorems, TLAPS

--------------------------------------------------------------------------------
(* Migrations: the inductive invariant.                                     *)

\* An attempt meets the constraints of the applied migrations and has no
\* column of a later one; what comes with a settlement is not there before.
TryHolds(try) ==
  /\ try \in TryRows /\ NoSuchColumns(schema, try) /\ TryConstraints(schema, try)
  /\ ~Settled(try) => /\ try.category = Null /\ try.reason = Null
                      /\ try.settlementPolicy = Null /\ try.retryAfter = Null

\* A category of policy changes has a policy before or after it, and the last
\* audit row is of the policy the connector has.
HistoryHolds ==
  /\ Len(history) > 0 /\ settings.policy = history[Len(history)].policy
  /\ \A n \in DOMAIN history :
       /\ history[n].category \in CategoryVocabulary(schema)
       /\ history[n].category = "execution_policy_changed" =>
            \E m \in DOMAIN history : history[m].policy # Null

\* An intent has pinned a revision there is, and has neither contract nor
\* schedule before there are columns for them.
IntentHolds(intent) ==
  /\ intent.pin <= settings.configuration /\ ScheduledWhileRetrying(intent)
  /\ schema < 55 => intent.ordered = Null /\ intent.due = Null

MigrationsInv ==
  /\ MigrationsTypeOK /\ HistoryHolds
  /\ \A n \in Tried : TryHolds(tries[n])
  /\ \A i \in Present : IntentHolds(outbox[i])

LEMMA Elements ==
  ASSUME NEW S, NEW s \in Seq(S)
  PROVE  DOMAIN s = 1..Len(s) /\ Len(s) \in Nat /\ \A n \in DOMAIN s : s[n] \in S
OBVIOUS

LEMMA Extended ==
  ASSUME NEW S, NEW s \in Seq(S), NEW e \in S
  PROVE  /\ Append(s, e) \in Seq(S) /\ Len(s) \in Nat /\ Len(Append(s, e)) = Len(s) + 1
         /\ DOMAIN s = 1..Len(s) /\ DOMAIN Append(s, e) = 1..(Len(s) + 1)
         /\ \A n \in 1..Len(s) : Append(s, e)[n] = s[n]
         /\ Append(s, e)[Len(s) + 1] = e
OBVIOUS

LEMMA Substituted ==
  ASSUME NEW S, NEW s \in Seq(S), NEW n \in DOMAIN s, NEW e \in S
  PROVE  /\ [s EXCEPT ![n] = e] \in Seq(S) /\ DOMAIN [s EXCEPT ![n] = e] = DOMAIN s
         /\ [s EXCEPT ![n] = e][n] = e
         /\ \A m \in DOMAIN s \ {n} : [s EXCEPT ![n] = e][m] = s[m]
OBVIOUS

LEMMA MigrationRows ==
  ASSUME MigrationsInv
  PROVE  /\ schema \in 51..58 /\ ceilings \in Nat /\ ceilings <= MaxCeilings /\ MaxCeilings \in Nat
         /\ history \in Seq(AuditRows) /\ DOMAIN history = 1..Len(history) /\ Len(history) \in Nat
         /\ tries \in Seq(TryRows) /\ DOMAIN tries = 1..Len(tries) /\ Len(tries) \in Nat
         /\ \A n \in DOMAIN history : history[n] \in AuditRows
         /\ \A n \in Tried : tries[n] \in TryRows
         /\ \A i \in Present : i \in Intents /\ outbox[i] \in IntentRows
         /\ settings.configuration \in Nat /\ settings.configuration \in 1..MaxRevision
         /\ MaxRevision \in Nat
<1>1. MigrationsTypeOK
  BY DEF MigrationsInv
<1>2. /\ schema \in 51..58 /\ ceilings \in 0..MaxCeilings /\ history \in Seq(AuditRows)
      /\ tries \in Seq(TryRows) /\ outbox \in [Intents -> IntentRows \cup {Null}]
      /\ settings.configuration \in 1..MaxRevision
  BY <1>1 DEF MigrationsTypeOK
<1>3. MaxCeilings \in Nat /\ MaxRevision \in Nat
  BY IntegrationMigrationsAssumption
<1>4. DOMAIN history = 1..Len(history) /\ Len(history) \in Nat
      /\ \A n \in DOMAIN history : history[n] \in AuditRows
  BY <1>2, Elements
<1>5. DOMAIN tries = 1..Len(tries) /\ Len(tries) \in Nat /\ \A n \in Tried : tries[n] \in TryRows
  BY <1>2, Elements DEF Tried
<1> QED BY <1>2, <1>3, <1>4, <1>5 DEF Present

\* A rollback is refused for what it would drop.
LEMMA RefusedIs ==
  /\ schema = 58 => Refused = RetryAfterHeld
  /\ schema = 57 => Refused = PolicyEvidenceHeld
  /\ schema = 56 => Refused = FALSE
  /\ schema = 55 => Refused = OrderingEvidenceHeld
  /\ schema = 54 => Refused = LeaseEvidenceHeld
  /\ schema = 53 => Refused = ClaimHeld
  /\ schema = 52 => Refused = AttemptsHeld
  /\ schema = 51 => Refused = TRUE
<1>1. schema = 58 => Refused = RetryAfterHeld
  BY DEF Refused
<1>2. schema = 57 => Refused = PolicyEvidenceHeld
  BY DEF Refused
<1>3. schema = 56 => Refused = FALSE
  BY DEF Refused
<1>4. schema = 55 => Refused = OrderingEvidenceHeld
  BY DEF Refused
<1>5. schema = 54 => Refused = LeaseEvidenceHeld
  BY DEF Refused
<1>6. schema = 53 => Refused = ClaimHeld
  BY DEF Refused
<1>7. schema = 52 => Refused = AttemptsHeld
  BY DEF Refused
<1>8. schema = 51 => Refused = TRUE
  BY DEF Refused
<1> QED BY <1>1, <1>2, <1>3, <1>4, <1>5, <1>6, <1>7, <1>8

\* What the constraints of an ordinal make of those of its neighbours.
LEMMA ConstraintsAt ==
  ASSUME NEW try
  PROVE  /\ TryConstraints(58, try) => TryConstraints(57, try)
         /\ TryConstraints(57, try) => TryConstraints(56, try)
         /\ TryConstraints(56, try) <=> TryConstraints(55, try)
         /\ TryConstraints(55, try) <=> TryConstraints(54, try)
         /\ TryConstraints(54, try) /\ try.reason = Null => TryConstraints(53, try)
         /\ TryConstraints(53, try) <=> TryConstraints(52, try)
         /\ TryConstraints(56, try) /\ NoSuchColumns(56, try) => TryConstraints(57, try)
         /\ TryConstraints(57, try) /\ NoSuchColumns(57, try) => TryConstraints(58, try)
<1>1. TryConstraints(58, try) => TryConstraints(57, try)
  BY DEF TryConstraints
<1>2. TryConstraints(57, try) => TryConstraints(56, try)
  BY DEF TryConstraints
<1>3. TryConstraints(56, try) <=> TryConstraints(55, try)
  BY DEF TryConstraints
<1>4. TryConstraints(55, try) <=> TryConstraints(54, try)
  BY DEF TryConstraints
<1>5. TryConstraints(54, try) /\ try.reason = Null => TryConstraints(53, try)
  BY DEF TryConstraints, SettlementMatrix, FailureNamesCategory
<1>6. TryConstraints(53, try) <=> TryConstraints(52, try)
  BY DEF TryConstraints
<1>7. TryConstraints(56, try) /\ NoSuchColumns(56, try) => TryConstraints(57, try)
  BY DEF TryConstraints, NoSuchColumns, PolicyPins
<1>8. TryConstraints(57, try) /\ NoSuchColumns(57, try) => TryConstraints(58, try)
  BY DEF TryConstraints, NoSuchColumns, RetryAfterShape
<1> QED BY <1>1, <1>2, <1>3, <1>4, <1>5, <1>6, <1>7, <1>8

LEMMA InvFitsMigrations ==
  ASSUME MigrationsInv
  PROVE  RowsNeverBlockMigration
<1>1. schema \in 51..58
  BY MigrationRows
<1>2. \A n \in Tried : NoSuchColumns(schema, tries[n]) /\ TryConstraints(schema, tries[n])
  BY DEF MigrationsInv, TryHolds
<1>3. \A n \in DOMAIN history : history[n].category \in CategoryVocabulary(schema)
  BY DEF MigrationsInv, HistoryHolds
<1>4. ASSUME schema \in {56, 57} PROVE RowsFit(schema + 1)
  <2>1. \A n \in Tried : TryConstraints(schema + 1, tries[n])
    <3>1. CASE schema = 56
      BY <1>2, <3>1, ConstraintsAt
    <3>2. CASE schema = 57
      BY <1>2, <3>2, ConstraintsAt
    <3> QED BY <1>4, <3>1, <3>2
  <2>2. CategoryVocabulary(schema) \subseteq CategoryVocabulary(schema + 1)
    BY <1>4 DEF CategoryVocabulary
  <2> QED BY <1>3, <2>1, <2>2 DEF RowsFit
<1>5. ASSUME ~Refused PROVE RowsFit(schema - 1)
  <2>1. \A n \in Tried : TryConstraints(schema - 1, tries[n])
    <3>1. CASE schema = 58
      BY <1>2, <3>1, ConstraintsAt
    <3>2. CASE schema = 57
      BY <1>2, <3>2, ConstraintsAt
    <3>3. CASE schema = 56
      BY <1>2, <3>3, ConstraintsAt
    <3>4. CASE schema = 55
      BY <1>2, <3>4, ConstraintsAt
    <3>5. CASE schema = 54
      <4>1. \A n \in Tried : tries[n].reason = Null
        BY <1>5, <3>5, RefusedIs DEF LeaseEvidenceHeld, Holds
      <4> QED BY <1>2, <3>5, <4>1, ConstraintsAt
    <3>6. CASE schema = 53
      BY <1>2, <3>6, ConstraintsAt
    <3>7. CASE schema = 52
      <4>1. Tried = {}
        <5>1. tries = <<>>
          BY <1>5, <3>7, RefusedIs DEF AttemptsHeld
        <5> QED BY <5>1 DEF Tried
      <4> QED BY <4>1
    <3> QED BY <1>1, <1>5, <3>1, <3>2, <3>3, <3>4, <3>5, <3>6, <3>7, RefusedIs
  <2>2. \A n \in DOMAIN history : history[n].category \in CategoryVocabulary(schema - 1)
    <3>1. CASE schema = 57
      <4>1. \A n \in DOMAIN history : history[n].policy = Null
        BY <1>5, <3>1, RefusedIs DEF PolicyEvidenceHeld
      <4>2. \A n \in DOMAIN history : history[n].category # "execution_policy_changed"
        BY <4>1 DEF MigrationsInv, HistoryHolds
      <4> QED BY <1>3, <3>1, <4>2 DEF CategoryVocabulary
    <3>2. CASE schema # 57
      BY <1>1, <1>3, <3>2 DEF CategoryVocabulary
    <3> QED BY <3>1, <3>2
  <2> QED BY <2>1, <2>2 DEF RowsFit
<1> QED BY <1>4, <1>5 DEF RowsNeverBlockMigration

LEMMA MigrationsInitInv == MigrationsInit => MigrationsInv
<1> SUFFICES ASSUME MigrationsInit PROVE MigrationsInv
  OBVIOUS
<1>1. PICK ordering \in BOOLEAN :
        /\ settings = [configuration |-> 1, ordering |-> ordering, credential |-> FALSE, policy |-> Null]
        /\ history = <<[configuration |-> 1, advanced |-> TRUE, ordering |-> ordering,
                        policy |-> Null, category |-> "registered"]>>
  BY DEF MigrationsInit
<1>2. PICK row : row = [configuration |-> 1, advanced |-> TRUE, ordering |-> ordering,
                        policy |-> Null, category |-> "registered"]
  OBVIOUS
<1>3. /\ schema \in {51, 58} /\ outbox = [i \in Intents |-> Null] /\ tries = <<>> /\ ceilings = 0
  BY DEF MigrationsInit
<1>4. 1 \in 1..MaxRevision /\ MaxCeilings \in Nat
  BY IntegrationMigrationsAssumption
<1>5. row \in AuditRows /\ row.policy = Null /\ row.category = "registered"
  BY <1>2, <1>4 DEF AuditRows
<1>6. history = <<row>> /\ history \in Seq(AuditRows) /\ Len(history) = 1 /\ DOMAIN history = {1} /\ history[1] = row
  BY <1>1, <1>2, <1>5
<1>7. settings \in [configuration : 1..MaxRevision, ordering : BOOLEAN, credential : BOOLEAN,
                    policy : ExecutionPolicies \cup {Null}] /\ settings.policy = Null
  BY <1>1, <1>4
<1>8. MigrationsTypeOK
  BY <1>3, <1>4, <1>6, <1>7 DEF MigrationsTypeOK
<1>9. HistoryHolds
  BY <1>5, <1>6, <1>7 DEF HistoryHolds, CategoryVocabulary
<1>10. Tried = {} /\ Present = {}
  BY <1>3 DEF Tried, Present
<1> QED BY <1>8, <1>9, <1>10 DEF MigrationsInv

LEMMA ChangeConnectorInv == ASSUME MigrationsInv, ChangeConnector PROVE MigrationsInv'
<1>1. PICK new \in [configuration : 1..MaxRevision, ordering : BOOLEAN, credential : BOOLEAN,
                    policy : IF schema >= 57 THEN ExecutionPolicies \cup {Null} ELSE {Null}],
           category \in CategoryVocabulary(schema) \ {"registered"} :
        /\ ConnectorGuard(settings, new) /\ AuditGuard(settings, new, category)
        /\ schema >= 57 => SingleConcern(settings, new) /\ PolicyCategory(settings, new, category)
        /\ settings' = new
        /\ history' = Append(history,
             [configuration |-> new.configuration, ordering |-> new.ordering, policy |-> new.policy,
              advanced |-> category # "credential_reference_rotated", category |-> category])
        /\ UNCHANGED <<schema, outbox, tries, ceilings>>
  BY DEF ChangeConnector
<1>2. PICK row : row = [configuration |-> new.configuration, ordering |-> new.ordering,
                        policy |-> new.policy,
                        advanced |-> category # "credential_reference_rotated", category |-> category]
  OBVIOUS
<1>3. new.policy \in ExecutionPolicies \cup {Null} /\ new.configuration \in 1..MaxRevision
      /\ settings.configuration <= new.configuration /\ new.configuration \in Nat
  BY <1>1, MigrationRows DEF ConnectorGuard
<1>4. row \in AuditRows /\ row.policy = new.policy /\ row.category = category
  BY <1>1, <1>2, <1>3 DEF AuditRows, CategoryVocabulary
<1>5. /\ history' \in Seq(AuditRows) /\ Len(history') = Len(history) + 1
      /\ DOMAIN history' = 1..(Len(history) + 1)
      /\ \A n \in DOMAIN history : history'[n] = history[n] /\ n \in DOMAIN history'
      /\ history'[Len(history) + 1] = row
  BY <1>1, <1>2, <1>4, MigrationRows, Extended
<1>6. MigrationsTypeOK'
  <2>1. new \in [configuration : 1..MaxRevision, ordering : BOOLEAN, credential : BOOLEAN,
                 policy : ExecutionPolicies \cup {Null}]
    BY <1>1, <1>3
  <2> QED BY <1>1, <1>5, <2>1 DEF MigrationsInv, MigrationsTypeOK
<1>7. HistoryHolds'
  <2>1. Len(history') > 0 /\ settings'.policy = history'[Len(history')].policy
    BY <1>1, <1>4, <1>5, MigrationRows
  <2>2. ASSUME NEW n \in DOMAIN history'
        PROVE  /\ history'[n].category \in CategoryVocabulary(schema')
               /\ history'[n].category = "execution_policy_changed" =>
                    \E m \in DOMAIN history' : history'[m].policy # Null
    <3>1. CASE n \in DOMAIN history
      <4>1. history'[n] = history[n]
        BY <1>5, <3>1
      <4>2. /\ history[n].category \in CategoryVocabulary(schema)
            /\ history[n].category = "execution_policy_changed" =>
                 \E m \in DOMAIN history : history[m].policy # Null
        BY <3>1 DEF MigrationsInv, HistoryHolds
      <4> QED BY <1>1, <1>5, <4>1, <4>2
    <3>2. CASE n \notin DOMAIN history
      <4>1. n = Len(history) + 1 /\ history'[n] = row
        BY <1>5, <3>2, MigrationRows
      <4>2. category \in CategoryVocabulary(schema')
        BY <1>1
      <4>3. ASSUME category = "execution_policy_changed"
            PROVE  \E m \in DOMAIN history' : history'[m].policy # Null
        <5>1. new.policy # settings.policy
          BY <1>1, <4>3, MigrationRows DEF CategoryVocabulary, PolicyCategory
        <5>2. settings.policy = history[Len(history)].policy /\ Len(history) \in DOMAIN history
          BY MigrationRows DEF MigrationsInv, HistoryHolds
        <5>3. history'[Len(history)].policy = settings.policy /\ Len(history) \in DOMAIN history'
          BY <1>5, <5>2
        <5> QED BY <1>4, <4>1, <5>1, <5>3
      <4> QED BY <1>4, <4>1, <4>2, <4>3
    <3> QED BY <3>1, <3>2
  <2> QED BY <2>1, <2>2 DEF HistoryHolds
<1>8. \A n \in Tried' : TryHolds(tries[n])'
  BY <1>1 DEF MigrationsInv, Tried, TryHolds, TryConstraints, PolicyPins
<1>9. \A i \in Present' : IntentHolds(outbox[i])'
  <2> TAKE i \in Present'
  <2>1. i \in Present /\ outbox[i] \in IntentRows /\ IntentHolds(outbox[i])
    BY <1>1, MigrationRows DEF MigrationsInv, Present
  <2>2. outbox[i].pin \in Nat
    BY <2>1, MigrationRows DEF IntentRows
  <2> QED BY <1>1, <1>3, <2>1, <2>2, MigrationRows DEF IntentHolds, ScheduledWhileRetrying
<1> QED BY <1>6, <1>7, <1>8, <1>9 DEF MigrationsInv

LEMMA RecordCeilingsInv == ASSUME MigrationsInv, RecordCeilings PROVE MigrationsInv'
<1>1. /\ ceilings' = ceilings + 1 /\ ceilings < MaxCeilings
      /\ UNCHANGED <<schema, settings, history, outbox, tries>>
  BY DEF RecordCeilings
<1>2. MigrationsTypeOK'
  BY <1>1, MigrationRows DEF MigrationsInv, MigrationsTypeOK
<1>3. \A try : TryHolds(try) => TryHolds(try)'
  BY <1>1, MigrationRows DEF TryHolds, TryConstraints, PolicyPins
<1>4. \A n \in Tried' : TryHolds(tries[n])'
  BY <1>1, <1>3 DEF MigrationsInv, Tried
<1>5. HistoryHolds' /\ \A i \in Present' : IntentHolds(outbox[i])'
  BY <1>1 DEF MigrationsInv, HistoryHolds, Present, IntentHolds
<1> QED BY <1>2, <1>4, <1>5 DEF MigrationsInv

\* What changes in the outbox alone.
LEMMA OutboxChanges ==
  ASSUME MigrationsInv, NEW i \in Intents, NEW intent \in IntentRows, IntentHolds(intent),
         outbox' = [outbox EXCEPT ![i] = intent],
         UNCHANGED <<schema, settings, history, tries, ceilings>>
  PROVE  MigrationsInv'
<1>1. /\ outbox \in [Intents -> IntentRows \cup {Null}]
      /\ outbox' \in [Intents -> IntentRows \cup {Null}] /\ outbox'[i] = intent
      /\ \A j \in Intents \ {i} : outbox'[j] = outbox[j]
  BY DEF MigrationsInv, MigrationsTypeOK
<1>2. MigrationsTypeOK'
  BY <1>1 DEF MigrationsInv, MigrationsTypeOK
<1>3. HistoryHolds' /\ \A n \in Tried' : TryHolds(tries[n])'
  BY DEF MigrationsInv, HistoryHolds, Tried, TryHolds, TryConstraints, PolicyPins
<1>4. \A row : IntentHolds(row)' = IntentHolds(row)
  BY DEF IntentHolds
<1>5. \A j \in Present' : IntentHolds(outbox'[j])
  <2> TAKE j \in Present'
  <2>1. CASE j = i
    BY <1>1, <2>1
  <2>2. CASE j # i
    BY <1>1, <2>2 DEF Present, MigrationsInv
  <2> QED BY <2>1, <2>2
<1>6. \A j \in Present' : IntentHolds(outbox[j])'
  BY <1>5 DEF IntentHolds
<1> QED BY <1>2, <1>3, <1>6 DEF MigrationsInv

LEMMA EnqueueInv == ASSUME MigrationsInv, NEW i \in Intents, Enqueue(i) PROVE MigrationsInv'
<1>0. PICK revision \in {1, Null} : \E bare, intent :
        /\ bare = [pin |-> settings.configuration, revision |-> revision, ordered |-> Null,
                   due |-> Null, state |-> "pending"]
        /\ intent = IF schema < 55 THEN bare
                    ELSE [bare EXCEPT !.ordered = DerivedOrdering(bare, history)]
        /\ outbox' = [outbox EXCEPT ![i] = intent]
        /\ UNCHANGED <<schema, settings, history, tries, ceilings>>
  BY DEF Enqueue
<1>1. PICK bare, intent :
        /\ bare = [pin |-> settings.configuration, revision |-> revision, ordered |-> Null,
                   due |-> Null, state |-> "pending"]
        /\ intent = IF schema < 55 THEN bare
                    ELSE [bare EXCEPT !.ordered = DerivedOrdering(bare, history)]
        /\ outbox' = [outbox EXCEPT ![i] = intent]
        /\ UNCHANGED <<schema, settings, history, tries, ceilings>>
  BY <1>0
<1>2. PICK derived : derived = DerivedOrdering(bare, history)
  OBVIOUS
<1>3. derived \in BOOLEAN
  BY <1>2 DEF DerivedOrdering, PinnedOrdering
<1>4. /\ intent \in IntentRows /\ intent.pin = settings.configuration /\ intent.due = Null
      /\ schema < 55 => intent.ordered = Null
  BY <1>1, <1>2, <1>3, MigrationRows DEF IntentRows, States
<1>5. IntentHolds(intent)
  BY <1>4, MigrationRows DEF IntentHolds, ScheduledWhileRetrying
<1> QED BY <1>1, <1>4, <1>5, OutboxChanges

LEMMA TransitionInv == ASSUME MigrationsInv, NEW i \in Intents, Transition(i) PROVE MigrationsInv'
<1>1. PICK to, due, moved :
        /\ to \in States /\ due \in (IF schema >= 55 THEN {Null, "due"} ELSE {Null})
        /\ moved = [outbox[i] EXCEPT !.state = to, !.due = due]
        /\ outbox[i] # Null /\ ScheduledWhileRetrying(moved)
        /\ outbox' = [outbox EXCEPT ![i] = moved]
        /\ UNCHANGED <<schema, settings, history, tries, ceilings>>
  BY DEF Transition
<1>2. outbox[i] \in IntentRows /\ IntentHolds(outbox[i]) /\ due \in {Null, "due"}
      /\ (schema < 55 => due = Null)
  BY <1>1, MigrationRows DEF MigrationsInv, Present
<1>3. /\ moved \in IntentRows /\ moved.pin = outbox[i].pin /\ moved.ordered = outbox[i].ordered
      /\ moved.due = due
  BY <1>1, <1>2 DEF IntentRows
<1>4. IntentHolds(moved)
  BY <1>1, <1>2, <1>3 DEF IntentHolds
<1> QED BY <1>1, <1>3, <1>4, OutboxChanges

LEMMA OpenTryInv == ASSUME MigrationsInv, NEW i \in Intents, OpenTry(i) PROVE MigrationsInv'
<1>0. PICK lease \in {Null, "set"}, claimPolicy \in 1..ceilings \cup {Null} : \E try :
        /\ try = [NewTry(i) EXCEPT !.lease = lease, !.claimPolicy = claimPolicy]
        /\ NoSuchColumns(schema, try) /\ TryConstraints(schema, try)
        /\ tries' = Append(tries, try)
        /\ UNCHANGED <<schema, settings, history, outbox, ceilings>>
  BY DEF OpenTry
<1>1. PICK try :
        /\ try = [NewTry(i) EXCEPT !.lease = lease, !.claimPolicy = claimPolicy]
        /\ NoSuchColumns(schema, try) /\ TryConstraints(schema, try)
        /\ tries' = Append(tries, try)
        /\ UNCHANGED <<schema, settings, history, outbox, ceilings>>
  BY <1>0
<1>2. claimPolicy \in 1..MaxCeilings \cup {Null}
  BY <1>1, MigrationRows
<1>3. /\ try \in TryRows
      /\ try.category = Null /\ try.reason = Null /\ try.settlementPolicy = Null /\ try.retryAfter = Null
  <2>1. try = [of |-> i, outcome |-> Null, category |-> Null, reason |-> Null, lease |-> lease,
               dispatched |-> Null, claimPolicy |-> claimPolicy, settlementPolicy |-> Null,
               retryAfter |-> Null]
    BY <1>1 DEF NewTry
  <2> QED BY <1>2, <2>1 DEF TryRows
<1>4. /\ tries' \in Seq(TryRows) /\ DOMAIN tries' = 1..(Len(tries) + 1)
      /\ \A n \in Tried : tries'[n] = tries[n]
      /\ tries'[Len(tries) + 1] = try
  BY <1>1, <1>3, MigrationRows, Extended DEF Tried
<1>5. MigrationsTypeOK'
  BY <1>1, <1>4 DEF MigrationsInv, MigrationsTypeOK
<1>6. HistoryHolds' /\ \A j \in Present' : IntentHolds(outbox[j])'
  BY <1>1 DEF MigrationsInv, HistoryHolds, Present, IntentHolds
<1>7. \A n \in Tried' : TryHolds(tries'[n])
  <2> TAKE n \in Tried'
  <2>1. CASE n \in Tried
    BY <1>4, <2>1 DEF MigrationsInv
  <2>2. CASE n \notin Tried
    <3>1. tries'[n] = try
      BY <1>4, <2>2, MigrationRows DEF Tried
    <3> QED BY <1>1, <1>3, <3>1 DEF TryHolds
  <2> QED BY <2>1, <2>2
<1>8. \A n \in Tried' : TryHolds(tries[n])'
  BY <1>1, <1>7 DEF TryHolds, TryConstraints, PolicyPins
<1> QED BY <1>5, <1>6, <1>8 DEF MigrationsInv

\* A settlement brings what it says, and nothing else is said before it.
LEMMA WriteTryInv == ASSUME MigrationsInv, NEW n \in Tried, WriteTry(n) PROVE MigrationsInv'
<1>1. PICK new \in TryRows :
        /\ TryGuard(tries[n], new) /\ NoSuchColumns(schema, new) /\ TryConstraints(schema, new)
        /\ tries' = [tries EXCEPT ![n] = new]
        /\ UNCHANGED <<schema, settings, history, outbox, ceilings>>
  BY DEF WriteTry
<1>2. /\ tries' \in Seq(TryRows) /\ Tried' = Tried /\ tries'[n] = new
      /\ \A m \in Tried \ {n} : tries'[m] = tries[m]
  BY <1>1, MigrationRows, Substituted DEF Tried
<1>3. ASSUME ~Settled(new)
      PROVE  /\ new.category = Null /\ new.reason = Null
             /\ new.settlementPolicy = Null /\ new.retryAfter = Null
  <2>1. schema >= 54 /\ new.reason = Null /\ new.category = Null
    BY <1>1, <1>3, MigrationRows DEF TryGuard, BoundaryGuard
  <2>2. new.settlementPolicy = Null
    <3>1. CASE schema < 57
      <4>1. {new.claimPolicy, new.settlementPolicy} = {Null}
        BY <1>1, <3>1 DEF NoSuchColumns
      <4> QED BY <4>1
    <3>2. CASE schema >= 57
      BY <1>1, <1>3, <3>2 DEF TryConstraints, PolicyPins
    <3> QED BY <3>1, <3>2, MigrationRows
  <2>3. new.retryAfter = Null
    BY <1>1, <1>3, MigrationRows DEF NoSuchColumns, TryConstraints, RetryAfterShape
  <2> QED BY <2>1, <2>2, <2>3
<1>4. MigrationsTypeOK'
  BY <1>1, <1>2 DEF MigrationsInv, MigrationsTypeOK
<1>5. HistoryHolds' /\ \A j \in Present' : IntentHolds(outbox[j])'
  BY <1>1 DEF MigrationsInv, HistoryHolds, Present, IntentHolds
<1>6. TryHolds(new)
  BY <1>1, <1>3 DEF TryHolds
<1>7. \A m \in Tried' : TryHolds(tries'[m])
  BY <1>2, <1>6 DEF MigrationsInv
<1>8. \A m \in Tried' : TryHolds(tries[m])'
  BY <1>1, <1>7 DEF TryHolds, TryConstraints, PolicyPins
<1> QED BY <1>4, <1>5, <1>8 DEF MigrationsInv

LEMMA OrderedHolds ==
  ASSUME MigrationsInv
  PROVE  /\ Ordered \in [Intents -> IntentRows \cup {Null}]
         /\ \A i \in Intents : Ordered[i] # Null =>
              /\ i \in Present /\ Ordered[i].pin = outbox[i].pin /\ Ordered[i].due = outbox[i].due
              /\ Ordered[i].state = outbox[i].state
              /\ Ordered[i].ordered = PinnedOrdering(outbox[i], history)
         /\ \A i \in Present : Ordered[i] = [outbox[i] EXCEPT !.ordered = PinnedOrdering(outbox[i], history)]
<1>1. ASSUME NEW i \in Present
      PROVE  /\ Ordered[i] = [outbox[i] EXCEPT !.ordered = PinnedOrdering(outbox[i], history)]
             /\ Ordered[i] \in IntentRows
             /\ Ordered[i].pin = outbox[i].pin /\ Ordered[i].due = outbox[i].due
             /\ Ordered[i].state = outbox[i].state
             /\ Ordered[i].ordered = PinnedOrdering(outbox[i], history)
  <2>1. outbox[i] \in IntentRows /\ i \in Intents /\ outbox[i] # Null
    BY MigrationRows DEF Present
  <2>2. PICK promised : promised = PinnedOrdering(outbox[i], history)
    OBVIOUS
  <2>3. promised \in BOOLEAN
    BY <2>2 DEF PinnedOrdering
  <2>4. Ordered[i] = [outbox[i] EXCEPT !.ordered = promised]
    BY <2>1, <2>2 DEF Ordered, DerivedOrdering
  <2>5. [outbox[i] EXCEPT !.ordered = promised] \in IntentRows
    BY <2>1, <2>3 DEF IntentRows
  <2> QED BY <2>1, <2>2, <2>4, <2>5 DEF IntentRows
<1>2. \A i \in Intents \ Present : Ordered[i] = Null
  BY DEF Ordered, Present
<1>3. Ordered = [i \in Intents |-> Ordered[i]]
  BY DEF Ordered
<1>4. Ordered \in [Intents -> IntentRows \cup {Null}]
  BY <1>1, <1>2, <1>3
<1> QED BY <1>1, <1>2, <1>4

LEMMA UpInv == ASSUME MigrationsInv, Up PROVE MigrationsInv'
<1>1. /\ schema < 58 /\ schema' = schema + 1 /\ RowsFit(schema + 1)
      /\ IF schema + 1 = 55 THEN OrderingUp ELSE UNCHANGED outbox
      /\ UNCHANGED <<settings, history, tries, ceilings>>
  BY DEF Up
<1>2. schema \in 51..57 /\ schema' \in 52..58
  BY <1>1, MigrationRows
<1>3. MigrationsTypeOK'
  <2>1. outbox' \in [Intents -> IntentRows \cup {Null}]
    <3>1. CASE schema + 1 = 55
      BY <1>1, <3>1, OrderedHolds DEF OrderingUp
    <3>2. CASE schema + 1 # 55
      BY <1>1, <3>2 DEF MigrationsInv, MigrationsTypeOK
    <3> QED BY <3>1, <3>2
  <2> QED BY <1>1, <1>2, <2>1 DEF MigrationsInv, MigrationsTypeOK
<1>4. HistoryHolds'
  BY <1>1 DEF RowsFit, MigrationsInv, HistoryHolds
<1>5. \A n \in Tried' : TryHolds(tries[n])'
  <2> TAKE n \in Tried'
  <2>1. n \in Tried /\ tries' = tries /\ TryHolds(tries[n])
    BY <1>1 DEF Tried, MigrationsInv
  <2>2. TryConstraints(schema, tries[n])'
    BY <1>1, <2>1 DEF RowsFit, TryConstraints, PolicyPins
  <2>3. NoSuchColumns(schema, tries[n])'
    BY <1>2, <1>1, <2>1 DEF NoSuchColumns, TryHolds
  <2> QED BY <1>1, <2>1, <2>2, <2>3 DEF TryHolds
<1>6. \A i \in Present' : IntentHolds(outbox[i])'
  <2> TAKE i \in Present'
  <2>1. CASE schema + 1 = 55
    <3>1. outbox' = Ordered /\ i \in Intents /\ Ordered[i] # Null
      BY <1>1, <2>1 DEF OrderingUp, Present
    <3>2. i \in Present /\ Ordered[i].pin = outbox[i].pin /\ Ordered[i].due = outbox[i].due
          /\ Ordered[i].state = outbox[i].state /\ IntentHolds(outbox[i])
      BY <3>1, OrderedHolds DEF MigrationsInv
    <3> QED BY <1>1, <2>1, <3>1, <3>2 DEF IntentHolds, ScheduledWhileRetrying
  <2>2. CASE schema + 1 # 55
    <3>1. i \in Present /\ outbox' = outbox /\ IntentHolds(outbox[i])
      BY <1>1, <2>2 DEF Present, MigrationsInv
    <3> QED BY <1>1, <1>2, <3>1 DEF IntentHolds, ScheduledWhileRetrying
  <2> QED BY <2>1, <2>2
<1> QED BY <1>3, <1>4, <1>5, <1>6 DEF MigrationsInv

DroppedColumns == {{"retryAfter"}, {"claimPolicy", "settlementPolicy"}, {"lease", "dispatched", "reason"}}
TryColumns == {"of", "outcome", "category", "reason", "lease", "dispatched", "claimPolicy",
               "settlementPolicy", "retryAfter"}

\* A rollback that drops columns keeps the others.
LEMMA WithoutColumn ==
  ASSUME MigrationsInv, NEW columns \in DroppedColumns, NEW n \in Tried, NEW try, try = Without(columns)[n]
  PROVE  /\ try \in TryRows
         /\ try.of = tries[n].of /\ try.outcome = tries[n].outcome /\ try.category = tries[n].category
         /\ try.reason = IF "reason" \in columns THEN Null ELSE tries[n].reason
         /\ try.lease = IF "reason" \in columns THEN Null ELSE tries[n].lease
         /\ try.dispatched = IF "reason" \in columns THEN Null ELSE tries[n].dispatched
         /\ try.claimPolicy = IF "claimPolicy" \in columns THEN Null ELSE tries[n].claimPolicy
         /\ try.settlementPolicy = IF "claimPolicy" \in columns THEN Null ELSE tries[n].settlementPolicy
         /\ try.retryAfter = IF "retryAfter" \in columns THEN Null ELSE tries[n].retryAfter
<1>1. tries[n] \in TryRows
  BY MigrationRows
<1>2. DOMAIN tries[n] = TryColumns
  BY <1>1 DEF TryRows, TryColumns
<1>3. try = [column \in TryColumns |-> IF column \in columns THEN Null ELSE tries[n][column]]
  BY <1>2 DEF Without
<1>4. /\ try.of = tries[n].of /\ try.outcome = tries[n].outcome /\ try.category = tries[n].category
      /\ try.reason = IF "reason" \in columns THEN Null ELSE tries[n].reason
      /\ try.lease = IF "reason" \in columns THEN Null ELSE tries[n].lease
      /\ try.dispatched = IF "reason" \in columns THEN Null ELSE tries[n].dispatched
      /\ try.claimPolicy = IF "claimPolicy" \in columns THEN Null ELSE tries[n].claimPolicy
      /\ try.settlementPolicy = IF "claimPolicy" \in columns THEN Null ELSE tries[n].settlementPolicy
      /\ try.retryAfter = IF "retryAfter" \in columns THEN Null ELSE tries[n].retryAfter
  BY <1>3 DEF DroppedColumns, TryColumns
<1>5. try \in TryRows
  BY <1>1, <1>3, <1>4 DEF TryRows, TryColumns
<1> QED BY <1>4, <1>5

\* The rows after a rollback are the rows before it but for the columns that
\* are gone.
LEMMA DownTries ==
  ASSUME MigrationsInv, Down
  PROVE  \/ schema = 52 /\ tries' = <<>>
         \/ schema \notin {52, 54, 57, 58} /\ tries' = tries
         \/ \E columns \in DroppedColumns :
              /\ tries' = Without(columns)
              /\ schema = 58 => columns = {"retryAfter"}
              /\ schema = 57 => columns = {"claimPolicy", "settlementPolicy"}
              /\ schema = 54 => columns = {"lease", "dispatched", "reason"}
              /\ schema \in {54, 57, 58}
<1>1. CASE RetryAfterDown
  BY <1>1 DEF RetryAfterDown, DroppedColumns
<1>2. CASE PolicyDown
  BY <1>2 DEF PolicyDown, DroppedColumns
<1>3. CASE LeaseDown
  BY <1>3 DEF LeaseDown, DroppedColumns
<1>4. CASE ClaimFunctionDown \/ OrderingDown \/ FunctionsDown \/ AttemptsDown
  <2>1. CASE AttemptsDown
    <3>1. schema = 52 /\ tries' = <<>>
      BY <2>1 DEF AttemptsDown
    <3> QED BY <3>1
  <2>2. CASE ClaimFunctionDown \/ OrderingDown \/ FunctionsDown
    <3>1. schema \in {53, 55, 56} /\ tries' = tries
      BY <2>2 DEF ClaimFunctionDown, OrderingDown, FunctionsDown
    <3> QED BY <3>1
  <2> QED BY <1>4, <2>1, <2>2
<1>5. \/ RetryAfterDown \/ PolicyDown \/ ClaimFunctionDown \/ OrderingDown
      \/ LeaseDown \/ FunctionsDown \/ AttemptsDown
  BY DEF Down
<1> QED BY <1>1, <1>2, <1>3, <1>4, <1>5

LEMMA DownOutbox ==
  ASSUME MigrationsInv, Down
  PROVE  /\ schema # 55 => outbox' = outbox
         /\ schema = 55 => outbox' = [i \in Intents |-> IF outbox[i] = Null THEN Null
                                        ELSE [outbox[i] EXCEPT !.ordered = Null, !.due = Null]]
<1>1. CASE OrderingDown
  <2>1. schema = 55
    BY <1>1 DEF OrderingDown
  <2>2. outbox' = [i \in Intents |-> IF outbox[i] = Null THEN Null
                                     ELSE [outbox[i] EXCEPT !.ordered = Null, !.due = Null]]
    BY <1>1 DEF OrderingDown
  <2> QED BY <2>1, <2>2
<1>2. ASSUME ~OrderingDown PROVE schema # 55 /\ outbox' = outbox
  <2>1. CASE RetryAfterDown \/ PolicyDown
    BY <2>1 DEF RetryAfterDown, PolicyDown
  <2>2. CASE ClaimFunctionDown \/ FunctionsDown
    BY <2>2 DEF ClaimFunctionDown, FunctionsDown
  <2>3. CASE LeaseDown \/ AttemptsDown
    BY <2>3 DEF LeaseDown, AttemptsDown
  <2> QED BY <1>2, <2>1, <2>2, <2>3 DEF Down
<1> QED BY <1>1, <1>2

LEMMA DownIntents ==
  ASSUME MigrationsInv, Down
  PROVE  /\ outbox' \in [Intents -> IntentRows \cup {Null}]
         /\ Present' = Present
         /\ \A i \in Present :
              /\ outbox'[i].pin = outbox[i].pin /\ outbox'[i].state = outbox[i].state
              /\ schema # 55 => outbox'[i] = outbox[i]
              /\ schema = 55 => outbox'[i].ordered = Null /\ outbox'[i].due = Null
<1>1. outbox \in [Intents -> IntentRows \cup {Null}]
  BY DEF MigrationsInv, MigrationsTypeOK
<1>2. CASE schema # 55
  BY <1>1, <1>2, DownOutbox DEF Present
<1>3. CASE schema = 55
  <2>1. ASSUME NEW i \in Present
        PROVE  /\ outbox'[i] \in IntentRows
               /\ outbox'[i].pin = outbox[i].pin /\ outbox'[i].state = outbox[i].state
               /\ outbox'[i].ordered = Null /\ outbox'[i].due = Null
    <3>1. outbox[i] \in IntentRows /\ i \in Intents /\ outbox[i] # Null
      BY MigrationRows DEF Present
    <3>2. PICK row : row = [outbox[i] EXCEPT !.ordered = Null, !.due = Null]
      OBVIOUS
    <3>3. outbox'[i] = row
      BY <1>3, <3>1, <3>2, DownOutbox
    <3>4. row \in IntentRows /\ row.pin = outbox[i].pin /\ row.state = outbox[i].state
          /\ row.ordered = Null /\ row.due = Null
      BY <3>1, <3>2 DEF IntentRows
    <3> QED BY <3>3, <3>4
  <2>2. \A i \in Intents \ Present : outbox'[i] = Null
    BY <1>3, DownOutbox DEF Present
  <2>3. outbox' = [i \in Intents |-> outbox'[i]]
    BY <1>3, DownOutbox
  <2>4. outbox' \in [Intents -> IntentRows \cup {Null}]
    BY <2>1, <2>2, <2>3
  <2>5. ASSUME NEW i \in Present PROVE outbox'[i] # Null
    <3>1. outbox[i] \in IntentRows /\ i \in Intents /\ outbox[i] # Null
      BY MigrationRows DEF Present
    <3>2. outbox'[i] \in IntentRows
      BY <2>1
    <3> QED BY <3>2, NoIntentIsNull
  <2>6. Present' = Present
    BY <2>2, <2>5 DEF Present
  <2> QED BY <1>3, <2>1, <2>4, <2>6
<1> QED BY <1>2, <1>3

LEMMA DownInv == ASSUME MigrationsInv, Down PROVE MigrationsInv'
<1>1. /\ ~Refused /\ RowsFit(schema - 1) /\ schema' = schema - 1
      /\ UNCHANGED <<settings, history, ceilings>>
  BY DEF Down
<1>2. schema \in 52..58 /\ schema' \in 51..57
  BY <1>1, MigrationRows, RefusedIs
<1>3. tries' \in Seq(TryRows) /\ \A n \in Tried' : TryHolds(tries[n])'
  <2>1. CASE tries' = <<>>
    BY <2>1 DEF Tried
  <2>2. CASE schema \notin {52, 54, 57, 58} /\ tries' = tries
    <3>1. ASSUME NEW n \in Tried PROVE TryHolds(tries[n])'
      <4>1. TryHolds(tries[n]) /\ TryConstraints(schema - 1, tries[n])
        BY <1>1, <3>1 DEF MigrationsInv, RowsFit
      <4>2. NoSuchColumns(schema - 1, tries[n])
        BY <1>2, <2>2, <4>1 DEF TryHolds, NoSuchColumns
      <4> QED BY <1>1, <2>2, <4>1, <4>2 DEF TryHolds, TryConstraints, PolicyPins
    <3> QED BY <2>2, <3>1, MigrationRows DEF Tried
  <2>3. CASE \E columns \in DroppedColumns :
              /\ tries' = Without(columns)
              /\ schema = 58 => columns = {"retryAfter"}
              /\ schema = 57 => columns = {"claimPolicy", "settlementPolicy"}
              /\ schema = 54 => columns = {"lease", "dispatched", "reason"}
              /\ schema \in {54, 57, 58}
    <3>1. PICK columns \in DroppedColumns :
              /\ tries' = Without(columns)
              /\ schema = 58 => columns = {"retryAfter"}
              /\ schema = 57 => columns = {"claimPolicy", "settlementPolicy"}
              /\ schema = 54 => columns = {"lease", "dispatched", "reason"}
              /\ schema \in {54, 57, 58}
      BY <2>3
    <3>2. Tried' = Tried
      BY <3>1 DEF Tried, Without
    <3>3. ASSUME NEW n \in Tried, NEW try, try = tries'[n] PROVE try \in TryRows /\ TryHolds(try)'
      <4>1. /\ try \in TryRows
            /\ try.of = tries[n].of /\ try.outcome = tries[n].outcome /\ try.category = tries[n].category
            /\ try.reason = IF "reason" \in columns THEN Null ELSE tries[n].reason
            /\ try.lease = IF "reason" \in columns THEN Null ELSE tries[n].lease
            /\ try.dispatched = IF "reason" \in columns THEN Null ELSE tries[n].dispatched
            /\ try.claimPolicy = IF "claimPolicy" \in columns THEN Null ELSE tries[n].claimPolicy
            /\ try.settlementPolicy = IF "claimPolicy" \in columns THEN Null ELSE tries[n].settlementPolicy
            /\ try.retryAfter = IF "retryAfter" \in columns THEN Null ELSE tries[n].retryAfter
        BY <3>1, <3>3, WithoutColumn
      <4>2. TryHolds(tries[n]) /\ TryConstraints(schema - 1, tries[n])
        BY <1>1, <3>3 DEF MigrationsInv, RowsFit
      <4>3. NoSuchColumns(schema - 1, try)
        <5>1. CASE schema = 58
          BY <3>1, <4>1, <4>2, <5>1 DEF TryHolds, NoSuchColumns
        <5>2. CASE schema = 57
          BY <3>1, <4>1, <4>2, <5>2 DEF TryHolds, NoSuchColumns
        <5>3. CASE schema = 54
          BY <3>1, <4>1, <4>2, <5>3 DEF TryHolds, NoSuchColumns
        <5> QED BY <3>1, <5>1, <5>2, <5>3
      <4>4. TryConstraints(schema - 1, try)
        <5>1. CASE schema = 58
          BY <3>1, <4>1, <4>2, <5>1 DEF TryConstraints, SettlementShape, Failed, Settled, SettlementMatrix, PolicyPins
        <5>2. CASE schema = 57
          BY <3>1, <4>1, <4>2, <5>2 DEF TryConstraints, SettlementShape, Failed, Settled, SettlementMatrix
        <5>3. CASE schema = 54
          BY <3>1, <4>1, <4>2, <5>3 DEF TryConstraints, SettlementShape, Failed, Settled, FailureNamesCategory
        <5> QED BY <3>1, <5>1, <5>2, <5>3
      <4>5. ~Settled(try) => /\ try.category = Null /\ try.reason = Null
                             /\ try.settlementPolicy = Null /\ try.retryAfter = Null
        BY <4>1, <4>2 DEF TryHolds, Settled
      <4> QED BY <1>1, <4>1, <4>3, <4>4, <4>5 DEF TryHolds, TryConstraints, PolicyPins
    <3>4. tries' \in Seq(TryRows)
      <4>1. tries' = [n \in 1..Len(tries) |-> tries'[n]]
        BY <3>1, MigrationRows DEF Without, Tried
      <4>2. \A n \in 1..Len(tries) : tries'[n] \in TryRows
        BY <3>3, MigrationRows DEF Tried
      <4> QED BY <4>1, <4>2, MigrationRows
    <3> QED BY <3>2, <3>3, <3>4
  <2> QED BY <2>1, <2>2, <2>3, DownTries
<1>4. MigrationsTypeOK'
  BY <1>1, <1>2, <1>3, DownIntents DEF MigrationsInv, MigrationsTypeOK
<1>5. HistoryHolds'
  BY <1>1 DEF RowsFit, MigrationsInv, HistoryHolds
<1>6. \A i \in Present' : IntentHolds(outbox[i])'
  <2> TAKE i \in Present'
  <2>1. i \in Present /\ IntentHolds(outbox[i])
    BY DownIntents DEF MigrationsInv
  <2>2. CASE schema = 55
    BY <1>1, <2>1, <2>2, DownIntents DEF IntentHolds, ScheduledWhileRetrying
  <2>3. CASE schema # 55
    BY <1>1, <1>2, <2>1, <2>3, DownIntents DEF IntentHolds, ScheduledWhileRetrying
  <2> QED BY <2>2, <2>3
<1> QED BY <1>3, <1>4, <1>5, <1>6 DEF MigrationsInv

LEMMA MigrationsStepInv == MigrationsInv /\ [MigrationsNext]_migrationVars => MigrationsInv'
<1> SUFFICES ASSUME MigrationsInv, [MigrationsNext]_migrationVars PROVE MigrationsInv'
  OBVIOUS
<1>1. CASE UNCHANGED migrationVars
  BY <1>1 DEF migrationVars, MigrationsInv, MigrationsTypeOK, HistoryHolds, Tried, TryHolds, TryConstraints,
     PolicyPins, Present, IntentHolds
<1>2. CASE ChangeConnector
  BY <1>2, ChangeConnectorInv
<1>3. CASE RecordCeilings
  BY <1>3, RecordCeilingsInv
<1>4. CASE Up
  BY <1>4, UpInv
<1>5. CASE Down
  BY <1>5, DownInv
<1>6. CASE \E i \in Intents : Enqueue(i) \/ Transition(i) \/ OpenTry(i)
  BY <1>6, EnqueueInv, TransitionInv, OpenTryInv
<1>7. CASE \E n \in Tried : WriteTry(n)
  BY <1>7, WriteTryInv
<1> QED BY <1>1, <1>2, <1>3, <1>4, <1>5, <1>6, <1>7 DEF MigrationsNext

\* No rows that the tables accept keep migrations 57 and 58 from being applied,
\* or a rollback that nothing refuses from being done.
THEOREM MigrationsMeetTheirRows == MigrationsSpec => []RowsNeverBlockMigration
<1>1. MigrationsInit => MigrationsInv
  BY MigrationsInitInv
<1>2. MigrationsInv /\ [MigrationsNext]_migrationVars => MigrationsInv'
  BY MigrationsStepInv
<1>3. MigrationsInv => RowsNeverBlockMigration
  BY InvFitsMigrations
<1> QED BY <1>1, <1>2, <1>3, PTL DEF MigrationsSpec

\* What a settled or an earlier write says of an attempt stays, column by
\* column, and so does every row of the audit.
SaidStays ==
  /\ \A n \in Tried :
       /\ n \in Tried'
       /\ \A column \in DOMAIN tries[n] :
            tries[n][column] # Null => tries'[n][column] = tries[n][column]
  /\ \A n \in DOMAIN history : n \in DOMAIN history' /\ history'[n] = history[n]
  /\ ceilings' >= ceilings

IntentsStay ==
  \A i \in Present :
    /\ i \in Present'
    /\ Promised(outbox'[i], history') = Promised(outbox[i], history)
    /\ outbox[i].due # Null /\ outbox'[i].state = "retrying" => outbox'[i].due # Null

LEMMA NothingStays ==
  /\ MigrationsInv /\ UNCHANGED <<history, tries, ceilings>> => SaidStays
  /\ MigrationsInv /\ UNCHANGED <<history, outbox>> => IntentsStay
<1>1. MigrationsInv /\ UNCHANGED <<history, tries, ceilings>> => SaidStays
  BY MigrationRows DEF SaidStays, Tried
<1>2. MigrationsInv /\ UNCHANGED <<history, outbox>> => IntentsStay
  BY DEF IntentsStay, Present
<1> QED BY <1>1, <1>2

LEMMA ChangeConnectorKeeps ==
  ASSUME MigrationsInv, ChangeConnector
  PROVE  SaidStays /\ IntentsStay
<1>1. PICK new \in [configuration : 1..MaxRevision, ordering : BOOLEAN, credential : BOOLEAN,
                    policy : IF schema >= 57 THEN ExecutionPolicies \cup {Null} ELSE {Null}],
           category \in CategoryVocabulary(schema) \ {"registered"} :
        /\ ConnectorGuard(settings, new) /\ AuditGuard(settings, new, category)
        /\ history' = Append(history,
             [configuration |-> new.configuration, ordering |-> new.ordering, policy |-> new.policy,
              advanced |-> category # "credential_reference_rotated", category |-> category])
        /\ UNCHANGED <<schema, outbox, tries, ceilings>>
  BY DEF ChangeConnector
<1>2. PICK row : row = [configuration |-> new.configuration, ordering |-> new.ordering,
                        policy |-> new.policy,
                        advanced |-> category # "credential_reference_rotated", category |-> category]
  OBVIOUS
<1>3. new.policy \in ExecutionPolicies \cup {Null} /\ new.configuration \in 1..MaxRevision
  BY <1>1
<1>4. row \in AuditRows /\ row.configuration = new.configuration
      /\ row.advanced = (category # "credential_reference_rotated")
  BY <1>1, <1>2, <1>3 DEF AuditRows, CategoryVocabulary
<1>5. /\ DOMAIN history' = 1..(Len(history) + 1) /\ DOMAIN history = 1..Len(history) /\ Len(history) \in Nat
      /\ \A n \in DOMAIN history : n \in DOMAIN history' /\ history'[n] = history[n]
      /\ history'[Len(history) + 1] = row
  BY <1>1, <1>2, <1>4, MigrationRows, Extended
<1>6. SaidStays
  BY <1>1, <1>5, MigrationRows DEF SaidStays, Tried
<1>7. ~row.advanced \/ row.configuration = settings.configuration + 1
  <2>1. CASE category = "credential_reference_rotated"
    BY <1>4, <2>1
  <2>2. CASE category # "credential_reference_rotated"
    <3>1. new.configuration # settings.configuration
      BY <1>1, <2>2 DEF AuditGuard
    <3>2. new.configuration = settings.configuration \/ new.configuration = settings.configuration + 1
      BY <1>1, MigrationRows DEF ConnectorGuard
    <3> QED BY <1>4, <3>1, <3>2
  <2> QED BY <2>1, <2>2
<1>8. ASSUME NEW i \in Present
      PROVE  PinnedOrdering(outbox[i], history') = PinnedOrdering(outbox[i], history)
  <2>1. outbox[i].pin <= settings.configuration /\ outbox[i].pin \in Nat
    BY MigrationRows DEF MigrationsInv, IntentHolds, IntentRows
  <2>2. ~(row.advanced /\ row.configuration = outbox[i].pin)
    BY <1>7, <2>1, MigrationRows
  <2>3. {n \in DOMAIN history' : history'[n].advanced /\ history'[n].configuration = outbox[i].pin} =
        {n \in DOMAIN history : history[n].advanced /\ history[n].configuration = outbox[i].pin}
    BY <1>5, <2>2
  <2> QED BY <1>5, <2>3 DEF PinnedOrdering
<1>9. IntentsStay
  BY <1>1, <1>8 DEF IntentsStay, Present, Promised
<1> QED BY <1>6, <1>9

LEMMA OutboxMovesKeep ==
  ASSUME MigrationsInv, NEW i \in Intents, Enqueue(i) \/ Transition(i)
  PROVE  SaidStays /\ IntentsStay
<1>1. outbox \in [Intents -> IntentRows \cup {Null}]
  BY DEF MigrationsInv, MigrationsTypeOK
<1>2. UNCHANGED <<history, tries, ceilings>>
  BY DEF Enqueue, Transition
<1>3. SaidStays
  BY <1>2, NothingStays
<1>4. CASE Enqueue(i)
  <2>1. \A j \in Present : outbox'[j] = outbox[j] /\ j # i /\ j \in Intents
    BY <1>1, <1>4 DEF Enqueue, Present
  <2>2. \A j \in Present : j \in Present'
    BY <2>1 DEF Present
  <2> QED BY <1>2, <1>3, <2>1, <2>2 DEF IntentsStay
<1>5. CASE Transition(i)
  <2>1. PICK to, due, moved :
          /\ to \in States /\ due \in (IF schema >= 55 THEN {Null, "due"} ELSE {Null})
          /\ moved = [outbox[i] EXCEPT !.state = to, !.due = due]
          /\ outbox[i] # Null /\ <<outbox[i].state, to>> \in Edges
          /\ outbox' = [outbox EXCEPT ![i] = moved]
    BY <1>5 DEF Transition
  <2>2. outbox[i] \in IntentRows /\ IntentHolds(outbox[i])
    BY <2>1, MigrationRows DEF Present, MigrationsInv
  <2>3. due \in {Null, "due"}
    BY <2>1
  <2>4. /\ moved \in IntentRows /\ moved.pin = outbox[i].pin /\ moved.ordered = outbox[i].ordered
        /\ moved.state = to
    BY <2>1, <2>2, <2>3 DEF IntentRows
  <2>5. outbox[i].due # Null => to # "retrying"
    BY <2>1, <2>2 DEF IntentHolds, ScheduledWhileRetrying, Edges
  <2>6. Promised(moved, history) = Promised(outbox[i], history)
    BY <2>4 DEF Promised, PinnedOrdering
  <2>7. /\ outbox'[i] = moved /\ moved # Null
        /\ \A j \in Present \ {i} : j \in Intents /\ outbox'[j] = outbox[j]
    BY <1>1, <2>1, <2>4, NoIntentIsNull DEF Present
  <2>8. \A j \in Present : j \in Present'
    BY <2>7 DEF Present
  <2> SUFFICES ASSUME NEW j \in Present
               PROVE  /\ Promised(outbox'[j], history') = Promised(outbox[j], history)
                      /\ outbox[j].due # Null /\ outbox'[j].state = "retrying" => outbox'[j].due # Null
    BY <1>3, <2>8 DEF IntentsStay
  <2>9. CASE j = i
    BY <1>2, <2>4, <2>5, <2>6, <2>7, <2>9
  <2>10. CASE j # i
    BY <1>2, <2>7, <2>10
  <2> QED BY <2>9, <2>10
<1> QED BY <1>3, <1>4, <1>5

LEMMA OpenTryKeeps ==
  ASSUME MigrationsInv, NEW i \in Intents, OpenTry(i)
  PROVE  SaidStays /\ IntentsStay
<1>1. PICK try : tries' = Append(tries, try) /\ UNCHANGED <<schema, settings, history, outbox, ceilings>>
  BY DEF OpenTry
<1>2. DOMAIN tries' = 1..(Len(tries) + 1) /\ \A n \in 1..Len(tries) : tries'[n] = tries[n]
  BY <1>1, MigrationRows
<1>3. SaidStays
  BY <1>1, <1>2, MigrationRows DEF SaidStays, Tried
<1> QED BY <1>1, <1>3, NothingStays

\* An attempt says nothing before its settlement but what its claim and its
\* dispatch said, and the guards keep those.
LEMMA WriteTryKeeps ==
  ASSUME MigrationsInv, NEW n \in Tried, WriteTry(n)
  PROVE  SaidStays /\ IntentsStay
<1>1. PICK new \in TryRows :
        /\ ~Settled(tries[n])
        /\ TryGuard(tries[n], new)
        /\ tries' = [tries EXCEPT ![n] = new]
        /\ UNCHANGED <<schema, settings, history, outbox, ceilings>>
  BY DEF WriteTry
<1>2. /\ Tried' = Tried /\ tries'[n] = new /\ \A m \in Tried \ {n} : tries'[m] = tries[m]
  BY <1>1, MigrationRows, Substituted DEF Tried
<1>3. /\ tries[n] \in TryRows /\ NoSuchColumns(schema, tries[n]) /\ TryHolds(tries[n])
      /\ tries[n].outcome = Null /\ tries[n].category = Null /\ tries[n].reason = Null
      /\ tries[n].settlementPolicy = Null /\ tries[n].retryAfter = Null
  BY <1>1 DEF MigrationsInv, TryHolds, Settled
<1>4. new.of = tries[n].of
  BY <1>1 DEF TryGuard
<1>5. /\ tries[n].lease # Null => new.lease = tries[n].lease
      /\ tries[n].dispatched # Null => new.dispatched = tries[n].dispatched
  <2>1. CASE schema >= 54
    BY <1>1, <2>1 DEF TryGuard, BoundaryGuard
  <2>2. CASE schema < 54
    <3>1. {tries[n].lease, tries[n].dispatched, tries[n].reason} = {Null}
      BY <1>3, <2>2 DEF NoSuchColumns
    <3> QED BY <3>1
  <2> QED BY <2>1, <2>2, MigrationRows
<1>6. tries[n].claimPolicy # Null => new.claimPolicy = tries[n].claimPolicy
  <2>1. CASE schema >= 57
    BY <1>1, <2>1 DEF TryGuard, PinGuard
  <2>2. CASE schema < 57
    <3>1. {tries[n].claimPolicy, tries[n].settlementPolicy} = {Null}
      BY <1>3, <2>2 DEF NoSuchColumns
    <3> QED BY <3>1
  <2> QED BY <2>1, <2>2, MigrationRows
<1>7. DOMAIN tries[n] = TryColumns
  BY <1>3 DEF TryRows, TryColumns
<1>8. \A column \in DOMAIN tries[n] : tries[n][column] # Null => new[column] = tries[n][column]
  BY <1>3, <1>4, <1>5, <1>6, <1>7 DEF TryColumns
<1>9. SaidStays
  <2>1. \A m \in Tried :
          /\ m \in Tried'
          /\ \A column \in DOMAIN tries[m] :
               tries[m][column] # Null => tries'[m][column] = tries[m][column]
    <3> TAKE m \in Tried
    <3>1. CASE m = n
      BY <1>2, <1>8, <3>1
    <3>2. CASE m # n
      BY <1>2, <3>2
    <3> QED BY <3>1, <3>2
  <2> QED BY <1>1, <2>1, MigrationRows DEF SaidStays
<1> QED BY <1>1, <1>9, NothingStays

LEMMA UpKeeps == ASSUME MigrationsInv, Up PROVE SaidStays /\ IntentsStay
<1>1. /\ IF schema + 1 = 55 THEN OrderingUp ELSE UNCHANGED outbox
      /\ UNCHANGED <<settings, history, tries, ceilings>>
  BY DEF Up
<1>2. CASE schema + 1 # 55
  BY <1>1, <1>2, NothingStays
<1>3. CASE schema + 1 = 55
  <2>1. outbox' = Ordered /\ schema < 55
    BY <1>1, <1>3, MigrationRows DEF OrderingUp
  <2>2. ASSUME NEW i \in Present
        PROVE  /\ i \in Present'
               /\ Promised(outbox'[i], history') = Promised(outbox[i], history)
               /\ outbox[i].due # Null /\ outbox'[i].state = "retrying" => outbox'[i].due # Null
    <3>1. /\ outbox[i] \in IntentRows /\ i \in Intents /\ IntentHolds(outbox[i])
          /\ outbox[i].ordered = Null /\ outbox[i].due = Null
      BY <2>1, MigrationRows DEF MigrationsInv, IntentHolds
    <3>2. PICK promised : promised = PinnedOrdering(outbox[i], history)
      OBVIOUS
    <3>3. promised \in BOOLEAN /\ promised # Null
      BY <3>2, IntegrationMigrationsAssumption DEF PinnedOrdering
    <3>4. Ordered[i] = [outbox[i] EXCEPT !.ordered = promised]
      BY <3>2, OrderedHolds
    <3>5. Ordered[i] \in IntentRows /\ Ordered[i].ordered = promised
      BY <3>1, <3>3, <3>4 DEF IntentRows
    <3> QED BY <1>1, <2>1, <3>1, <3>2, <3>3, <3>5, NoIntentIsNull DEF Present, Promised
  <2> QED BY <1>1, <2>2, NothingStays DEF IntentsStay
<1> QED BY <1>2, <1>3

LEMMA DownKeeps == ASSUME MigrationsInv, Down PROVE SaidStays /\ IntentsStay
<1>1. /\ ~Refused /\ UNCHANGED <<settings, history, ceilings>>
  BY DEF Down
<1>2. SaidStays
  <2>1. \A n \in Tried :
          /\ n \in Tried'
          /\ \A column \in DOMAIN tries[n] :
               tries[n][column] # Null => tries'[n][column] = tries[n][column]
    <3>1. CASE schema \notin {52, 54, 57, 58} /\ tries' = tries
      BY <3>1 DEF Tried
    <3>2. CASE \E columns \in DroppedColumns :
                 /\ tries' = Without(columns)
                 /\ schema = 58 => columns = {"retryAfter"}
                 /\ schema = 57 => columns = {"claimPolicy", "settlementPolicy"}
                 /\ schema = 54 => columns = {"lease", "dispatched", "reason"}
                 /\ schema \in {54, 57, 58}
      <4>1. PICK columns \in DroppedColumns :
                 /\ tries' = Without(columns)
                 /\ schema = 58 => columns = {"retryAfter"}
                 /\ schema = 57 => columns = {"claimPolicy", "settlementPolicy"}
                 /\ schema = 54 => columns = {"lease", "dispatched", "reason"}
                 /\ schema \in {54, 57, 58}
        BY <3>2
      <4>2. ~Holds(columns)
        <5>1. CASE schema = 58
          BY <1>1, <4>1, <5>1, RefusedIs DEF RetryAfterHeld
        <5>2. CASE schema = 57
          BY <1>1, <4>1, <5>2, RefusedIs DEF PolicyEvidenceHeld
        <5>3. CASE schema = 54
          BY <1>1, <4>1, <5>3, RefusedIs DEF LeaseEvidenceHeld
        <5> QED BY <4>1, <5>1, <5>2, <5>3
      <4>3. ASSUME NEW n \in Tried, NEW column \in DOMAIN tries[n], tries[n][column] # Null
            PROVE  tries'[n][column] = tries[n][column]
        <5>1. column \notin columns
          BY <4>2, <4>3 DEF Holds
        <5> QED BY <4>1, <4>3, <5>1 DEF Without
      <4> QED BY <4>1, <4>3 DEF Without, Tried
    <3>3. CASE schema = 52
      <4>1. tries = <<>>
        BY <1>1, <3>3, RefusedIs DEF AttemptsHeld
      <4>2. Tried = {}
        BY <4>1 DEF Tried
      <4> QED BY <4>2
    <3> QED BY <3>1, <3>2, <3>3, DownTries
  <2> QED BY <1>1, <2>1, MigrationRows DEF SaidStays
<1>3. IntentsStay
  <2>1. CASE schema # 55
    <3>1. outbox' = outbox
      BY <2>1, DownOutbox
    <3> QED BY <1>1, <3>1, NothingStays
  <2>2. CASE schema = 55
    <3>1. \A i \in Present : outbox[i].due = Null /\ outbox[i].ordered = PinnedOrdering(outbox[i], history)
      BY <1>1, <2>2, RefusedIs DEF OrderingEvidenceHeld
    <3>2. \A i \in Present : /\ Promised(outbox[i], history) = PinnedOrdering(outbox[i], history)
                             /\ Promised(outbox'[i], history') = PinnedOrdering(outbox'[i], history)
      BY <1>1, <2>2, <3>1, DownIntents DEF Promised
    <3>3. \A i \in Present : PinnedOrdering(outbox'[i], history) = PinnedOrdering(outbox[i], history)
      BY DownIntents DEF PinnedOrdering
    <3> QED BY <3>1, <3>2, <3>3, DownIntents DEF IntentsStay
  <2> QED BY <2>1, <2>2
<1> QED BY <1>2, <1>3

\* No sequence of writes, migrations and rollbacks, however long, loses or
\* rewrites what was said of an attempt, a connector, a policy or an intent.
THEOREM EvidenceIsKept == MigrationsSpec => EvidenceSurvives
<1>1. MigrationsInit => MigrationsInv
  BY MigrationsInitInv
<1>2. MigrationsInv /\ [MigrationsNext]_migrationVars => MigrationsInv'
  BY MigrationsStepInv
<1>3. MigrationsInv /\ [MigrationsNext]_migrationVars =>
        [/\ \A n \in Tried :
              /\ n \in Tried'
              /\ \A column \in DOMAIN tries[n] :
                   tries[n][column] # Null => tries'[n][column] = tries[n][column]
         /\ \A n \in DOMAIN history : n \in DOMAIN history' /\ history'[n] = history[n]
         /\ ceilings' >= ceilings
         /\ \A i \in Present :
              /\ i \in Present'
              /\ Promised(outbox'[i], history') = Promised(outbox[i], history)
              /\ outbox[i].due # Null /\ outbox'[i].state = "retrying" => outbox'[i].due # Null]_migrationVars
  <2> SUFFICES ASSUME MigrationsInv, MigrationsNext PROVE SaidStays /\ IntentsStay
    BY DEF SaidStays, IntentsStay
  <2>1. CASE RecordCeilings
    <3>1. ceilings' = ceilings + 1 /\ UNCHANGED <<history, outbox, tries>>
      BY <2>1 DEF RecordCeilings
    <3>2. SaidStays
      BY <3>1, MigrationRows DEF SaidStays, Tried
    <3> QED BY <3>1, <3>2, NothingStays
  <2> QED BY <2>1, ChangeConnectorKeeps, OutboxMovesKeep, OpenTryKeeps, WriteTryKeeps, UpKeeps, DownKeeps
          DEF MigrationsNext
<1> QED BY <1>1, <1>2, <1>3, PTL DEF MigrationsSpec, EvidenceSurvives

--------------------------------------------------------------------------------
(* The gate: the inductive invariant.                                       *)

Observed ==
  [verified : BOOLEAN, before : {0, 1, Unread}, after : {0, 1, Unread}, tiers : Seq(Results),
   target : {"known", "unknown"},
   teardown : [container : {"none", "present", "absent", "unknown"},
               volume : {"none", "present", "absent", "unknown"}]]
Channel == [directory : BOOLEAN, invocations : SUBSET [label : {"compile", "database", "e2e"},
                                                       result : Results, streams : {"whole", "partial"}],
            files : BOOLEAN, manifest : BOOLEAN]

\* A container there is not, or no more, has no schema; it came with its
\* volume.
WorldHolds ==
  /\ world.container # "there" => world.schemas = 0
  /\ step \notin {"start", "helper", "provision", "fail"} =>
       world.container # "none" /\ world.volume # "none"

\* The tiers run in their turn.
TurnHolds ==
  /\ step \in {"start", "helper", "provision", "instance", "before"} => seen.tiers = <<>>
  /\ step = "tiers" => Len(seen.tiers) < Len(TierNames)

\* Nothing was looked for before it was there, and what was seen to be absent
\* is gone for good.
TeardownHolds ==
  /\ step \in {"start", "helper", "provision"} => seen.teardown = NoTeardown
  /\ seen.teardown.container = "absent" /\ seen.teardown.volume = "absent" =>
       world.container # "there" /\ world.volume # "there"

\* An unwritten manifest is a failure.
ManifestHolds ==
  step = "verdict" /\ options.evidence /\ bundle.directory /\ ~failed => bundle.manifest

GateInv ==
  /\ world \in [container : {"none", "there", "gone"}, volume : {"none", "there", "gone"}, schemas : 0..1]
  /\ seen \in Observed /\ bundle \in Channel
  /\ options \in [evidence : BOOLEAN, compile : BOOLEAN] /\ failed \in BOOLEAN
  /\ TurnHolds /\ WorldHolds /\ TeardownHolds /\ ManifestHolds /\ PassIsEarned

LEMMA ResultsAreRecords ==
  \A r \in Results :
    /\ r.present \in BOOLEAN /\ r.exit \in {"zero", "other", "none"}
    /\ EvaluateTier(r) => r = Clean
<1>1. Floor \in Nat /\ Floor > 1
  BY DisposableAssumption
<1> SUFFICES ASSUME NEW r \in Results
             PROVE  /\ r.present \in BOOLEAN /\ r.exit \in {"zero", "other", "none"}
                    /\ EvaluateTier(r) => r = Clean
  OBVIOUS
<1>2. CASE r = Clean
  BY <1>2 DEF Clean
<1>3. CASE r = [Clean EXCEPT !.tests = 0, !.pass = 0] \/ r = [Clean EXCEPT !.tests = Floor - 1, !.pass = Floor - 1]
  <2>1. r.present = TRUE /\ r.exit = "zero" /\ (r.tests = 0 \/ r.tests = Floor - 1)
    BY <1>3 DEF Clean
  <2>2. ~EvaluateTier(r)
    BY <1>1, <2>1 DEF EvaluateTier
  <2> QED BY <2>1, <2>2
<1>4. CASE r \in {[Clean EXCEPT !.pass = Floor - 1, !.todo = 1], [Clean EXCEPT !.pass = Floor - 1, !.skipped = 1]}
  <2>1. r.present = TRUE /\ r.exit = "zero" /\ r.tests = Floor /\ r.pass = Floor - 1
    BY <1>4 DEF Clean
  <2>2. ~EvaluateTier(r)
    BY <1>1, <2>1 DEF EvaluateTier
  <2> QED BY <2>1, <2>2
<1>5. CASE r \in {[Clean EXCEPT !.pass = Floor - 1, !.fail = 1, !.exit = "other"],
                  [Clean EXCEPT !.pass = Floor - 1, !.cancelled = 1, !.exit = "other"]}
  <2>1. r.present = TRUE /\ r.exit = "other"
    BY <1>5 DEF Clean
  <2> QED BY <2>1 DEF EvaluateTier
<1>6. CASE r \in {[Clean EXCEPT !.exit = "other"], [Clean EXCEPT !.trailer = "cut"]}
  BY <1>6 DEF Clean, EvaluateTier
<1>7. CASE r \in {[Clean EXCEPT !.exit = "none", !.trailer = "cut"],
                  [Clean EXCEPT !.present = FALSE, !.exit = "none", !.trailer = "cut"]}
  BY <1>7 DEF Clean, EvaluateTier
<1> QED BY <1>2, <1>3, <1>4, <1>5, <1>6, <1>7 DEF Results

LEMMA GateInitInv == GateInit => GateInv
<1> SUFFICES ASSUME GateInit PROVE GateInv
  OBVIOUS
<1>1. <<>> \in Seq(Results)
  OBVIOUS
<1>2. seen \in Observed /\ seen.teardown.container = "none"
  BY <1>1 DEF GateInit, Observed, NoTeardown
<1>3. bundle \in Channel
  BY DEF GateInit, Channel, NoBundle
<1>4. /\ world = [container |-> "none", volume |-> "none", schemas |-> 0]
      /\ step = "start" /\ failed = FALSE /\ options \in [evidence : BOOLEAN, compile : BOOLEAN]
      /\ seen.teardown = NoTeardown /\ seen.tiers = <<>>
  BY DEF GateInit
<1>5. world \in [container : {"none", "there", "gone"}, volume : {"none", "there", "gone"}, schemas : 0..1]
      /\ world.schemas = 0
  BY <1>4
<1>6. TurnHolds /\ WorldHolds /\ TeardownHolds /\ ManifestHolds /\ PassIsEarned
  BY <1>2, <1>4, <1>5 DEF TurnHolds, WorldHolds, TeardownHolds, ManifestHolds, PassIsEarned
<1> QED BY <1>2, <1>3, <1>4, <1>5, <1>6 DEF GateInv

\* What a step must leave as it is while no verdict is near.
LEMMA GateKeeps ==
  ASSUME GateInv, UNCHANGED <<world, options, seen>>, bundle' \in Channel, failed' \in BOOLEAN,
         step' \notin {"tiers", "pass", "verdict"},
         step \in {"start", "helper", "provision", "fail"} => step' \in {"start", "helper", "provision", "fail"},
         step' \in {"start", "helper", "provision"} => step \in {"start", "helper", "provision"},
         step' \in {"instance", "before"} => step \in {"instance", "before"}
  PROVE  GateInv'
BY DEF GateInv, TurnHolds, WorldHolds, TeardownHolds, ManifestHolds, PassIsEarned

LEMMA FlushIs ==
  ASSUME GateInv, NEW next, Flush(next)
  PROVE  /\ bundle' \in Channel /\ failed' \in BOOLEAN /\ step' = next
         /\ options.evidence /\ bundle'.directory /\ ~failed' => bundle'.manifest
<1>1. CASE (~options.evidence \/ ~bundle.directory) /\ step' = next /\ UNCHANGED <<bundle, failed>>
  BY <1>1 DEF GateInv
<1>2. CASE options.evidence /\ bundle.directory /\ step' = next /\
           \E files, manifest \in BOOLEAN :
             /\ bundle' = [bundle EXCEPT !.files = files, !.manifest = manifest]
             /\ failed' = (failed \/ ~manifest)
  <2>1. PICK files, manifest \in BOOLEAN :
             /\ bundle' = [bundle EXCEPT !.files = files, !.manifest = manifest]
             /\ failed' = (failed \/ ~manifest)
    BY <1>2
  <2>2. bundle \in Channel /\ failed \in BOOLEAN
    BY DEF GateInv
  <2>3. bundle' \in Channel /\ bundle'.manifest = manifest
    BY <2>1, <2>2 DEF Channel
  <2>4. failed' \in BOOLEAN
    BY <2>1, <2>2
  <2> QED BY <1>2, <2>1, <2>3, <2>4
<1> QED BY <1>1, <1>2 DEF Flush

LEMMA PrerequisitesInv == ASSUME GateInv, Prerequisites PROVE GateInv'
<1>1. PICK directory, compiled, made :
        /\ directory \in BOOLEAN /\ compiled \in BOOLEAN
        /\ made = (IF options.compile
                   THEN {[label |-> "compile", result |-> IF compiled THEN Clean ELSE
                            [Clean EXCEPT !.exit = "other"], streams |-> "whole"]}
                   ELSE {})
        /\ failed' = ((options.evidence /\ ~directory) \/ (options.compile /\ ~compiled))
        /\ bundle' = [bundle EXCEPT !.directory = directory,
                                    !.invocations = IF options.evidence THEN made ELSE {}]
  BY DEF Prerequisites
<1>2. Clean \in Results /\ [Clean EXCEPT !.exit = "other"] \in Results
  BY DEF Results
<1>3. PICK kept : kept = IF options.evidence THEN made ELSE {}
  OBVIOUS
<1>4. kept \subseteq [label : {"compile", "database", "e2e"}, result : Results, streams : {"whole", "partial"}]
  BY <1>1, <1>2, <1>3
<1>5. bundle' = [bundle EXCEPT !.directory = directory, !.invocations = kept] /\ bundle \in Channel
  BY <1>1, <1>3 DEF GateInv
<1>6. bundle' \in Channel
  BY <1>1, <1>4, <1>5 DEF Channel
<1>7. failed' \in BOOLEAN /\ step' = "helper" /\ step = "start" /\ UNCHANGED <<world, options, seen>>
  BY <1>1 DEF Prerequisites
<1> QED BY <1>6, <1>7, GateKeeps

LEMMA FindHelperInv == ASSUME GateInv, FindHelper PROVE GateInv'
<1>1. step = "helper" /\ UNCHANGED <<world, options, seen>>
  BY DEF FindHelper
<1>2. CASE ~failed /\ step' = "provision" /\ UNCHANGED <<failed, bundle>>
  <2>1. bundle' \in Channel /\ failed' \in BOOLEAN
    BY <1>2 DEF GateInv
  <2> QED BY <1>1, <1>2, <2>1, GateKeeps
<1>3. CASE Flush("fail")
  <2>1. bundle' \in Channel /\ failed' \in BOOLEAN /\ step' = "fail"
    BY <1>3, FlushIs
  <2> QED BY <1>1, <2>1, GateKeeps
<1> QED BY <1>2, <1>3 DEF FindHelper

\* No teardown has been looked at before the container is there.
LEMMA ProvisionInv ==
  ASSUME GateInv, Provision
  PROVE  GateInv'
<1>1. step = "provision" /\ UNCHANGED <<options, seen>> /\ seen'.teardown.container = "none"
  BY DEF Provision, NoTeardown, GateInv, TeardownHolds
<1>2. world' \in {world, Started, [Started EXCEPT !.container = "gone", !.volume = "gone"]}
  BY DEF Provision
<1>3. /\ world' \in [container : {"none", "there", "gone"}, volume : {"none", "there", "gone"}, schemas : 0..1]
      /\ world'.container # "there" => world'.schemas = 0
  <2>1. CASE world' = world
    BY <2>1 DEF GateInv, WorldHolds
  <2>2. CASE world' = Started
    BY <2>2 DEF Started
  <2>3. CASE world' = [Started EXCEPT !.container = "gone", !.volume = "gone"]
    <3>1. world' = [container |-> "gone", volume |-> "gone", schemas |-> 0]
      BY <2>3 DEF Started
    <3> QED BY <3>1
  <2> QED BY <1>2, <2>1, <2>2, <2>3
<1>4. CASE step' = "instance" /\ world' = Started /\ UNCHANGED <<failed, bundle>>
  BY <1>1, <1>3, <1>4 DEF GateInv, TurnHolds, WorldHolds, TeardownHolds, ManifestHolds, PassIsEarned, Started
<1>5. CASE Flush("fail")
  <2>1. bundle' \in Channel /\ failed' \in BOOLEAN /\ step' = "fail"
    BY <1>5, FlushIs
  <2> QED BY <1>1, <1>3, <2>1 DEF GateInv, TurnHolds, WorldHolds, TeardownHolds, ManifestHolds, PassIsEarned
<1> QED BY <1>4, <1>5 DEF Provision

LEMMA CheckInstanceInv == ASSUME GateInv, CheckInstance PROVE GateInv'
<1>1. PICK verified \in BOOLEAN : seen' = [seen EXCEPT !.verified = verified]
  BY DEF CheckInstance
<1>2. /\ step = "instance" /\ step' = "before" /\ failed' = (failed \/ ~seen'.verified)
      /\ UNCHANGED <<world, options, bundle>>
  BY DEF CheckInstance
<1>3. seen' \in Observed /\ seen'.teardown = seen.teardown /\ seen'.tiers = seen.tiers
  BY <1>1 DEF GateInv, Observed
<1> QED BY <1>2, <1>3 DEF GateInv, TurnHolds, WorldHolds, TeardownHolds, ManifestHolds, PassIsEarned

LEMMA CensusBeforeInv == ASSUME GateInv, CensusBefore PROVE GateInv'
<1>1. PICK count \in Count :
        /\ seen' = [seen EXCEPT !["before"] = count]
        /\ failed' = (failed \/ count # 0)
        /\ step' = IF count = Unread THEN "identify" ELSE "tiers"
  BY DEF CensusBefore, TakeCensus
<1>2. step = "before" /\ UNCHANGED <<world, options, bundle>>
  BY DEF CensusBefore
<1>3. count \in {0, 1, Unread}
  BY DEF Count, GateInv
<1>4. seen' \in Observed /\ seen'.teardown = seen.teardown /\ seen'.tiers = seen.tiers
  BY <1>1, <1>3 DEF GateInv, Observed
<1>5. Len(seen'.tiers) < Len(TierNames)
  BY <1>2, <1>4 DEF TierNames, GateInv, TurnHolds
<1> QED BY <1>1, <1>2, <1>4, <1>5 DEF GateInv, TurnHolds, WorldHolds, TeardownHolds, ManifestHolds, PassIsEarned

LEMMA CensusAfterInv == ASSUME GateInv, CensusAfter PROVE GateInv'
<1>1. PICK count \in Count :
        /\ seen' = [seen EXCEPT !["after"] = count]
        /\ failed' = (failed \/ count # seen.before)
        /\ step' = "identify"
  BY DEF CensusAfter, TakeCensus
<1>2. step = "after" /\ UNCHANGED <<world, options, bundle>>
  BY DEF CensusAfter
<1>3. count \in {0, 1, Unread}
  BY DEF Count, GateInv
<1>4. seen' \in Observed /\ seen'.teardown = seen.teardown
  BY <1>1, <1>3 DEF GateInv, Observed
<1> QED BY <1>1, <1>2, <1>4 DEF GateInv, TurnHolds, WorldHolds, TeardownHolds, ManifestHolds, PassIsEarned

LEMMA RunTierInv == ASSUME GateInv, RunTier PROVE GateInv'
<1>1. PICK result \in Results :
        /\ seen' = [seen EXCEPT !.tiers = Append(@, result)]
        /\ failed' = (failed \/ ~EvaluateTier(result))
        /\ Captured(TierNames[Len(seen.tiers) + 1], result)
        /\ \E schemas \in 0..1 :
             /\ schemas # world.schemas => world.container = "there" /\ result.present
             /\ world' = [world EXCEPT !.schemas = schemas]
  BY DEF RunTier
<1>2. /\ step = "tiers" /\ UNCHANGED options
      /\ step' = IF Len(seen.tiers) + 1 = Len(TierNames) THEN "after" ELSE "tiers"
  BY DEF RunTier
<1>3. seen.tiers \in Seq(Results) /\ Len(seen.tiers) \in Nat /\ Len(seen.tiers) < 2 /\ Len(TierNames) = 2
  <2>1. seen.tiers \in Seq(Results)
    BY DEF GateInv, Observed
  <2>2. Len(TierNames) = 2
    BY DEF TierNames
  <2> QED BY <1>2, <2>1, <2>2 DEF GateInv, TurnHolds
<1>4. PICK tiers : tiers = Append(seen.tiers, result)
  OBVIOUS
<1>5. tiers \in Seq(Results) /\ Len(tiers) = Len(seen.tiers) + 1
  BY <1>3, <1>4
<1>6. seen' \in Observed /\ seen'.teardown = seen.teardown /\ seen'.tiers = tiers
  BY <1>1, <1>4, <1>5 DEF GateInv, Observed
<1>7. bundle' \in Channel
  <2>1. CASE ~options.evidence
    BY <1>1, <2>1 DEF Captured, GateInv
  <2>2. CASE options.evidence
    <3>0. PICK streams \in {"whole", "partial"} :
            bundle' = [bundle EXCEPT !.invocations =
              @ \cup {[label |-> TierNames[Len(seen.tiers) + 1], result |-> result, streams |-> streams]}]
      BY <1>1, <2>2 DEF Captured
    <3>1. PICK entry :
            /\ entry = [label |-> TierNames[Len(seen.tiers) + 1], result |-> result, streams |-> streams]
            /\ bundle' = [bundle EXCEPT !.invocations = @ \cup {entry}]
      BY <3>0
    <3>2. TierNames[Len(seen.tiers) + 1] \in {"database", "e2e"}
      <4>1. Len(seen.tiers) + 1 = 1 \/ Len(seen.tiers) + 1 = 2
        BY <1>3
      <4> QED BY <4>1 DEF TierNames
    <3>3. entry \in [label : {"compile", "database", "e2e"}, result : Results, streams : {"whole", "partial"}]
      BY <3>1, <3>2
    <3> QED BY <3>1, <3>3 DEF GateInv, Channel
  <2> QED BY <2>1, <2>2
<1>8. /\ world' \in [container : {"none", "there", "gone"}, volume : {"none", "there", "gone"}, schemas : 0..1]
      /\ world'.container = world.container /\ world'.volume = world.volume
      /\ world'.schemas # world.schemas => world.container = "there"
  BY <1>1 DEF GateInv
<1>9. failed' \in BOOLEAN
  BY <1>1
<1>10. WorldHolds'
  BY <1>2, <1>8 DEF GateInv, WorldHolds
<1>11. TeardownHolds'
  BY <1>2, <1>6, <1>8 DEF GateInv, TeardownHolds
<1>12. TurnHolds'
  BY <1>2, <1>3, <1>5, <1>6 DEF TurnHolds
<1> QED BY <1>2, <1>6, <1>7, <1>8, <1>9, <1>10, <1>11, <1>12 DEF GateInv, ManifestHolds, PassIsEarned

LEMMA RemovedIs ==
  GateInv => /\ Removed.container = "gone" /\ Removed.volume = "gone" /\ Removed.schemas = 0
             /\ Removed \in [container : {"none", "there", "gone"}, volume : {"none", "there", "gone"}, schemas : 0..1]
<1> SUFFICES ASSUME GateInv PROVE Removed = [container |-> "gone", volume |-> "gone", schemas |-> 0]
  OBVIOUS
<1>1. world \in [container : {"none", "there", "gone"}, volume : {"none", "there", "gone"}, schemas : 0..1]
  BY DEF GateInv
<1>2. PICK f : f = [world EXCEPT !.container = "gone"]
  OBVIOUS
<1>3. PICK g : g = [f EXCEPT !.volume = "gone"]
  OBVIOUS
<1>4. Removed = [g EXCEPT !.schemas = 0]
  BY <1>2, <1>3 DEF Removed
<1>5. \E n \in 0..1 : g = [container |-> "gone", volume |-> "gone", schemas |-> n]
  BY <1>1, <1>2, <1>3
<1> QED BY <1>4, <1>5

LEMMA IdentifyInv == ASSUME GateInv, Identify PROVE GateInv'
<1>1. PICK target \in {"known", "unknown"} : seen' = [seen EXCEPT !.target = target]
  BY DEF Identify, VolumeTarget
<1>2. step = "identify" /\ step' = "remove" /\ UNCHANGED <<world, options, failed, bundle>>
  BY DEF Identify
<1>3. seen' \in Observed /\ seen'.teardown = seen.teardown
  BY <1>1 DEF GateInv, Observed
<1> QED BY <1>2, <1>3 DEF GateInv, TurnHolds, WorldHolds, TeardownHolds, ManifestHolds, PassIsEarned

LEMMA RemoveInv == ASSUME GateInv, Remove PROVE GateInv'
<1>1. step = "remove" /\ step' = "verify" /\ UNCHANGED <<options, failed, seen, bundle>>
      /\ (world' = world \/ world' = Removed)
  BY DEF Remove, Removals
<1> QED BY <1>1, RemovedIs DEF GateInv, TurnHolds, WorldHolds, TeardownHolds, ManifestHolds, PassIsEarned

LEMMA AbsenceIs ==
  ASSUME NEW state, NEW answer \in Answers(state)
  PROVE  /\ ResourceAbsence(answer) \in {"present", "absent", "unknown"}
         /\ ResourceAbsence(answer) = "absent" => state # "there"
<1>1. answer \in {"unanswered", "found", "notfound"} /\ (answer = "notfound" => state # "there")
  BY DEF Answers
<1>2. CASE answer = "found"
  BY <1>2 DEF ResourceAbsence
<1>3. CASE answer = "notfound"
  BY <1>1, <1>3 DEF ResourceAbsence
<1>4. CASE answer = "unanswered"
  BY <1>4 DEF ResourceAbsence
<1> QED BY <1>1, <1>2, <1>3, <1>4

LEMMA VerifyInv == ASSUME GateInv, Verify PROVE GateInv'
<1>1. PICK c, v, teardown :
        /\ c \in Answers(world.container) /\ v \in Answers(world.volume)
        /\ teardown = [container |-> ResourceAbsence(c),
                       volume |-> IF seen.target = "known" THEN ResourceAbsence(v) ELSE "unknown"]
        /\ seen' = [seen EXCEPT !.teardown = teardown]
  BY DEF Verify
<1>2. /\ step = "verify" /\ step' = "report" /\ UNCHANGED <<world, options, bundle>>
      /\ failed' \in BOOLEAN
  BY DEF Verify
<1>3. /\ teardown \in [container : {"none", "present", "absent", "unknown"},
                       volume : {"none", "present", "absent", "unknown"}]
      /\ teardown.container = "absent" => world.container # "there"
      /\ teardown.volume = "absent" => world.volume # "there"
  BY <1>1, AbsenceIs
<1>4. seen' \in Observed /\ seen'.teardown = teardown
  BY <1>1, <1>3 DEF GateInv, Observed
<1> QED BY <1>2, <1>3, <1>4 DEF GateInv, TurnHolds, WorldHolds, TeardownHolds, ManifestHolds, PassIsEarned

LEMMA ReportInv == ASSUME GateInv, Report PROVE GateInv'
<1>1. step = "report" /\ UNCHANGED <<world, options, seen>>
  BY DEF Report
<1>2. /\ bundle' \in Channel /\ failed' \in BOOLEAN /\ step' = "verdict"
      /\ options.evidence /\ bundle'.directory /\ ~failed' => bundle'.manifest
  BY FlushIs DEF Report
<1> QED BY <1>1, <1>2 DEF GateInv, TurnHolds, WorldHolds, TeardownHolds, ManifestHolds, PassIsEarned

LEMMA VerdictInv == ASSUME GateInv, Verdict PROVE GateInv'
<1>1. /\ step = "verdict" /\ UNCHANGED <<world, options, failed, seen, bundle>>
      /\ step' = IF EvaluateRun /\ ~failed THEN "pass" ELSE "fail"
  BY DEF Verdict
<1>2. ASSUME EvaluateRun, ~failed PROVE PassIsEarned'
  <2>1. /\ seen.before = 0 /\ seen.after = 0 /\ Len(seen.tiers) = Len(TierNames)
        /\ \A k \in DOMAIN seen.tiers : EvaluateTier(seen.tiers[k])
        /\ seen.teardown.container = "absent" /\ seen.teardown.volume = "absent"
        /\ options.evidence => CompleteBundle
    BY <1>2 DEF EvaluateRun
  <2>2. seen.tiers \in Seq(Results) /\ Len(seen.tiers) = 2
    BY <2>1 DEF GateInv, Observed, TierNames
  <2>3. DOMAIN seen.tiers = 1..2 /\ seen.tiers[1] \in Results /\ seen.tiers[2] \in Results
    BY <2>2
  <2>4. seen.tiers[1] = Clean /\ seen.tiers[2] = Clean
    BY <2>1, <2>3, ResultsAreRecords
  <2>5. [k \in DOMAIN seen.tiers |-> seen.tiers[k]] = <<Clean, Clean>>
    BY <2>3, <2>4
  <2>6. world.container = "gone" /\ world.volume = "gone" /\ world.schemas = 0
    BY <1>1, <2>1 DEF GateInv, TurnHolds, WorldHolds, TeardownHolds
  <2>7. world = Removed
    BY <2>6 DEF GateInv, Removed
  <2>8. options.evidence => bundle.directory /\ bundle.files /\ bundle.manifest
                            /\ \A i \in bundle.invocations : i.streams = "whole"
    BY <1>1, <1>2, <2>1 DEF GateInv, ManifestHolds, CompleteBundle, CompleteInvocation
  <2>9. world' = Removed'
    BY <1>1, <2>7 DEF Removed
  <2> QED BY <1>1, <2>1, <2>5, <2>8, <2>9 DEF PassIsEarned
<1>3. PassIsEarned'
  BY <1>1, <1>2 DEF PassIsEarned
<1> QED BY <1>1, <1>3 DEF GateInv, TurnHolds, WorldHolds, TeardownHolds, ManifestHolds

LEMMA PrunedInv == ASSUME GateInv, Pruned PROVE GateInv'
<1>1. /\ world.container = "there" /\ step \notin {"pass", "fail"}
      /\ UNCHANGED <<step, options, failed, seen, bundle>>
      /\ \E v \in {"there", "gone"} : world' = [Removed EXCEPT !.volume = v]
  BY DEF Pruned
<1>2. /\ world' \in [container : {"none", "there", "gone"}, volume : {"none", "there", "gone"}, schemas : 0..1]
      /\ world'.container = "gone" /\ world'.volume \in {"there", "gone"} /\ world'.schemas = 0
  BY <1>1, RemovedIs
<1> QED BY <1>1, <1>2 DEF GateInv, TurnHolds, WorldHolds, TeardownHolds, ManifestHolds, PassIsEarned

LEMMA GateStepInv == GateInv /\ [GateNext]_gateVars => GateInv'
<1> SUFFICES ASSUME GateInv, [GateNext]_gateVars PROVE GateInv'
  OBVIOUS
<1>1. CASE UNCHANGED gateVars
  <2>1. Removed' = Removed /\ CompleteBundle' = CompleteBundle
    BY <1>1 DEF gateVars, Removed, CompleteBundle
  <2> QED BY <1>1, <2>1 DEF gateVars, GateInv, TurnHolds, WorldHolds, TeardownHolds, ManifestHolds, PassIsEarned
<1> QED BY <1>1, PrerequisitesInv, FindHelperInv, ProvisionInv, CheckInstanceInv, CensusBeforeInv, RunTierInv,
           CensusAfterInv, IdentifyInv, RemoveInv, VerifyInv, ReportInv, VerdictInv, PrunedInv DEF GateNext

\* Whatever Docker answers, however the tiers end and whoever removes the
\* container, a run that passes has validated what it says.
THEOREM GatePassesTheEarned == GateSpec => []PassIsEarned
<1>1. GateInit => GateInv
  BY GateInitInv
<1>2. GateInv /\ [GateNext]_gateVars => GateInv'
  BY GateStepInv
<1>3. GateInv => PassIsEarned
  BY DEF GateInv
<1> QED BY <1>1, <1>2, <1>3, PTL DEF GateSpec

--------------------------------------------------------------------------------
(* The AI router: the inductive invariant.                                  *)

\* The accepted rows of u, and those a rule counts with a given row.
AcceptedIn(u) == {d \in Calls : Accepted(u[d])}
CountedIn(u, rule, row) ==
  {d \in AcceptedIn(u) :
     /\ rule.period = "daily" => u[d].day = row.day
     /\ rule.scope = "user" => u[d].user = row.user
     /\ rule.scope = "model" => u[d].model = row.model
     /\ rule.scope = "provider" => ProviderOf(u[d].model) = ProviderOf(row.model)}
BeforeIn(u, rule, row) == {d \in CountedIn(u, rule, row) : u[d].place <= row.place}

\* Accepted rows have their places in the order of their admissions, and up to
\* each of them no rule is exceeded.
PlacesIn(u) ==
  \A c \in AcceptedIn(u) :
    /\ u[c].place < Cardinality(AcceptedIn(u)) /\ u[c].model \in Models
    /\ \A rule \in RulesOf(u[c].model) : Cardinality(BeforeIn(u, rule, u[c])) <= rule.limit

\* A row that may be admitted next to the rows of u.
MayJoin(u, row) ==
  /\ row \in UsageRows /\ row.decision = "accepted" /\ row.outcome = "pending"
  /\ row.events = {"accepted"} /\ row.model \in Models
  /\ row.place = Cardinality(AcceptedIn(u))
  /\ \A rule \in RulesOf(row.model) : Cardinality(CountedIn(u, rule, row)) < rule.limit

\* The admission under way is of a call without a row, and the row it is about
\* to commit may still join the others, whatever is recorded meanwhile.
AdmissionHolds ==
  lock # Nothing =>
    /\ lock \in Calls /\ calls[lock].step = "admit"
    /\ MayJoin(usage, held) /\ held.day <= day

\* What a call q knows at each step, and what its row r says by then.
CallFits(q, r, today) ==
  /\ q.step \in {"idle", "admit"} => r = Nothing
  /\ q.step \in {"admit", "deny"} => q.user \in Members
  /\ q.step = "admit" => q.model \in Models
  /\ q.step \in {"deny", "fail"} => q.result \in Categories
  /\ q.step = "settle" => q.result \in Statuses
  /\ r # Nothing => r.events = EndsOf(r) /\ r.day <= today
  /\ r # Nothing => (r.decision = "denied") = (r.outcome = "denied")
  /\ q.step = "answered" => r # Nothing /\ r.outcome = q.result
  /\ q.step = "refused" => r # Nothing /\ r.category = q.result
  /\ q.step \in {"send", "sent"} => r # Nothing /\ r.outcome = "pending"

AiInv ==
  /\ AiTypeOK /\ PlacesIn(usage) /\ AdmissionHolds
  /\ \A c \in Calls : CallFits(calls[c], usage[c], day)

LEMMA CallsAreFinite ==
  ASSUME NEW u, NEW T, T \subseteq AcceptedIn(u)
  PROVE  IsFiniteSet(T) /\ Cardinality(T) \in Nat
<1>1. T \in SUBSET Calls
  BY DEF AcceptedIn
<1>2. IsFiniteSet(T)
  BY <1>1, FS_Subset, AiAssumption
<1> QED BY <1>2, FS_CardinalityType

\* What a quota sees of a row stays.
LEMMA SameAccepted ==
  ASSUME NEW u, NEW v,
         \A d \in Calls : Accepted(v[d]) = Accepted(u[d]),
         \A d \in Calls : Accepted(u[d]) =>
           /\ v[d].user = u[d].user /\ v[d].model = u[d].model
           /\ v[d].day = u[d].day /\ v[d].place = u[d].place
  PROVE  /\ PlacesIn(u) => PlacesIn(v)
         /\ \A row : MayJoin(u, row) => MayJoin(v, row)
<1>1. AcceptedIn(v) = AcceptedIn(u)
  BY DEF AcceptedIn
<1>2. ASSUME NEW rule, NEW row PROVE CountedIn(v, rule, row) = CountedIn(u, rule, row)
  BY <1>1 DEF CountedIn, AcceptedIn
<1>3. ASSUME NEW rule, NEW c \in AcceptedIn(u) PROVE BeforeIn(v, rule, v[c]) = BeforeIn(u, rule, u[c])
  <2>1. v[c].user = u[c].user /\ v[c].model = u[c].model /\ v[c].day = u[c].day /\ v[c].place = u[c].place
    BY DEF AcceptedIn
  <2>2. CountedIn(v, rule, v[c]) = CountedIn(u, rule, u[c])
    BY <1>1, <2>1 DEF CountedIn, AcceptedIn
  <2>3. CountedIn(u, rule, u[c]) \subseteq AcceptedIn(u)
    BY DEF CountedIn
  <2> QED BY <2>1, <2>2, <2>3 DEF BeforeIn, AcceptedIn
<1>4. ASSUME PlacesIn(u) PROVE PlacesIn(v)
  <2> SUFFICES ASSUME NEW c \in AcceptedIn(v)
               PROVE  /\ v[c].place < Cardinality(AcceptedIn(v)) /\ v[c].model \in Models
                      /\ \A rule \in RulesOf(v[c].model) : Cardinality(BeforeIn(v, rule, v[c])) <= rule.limit
    BY DEF PlacesIn
  <2>1. v[c].model = u[c].model /\ v[c].place = u[c].place /\ c \in AcceptedIn(u)
    BY <1>1 DEF AcceptedIn
  <2> QED BY <1>1, <1>3, <1>4, <2>1 DEF PlacesIn
<1>5. ASSUME NEW row, MayJoin(u, row) PROVE MayJoin(v, row)
  BY <1>1, <1>2, <1>5 DEF MayJoin
<1> QED BY <1>4, <1>5

\* A row that may join takes the last place, within its model's rules.
LEMMA RowJoins ==
  ASSUME NEW u \in [Calls -> UsageRows \cup {Nothing}], NEW v, NEW c \in Calls, NEW row,
         PlacesIn(u), MayJoin(u, row), u[c] = Nothing, v = [u EXCEPT ![c] = row]
  PROVE  PlacesIn(v)
<1>1. row # Nothing /\ Accepted(row) /\ row.place = Cardinality(AcceptedIn(u)) /\ row.model \in Models
  BY NoRowIsNothing DEF MayJoin, Accepted
<1>2. c \notin AcceptedIn(u) /\ v[c] = row /\ \A d \in Calls \ {c} : v[d] = u[d]
  BY DEF AcceptedIn, Accepted
<1>3. AcceptedIn(v) = AcceptedIn(u) \cup {c}
  BY <1>1, <1>2 DEF AcceptedIn
<1>4. /\ IsFiniteSet(AcceptedIn(u)) /\ Cardinality(AcceptedIn(u)) \in Nat
      /\ Cardinality(AcceptedIn(v)) = Cardinality(AcceptedIn(u)) + 1
  <2>1. IsFiniteSet(AcceptedIn(u)) /\ Cardinality(AcceptedIn(u)) \in Nat
    BY CallsAreFinite
  <2> QED BY <1>2, <1>3, <2>1, FS_AddElement
<1>5. ASSUME NEW d \in AcceptedIn(u) PROVE u[d].place \in Nat /\ u[d].place < Cardinality(AcceptedIn(u)) /\ v[d] = u[d]
  <2>1. d \in Calls /\ u[d] \in UsageRows /\ d # c
    BY <1>2 DEF AcceptedIn, Accepted
  <2>2. Cardinality(Calls) \in Nat
    BY AiAssumption, FS_CardinalityType
  <2>3. u[d].place \in Nat
    BY <2>1, <2>2 DEF UsageRows
  <2> QED BY <1>2, <2>1, <2>3 DEF PlacesIn
<1>6. ASSUME NEW d \in AcceptedIn(u), NEW rule PROVE BeforeIn(v, rule, v[d]) = BeforeIn(u, rule, u[d])
  <2>1. v[d] = u[d] /\ u[d].place < row.place /\ u[d].place \in Nat /\ row.place \in Nat
    BY <1>1, <1>4, <1>5
  <2>2. ~(v[c].place <= v[d].place)
    BY <1>2, <2>1
  <2>3. \A e \in AcceptedIn(u) : v[e] = u[e]
    BY <1>5
  <2>4. BeforeIn(v, rule, v[d]) \subseteq BeforeIn(u, rule, u[d])
    BY <1>3, <2>1, <2>2, <2>3 DEF BeforeIn, CountedIn
  <2>5. BeforeIn(u, rule, u[d]) \subseteq BeforeIn(v, rule, v[d])
    BY <1>3, <2>1, <2>3 DEF BeforeIn, CountedIn
  <2> QED BY <2>4, <2>5
<1>7. ASSUME NEW rule \in RulesOf(row.model) PROVE Cardinality(BeforeIn(v, rule, row)) <= rule.limit
  <2>1. \A e \in AcceptedIn(u) : v[e] = u[e]
    BY <1>5
  <2>2. BeforeIn(v, rule, row) \subseteq CountedIn(u, rule, row) \cup {c}
    BY <1>3, <2>1 DEF BeforeIn, CountedIn
  <2>3. IsFiniteSet(CountedIn(u, rule, row)) /\ Cardinality(CountedIn(u, rule, row)) \in Nat
    BY CallsAreFinite DEF CountedIn
  <2>4. c \notin CountedIn(u, rule, row)
    BY <1>2 DEF CountedIn
  <2>5. /\ IsFiniteSet(CountedIn(u, rule, row) \cup {c})
        /\ Cardinality(CountedIn(u, rule, row) \cup {c}) = Cardinality(CountedIn(u, rule, row)) + 1
    BY <2>3, <2>4, FS_AddElement
  <2>6. Cardinality(BeforeIn(v, rule, row)) <= Cardinality(CountedIn(u, rule, row)) + 1
    BY <2>2, <2>5, FS_Subset
  <2>7. IsFiniteSet(BeforeIn(v, rule, row)) /\ Cardinality(BeforeIn(v, rule, row)) \in Nat
    BY CallsAreFinite DEF BeforeIn, CountedIn
  <2>8. rule.limit \in Nat
    BY <1>1, AiAssumption
  <2>9. Cardinality(CountedIn(u, rule, row)) < rule.limit
    BY DEF MayJoin
  <2> QED BY <2>3, <2>6, <2>7, <2>8, <2>9
<1> SUFFICES ASSUME NEW d \in AcceptedIn(v)
             PROVE  /\ v[d].place < Cardinality(AcceptedIn(v)) /\ v[d].model \in Models
                    /\ \A rule \in RulesOf(v[d].model) : Cardinality(BeforeIn(v, rule, v[d])) <= rule.limit
  BY DEF PlacesIn
<1>8. CASE d = c
  <2>1. v[d] = row
    BY <1>2, <1>8
  <2>2. v[d].place < Cardinality(AcceptedIn(v))
    BY <1>1, <1>4, <2>1
  <2>3. \A rule \in RulesOf(v[d].model) : Cardinality(BeforeIn(v, rule, v[d])) <= rule.limit
    BY <1>7, <2>1
  <2> QED BY <1>1, <2>1, <2>2, <2>3
<1>9. CASE d \in AcceptedIn(u)
  <2>1. v[d] = u[d] /\ u[d].place \in Nat /\ u[d].place < Cardinality(AcceptedIn(u))
    BY <1>5, <1>9
  <2>2. v[d].place < Cardinality(AcceptedIn(v))
    BY <1>4, <2>1
  <2>3. u[d].model \in Models /\ \A rule \in RulesOf(u[d].model) : Cardinality(BeforeIn(u, rule, u[d])) <= rule.limit
    BY <1>9 DEF PlacesIn
  <2>4. \A rule \in RulesOf(v[d].model) : Cardinality(BeforeIn(v, rule, v[d])) <= rule.limit
    BY <1>6, <1>9, <2>1, <2>3
  <2> QED BY <2>1, <2>2, <2>3, <2>4
<1> QED BY <1>3, <1>8, <1>9

\* What `calls` holds of a call.
CallStates ==
  [step : {"idle", "admit", "deny", "send", "sent", "settle", "fail", "answered", "refused", "unavailable"},
   user : Members \cup {Nothing}, model : Models \cup {Nothing},
   result : Categories \cup Statuses \cup {Nothing}]

LEMMA AiInitInv == AiInit => AiInv
<1> SUFFICES ASSUME AiInit PROVE AiInv
  OBVIOUS
<1>1. Cardinality(Calls) \in Nat /\ MaxDay \in Nat
  BY AiAssumption, FS_CardinalityType
<1>2. AiTypeOK
  BY <1>1 DEF AiInit, AiTypeOK
<1>3. AcceptedIn(usage) = {}
  BY DEF AiInit, AcceptedIn, Accepted
<1>4. PlacesIn(usage)
  BY <1>3 DEF PlacesIn
<1>5. AdmissionHolds
  BY DEF AiInit, AdmissionHolds
<1>6. \A c \in Calls : CallFits(calls[c], usage[c], day)
  BY DEF AiInit, CallFits
<1> QED BY <1>2, <1>4, <1>5, <1>6 DEF AiInv

\* A step of one call that adds nothing to what a quota counts, by a call that
\* is not being admitted or by one that gives its admission up.
LEMMA CallMoves ==
  ASSUME AiInv, NEW c \in Calls, NEW q \in CallStates, NEW r \in UsageRows \cup {Nothing},
         calls' = [calls EXCEPT ![c] = q], usage' = [usage EXCEPT ![c] = r], UNCHANGED day,
         Accepted(r) = Accepted(usage[c]),
         Accepted(usage[c]) => /\ r.user = usage[c].user /\ r.model = usage[c].model
                               /\ r.day = usage[c].day /\ r.place = usage[c].place,
         CallFits(q, r, day),
         (UNCHANGED <<lock, held>> /\ lock # c) \/ (lock' = Nothing /\ held' = Nothing)
  PROVE  AiInv'
<1>1. /\ calls \in [Calls -> CallStates] /\ usage \in [Calls -> UsageRows \cup {Nothing}]
      /\ lock \in Calls \cup {Nothing} /\ held \in UsageRows \cup {Nothing} /\ day \in 0..MaxDay
  BY DEF AiInv, AiTypeOK, CallStates
<1>2. /\ calls'[c] = q /\ usage'[c] = r
      /\ \A d \in Calls \ {c} : calls'[d] = calls[d] /\ usage'[d] = usage[d]
  BY <1>1
<1>3. calls' \in [Calls -> CallStates] /\ usage' \in [Calls -> UsageRows \cup {Nothing}]
  BY <1>1
<1>4. lock' \in Calls \cup {Nothing} /\ held' \in UsageRows \cup {Nothing} /\ day' \in 0..MaxDay
  BY <1>1
<1>5. AiTypeOK'
  BY <1>3, <1>4 DEF AiTypeOK, CallStates
<1>6. /\ \A d \in Calls : Accepted(usage'[d]) = Accepted(usage[d])
      /\ \A d \in Calls : Accepted(usage[d]) =>
           /\ usage'[d].user = usage[d].user /\ usage'[d].model = usage[d].model
           /\ usage'[d].day = usage[d].day /\ usage'[d].place = usage[d].place
  BY <1>2
<1>7. PICK u, v : u = usage /\ v = usage'
  OBVIOUS
<1>8. (PlacesIn(u) => PlacesIn(v)) /\ \A row : MayJoin(u, row) => MayJoin(v, row)
  BY <1>6, <1>7, SameAccepted
<1>9. PlacesIn(usage)'
  BY <1>7, <1>8 DEF AiInv
<1>10. AdmissionHolds'
  <2> SUFFICES ASSUME lock' # Nothing
               PROVE  /\ lock' \in Calls /\ calls'[lock'].step = "admit"
                      /\ MayJoin(usage', held') /\ held'.day <= day'
    BY DEF AdmissionHolds
  <2>1. lock' = lock /\ held' = held /\ lock # c
    OBVIOUS
  <2>2. lock \in Calls /\ calls[lock].step = "admit" /\ MayJoin(usage, held) /\ held.day <= day
    BY <2>1 DEF AiInv, AdmissionHolds
  <2>4. MayJoin(usage', held)
    BY <1>7, <1>8, <2>2
  <2> QED BY <1>2, <2>1, <2>2, <2>4
<1>11. ASSUME NEW d \in Calls PROVE CallFits(calls'[d], usage'[d], day')
  <2>1. CASE d = c
    BY <1>2, <2>1
  <2>2. CASE d # c
    BY <1>2, <2>2 DEF AiInv
  <2> QED BY <2>1, <2>2
<1>12. (\A d \in Calls : CallFits(calls[d], usage[d], day))'
  BY <1>11
<1> QED BY <1>5, <1>9, <1>10, <1>12 DEF AiInv

\* The same when the call's row is not touched.
LEMMA CallTurns ==
  ASSUME AiInv, NEW c \in Calls, NEW q \in CallStates,
         calls' = [calls EXCEPT ![c] = q], UNCHANGED <<usage, day>>, CallFits(q, usage[c], day),
         (UNCHANGED <<lock, held>> /\ lock # c) \/ (lock' = Nothing /\ held' = Nothing)
  PROVE  AiInv'
<1>1. usage \in [Calls -> UsageRows \cup {Nothing}]
  BY DEF AiInv, AiTypeOK
<1>2. usage' = [usage EXCEPT ![c] = usage[c]] /\ usage[c] \in UsageRows \cup {Nothing}
  BY <1>1
<1>3. PICK r \in UsageRows \cup {Nothing} : r = usage[c]
  BY <1>2
<1> QED BY <1>2, <1>3, CallMoves

\* The two ways a step writes a call.
LEMMA ToIs ==
  ASSUME AiInv, NEW c \in Calls, NEW stage, NEW result, To(c, stage, result),
         stage \in {"deny", "send", "sent", "settle", "fail"},
         result \in Categories \cup Statuses \cup {Nothing}
  PROVE  \E q \in CallStates :
           /\ calls' = [calls EXCEPT ![c] = q]
           /\ q = [step |-> stage, user |-> calls[c].user, model |-> calls[c].model, result |-> result]
<1>1. calls \in [Calls -> CallStates]
  BY DEF AiInv, AiTypeOK, CallStates
<1>2. calls[c] \in CallStates
  BY <1>1
<1>3. PICK f : f = [calls EXCEPT ![c].step = stage]
  OBVIOUS
<1>4. f = [calls EXCEPT ![c] = [calls[c] EXCEPT !.step = stage]]
  BY <1>3
<1>5. calls' = [f EXCEPT ![c].result = result]
  BY <1>3 DEF To
<1>6. f[c] = [step |-> stage, user |-> calls[c].user, model |-> calls[c].model, result |-> calls[c].result]
  BY <1>1, <1>2, <1>4 DEF CallStates
<1>7. calls' = [calls EXCEPT ![c] = [step |-> stage, user |-> calls[c].user, model |-> calls[c].model, result |-> result]]
  <2>1. PICK q : q = [step |-> stage, user |-> calls[c].user, model |-> calls[c].model, result |-> result]
    OBVIOUS
  <2>2. [f[c] EXCEPT !.result = result] = q
    BY <1>6, <2>1
  <2>3. calls' = [f EXCEPT ![c] = [f[c] EXCEPT !.result = result]]
    BY <1>5
  <2>4. calls' = [f EXCEPT ![c] = q]
    BY <2>2, <2>3
  <2>5. calls' = [calls EXCEPT ![c] = q]
    BY <1>1, <1>4, <2>4
  <2> QED BY <2>1, <2>5
<1>8. [step |-> stage, user |-> calls[c].user, model |-> calls[c].model, result |-> result] \in CallStates
  BY <1>2 DEF CallStates
<1> QED BY <1>7, <1>8

LEMMA EndIs ==
  ASSUME AiInv, NEW c \in Calls, NEW stage, NEW result, End(c, stage, result),
         stage \in Ended, result \in Categories \cup Statuses \cup {Nothing}
  PROVE  \E q \in CallStates :
           /\ calls' = [calls EXCEPT ![c] = q]
           /\ q = [step |-> stage, user |-> Nothing, model |-> Nothing, result |-> result]
<1>1. [step |-> stage, user |-> Nothing, model |-> Nothing, result |-> result] \in CallStates
  BY DEF CallStates, Ended
<1> QED BY <1>1 DEF End

LEMMA OthersHoldTheLock ==
  ASSUME AiInv, NEW c \in Calls
  PROVE  /\ calls[c].step # "admit" => lock # c
         /\ lock = Nothing => lock # c
<1>1. c # Nothing
  BY AiAssumption
<1> QED BY <1>1 DEF AiInv, AdmissionHolds

LEMMA GenerateInv == ASSUME AiInv, NEW c \in Calls, Generate(c) PROVE AiInv'
<1>1. /\ calls[c].step = "idle" /\ UNCHANGED <<usage, lock, held, day>>
      /\ usage[c] = Nothing /\ lock # c
  BY OthersHoldTheLock DEF Generate, Same, AiInv, CallFits
<1>2. PICK u \in Members, v \in Verdicts :
        calls' = [calls EXCEPT ![c] =
          [step |-> IF v = "admissible" THEN "admit" ELSE "deny", user |-> u, model |-> NamedModel(c, v),
           result |-> IF v = "admissible" THEN Nothing ELSE v]]
  BY DEF Generate
<1>3. PICK q : q = [step |-> IF v = "admissible" THEN "admit" ELSE "deny", user |-> u, model |-> NamedModel(c, v),
                    result |-> IF v = "admissible" THEN Nothing ELSE v]
  OBVIOUS
<1>4. /\ NamedModel(c, v) \in Models \cup {Nothing}
      /\ v = "admissible" => NamedModel(c, v) \in Models
      /\ v # "admissible" => v \in Categories
  BY AiAssumption DEF NamedModel, Verdicts, Categories
<1>5. q \in CallStates
  BY <1>3, <1>4 DEF CallStates
<1>6. CallFits(q, usage[c], day)
  BY <1>1, <1>3, <1>4 DEF CallFits
<1> QED BY <1>1, <1>2, <1>3, <1>5, <1>6, CallTurns

\* The counts of an admission are those its row will be counted by.
LEMMA HasCapacityIs ==
  ASSUME AiInv, NEW row, row.day = day, HasCapacity(row.user, row.model), row.model \in Models,
         NEW rule \in RulesOf(row.model)
  PROVE  Cardinality(CountedIn(usage, rule, row)) < rule.limit
<1>1. rule.period \in {"daily", "monthly"}
  BY AiAssumption
<1>2. ASSUME NEW d \in Calls, Accepted(usage[d])
      PROVE  usage[d].day \in Nat /\ day \in Nat /\ usage[d].day <= day
  <2>1. usage[d] \in UsageRows /\ usage[d] # Nothing
    BY <1>2 DEF AiInv, AiTypeOK, Accepted
  <2>2. usage[d].day \in 0..MaxDay /\ day \in 0..MaxDay
    BY <2>1 DEF UsageRows, AiInv, AiTypeOK
  <2>3. usage[d].day <= day
    BY <2>1 DEF AiInv, CallFits
  <2> QED BY <2>2, <2>3, AiAssumption
<1>3. ASSUME NEW d \in Calls, Accepted(usage[d])
      PROVE  (usage[d].day >= WindowStart(rule)) = (rule.period = "daily" => usage[d].day = row.day)
  <2>1. CASE rule.period = "daily"
    BY <1>2, <1>3, <2>1 DEF WindowStart
  <2>2. CASE rule.period = "monthly"
    BY <1>2, <1>3, <2>2 DEF WindowStart
  <2> QED BY <1>1, <2>1, <2>2
<1>4. {d \in Calls : /\ Accepted(usage[d]) /\ usage[d].day >= WindowStart(rule)
                     /\ InScope(rule, usage[d], row.user, row.model)}
        = CountedIn(usage, rule, row)
  BY <1>3 DEF CountedIn, AcceptedIn, InScope
<1> QED BY <1>4 DEF HasCapacity, Used

LEMMA AdmitInv == ASSUME AiInv, NEW c \in Calls, Admit(c) PROVE AiInv'
<1>1. /\ calls[c].step = "admit" /\ lock = Nothing /\ c # Nothing /\ usage[c] = Nothing
      /\ calls[c].user \in Members /\ calls[c].model \in Models
  BY AiAssumption DEF Admit, Serialized, AiInv, CallFits
<1>2. CASE HasCapacity(calls[c].user, calls[c].model) /\ lock' = c /\ UNCHANGED <<calls, usage, day>> /\
           held' = [user |-> calls[c].user, model |-> calls[c].model, day |-> day,
                    place |-> Cardinality({d \in Calls : Accepted(usage[d])}), decision |-> "accepted",
                    outcome |-> "pending", category |-> Nothing, events |-> {"accepted"}]
  <2>1. PICK row : row = [user |-> calls[c].user, model |-> calls[c].model, day |-> day,
                          place |-> Cardinality(AcceptedIn(usage)), decision |-> "accepted",
                          outcome |-> "pending", category |-> Nothing, events |-> {"accepted"}]
    OBVIOUS
  <2>2. held' = row
    BY <1>2, <2>1 DEF AcceptedIn
  <2>3. Cardinality(AcceptedIn(usage)) \in 0..Cardinality(Calls)
    <3>1. AcceptedIn(usage) \in SUBSET Calls
      BY DEF AcceptedIn
    <3>2. Cardinality(AcceptedIn(usage)) \in Nat /\ Cardinality(AcceptedIn(usage)) <= Cardinality(Calls)
      BY <3>1, FS_Subset, FS_CardinalityType, AiAssumption
    <3>3. Cardinality(Calls) \in Nat
      BY AiAssumption, FS_CardinalityType
    <3> QED BY <3>2, <3>3
  <2>4. day \in 0..MaxDay /\ MaxDay \in Nat
    BY AiAssumption DEF AiInv, AiTypeOK
  <2>5. row \in UsageRows
    BY <1>1, <2>1, <2>3, <2>4 DEF UsageRows
  <2>6. \A rule \in RulesOf(row.model) : Cardinality(CountedIn(usage, rule, row)) < rule.limit
    BY <1>1, <1>2, <2>1, HasCapacityIs
  <2>7. MayJoin(usage, row)
    BY <1>1, <2>1, <2>5, <2>6 DEF MayJoin
  <2>8. row.day <= day
    BY <2>1, <2>4
  <2>9. AdmissionHolds'
    BY <1>1, <1>2, <2>2, <2>7, <2>8 DEF AdmissionHolds
  <2>10. AiTypeOK'
    BY <1>2, <2>2, <2>5 DEF AiInv, AiTypeOK
  <2>11. PlacesIn(usage)' /\ (\A d \in Calls : CallFits(calls[d], usage[d], day))'
    BY <1>2 DEF AiInv
  <2> QED BY <2>9, <2>10, <2>11 DEF AiInv
<1>3. CASE To(c, "deny", "quota_exceeded") /\ UNCHANGED <<usage, lock, held, day>>
  <2>1. PICK q \in CallStates : /\ calls' = [calls EXCEPT ![c] = q]
                                /\ q = [step |-> "deny", user |-> calls[c].user, model |-> calls[c].model,
                                        result |-> "quota_exceeded"]
    BY <1>3, ToIs DEF Categories
  <2>2. CallFits(q, usage[c], day)
    BY <1>1, <2>1 DEF CallFits, Categories
  <2> QED BY <1>1, <1>3, <2>1, <2>2, CallTurns
<1> QED BY <1>2, <1>3 DEF Admit, Same

LEMMA CommitAdmissionInv == ASSUME AiInv, NEW c \in Calls, CommitAdmission(c) PROVE AiInv'
<1>1. /\ lock = c /\ lock # Nothing /\ calls[c].step = "admit" /\ MayJoin(usage, held) /\ held.day <= day
      /\ usage[c] = Nothing /\ calls[c].user \in Members
  BY AiAssumption DEF CommitAdmission, AiInv, AdmissionHolds, CallFits
<1>2. lock' = Nothing /\ held' = Nothing /\ day' = day
  BY DEF CommitAdmission
<1>3. \E q \in CallStates :
        /\ calls' = [calls EXCEPT ![c] = q]
        /\ \/ q.step = "send" /\ usage' = [usage EXCEPT ![c] = held]
           \/ q.step = "deny" /\ q.user \in Members /\ q.result \in Categories
  <2>1. Internal \in Categories
    BY DEF Categories
  <2>2. CASE To(c, "send", Nothing) /\ usage' = [usage EXCEPT ![c] = held]
    BY <2>2, ToIs
  <2>3. CASE To(c, "deny", Internal)
    BY <1>1, <2>1, <2>3, ToIs
  <2> QED BY <2>2, <2>3 DEF CommitAdmission
<1>4. PICK q \in CallStates :
        /\ calls' = [calls EXCEPT ![c] = q]
        /\ \/ q.step = "send" /\ usage' = [usage EXCEPT ![c] = held]
           \/ q.step = "deny" /\ q.user \in Members /\ q.result \in Categories
  BY <1>3
<1>5. CASE usage' = usage
  <2>1. q.step # "send"
    <3>1. usage \in [Calls -> UsageRows \cup {Nothing}] /\ held # Nothing
      BY <1>1, NoRowIsNothing DEF AiInv, AiTypeOK, MayJoin
    <3> QED BY <1>1, <1>4, <1>5, <3>1
  <2>2. CallFits(q, usage[c], day)
    BY <1>1, <1>4, <2>1 DEF CallFits
  <2> QED BY <1>2, <1>4, <1>5, <2>2, CallTurns
<1>6. CASE usage' = [usage EXCEPT ![c] = held]
  <2>1. PICK u, row : u = usage /\ row = held
    OBVIOUS
  <2>2. /\ u \in [Calls -> UsageRows \cup {Nothing}] /\ calls \in [Calls -> CallStates] /\ day \in 0..MaxDay
        /\ row \in UsageRows /\ row # Nothing
    BY <1>1, <2>1, NoRowIsNothing DEF AiInv, AiTypeOK, CallStates, MayJoin
  <2>3. PICK v : v = [u EXCEPT ![c] = row]
    OBVIOUS
  <2>4. usage' = v
    BY <1>6, <2>1, <2>3
  <2>5. PlacesIn(v)
    BY <1>1, <2>1, <2>2, <2>3, RowJoins DEF AiInv
  <2>6. PlacesIn(usage)'
    BY <2>4, <2>5
  <2>7. v \in [Calls -> UsageRows \cup {Nothing}] /\ v[c] = row /\ \A d \in Calls \ {c} : v[d] = usage[d]
    BY <2>1, <2>2, <2>3
  <2>8. calls' \in [Calls -> CallStates] /\ calls'[c] = q /\ \A d \in Calls \ {c} : calls'[d] = calls[d]
    BY <1>4, <2>2
  <2>9. AiTypeOK'
    BY <1>2, <2>2, <2>4, <2>7, <2>8 DEF AiTypeOK, CallStates
  <2>10. AdmissionHolds'
    BY <1>2 DEF AdmissionHolds
  <2>11. CallFits(q, row, day)
    <3>1. /\ row.decision = "accepted" /\ row.outcome = "pending" /\ row.events = {"accepted"} /\ row.day <= day
      BY <1>1, <2>1 DEF MayJoin
    <3>2. row.events = EndsOf(row)
      BY <3>1 DEF EndsOf
    <3> QED BY <1>4, <2>2, <3>1, <3>2 DEF CallFits
  <2>12. ASSUME NEW d \in Calls PROVE CallFits(calls'[d], usage'[d], day')
    <3>1. CASE d = c
      BY <1>2, <2>4, <2>7, <2>8, <2>11, <3>1
    <3>2. CASE d # c
      BY <1>2, <2>4, <2>7, <2>8, <3>2 DEF AiInv
    <3> QED BY <3>1, <3>2
  <2>13. (\A d \in Calls : CallFits(calls[d], usage[d], day))'
    BY <2>12
  <2> QED BY <2>6, <2>9, <2>10, <2>13 DEF AiInv
<1> QED BY <1>5, <1>6 DEF CommitAdmission

\* A call that ends without an answer.
LEMMA AbandonInv ==
  ASSUME AiInv, NEW c \in Calls, End(c, "unavailable", Nothing), UNCHANGED <<usage, day>>,
         (UNCHANGED <<lock, held>> /\ lock # c) \/ (lock' = Nothing /\ held' = Nothing)
  PROVE  AiInv'
<1>1. PICK q \in CallStates : /\ calls' = [calls EXCEPT ![c] = q]
                              /\ q = [step |-> "unavailable", user |-> Nothing, model |-> Nothing, result |-> Nothing]
  BY EndIs DEF Ended
<1>2. CallFits(q, usage[c], day)
  BY <1>1 DEF AiInv, CallFits
<1> QED BY <1>1, <1>2, CallTurns

\* A call that goes on to be recorded as failed.
LEMMA FailLaterInv ==
  ASSUME AiInv, NEW c \in Calls, NEW result \in Categories, To(c, "fail", result),
         UNCHANGED <<usage, lock, held, day>>, lock # c
  PROVE  AiInv'
<1>1. PICK q \in CallStates : /\ calls' = [calls EXCEPT ![c] = q]
                              /\ q = [step |-> "fail", user |-> calls[c].user, model |-> calls[c].model, result |-> result]
  BY ToIs
<1>2. CallFits(q, usage[c], day)
  BY <1>1 DEF AiInv, CallFits
<1> QED BY <1>1, <1>2, CallTurns

LEMMA DenyInv == ASSUME AiInv, NEW c \in Calls, Deny(c) PROVE AiInv'
<1>1. /\ calls[c].step = "deny" /\ lock = Nothing /\ lock # c /\ UNCHANGED <<lock, held, day>>
      /\ calls[c].user \in Members /\ calls[c].result \in Categories
  BY OthersHoldTheLock DEF Deny, Serialized, AiInv, CallFits
<1>2. PICK row : row = [user |-> calls[c].user, model |-> calls[c].model, day |-> day, place |-> 0,
                        decision |-> "denied", outcome |-> "denied", category |-> calls[c].result,
                        events |-> {"denied"}]
  OBVIOUS
<1>3. CASE usage' = usage /\ End(c, "unavailable", Nothing)
  BY <1>1, <1>3, AbandonInv
<1>4. CASE /\ ~HasUsageRow(c) /\ usage' = [usage EXCEPT ![c] = row]
           /\ End(c, "refused", calls[c].result) \/ End(c, "unavailable", Nothing)
  <2>1. \E q \in CallStates : /\ calls' = [calls EXCEPT ![c] = q]
                              /\ (q.step = "refused" /\ q.result = calls[c].result) \/ q.step = "unavailable"
    BY <1>1, <1>4, EndIs DEF Ended
  <2>2. PICK q \in CallStates : /\ calls' = [calls EXCEPT ![c] = q]
                                /\ (q.step = "refused" /\ q.result = calls[c].result) \/ q.step = "unavailable"
    BY <2>1
  <2>3. calls \in [Calls -> CallStates] /\ day \in 0..MaxDay /\ Cardinality(Calls) \in Nat /\ MaxDay \in Nat
    BY AiAssumption, FS_CardinalityType DEF AiInv, AiTypeOK, CallStates
  <2>4. calls[c].model \in Models \cup {Nothing} /\ 0 \in 0..Cardinality(Calls)
    BY <2>3 DEF CallStates
  <2>5. row \in UsageRows
    BY <1>1, <1>2, <2>3, <2>4 DEF UsageRows
  <2>6. ~Accepted(row) /\ ~Accepted(usage[c]) /\ row # Nothing
    BY <1>2, <1>4, <2>5, NoRowIsNothing DEF Accepted, HasUsageRow
  <2>7. CallFits(q, row, day)
    BY <1>2, <2>2, <2>3, <2>6 DEF CallFits, EndsOf
  <2>8. Accepted(row) = Accepted(usage[c])
    BY <2>6 DEF Accepted
  <2> QED BY <1>1, <1>4, <2>2, <2>5, <2>6, <2>7, <2>8, CallMoves
<1> QED BY <1>2, <1>3, <1>4 DEF Deny

LEMMA SendInv == ASSUME AiInv, NEW c \in Calls, Send(c) PROVE AiInv'
<1>1. /\ calls[c].step = "send" /\ lock # c /\ UNCHANGED <<usage, lock, held, day>>
  BY OthersHoldTheLock DEF Send, Same
<1>2. CASE To(c, "sent", Nothing)
  <2>1. PICK q \in CallStates : /\ calls' = [calls EXCEPT ![c] = q]
                                /\ q = [step |-> "sent", user |-> calls[c].user, model |-> calls[c].model, result |-> Nothing]
    BY <1>2, ToIs
  <2>2. CallFits(q, usage[c], day)
    BY <1>1, <2>1 DEF AiInv, CallFits
  <2> QED BY <1>1, <2>1, <2>2, CallTurns
<1>3. CASE To(c, "fail", "provider_unavailable")
  BY <1>1, <1>3, FailLaterInv DEF Categories
<1> QED BY <1>2, <1>3 DEF Send

LEMMA ProvidedInv == ASSUME AiInv, NEW c \in Calls, Provided(c) PROVE AiInv'
<1>1. /\ calls[c].step = "sent" /\ lock # c /\ UNCHANGED <<usage, lock, held, day>>
  BY OthersHoldTheLock DEF Provided, Same
<1>2. PICK r \in Responses : To(c, r.step, r.result)
  BY DEF Provided
<1>3. CASE r.step = "settle" /\ r.result \in Statuses
  <2>1. PICK q \in CallStates : /\ calls' = [calls EXCEPT ![c] = q]
                                /\ q = [step |-> "settle", user |-> calls[c].user, model |-> calls[c].model,
                                        result |-> r.result]
    BY <1>2, <1>3, ToIs
  <2>2. CallFits(q, usage[c], day)
    BY <1>1, <1>3, <2>1 DEF AiInv, CallFits
  <2> QED BY <1>1, <2>1, <2>2, CallTurns
<1>4. CASE r.step = "fail" /\ r.result \in Failures
  BY <1>1, <1>2, <1>4, FailLaterInv DEF Categories
<1> QED BY <1>2, <1>3, <1>4 DEF Responses

\* A row as its call's end leaves it.
EndedRow(row, outcome, category, event) ==
  [[[row EXCEPT !.outcome = outcome] EXCEPT !.category = category] EXCEPT !.events = @ \cup {event}]

LEMMA FinishedIs ==
  ASSUME AiInv, NEW c \in Calls, PendingUsage(c), NEW outcome \in Statuses \cup {"failed"},
         NEW category \in Categories \cup {Nothing}, NEW event \in {"completed", "failed"},
         NEW r, r = EndedRow(usage[c], outcome, category, event)
  PROVE  /\ r \in UsageRows /\ Finished(c, outcome, category, event) = [usage EXCEPT ![c] = r]
         /\ r.user = usage[c].user /\ r.model = usage[c].model /\ r.day = usage[c].day
         /\ r.place = usage[c].place /\ r.decision = usage[c].decision
         /\ r.outcome = outcome /\ r.category = category /\ r.events = usage[c].events \cup {event}
<1>1. usage \in [Calls -> UsageRows \cup {Nothing}] /\ usage[c] # Nothing
  BY DEF AiInv, AiTypeOK, PendingUsage
<1>2. PICK row \in UsageRows : row = usage[c]
  BY <1>1
<1>3. PICK f : f = [usage EXCEPT ![c].outcome = outcome]
  OBVIOUS
<1>4. PICK g : g = [f EXCEPT ![c].category = category]
  OBVIOUS
<1>5. Finished(c, outcome, category, event) = [g EXCEPT ![c].events = @ \cup {event}]
  BY <1>3, <1>4 DEF Finished
<1>6. PICK one : one = [row EXCEPT !.outcome = outcome]
  OBVIOUS
<1>7. PICK two : two = [one EXCEPT !.category = category]
  OBVIOUS
<1>8. r = [two EXCEPT !.events = @ \cup {event}]
  BY <1>2, <1>6, <1>7 DEF EndedRow
<1>9. one \in UsageRows /\ two \in UsageRows
  BY <1>2, <1>6, <1>7 DEF UsageRows
<1>10. /\ one.user = row.user /\ one.model = row.model /\ one.day = row.day /\ one.place = row.place
       /\ one.decision = row.decision /\ one.events = row.events /\ one.outcome = outcome
  BY <1>2, <1>6 DEF UsageRows
<1>11. /\ two.user = row.user /\ two.model = row.model /\ two.day = row.day /\ two.place = row.place
       /\ two.decision = row.decision /\ two.events = row.events /\ two.outcome = outcome /\ two.category = category
  BY <1>7, <1>9, <1>10 DEF UsageRows
<1>12. /\ r.user = row.user /\ r.model = row.model /\ r.day = row.day /\ r.place = row.place
       /\ r.decision = row.decision /\ r.events = row.events \cup {event} /\ r.outcome = outcome /\ r.category = category
  BY <1>8, <1>9, <1>11 DEF UsageRows
<1>13. r \in UsageRows
  BY <1>8, <1>9 DEF UsageRows
<1>14. f = [usage EXCEPT ![c] = one]
  BY <1>2, <1>3, <1>6
<1>15. f[c] = one /\ f \in [Calls -> UsageRows \cup {Nothing}]
  BY <1>1, <1>9, <1>14
<1>16. g = [f EXCEPT ![c] = two]
  BY <1>4, <1>7, <1>15
<1>17. g = [usage EXCEPT ![c] = two]
  BY <1>1, <1>14, <1>16
<1>18. g[c] = two
  BY <1>1, <1>17
<1>19. Finished(c, outcome, category, event) = [g EXCEPT ![c] = r]
  BY <1>5, <1>8, <1>18
<1>20. Finished(c, outcome, category, event) = [usage EXCEPT ![c] = r]
  BY <1>1, <1>17, <1>19
<1> QED BY <1>2, <1>12, <1>13, <1>20

\* A pending row ends once: what a quota sees of it stays.
LEMMA FinishInv ==
  ASSUME AiInv, NEW c \in Calls, UnsettledYet(c), lock # c, UNCHANGED <<lock, held, day>>,
         NEW outcome \in Statuses \cup {"failed"}, NEW category \in Categories \cup {Nothing}, NEW event,
         event = IF outcome = "failed" THEN "failed" ELSE "completed",
         usage' = Finished(c, outcome, category, event),
         NEW q \in CallStates, calls' = [calls EXCEPT ![c] = q],
         \/ q.step = "answered" /\ q.result = outcome
         \/ q.step = "refused" /\ q.result = category
         \/ q.step = "fail" /\ q.result \in Categories
         \/ q.step = "unavailable"
  PROVE  AiInv'
<1>1. PendingUsage(c) /\ event \in {"completed", "failed"}
  BY DEF UnsettledYet
<1>2. PICK e \in {"completed", "failed"} : e = event
  BY <1>1
<1>3. PICK r : r = EndedRow(usage[c], outcome, category, e)
  OBVIOUS
<1>4. /\ r \in UsageRows /\ Finished(c, outcome, category, e) = [usage EXCEPT ![c] = r]
      /\ r.user = usage[c].user /\ r.model = usage[c].model /\ r.day = usage[c].day
      /\ r.place = usage[c].place /\ r.decision = usage[c].decision
      /\ r.outcome = outcome /\ r.category = category /\ r.events = usage[c].events \cup {e}
  BY <1>1, <1>3, FinishedIs
<1>5. usage' = [usage EXCEPT ![c] = r]
  BY <1>2, <1>4
<1>6. r # Nothing /\ usage[c] # Nothing /\ usage[c].outcome = "pending"
  BY <1>1, <1>4, NoRowIsNothing DEF PendingUsage
<1>7. Accepted(r) = Accepted(usage[c])
  BY <1>4, <1>6 DEF Accepted
<1>8. outcome \notin {"pending", "denied"}
  BY AiAssumption
<1>9. usage[c].events = EndsOf(usage[c]) /\ usage[c].day <= day /\ usage[c].decision # "denied"
  BY <1>6 DEF AiInv, CallFits
<1>10. r.events = EndsOf(r)
  BY <1>2, <1>4, <1>6, <1>8, <1>9 DEF EndsOf
<1>11. CallFits(q, r, day)
  BY <1>4, <1>6, <1>8, <1>9, <1>10 DEF CallFits
<1> QED BY <1>4, <1>5, <1>7, <1>11, CallMoves

LEMMA SettleInv == ASSUME AiInv, NEW c \in Calls, Settle(c) PROVE AiInv'
<1>1. /\ calls[c].step = "settle" /\ lock # c /\ UNCHANGED <<lock, held, day>>
      /\ calls[c].result \in Statuses /\ Internal \in Categories
  BY OthersHoldTheLock DEF Settle, AiInv, CallFits, Categories
<1>2. CASE usage' = usage /\ To(c, "fail", Internal)
  BY <1>1, <1>2, FailLaterInv
<1>3. CASE /\ UnsettledYet(c) /\ usage' = Finished(c, calls[c].result, Nothing, "completed")
           /\ End(c, "answered", calls[c].result) \/ To(c, "fail", Internal)
  <2>1. PICK outcome \in Statuses : outcome = calls[c].result /\ outcome # "failed"
    BY <1>1, AiAssumption
  <2>2. \E q \in CallStates :
          /\ calls' = [calls EXCEPT ![c] = q]
          /\ (q.step = "answered" /\ q.result = outcome) \/ (q.step = "fail" /\ q.result \in Categories)
    <3>1. CASE End(c, "answered", calls[c].result)
      BY <2>1, <3>1, EndIs DEF Ended
    <3>2. CASE To(c, "fail", Internal)
      BY <1>1, <3>2, ToIs
    <3> QED BY <1>3, <3>1, <3>2
  <2>3. PICK q \in CallStates :
          /\ calls' = [calls EXCEPT ![c] = q]
          /\ (q.step = "answered" /\ q.result = outcome) \/ (q.step = "fail" /\ q.result \in Categories)
    BY <2>2
  <2>4. usage' = Finished(c, outcome, Nothing, "completed")
    BY <1>3, <2>1
  <2> QED BY <1>1, <1>3, <2>1, <2>3, <2>4, FinishInv
<1> QED BY <1>2, <1>3 DEF Settle

LEMMA FailInv == ASSUME AiInv, NEW c \in Calls, Fail(c) PROVE AiInv'
<1>1. /\ calls[c].step = "fail" /\ lock # c /\ UNCHANGED <<lock, held, day>>
      /\ calls[c].result \in Categories
  BY OthersHoldTheLock DEF Fail, AiInv, CallFits
<1>2. CASE usage' = usage /\ End(c, "unavailable", Nothing)
  BY <1>1, <1>2, AbandonInv
<1>3. CASE /\ UnsettledYet(c) /\ usage' = Finished(c, "failed", calls[c].result, "failed")
           /\ End(c, "refused", calls[c].result) \/ End(c, "unavailable", Nothing)
  <2>1. PICK category \in Categories : category = calls[c].result
    BY <1>1
  <2>2. \E q \in CallStates :
          /\ calls' = [calls EXCEPT ![c] = q]
          /\ (q.step = "refused" /\ q.result = category) \/ q.step = "unavailable"
    BY <1>3, <2>1, EndIs DEF Ended
  <2>3. PICK q \in CallStates :
          /\ calls' = [calls EXCEPT ![c] = q]
          /\ (q.step = "refused" /\ q.result = category) \/ q.step = "unavailable"
    BY <2>2
  <2>4. usage' = Finished(c, "failed", category, "failed")
    BY <1>3, <2>1
  <2> QED BY <1>1, <1>3, <2>3, <2>4, FinishInv
<1> QED BY <1>2, <1>3 DEF Fail

LEMMA DieInv == ASSUME AiInv, NEW c \in Calls, Die(c) PROVE AiInv'
<1>1. End(c, "unavailable", Nothing) /\ UNCHANGED <<usage, day>>
  BY DEF Die
<1>2. (UNCHANGED <<lock, held>> /\ lock # c) \/ (lock' = Nothing /\ held' = Nothing)
  BY DEF Die
<1> QED BY <1>1, <1>2, AbandonInv

LEMMA NewDayInv == ASSUME AiInv, NewDay PROVE AiInv'
<1>1. day < MaxDay /\ day' = day + 1 /\ UNCHANGED <<calls, usage, lock, held>> /\ day \in 0..MaxDay /\ MaxDay \in Nat
  BY AiAssumption DEF NewDay, AiInv, AiTypeOK
<1>2. day' \in 0..MaxDay /\ \A n \in 0..MaxDay : n <= day => n <= day'
  BY <1>1
<1>3. AiTypeOK'
  BY <1>1, <1>2 DEF AiInv, AiTypeOK
<1>4. AdmissionHolds'
  <2>1. \A r \in UsageRows : r.day \in 0..MaxDay
    BY DEF UsageRows
  <2> QED BY <1>1, <1>2, <2>1 DEF AiInv, AdmissionHolds, MayJoin
<1>5. ASSUME NEW c \in Calls PROVE CallFits(calls[c], usage[c], day')
  <2>1. usage[c] # Nothing => usage[c].day \in 0..MaxDay
    BY DEF AiInv, AiTypeOK, UsageRows
  <2>2. CallFits(calls[c], usage[c], day)
    BY DEF AiInv
  <2>3. usage[c] # Nothing => usage[c].day <= day'
    BY <1>2, <2>1, <2>2 DEF CallFits
  <2> QED BY <2>2, <2>3 DEF CallFits
<1>6. (\A c \in Calls : CallFits(calls[c], usage[c], day))'
  BY <1>1, <1>5
<1> QED BY <1>1, <1>3, <1>4, <1>6 DEF AiInv

LEMMA AiStepInv == AiInv /\ [AiNext]_aiVars => AiInv'
<1> SUFFICES ASSUME AiInv, [AiNext]_aiVars PROVE AiInv'
  OBVIOUS
<1>1. CASE UNCHANGED aiVars
  BY <1>1 DEF aiVars, AiInv, AiTypeOK, AdmissionHolds
<1> QED BY <1>1, GenerateInv, AdmitInv, CommitAdmissionInv, DenyInv, SendInv, ProvidedInv, SettleInv, FailInv,
           DieInv, NewDayInv DEF AiNext

\* However calls overlap, fail and die, each admitted row is within every rule
\* of its model's policy, and what a caller was told is what its row says.
THEOREM CallsAreAccounted == AiSpec => []CallsAccounted
<1>1. AiInit => AiInv
  BY AiInitInv
<1>2. AiInv /\ [AiNext]_aiVars => AiInv'
  BY AiStepInv
<1>3. ASSUME AiInv PROVE AdmittedWithinQuota
  <2> SUFFICES ASSUME NEW c \in Calls, Accepted(usage[c]), NEW rule \in RulesOf(usage[c].model)
               PROVE  Cardinality({d \in Calls :
                        /\ usage[d] # Nothing /\ usage[d].decision = "accepted" /\ usage[d].place <= usage[c].place
                        /\ rule.period = "daily" => usage[d].day = usage[c].day
                        /\ rule.scope = "user" => usage[d].user = usage[c].user
                        /\ rule.scope = "model" => usage[d].model = usage[c].model
                        /\ rule.scope = "provider" =>
                             ProviderOf(usage[d].model) = ProviderOf(usage[c].model)}) <= rule.limit
    BY DEF AdmittedWithinQuota, Accepted
  <2>1. {d \in Calls :
           /\ usage[d] # Nothing /\ usage[d].decision = "accepted" /\ usage[d].place <= usage[c].place
           /\ rule.period = "daily" => usage[d].day = usage[c].day
           /\ rule.scope = "user" => usage[d].user = usage[c].user
           /\ rule.scope = "model" => usage[d].model = usage[c].model
           /\ rule.scope = "provider" => ProviderOf(usage[d].model) = ProviderOf(usage[c].model)}
          = BeforeIn(usage, rule, usage[c])
    BY DEF BeforeIn, CountedIn, AcceptedIn, Accepted
  <2>2. c \in AcceptedIn(usage)
    BY DEF AcceptedIn
  <2> QED BY <1>3, <2>1, <2>2 DEF AiInv, PlacesIn
<1>4. AiInv => AnswersMatchRecords
  BY DEF AiInv, CallFits, AnswersMatchRecords, PendingUsage
<1>5. AiInv => CallsAccounted
  BY <1>3, <1>4 DEF CallsAccounted
<1> QED BY <1>1, <1>2, <1>5, PTL DEF AiSpec

--------------------------------------------------------------------------------
(* The development tools: the inductive invariant.                          *)

RecordedOf(u) == {found \in (IF staffRole = NoRole THEN {} ELSE staffRole.restores) : found[1] = u}

\* A membership nobody disputed is as it would be without the tool, or active
\* and recorded with just that.
RecordHolds ==
  \A u \in Units \ disputed :
    IF RecordedOf(u) = {} THEN membership[u] = before[u]
    ELSE membership[u] = "active" /\ RecordedOf(u) = {<<u, before[u]>>}

\* A dry run's report is of this revision only while it shows this authority.
ReportHolds ==
  report # NoReport =>
    /\ report.operation \in {"add", "cleanup"} /\ report.revision \in 0..toolRevision
    /\ report.revision = toolRevision => report.access = Access

\* A group of the tool has had oneself in it from the start.
TeamHolds == \A u \in Units : (team[u].group = "missing") = (team[u].groupMember = "missing")

ToolsInv == ToolsTypeOK /\ RecordHolds /\ ReportHolds /\ TeamHolds

LEMMA ToolsInitInv == ToolsInit => ToolsInv
<1> SUFFICES ASSUME ToolsInit PROVE ToolsInv
  OBVIOUS
<1>1. principal \in Membership /\ membership \in [Units -> Membership]
  <2>1. principal \in {"missing", "active"}
        /\ membership \in [Units -> {"missing", IF principal = "missing" THEN "missing" ELSE "inactive"}]
    BY DEF ToolsInit
  <2> QED BY <2>1 DEF Membership
<1>2. team \in [Units -> Team] /\ TeamHolds
  BY DEF ToolsInit, Team, Membership, TeamHolds
<1>3. geo \in [role : Membership, other : BOOLEAN, assigned : Membership]
  BY DEF ToolsInit, Membership
<1>4. jordan \in [managed : BOOLEAN, fixture : {"absent", "own", "altered"}, units : SUBSET Units]
  BY DEF ToolsInit
<1>5. /\ before \in [Units -> Membership] /\ disputed \in SUBSET Units /\ staffRole = NoRole
      /\ before = membership /\ report = NoReport
      /\ catalog \in [Services -> {"absent", "seeded", "other"}]
  BY <1>1 DEF ToolsInit
<1>6. toolRevision \in 0..MaxToolRevision /\ handEdits \in 0..MaxHandEdits
  BY ToolsAssumption DEF ToolsInit
<1>7. RecordHolds /\ ReportHolds
  BY <1>5 DEF RecordHolds, RecordedOf, ReportHolds
<1> QED BY <1>1, <1>2, <1>3, <1>4, <1>5, <1>6, <1>7 DEF ToolsInv, ToolsTypeOK

\* A transaction that changes authority outdates every report.
LEMMA ReportKept ==
  ASSUME ToolsInv, Advances, UNCHANGED report
  PROVE  ReportHolds' /\ toolRevision' \in 0..MaxToolRevision
<1>1. toolRevision \in 0..MaxToolRevision /\ MaxToolRevision \in Nat
  BY ToolsAssumption DEF ToolsInv, ToolsTypeOK
<1>2. CASE Access' = Access /\ toolRevision' = toolRevision
  BY <1>1, <1>2 DEF ToolsInv, ReportHolds
<1>3. CASE Access' # Access /\ toolRevision' = toolRevision + 1
  BY <1>1, <1>3 DEF Advances, ToolsInv, ReportHolds
<1>4. (Access' = Access /\ toolRevision' = toolRevision) \/ (Access' # Access /\ toolRevision' = toolRevision + 1)
  <2>1. CASE Access' = Access
    BY <1>1, <2>1 DEF Advances
  <2>2. CASE Access' # Access
    BY <1>1, <2>2 DEF Advances
  <2> QED BY <2>1, <2>2
<1> QED BY <1>2, <1>3, <1>4

\* What a step with its own record of one's permissions has to show.
LEMMA StaffStep ==
  ASSUME ToolsInv, Advances, UNCHANGED <<report, team, geo, jordan, catalog, handEdits>>,
         principal' \in Membership, membership' \in [Units -> Membership], before' \in [Units -> Membership],
         disputed' \in SUBSET Units, staffRole' \in StaffRole \cup {NoRole}, RecordHolds'
  PROVE  ToolsInv'
BY ReportKept DEF ToolsInv, ToolsTypeOK, TeamHolds

LEMMA OtherStep ==
  ASSUME ToolsInv, Advances, UNCHANGED <<report, membership, before, disputed, staffRole>>,
         principal' \in Membership, team' \in [Units -> Team], TeamHolds',
         geo' \in [role : Membership, other : BOOLEAN, assigned : Membership],
         jordan' \in [managed : BOOLEAN, fixture : {"absent", "own", "altered"}, units : SUBSET Units],
         catalog' \in [Services -> {"absent", "seeded", "other"}], handEdits' \in 0..MaxHandEdits
  PROVE  ToolsInv'
<1>1. RecordHolds'
  BY DEF ToolsInv, RecordHolds, RecordedOf
<1> QED BY <1>1, ReportKept DEF ToolsInv, ToolsTypeOK

LEMMA GivenIs ==
  ASSUME ToolsInv, NEW units \in SUBSET Units
  PROVE  /\ Given(units) \subseteq Units /\ \A u \in Given(units) : membership[u] \in {"missing", "inactive"}
         /\ Found(units) \subseteq Units \X {"missing", "inactive"}
<1>1. Given(units) \subseteq Units /\ \A u \in Given(units) : membership[u] \in {"missing", "inactive"}
  BY ToolsAssumption DEF Given, ToolsInv, ToolsTypeOK, Membership
<1> QED BY <1>1 DEF Found

LEMMA ProvisionStaffInv ==
  ASSUME ToolsInv, NEW permissions \in SUBSET Grantable, NEW units \in SUBSET Units,
         ProvisionStaff(units, permissions)
  PROVE  ToolsInv'
<1>1. PICK role : role = IF staffRole = NoRole THEN NewRole ELSE staffRole
  OBVIOUS
<1>2. /\ staffRole' = [role EXCEPT !.grants = @ \cup permissions, !.assigned = "active",
                                   !.permissions = @ \cup permissions, !.restores = @ \cup Found(units)]
      /\ membership' = [u \in Units |-> IF u \in Given(units) THEN "active" ELSE membership[u]]
      /\ UNCHANGED <<principal, before, disputed, team, geo, jordan, report, catalog, handEdits>> /\ Advances
  BY <1>1 DEF ProvisionStaff
<1>3. NewRole \in StaffRole /\ NewRole.restores = {}
  BY DEF NewRole, StaffRole, Membership
<1>4. role \in StaffRole /\ role.restores = (IF staffRole = NoRole THEN {} ELSE staffRole.restores)
  BY <1>1, <1>3 DEF ToolsInv, ToolsTypeOK
<1>5. Found(units) \in SUBSET (Units \X {"missing", "inactive"}) /\ Given(units) \subseteq Units
  BY GivenIs
<1>6. staffRole' \in StaffRole /\ staffRole'.restores = role.restores \cup Found(units)
  BY <1>2, <1>4, <1>5 DEF StaffRole, Membership
<1>7. staffRole' # NoRole
  BY <1>6, NoRoleIsNone
<1>8. membership \in [Units -> Membership] /\ membership' \in [Units -> Membership]
  BY <1>2 DEF ToolsInv, ToolsTypeOK, Membership
<1>9. RecordHolds'
  <2> SUFFICES ASSUME NEW u \in Units \ disputed
               PROVE  IF {found \in staffRole'.restores : found[1] = u} = {} THEN membership'[u] = before[u]
                      ELSE /\ membership'[u] = "active"
                           /\ {found \in staffRole'.restores : found[1] = u} = {<<u, before[u]>>}
    BY <1>2, <1>7 DEF RecordHolds, RecordedOf
  <2>1. {found \in staffRole'.restores : found[1] = u} = RecordedOf(u) \cup {found \in Found(units) : found[1] = u}
    BY <1>4, <1>6 DEF RecordedOf
  <2>2. IF RecordedOf(u) = {} THEN membership[u] = before[u]
        ELSE membership[u] = "active" /\ RecordedOf(u) = {<<u, before[u]>>}
    BY DEF ToolsInv, RecordHolds
  <2>3. CASE u \in Given(units)
    <3>1. membership[u] # "active" /\ membership'[u] = "active"
      BY <1>2, <2>3 DEF Given
    <3>2. RecordedOf(u) = {} /\ membership[u] = before[u]
      BY <2>2, <3>1
    <3>3. {found \in Found(units) : found[1] = u} = {<<u, membership[u]>>}
      BY <2>3 DEF Found
    <3> QED BY <2>1, <3>1, <3>2, <3>3
  <2>4. CASE u \notin Given(units)
    <3>1. {found \in Found(units) : found[1] = u} = {}
      BY <2>4 DEF Found
    <3>2. membership'[u] = membership[u]
      BY <1>2, <2>4
    <3> QED BY <2>1, <2>2, <3>1, <3>2
  <2> QED BY <2>3, <2>4
<1>10. /\ principal' \in Membership /\ before' \in [Units -> Membership] /\ disputed' \in SUBSET Units
  BY <1>2 DEF ToolsInv, ToolsTypeOK
<1> QED BY <1>2, <1>6, <1>8, <1>9, <1>10, StaffStep

LEMMA DeprovisionStaffInv ==
  ASSUME ToolsInv, NEW permissions \in SUBSET Grantable, DeprovisionStaff(permissions)
  PROVE  ToolsInv'
<1>1. PICK left, role : left = staffRole.permissions \ permissions
                        /\ role = [staffRole EXCEPT !.grants = left, !.permissions = left]
  OBVIOUS
<1>2. /\ staffRole # NoRole
      /\ IF left # {}
         THEN staffRole' = role /\ UNCHANGED <<membership, before, disputed>>
         ELSE /\ staffRole' = [role EXCEPT !.restores = {}, !.assigned = "inactive"]
              /\ membership' = Restored(staffRole.restores)
              /\ before' = [u \in Units |-> IF u \in disputed THEN membership'[u] ELSE before[u]]
              /\ disputed' = {}
      /\ UNCHANGED <<principal, team, geo, jordan, report, catalog, handEdits>> /\ Advances
  BY <1>1 DEF DeprovisionStaff
<1>3. staffRole \in StaffRole
  BY <1>2 DEF ToolsInv, ToolsTypeOK
<1>4. left \in SUBSET Grantable
  BY <1>1, <1>3 DEF StaffRole
<1>5. role \in StaffRole /\ role.restores = staffRole.restores
  BY <1>1, <1>3, <1>4 DEF StaffRole
<1>6. principal' \in Membership
  BY <1>2 DEF ToolsInv, ToolsTypeOK
<1>7. CASE left # {}
  <2>1. staffRole' = role /\ UNCHANGED <<membership, before, disputed>> /\ staffRole' # NoRole
    BY <1>2, <1>5, <1>7, NoRoleIsNone
  <2>2. RecordHolds'
    BY <1>2, <1>5, <2>1 DEF ToolsInv, RecordHolds, RecordedOf
  <2> QED BY <1>2, <1>5, <1>6, <2>1, <2>2, StaffStep DEF ToolsInv, ToolsTypeOK
<1>8. CASE left = {}
  <2>1. /\ staffRole' = [role EXCEPT !.restores = {}, !.assigned = "inactive"]
        /\ membership' = Restored(staffRole.restores)
        /\ before' = [u \in Units |-> IF u \in disputed THEN membership'[u] ELSE before[u]]
        /\ disputed' = {}
    BY <1>2, <1>8
  <2>2. staffRole' \in StaffRole /\ staffRole'.restores = {}
    BY <1>5, <2>1 DEF StaffRole, Membership
  <2>3. membership \in [Units -> Membership] /\ before \in [Units -> Membership]
    BY DEF ToolsInv, ToolsTypeOK
  <2>4. membership' \in [Units -> Membership]
    BY <2>1, <2>3 DEF Restored, Membership
  <2>5. before' \in [Units -> Membership]
    BY <2>1, <2>3, <2>4
  <2>6. ASSUME NEW u \in Units PROVE membership'[u] = before'[u]
    <3>1. CASE u \in disputed
      BY <2>1, <3>1
    <3>2. CASE u \notin disputed
      <4>1. before'[u] = before[u]
        BY <2>1, <3>2
      <4>2. RecordedOf(u) = {found \in staffRole.restores : found[1] = u}
        BY <1>2 DEF RecordedOf
      <4>3. IF RecordedOf(u) = {} THEN membership[u] = before[u]
            ELSE membership[u] = "active" /\ RecordedOf(u) = {<<u, before[u]>>}
        BY <3>2 DEF ToolsInv, RecordHolds
      <4>4. membership'[u] = IF <<u, "missing">> \in staffRole.restores THEN "missing"
                             ELSE IF <<u, "inactive">> \in staffRole.restores /\ membership[u] # "missing" THEN "inactive"
                             ELSE membership[u]
        BY <2>1 DEF Restored
      <4>5. CASE RecordedOf(u) = {}
        BY <4>1, <4>2, <4>3, <4>4, <4>5
      <4>6. CASE RecordedOf(u) # {}
        <5>1. membership[u] = "active" /\ RecordedOf(u) = {<<u, before[u]>>}
          BY <4>3, <4>6
        <5>2. \A x : <<u, x>> \in staffRole.restores <=> x = before[u]
          BY <4>2, <5>1
        <5>3. before[u] \in {"missing", "inactive"}
          <6>1. staffRole.restores \in SUBSET (Units \X {"missing", "inactive"})
            BY <1>3 DEF StaffRole
          <6>2. <<u, before[u]>> \in Units \X {"missing", "inactive"}
            BY <5>2, <6>1
          <6> QED BY <6>2
        <5> QED BY <4>1, <4>4, <5>1, <5>2, <5>3
      <4> QED BY <4>5, <4>6
    <3> QED BY <3>1, <3>2
  <2>7. RecordHolds'
    BY <2>2, <2>6 DEF RecordHolds, RecordedOf
  <2> QED BY <1>2, <1>6, <2>1, <2>2, <2>4, <2>5, <2>7, StaffStep
<1> QED BY <1>7, <1>8

LEMMA SetUpIs ==
  ASSUME ToolsInv, NEW u \in Units, SetUpTargets(u)
  PROVE  /\ team' \in [Units -> Team] /\ TeamHolds'
         /\ \A x \in Units : team[x].roleMember = "inactive" => team'[x] = team[x]
         /\ \A x \in Units : team[x].groupMember = "inactive" => team'[x].groupMember = "inactive"
<1>1. team \in [Units -> Team] /\ TeamHolds /\ team[u].roleMember # "inactive"
  BY DEF ToolsInv, ToolsTypeOK, SetUpTargets
<1>2. PICK first : first = [team EXCEPT ![u].role = "active"]
  OBVIOUS
<1>3. PICK joined : joined = [first EXCEPT ![u].roleMember = "active"]
  OBVIOUS
<1>4. first \in [Units -> Team] /\ first[u].group = team[u].group /\ first[u].groupMember = team[u].groupMember
      /\ \A x \in Units \ {u} : first[x] = team[x]
  BY <1>1, <1>2 DEF Team, Membership
<1>5. joined \in [Units -> Team] /\ joined[u].group = team[u].group /\ joined[u].groupMember = team[u].groupMember
      /\ \A x \in Units \ {u} : joined[x] = team[x]
  BY <1>3, <1>4 DEF Team, Membership
<1>6. \/ /\ team[u].group = "missing"
         /\ team' = [joined EXCEPT ![u].group = "active", ![u].groupMember = "active"]
      \/ \E g \in {g \in {u, DepartmentOf[u]} : team[g].group = "active"} :
           team[g].groupMember # "inactive" /\ team' = [joined EXCEPT ![g].groupMember = "active"]
  BY <1>2, <1>3 DEF SetUpTargets
<1>7. CASE team[u].group = "missing" /\ team' = [joined EXCEPT ![u].group = "active", ![u].groupMember = "active"]
  <2>1. PICK grouped : grouped = [joined EXCEPT ![u].group = "active"]
    OBVIOUS
  <2>2. team' = [grouped EXCEPT ![u].groupMember = "active"]
    BY <1>7, <2>1
  <2>3. grouped \in [Units -> Team] /\ grouped[u].group = "active" /\ \A x \in Units \ {u} : grouped[x] = team[x]
    BY <1>5, <2>1 DEF Team, Membership
  <2>4. /\ team' \in [Units -> Team] /\ team'[u].group = "active" /\ team'[u].groupMember = "active"
        /\ \A x \in Units \ {u} : team'[x] = team[x]
    BY <2>2, <2>3 DEF Team, Membership
  <2>5. team[u].groupMember = "missing"
    BY <1>1, <1>7 DEF TeamHolds
  <2>6. TeamHolds'
    BY <1>1, <2>4 DEF TeamHolds
  <2> QED BY <1>1, <2>4, <2>5, <2>6
<1>8. ASSUME NEW g \in {u, DepartmentOf[u]}, team[g].group = "active", team[g].groupMember # "inactive",
             team' = [joined EXCEPT ![g].groupMember = "active"]
      PROVE  /\ team' \in [Units -> Team] /\ TeamHolds'
             /\ \A x \in Units : team[x].roleMember = "inactive" => team'[x] = team[x]
             /\ \A x \in Units : team[x].groupMember = "inactive" => team'[x].groupMember = "inactive"
  <2>1. g \in Units
    BY <1>8, ToolsAssumption
  <2>2. team[g].groupMember = "active"
    <3>1. team[g] \in Team
      BY <1>1, <2>1
    <3>2. team[g].groupMember \in {"missing", "inactive", "active"}
      BY <3>1 DEF Team, Membership
    <3>3. team[g].groupMember # "missing"
      BY <1>1, <1>8, <2>1 DEF TeamHolds
    <3> QED BY <1>8, <3>2, <3>3
  <2>3. joined[g].groupMember = "active" /\ joined[g] \in Team
    BY <1>5, <2>1, <2>2
  <2>4. [joined[g] EXCEPT !.groupMember = "active"] = joined[g]
    BY <2>3 DEF Team
  <2>5. team' = [joined EXCEPT ![g] = joined[g]]
    BY <1>8, <2>4
  <2>6. team' = joined
    BY <1>5, <2>1, <2>5
  <2>7. TeamHolds'
    BY <1>1, <1>5, <2>6 DEF TeamHolds
  <2> QED BY <1>1, <1>5, <2>6, <2>7
<1> QED BY <1>6, <1>7, <1>8

LEMMA SetUpTargetsInv == ASSUME ToolsInv, NEW u \in Units, SetUpTargets(u) PROVE ToolsInv'
<1>1. UNCHANGED <<staffVars, geo, jordan, report, catalog, toolRevision, handEdits>>
  BY DEF SetUpTargets
<1>2. team' \in [Units -> Team] /\ TeamHolds'
  BY SetUpIs
<1>3. Access' = Access
  BY <1>1 DEF Access, staffVars
<1>4. ReportHolds' /\ RecordHolds'
  BY <1>1, <1>3 DEF ToolsInv, ReportHolds, RecordHolds, RecordedOf, staffVars
<1> QED BY <1>1, <1>2, <1>4 DEF ToolsInv, ToolsTypeOK, staffVars

LEMMA ProvisionMapsInv == ASSUME ToolsInv, NEW grant \in BOOLEAN, ProvisionMaps(grant) PROVE ToolsInv'
<1>1. /\ principal' \in Membership /\ Advances
      /\ UNCHANGED <<membership, before, disputed, staffRole, team, jordan, report, catalog, handEdits>>
  BY DEF ProvisionMaps, Membership
<1>2. geo' \in [role : Membership, other : BOOLEAN, assigned : Membership]
  BY DEF ProvisionMaps, ToolsInv, ToolsTypeOK, Membership
<1> QED BY <1>1, <1>2, OtherStep DEF ToolsInv, ToolsTypeOK, TeamHolds

LEMMA RevokeMapsInv == ASSUME ToolsInv, RevokeMaps PROVE ToolsInv'
<1>1. /\ UNCHANGED <<staffVars, team, jordan, report, catalog, handEdits>> /\ Advances
  BY DEF RevokeMaps
<1>2. geo' \in [role : Membership, other : BOOLEAN, assigned : Membership]
  BY DEF RevokeMaps, ToolsInv, ToolsTypeOK, Membership
<1> QED BY <1>1, <1>2, OtherStep DEF ToolsInv, ToolsTypeOK, TeamHolds, staffVars

LEMMA DryRunFixtureInv ==
  ASSUME ToolsInv, NEW operation \in {"add", "cleanup"}, DryRunFixture(operation) PROVE ToolsInv'
<1>1. /\ report' = [operation |-> operation, revision |-> toolRevision, access |-> Access]
      /\ UNCHANGED <<staffVars, team, geo, jordan, catalog, toolRevision, handEdits>>
  BY DEF DryRunFixture
<1>2. Access' = Access
  BY <1>1 DEF Access, staffVars
<1>3. toolRevision \in 0..toolRevision
  BY ToolsAssumption DEF ToolsInv, ToolsTypeOK
<1>4. ReportHolds'
  BY <1>1, <1>2, <1>3 DEF ReportHolds
<1> QED BY <1>1, <1>4 DEF ToolsInv, ToolsTypeOK, RecordHolds, RecordedOf, TeamHolds, staffVars

LEMMA ConfirmFixtureInv == ASSUME ToolsInv, ConfirmFixture PROVE ToolsInv'
<1>1. /\ UNCHANGED <<staffVars, team, geo, report, catalog, handEdits>> /\ Advances
  BY DEF ConfirmFixture
<1>2. jordan' \in [managed : BOOLEAN, fixture : {"absent", "own", "altered"}, units : SUBSET Units]
  BY DEF ConfirmFixture, ToolsInv, ToolsTypeOK
<1> QED BY <1>1, <1>2, OtherStep DEF ToolsInv, ToolsTypeOK, TeamHolds, staffVars

LEMMA SeedInv == ASSUME ToolsInv, Seed PROVE ToolsInv'
<1>1. /\ UNCHANGED <<staffVars, team, geo, report, handEdits>> /\ Advances
  BY DEF Seed
<1>2. jordan' \in [managed : BOOLEAN, fixture : {"absent", "own", "altered"}, units : SUBSET Units]
  BY ToolsAssumption DEF Seed, SeedPeople, ToolsInv, ToolsTypeOK
<1>3. catalog' \in [Services -> {"absent", "seeded", "other"}]
  BY DEF Seed, SeedCatalog, ToolsInv, ToolsTypeOK
<1> QED BY <1>1, <1>2, <1>3, OtherStep DEF ToolsInv, ToolsTypeOK, TeamHolds, staffVars

LEMMA EditMembershipIs ==
  ASSUME ToolsInv, EditMembership
  PROVE  /\ membership' \in [Units -> Membership] /\ before' \in [Units -> Membership] /\ disputed' \in SUBSET Units
         /\ RecordHolds'
<1>1. PICK u \in Units, to \in Membership :
        /\ membership[u] # to /\ membership' = [membership EXCEPT ![u] = to]
        /\ IF staffRole # NoRole /\ \E found \in staffRole.restores : found[1] = u
           THEN disputed' = disputed \cup {u} /\ UNCHANGED before
           ELSE before' = [before EXCEPT ![u] = to] /\ UNCHANGED disputed
  BY DEF EditMembership
<1>2. /\ membership \in [Units -> Membership] /\ before \in [Units -> Membership] /\ disputed \in SUBSET Units
      /\ staffRole' = staffRole
  BY DEF EditMembership, ToolsInv, ToolsTypeOK
<1>3. membership' \in [Units -> Membership] /\ before' \in [Units -> Membership] /\ disputed' \in SUBSET Units
  BY <1>1, <1>2
<1>4. ASSUME NEW x \in Units \ disputed'
      PROVE  IF RecordedOf(x) = {} THEN membership'[x] = before'[x]
             ELSE membership'[x] = "active" /\ RecordedOf(x) = {<<x, before'[x]>>}
  <2>1. x \notin disputed
    BY <1>1, <1>4
  <2>2. IF RecordedOf(x) = {} THEN membership[x] = before[x]
        ELSE membership[x] = "active" /\ RecordedOf(x) = {<<x, before[x]>>}
    BY <2>1 DEF ToolsInv, RecordHolds
  <2>3. CASE x = u
    <3>1. ~(staffRole # NoRole /\ \E found \in staffRole.restores : found[1] = u)
      BY <1>1, <1>4, <2>3
    <3>2. RecordedOf(x) = {} /\ membership'[x] = to /\ before'[x] = to
      BY <1>1, <1>2, <2>3, <3>1 DEF RecordedOf
    <3> QED BY <3>2
  <2>4. CASE x # u
    <3>1. membership'[x] = membership[x] /\ before'[x] = before[x]
      BY <1>1, <1>2, <2>4
    <3> QED BY <2>2, <3>1
  <2> QED BY <2>3, <2>4
<1>5. \A x \in Units : RecordedOf(x)' = RecordedOf(x)
  BY <1>2 DEF RecordedOf
<1>6. RecordHolds'
  BY <1>4, <1>5 DEF RecordHolds
<1> QED BY <1>3, <1>6

LEMMA EditRolesIs ==
  ASSUME ToolsInv, EditRoles
  PROVE  /\ staffRole' \in StaffRole \cup {NoRole}
         /\ geo' \in [role : Membership, other : BOOLEAN, assigned : Membership]
         /\ \A u \in Units : RecordedOf(u)' = RecordedOf(u)
<1>1. CASE staffRole # NoRole /\ UNCHANGED geo
  <2>1. staffRole \in StaffRole
    BY <1>1 DEF ToolsInv, ToolsTypeOK
  <2>2. CASE \/ \E p \in Grantable : staffRole' = [staffRole EXCEPT !.grants = @ \ {p}]
             \/ staffRole' = [staffRole EXCEPT !.shared = ~@]
             \/ staffRole' = [staffRole EXCEPT !.active = ~@]
    <3>1. staffRole' \in StaffRole /\ staffRole'.restores = staffRole.restores
      BY <2>1, <2>2 DEF StaffRole
    <3>2. staffRole' # NoRole
      BY <3>1, NoRoleIsNone
    <3> QED BY <1>1, <3>1, <3>2 DEF ToolsInv, ToolsTypeOK, RecordedOf
  <2>3. CASE geo.role # "missing" /\ UNCHANGED staffRole
    BY <1>1, <2>1, <2>3 DEF ToolsInv, ToolsTypeOK, RecordedOf
  <2> QED BY <2>2, <2>3 DEF EditRoles
<1>2. CASE UNCHANGED staffRole
  <2>1. geo \in [role : Membership, other : BOOLEAN, assigned : Membership]
    BY DEF ToolsInv, ToolsTypeOK
  <2>2. \/ UNCHANGED geo \/ geo' = [geo EXCEPT !.other = ~@]
        \/ geo' = [geo EXCEPT !.role = IF @ = "active" THEN "inactive" ELSE "active"]
    BY DEF EditRoles
  <2>3. ASSUME UNCHANGED geo PROVE geo' \in [role : Membership, other : BOOLEAN, assigned : Membership]
    BY <2>1, <2>3
  <2>4. ASSUME geo' = [geo EXCEPT !.other = ~@] PROVE geo' \in [role : Membership, other : BOOLEAN, assigned : Membership]
    BY <2>1, <2>4
  <2>5. ASSUME geo' = [geo EXCEPT !.role = IF @ = "active" THEN "inactive" ELSE "active"]
      PROVE geo' \in [role : Membership, other : BOOLEAN, assigned : Membership]
    BY <2>1, <2>5 DEF Membership
  <2>6. geo' \in [role : Membership, other : BOOLEAN, assigned : Membership]
    BY <2>2, <2>3, <2>4, <2>5
  <2> QED BY <1>2, <2>6 DEF ToolsInv, ToolsTypeOK, RecordedOf
<1> QED BY <1>1, <1>2 DEF EditRoles

LEMMA EditPeopleIs ==
  ASSUME ToolsInv, EditPeople
  PROVE  /\ principal' \in Membership
         /\ jordan' \in [managed : BOOLEAN, fixture : {"absent", "own", "altered"}, units : SUBSET Units]
         /\ jordan'.fixture # jordan.fixture => {jordan.fixture, jordan'.fixture} # {"absent", "own"}
<1>1. jordan \in [managed : BOOLEAN, fixture : {"absent", "own", "altered"}, units : SUBSET Units]
  BY DEF ToolsInv, ToolsTypeOK
<1>2. principal' \in Membership
  BY DEF EditPeople, ToolsInv, ToolsTypeOK, Membership
<1>3. CASE UNCHANGED jordan
  BY <1>1, <1>2, <1>3
<1>4. CASE jordan' = [jordan EXCEPT !.managed = ~@] \/ \E u \in Units : jordan' = [jordan EXCEPT !.units = @ \cup {u}]
  BY <1>1, <1>2, <1>4
<1>5. CASE jordan.fixture # "absent" /\ jordan' = [jordan EXCEPT !.fixture = IF @ = "own" THEN "altered" ELSE "own"]
  <2>1. jordan.fixture \in {"own", "altered"}
    BY <1>1, <1>5
  <2>2. /\ jordan' \in [managed : BOOLEAN, fixture : {"absent", "own", "altered"}, units : SUBSET Units]
        /\ jordan'.fixture \in {"own", "altered"}
    BY <1>1, <1>5
  <2> QED BY <1>2, <2>1, <2>2
<1> QED BY <1>3, <1>4, <1>5 DEF EditPeople

LEMMA EditSetupIs ==
  ASSUME ToolsInv, EditSetup
  PROVE  /\ team' \in [Units -> Team] /\ TeamHolds'
         /\ catalog' \in [Services -> {"absent", "seeded", "other"}]
<1>1. team \in [Units -> Team] /\ TeamHolds /\ catalog \in [Services -> {"absent", "seeded", "other"}]
  BY DEF ToolsInv, ToolsTypeOK
<1>2. CASE UNCHANGED catalog /\ \E u \in Units, field \in {"role", "roleMember", "group", "groupMember"} :
             team[u][field] = "active" /\ team' = [team EXCEPT ![u][field] = "inactive"]
  <2>1. PICK u \in Units, field \in {"role", "roleMember", "group", "groupMember"} :
             team[u][field] = "active" /\ team' = [team EXCEPT ![u][field] = "inactive"]
    BY <1>2
  <2>2. PICK one, next : one = team[u] /\ next = [one EXCEPT ![field] = "inactive"]
    OBVIOUS
  <2>3. one \in Team /\ team' = [team EXCEPT ![u] = next]
    BY <1>1, <2>1, <2>2
  <2>4. next \in Team /\ (next.group = "missing") = (next.groupMember = "missing")
    <3>1. (one.group = "missing") = (one.groupMember = "missing") /\ one[field] = "active"
      BY <1>1, <2>1, <2>2 DEF TeamHolds
    <3>2. CASE field = "role"
      BY <2>2, <2>3, <3>1, <3>2 DEF Team, Membership
    <3>3. CASE field = "roleMember"
      BY <2>2, <2>3, <3>1, <3>3 DEF Team, Membership
    <3>4. CASE field = "group"
      BY <2>2, <2>3, <3>1, <3>4 DEF Team, Membership
    <3>5. CASE field = "groupMember"
      BY <2>2, <2>3, <3>1, <3>5 DEF Team, Membership
    <3> QED BY <2>1, <3>2, <3>3, <3>4, <3>5
  <2>5. team' \in [Units -> Team] /\ TeamHolds'
    BY <1>1, <2>3, <2>4 DEF TeamHolds
  <2> QED BY <1>1, <1>2, <2>5
<1>3. CASE UNCHANGED team /\ \E s \in Services : catalog' = [catalog EXCEPT ![s] = "other"]
  BY <1>1, <1>3 DEF TeamHolds
<1> QED BY <1>2, <1>3 DEF EditSetup

LEMMA ByHandInv == ASSUME ToolsInv, ByHand PROVE ToolsInv' /\ handEdits' # handEdits
<1>1. handEdits' \in 0..MaxHandEdits /\ handEdits' # handEdits
  BY ToolsAssumption DEF ByHand, ToolsInv, ToolsTypeOK
<1>2. UNCHANGED report /\ Advances
  BY DEF ByHand
<1>3. ReportHolds' /\ toolRevision' \in 0..MaxToolRevision
  BY <1>2, ReportKept
<1>4. CASE EditMembership
  BY <1>1, <1>3, <1>4, EditMembershipIs DEF EditMembership, ToolsInv, ToolsTypeOK, TeamHolds
<1>5. CASE EditRoles
  <2>1. UNCHANGED <<principal, membership, before, disputed, team, jordan, catalog>>
    BY <1>5 DEF EditRoles
  <2>2. RecordHolds'
    BY <1>5, <2>1, EditRolesIs DEF ToolsInv, RecordHolds
  <2> QED BY <1>1, <1>3, <1>5, <2>1, <2>2, EditRolesIs DEF ToolsInv, ToolsTypeOK, TeamHolds
<1>6. CASE EditPeople
  BY <1>1, <1>2, <1>6, EditPeopleIs, OtherStep DEF EditPeople, ToolsInv, ToolsTypeOK, TeamHolds
<1>7. CASE EditSetup
  BY <1>1, <1>2, <1>7, EditSetupIs, OtherStep DEF EditSetup, ToolsInv, ToolsTypeOK, staffVars
<1> QED BY <1>1, <1>4, <1>5, <1>6, <1>7 DEF ByHand

LEMMA ToolsStepInv == ToolsInv /\ [ToolsNext]_toolVars => ToolsInv'
<1> SUFFICES ASSUME ToolsInv, [ToolsNext]_toolVars PROVE ToolsInv'
  OBVIOUS
<1>1. CASE UNCHANGED toolVars
  <2>1. Access' = Access
    BY <1>1 DEF Access, toolVars, staffVars
  <2> QED BY <1>1, <2>1 DEF toolVars, staffVars, ToolsInv, ToolsTypeOK, RecordHolds, RecordedOf, ReportHolds, TeamHolds
<1> QED BY <1>1, ProvisionStaffInv, DeprovisionStaffInv, SetUpTargetsInv, ProvisionMapsInv, RevokeMapsInv,
           DryRunFixtureInv, ConfirmFixtureInv, SeedInv, ByHandInv DEF ToolsNext

LEMMA RecordsExplain == ToolsInv => GivenIsRecorded
BY DEF ToolsInv, RecordHolds, RecordedOf, GivenIsRecorded

LEMMA FixtureSteps ==
  ASSUME ToolsInv, [ToolsNext]_toolVars, {jordan.fixture, jordan'.fixture} = {"absent", "own"}
  PROVE  /\ report # NoReport /\ report.access = Access
         /\ report.operation = (IF jordan.fixture = "absent" THEN "add" ELSE "cleanup")
<1>1. jordan' # jordan /\ jordan'.fixture # jordan.fixture
  OBVIOUS
<1>2. jordan \in [managed : BOOLEAN, fixture : {"absent", "own", "altered"}, units : SUBSET Units]
  BY DEF ToolsInv, ToolsTypeOK
<1>3. ~Seed
  BY <1>1, <1>2 DEF Seed, SeedPeople
<1>4. ~ByHand
  BY <1>1, EditPeopleIs DEF ByHand, EditMembership, EditRoles, EditSetup
<1>5. ConfirmFixture
  BY <1>1, <1>3, <1>4 DEF ToolsNext, toolVars, ProvisionStaff, DeprovisionStaff, SetUpTargets, ProvisionMaps,
     RevokeMaps, DryRunFixture
<1>6. /\ report # NoReport /\ report.operation \in {"add", "cleanup"} /\ report.access = Access
      /\ WouldChange(report.operation)
  BY <1>5 DEF ConfirmFixture, SameRevision, ToolsInv, ReportHolds
<1>7. CASE report.operation = "add"
  BY <1>6, <1>7 DEF WouldChange
<1>8. CASE report.operation = "cleanup"
  BY <1>6, <1>8 DEF WouldChange
<1> QED BY <1>6, <1>7, <1>8

LEMMA SetUpSteps ==
  ASSUME ToolsInv, [ToolsNext]_toolVars, handEdits' = handEdits
  PROVE  /\ \A s \in Services : catalog[s] = "other" => catalog'[s] = "other"
         /\ \A u \in Units : /\ team[u].roleMember = "inactive" => team'[u] = team[u]
                             /\ team[u].groupMember = "inactive" => team'[u].groupMember = "inactive"
<1>1. ~ByHand
  BY ByHandInv
<1>2. \A s \in Services : catalog[s] = "other" => catalog'[s] = "other"
  <2>1. CASE Seed
    BY <2>1 DEF Seed, SeedCatalog
  <2>2. CASE UNCHANGED catalog
    BY <2>2
  <2> QED BY <1>1, <2>1, <2>2 DEF ToolsNext, toolVars, ProvisionStaff, DeprovisionStaff, SetUpTargets, ProvisionMaps,
       RevokeMaps, DryRunFixture, ConfirmFixture
<1>3. CASE \E u \in Units : SetUpTargets(u)
  BY <1>2, <1>3, SetUpIs
<1>4. CASE UNCHANGED team
  BY <1>2, <1>4
<1> QED BY <1>1, <1>3, <1>4 DEF ToolsNext, toolVars, ProvisionStaff, DeprovisionStaff, ProvisionMaps,
       RevokeMaps, DryRunFixture, ConfirmFixture, Seed

\* Whoever edits the database meanwhile, the commands add, report and take back
\* what is theirs, and only that.
THEOREM ToolsKeepTheirOwn == ToolsSpec => ToolsKeepToTheirOwn
<1>1. ToolsInit => ToolsInv
  BY ToolsInitInv
<1>2. ToolsInv /\ [ToolsNext]_toolVars => ToolsInv'
  BY ToolsStepInv
<1>3. ToolsInv' => [GivenIsRecorded']_toolVars
  BY RecordsExplain, PTL
<1>4. ToolsInv /\ [ToolsNext]_toolVars =>
        [{jordan.fixture, jordan'.fixture} = {"absent", "own"} =>
           /\ report # NoReport /\ report.access = Access
           /\ report.operation = (IF jordan.fixture = "absent" THEN "add" ELSE "cleanup")]_toolVars
  BY FixtureSteps
<1>5. ToolsInv /\ [ToolsNext]_toolVars =>
        [handEdits' = handEdits =>
           /\ \A s \in Services : catalog[s] = "other" => catalog'[s] = "other"
           /\ \A u \in Units : /\ team[u].roleMember = "inactive" => team'[u] = team[u]
                               /\ team[u].groupMember = "inactive" => team'[u].groupMember = "inactive"]_toolVars
  BY SetUpSteps
<1> QED BY <1>1, <1>2, <1>3, <1>4, <1>5, PTL DEF ToolsSpec, ToolsKeepToTheirOwn, FixtureAsReported, SetUpStays
--------------------------------------------------------------------------------
(* Connector administration: the inductive invariant.                       *)

\* The row v of connector c, read at some time, is at most as recent as the
\* committed row, and equal to it whenever its record revision still holds:
\* the concurrency token really identifies the row.
ViewCurrent(v, c) ==
  /\ Registered(c)
  /\ v.record <= connector[c].record
  /\ v.record = connector[c].record => v = connector[c]

\* The inductive invariant.
AdminInv ==
  /\ TypeOK
  /\ RegistryInv
  /\ \A a \in Administrator, c \in Connector, v \in Row :
       view[a] = [id |-> c, row |-> v] => ViewCurrent(v, c)

LEMMA AdminInitInv == Init => AdminInv
<1> SUFFICES ASSUME Init PROVE AdminInv
  OBVIOUS
<1>1. RegistryInv
  BY RegistryInitInv DEF Init
<1>2. TypeOK
  BY <1>1 DEF Init, TypeOK, RegistryInv
<1>3. ASSUME NEW a \in Administrator, NEW c \in Connector, NEW v \in Row
      PROVE  view[a] # [id |-> c, row |-> v]
  BY NoViewAssumption DEF Init
<1> QED BY <1>1, <1>2, <1>3 DEF AdminInv

\* An accepted mutation of any connector makes older views stale, and never
\* leaves a different row under a revision somebody read.
LEMMA MutateKeepsViews ==
  ASSUME NEW c \in Connector, NEW expected, NEW next \in Row, NEW category,
         RegistryTypeOK, Mutate(c, expected, next, category),
         next.record = connector[c].record, next.lifecycle # "unregistered",
         NEW d \in Connector, NEW v \in Row, ViewCurrent(v, d)
  PROVE  ViewCurrent(v, d)'
<1>1. /\ connector' = [connector EXCEPT ![c] = Advanced(next, category)]
      /\ Advanced(next, category).record = connector[c].record + 1
      /\ Advanced(next, category).lifecycle # "unregistered"
  BY AdvancedRow DEF Mutate
<1>2. v.record \in Nat /\ connector[c].record \in Nat
  BY DEF RegistryTypeOK, Row
<1>3. CASE d = c
  <2>1. connector'[d] = Advanced(next, category)
    BY <1>1, <1>3 DEF RegistryTypeOK
  <2> QED BY <1>1, <1>2, <1>3, <2>1 DEF ViewCurrent, Registered
<1>4. CASE d # c
  <2>1. connector'[d] = connector[d]
    BY <1>1, <1>4 DEF RegistryTypeOK
  <2> QED BY <2>1 DEF ViewCurrent, Registered
<1> QED BY <1>3, <1>4

\* Whatever an administrator submits, every view stays below the row it names.
LEMMA SubmitKeepsViews ==
  ASSUME AdminInv, NEW a \in Administrator, Submit(a),
         NEW d \in Connector, NEW v \in Row, ViewCurrent(v, d)
  PROVE  ViewCurrent(v, d)'
<1> DEFINE c == view[a].id
           expected == view[a].row.record
<1>1. /\ c \in Connector
      /\ connector[c] \in Row
      /\ RegistryTypeOK
  BY DEF AdminInv, TypeOK, RegistryTypeOK, Submit
<1>2. \/ \E s \in Lifecycle : ChangeLifecycle(c, expected, s)
      \/ \E cap \in Declarable : UpdateCapabilities(c, expected, cap)
      \/ \E k \in Credential : RotateCredentialReference(c, expected, k)
  BY DEF Submit
<1> HIDE DEF c, expected
<1>3. ASSUME NEW s \in Lifecycle, ChangeLifecycle(c, expected, s)
      PROVE  ViewCurrent(v, d)'
  <2> DEFINE next == [connector[c] EXCEPT !.lifecycle = s]
  <2>1. /\ next \in Row
        /\ next.record = connector[c].record
        /\ next.lifecycle # "unregistered"
    BY <1>1 DEF Row, Lifecycle
  <2>2. Mutate(c, expected, next, "lifecycle_changed")
    BY <1>3 DEF ChangeLifecycle
  <2> HIDE DEF next
  <2> QED BY <1>1, <2>1, <2>2, MutateKeepsViews
<1>4. ASSUME NEW cap \in Declarable, UpdateCapabilities(c, expected, cap)
      PROVE  ViewCurrent(v, d)'
  <2> DEFINE next == [connector[c] EXCEPT !.capabilities = cap]
  <2>1. /\ next \in Row
        /\ next.record = connector[c].record
        /\ next.lifecycle # "unregistered"
    BY <1>1, <1>4, RegistryAssumption DEF UpdateCapabilities, Mutate, Row, Registered
  <2>2. Mutate(c, expected, next, "capabilities_changed")
    BY <1>4 DEF UpdateCapabilities
  <2> HIDE DEF next
  <2> QED BY <1>1, <2>1, <2>2, MutateKeepsViews
<1>5. ASSUME NEW k \in Credential, RotateCredentialReference(c, expected, k)
      PROVE  ViewCurrent(v, d)'
  <2> DEFINE next == [connector[c] EXCEPT !.credential = k]
  <2>1. /\ next \in Row
        /\ next.record = connector[c].record
        /\ next.lifecycle # "unregistered"
    BY <1>1, <1>5 DEF RotateCredentialReference, Mutate, Row, Registered
  <2>2. Mutate(c, expected, next, "credential_reference_rotated")
    BY <1>5 DEF RotateCredentialReference
  <2> HIDE DEF next
  <2> QED BY <1>1, <2>1, <2>2, MutateKeepsViews
<1> QED BY <1>2, <1>3, <1>4, <1>5

\* A registration of another connector leaves every view alone.
LEMMA CreateKeepsViews ==
  ASSUME RegistryTypeOK, NEW c \in Connector, NEW cap, NEW k, Register(c, cap, k),
         NEW d \in Connector, NEW v \in Row, ViewCurrent(v, d)
  PROVE  ViewCurrent(v, d)'
<1>1. d # c /\ connector'[d] = connector[d]
  BY DEF Register, ViewCurrent, RegistryTypeOK
<1> QED BY <1>1 DEF ViewCurrent, Registered

\* Every step keeps the inductive invariant.
LEMMA AdminNextInv == AdminInv /\ [Next]_adminVars => AdminInv'
<1> SUFFICES ASSUME AdminInv, [Next]_adminVars PROVE AdminInv'
  OBVIOUS
<1> USE DEF AdminInv
<1>1. ASSUME NEW a \in Administrator, NEW c \in Connector, Read(a, c)
      PROVE  AdminInv'
  <2>1. RegistryInv' /\ RegistryTypeOK'
    BY <1>1 DEF Read, registryVars, RegistryInv, RowInv, RegistryTypeOK
  <2>2. connector[c] \in Row
    BY DEF TypeOK, RegistryTypeOK
  <2>3. /\ view' = [view EXCEPT ![a] = [id |-> c, row |-> connector[c]]]
        /\ connector' = connector
        /\ Registered(c)
    BY <1>1 DEF Read, registryVars
  <2>4. TypeOK'
    BY <2>1, <2>2, <2>3 DEF TypeOK
  <2>5. ASSUME NEW b \in Administrator, NEW d \in Connector, NEW v \in Row,
               view'[b] = [id |-> d, row |-> v]
        PROVE  ViewCurrent(v, d)'
    <3>1. CASE b = a
      <4>1. d = c /\ v = connector[c]
        BY <2>3, <2>5, <3>1 DEF TypeOK
      <4> QED BY <4>1, <2>2, <2>3 DEF ViewCurrent, Registered, Row
    <3>2. CASE b # a
      <4>1. ViewCurrent(v, d)
        BY <2>3, <2>5, <3>2 DEF TypeOK
      <4> QED BY <4>1, <2>3 DEF ViewCurrent, Registered
    <3> QED BY <3>1, <3>2
  <2> QED BY <2>1, <2>4, <2>5
<1>2. ASSUME NEW a \in Administrator, NEW c \in Connector, Create(a, c)
      PROVE  AdminInv'
  <2>1. PICK cap \in Declarable, k \in Credential : Register(c, cap, k)
    BY <1>2 DEF Create
  <2>2. RegistryInv'
    BY <2>1, RegisterInv
  <2>3. view' = view
    BY <1>2 DEF Create
  <2>4. TypeOK'
    BY <2>2, <2>3 DEF TypeOK, RegistryInv
  <2>5. ASSUME NEW b \in Administrator, NEW d \in Connector, NEW v \in Row,
               view[b] = [id |-> d, row |-> v]
        PROVE  ViewCurrent(v, d)'
    BY <2>1, <2>5, CreateKeepsViews DEF TypeOK
  <2> QED BY <2>2, <2>3, <2>4, <2>5
<1>3. ASSUME NEW a \in Administrator, Submit(a)
      PROVE  AdminInv'
  <2>1. view[a].id \in Connector /\ view' = view
    BY <1>3 DEF Submit, TypeOK
  <2>2. RegistryInv'
    BY <1>3, <2>1, ChangeInv DEF Submit
  <2>3. TypeOK'
    BY <2>1, <2>2 DEF TypeOK, RegistryInv
  <2>4. ASSUME NEW b \in Administrator, NEW d \in Connector, NEW v \in Row,
               view[b] = [id |-> d, row |-> v]
        PROVE  ViewCurrent(v, d)'
    BY <1>3, <2>4, SubmitKeepsViews
  <2> QED BY <2>1, <2>2, <2>3, <2>4
<1>4. CASE UNCHANGED adminVars
  BY <1>4 DEF adminVars, RegistryInv, RowInv, TypeOK, RegistryTypeOK,
              ViewCurrent, Registered
<1> QED BY <1>1, <1>2, <1>3, <1>4 DEF Next

--------------------------------------------------------------------------------

\* The invariant holds of every behaviour.
THEOREM AdminInvariant == Spec => []AdminInv
BY AdminInitInv, AdminNextInv, PTL DEF Spec

\* The registry's state is well typed, every connector is explained by its
\* audit rows, and every pin resolves to one capability contract, whatever
\* concurrent administrators submit.
THEOREM RegistryCorrect ==
  Spec => [](TypeOK /\ AuditExplainsConnector /\ EveryPinResolves)
<1>1. AdminInv => TypeOK /\ AuditExplainsConnector /\ EveryPinResolves
  BY RegistryInvSafe DEF AdminInv
<1> QED BY <1>1, AdminInvariant, PTL

\* Each connector's row is what its audit rows say it is, whatever concurrent
\* administrators submit.
THEOREM ConnectorsAreExplained == Spec => []AuditExplainsConnector
BY RegistryCorrect, PTL

\* A submission that changes a connector was decided on its current row.
LEMMA SubmitOnCurrentRow ==
  ASSUME AdminInv, NEW a \in Administrator, Submit(a), NEW c \in Connector,
         connector'[c] # connector[c]
  PROVE  view[a] = [id |-> c, row |-> connector[c]]
<1>1. PICK d \in Connector, v \in Row : view[a] = [id |-> d, row |-> v]
  BY DEF AdminInv, TypeOK, Submit
<1>2. ViewCurrent(v, d)
  BY <1>1 DEF AdminInv
<1>3. /\ v.record = connector[d].record
      /\ \E row : connector' = [connector EXCEPT ![d] = row]
  <2>1. \/ \E s \in Lifecycle : ChangeLifecycle(d, v.record, s)
        \/ \E cap \in Declarable : UpdateCapabilities(d, v.record, cap)
        \/ \E k \in Credential : RotateCredentialReference(d, v.record, k)
    BY <1>1 DEF Submit
  <2>2. ASSUME NEW next, NEW category, Mutate(d, v.record, next, category)
        PROVE  /\ v.record = connector[d].record
               /\ \E row : connector' = [connector EXCEPT ![d] = row]
    BY <2>2 DEF Mutate
  <2> QED
    BY <2>1, <2>2 DEF ChangeLifecycle, UpdateCapabilities,
                      RotateCredentialReference
<1>4. d = c
  BY <1>3 DEF AdminInv, TypeOK, RegistryTypeOK
<1> QED BY <1>1, <1>2, <1>3, <1>4 DEF ViewCurrent

\* No administrator overwrites a change it has not seen.
THEOREM AdministratorsLoseNoUpdate == Spec => NoLostUpdate
<1> DEFINE SeenOrUnchanged ==
      \A c \in Connector :
        Registered(c) /\ connector'[c] # connector[c] =>
          \E a \in Administrator : view[a] = [id |-> c, row |-> connector[c]]
<1>1. AdminInv /\ [Next]_adminVars => [SeenOrUnchanged]_adminVars
  <2> SUFFICES ASSUME AdminInv, Next, NEW c \in Connector, Registered(c),
                      connector'[c] # connector[c]
               PROVE  \E a \in Administrator :
                        view[a] = [id |-> c, row |-> connector[c]]
    OBVIOUS
  <2>1. PICK a \in Administrator :
          (\E d \in Connector : Read(a, d) \/ Create(a, d)) \/ Submit(a)
    BY DEF Next
  <2>2. ASSUME NEW d \in Connector, Read(a, d) PROVE FALSE
    BY <2>2 DEF Read, registryVars
  <2>3. ASSUME NEW d \in Connector, Create(a, d) PROVE FALSE
    <3>1. c # d /\ \E row : connector' = [connector EXCEPT ![d] = row]
      BY <2>3 DEF Create, Register
    <3> QED BY <3>1 DEF AdminInv, TypeOK, RegistryTypeOK
  <2>4. Submit(a)
    BY <2>1, <2>2, <2>3
  <2> QED BY <2>4, SubmitOnCurrentRow
<1> QED BY <1>1, AdminInvariant, PTL DEF Spec, NoLostUpdate
================================================================================
