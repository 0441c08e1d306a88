----------------------- MODULE IntegrationDeliveryProofs -----------------------
(***************************************************************************)
(* The outbox and its worker functions: streams are never overtaken, an    *)
(* ambiguous delivery is never retried blindly, settlements belong to      *)
(* their claimers, and the tables implement the delivery contract, for any *)
(* number of connectors, intents, workers and attempts.                    *)
(***************************************************************************)
EXTENDS IntegrationDelivery, ConnectorRegistryProofs

--------------------------------------------------------------------------------
(* The inductive invariant, and why each part is needed.                    *)

\* A pin resolves: the intent was formed on a configuration that exists.
IntentsStored ==
  \A i \in Intent : state[i] # "absent" =>
    /\ intent[i] \in IntentRow
    /\ Registered(intent[i].connector)
    /\ intent[i].pin \in 1..connector[intent[i].connector].configuration

\* An open business transaction holds the connector as it pinned it.
InsertsHold ==
  \A i \in Intent : state[i] = "uncommitted" =>
    /\ connector[intent[i].connector].configuration = intent[i].pin
    /\ connector[intent[i].connector].lifecycle # "retired"

\* Everything in seen that precedes i in its stream is resolved.
Gated(seen, i) ==
  \A p \in seen :
    /\ Committed(p)
    /\ intent[i].ordered /\ Precedes(p, i) => state[p] \notin Blocking

\* What a claim selected still holds when it commits, through its row locks.
ClaimHolds(w) ==
  LET i == worker[w].intent
  IN /\ state[i] \in {"pending", "retrying"}
     /\ Dispatching(intent[i].connector)
     /\ ~HasOpenAttempt(i)
     /\ Gated(worker[w].visible, i)
     /\ \A v \in Worker : Claiming(v) /\ worker[v].intent = i => v = w

ClaimsHold == \A w \in Worker : Claiming(w) => ClaimHolds(w)

\* Where an intent whose last attempt is ambiguous may stand without a key.
AfterAmbiguous == {"ambiguous", "accepted", "acknowledged", "failed_permanent",
                   "dead_lettered"}

AttemptHolds(i, n) ==
  LET row == attempts[i][n]
  IN /\ row.outcome = "open" => n = Len(attempts[i])
     /\ Gated(row.visible, i)
     /\ row.outcome = "ambiguous" =>
          \/ PinnedCapabilities(i).supportsIdempotencyKey
          \/ n = Len(attempts[i]) /\ state[i] \in AfterAmbiguous

AttemptsHold ==
  \A i \in Intent :
    /\ ~Committed(i) => attempts[i] = << >>
    /\ \A n \in DOMAIN attempts[i] : AttemptHolds(i, n)

DeliveryInv ==
  /\ RegistryInv
  /\ TypeOK
  /\ IntentsStored
  /\ InsertsHold
  /\ ClaimsHold
  /\ AttemptsHold
  /\ SettledByItsClaimer

\* The invariant gives the properties the runs check.
LEMMA DeliveryInvSafe ==
  DeliveryInv => /\ NoOvertaking
                 /\ AmbiguousNeverBlindRetried
                 /\ SettledByItsClaimer
                 /\ ClaimAvoidsOpenAttempts
<1> SUFFICES ASSUME DeliveryInv
             PROVE  /\ NoOvertaking
                    /\ AmbiguousNeverBlindRetried
                    /\ ClaimAvoidsOpenAttempts
  BY DEF DeliveryInv
<1>1. NoOvertaking
  BY DEF DeliveryInv, AttemptsHold, AttemptHolds, Gated, NoOvertaking
<1>2. AmbiguousNeverBlindRetried
  <2> SUFFICES ASSUME NEW i \in Intent, NEW n \in DOMAIN attempts[i],
                      attempts[i][n].outcome = "ambiguous", n < Len(attempts[i])
               PROVE  PinnedCapabilities(i).supportsIdempotencyKey
    BY DEF AmbiguousNeverBlindRetried
  <2>1. AttemptHolds(i, n) /\ attempts[i] \in Seq(Attempt)
    BY DEF DeliveryInv, AttemptsHold, TypeOK
  <2>2. n # Len(attempts[i])
    BY <2>1
  <2> QED BY <2>1, <2>2 DEF AttemptHolds
<1>3. ClaimAvoidsOpenAttempts
  BY DEF DeliveryInv, ClaimsHold, ClaimHolds, ClaimAvoidsOpenAttempts
<1> QED BY <1>1, <1>2, <1>3

LEMMA DeliveryInitInv == Init => DeliveryInv
<1> SUFFICES ASSUME Init PROVE DeliveryInv
  OBVIOUS
<1>1. RegistryInv
  BY RegistryInitInv DEF Init
<1>2. /\ \A i \in Intent : state[i] = "absent" /\ attempts[i] = << >>
      /\ \A w \in Worker : worker[w] = Idle
  BY DEF Init
<1>3. /\ TypeOK
  <2>1. << >> \in Seq(Attempt)
    OBVIOUS
  <2> QED BY <1>1, <2>1 DEF Init, TypeOK, RegistryInv, WorkerRow, Schedule, Committed, DeliveryState
<1>4. IntentsStored /\ InsertsHold
  BY <1>2 DEF IntentsStored, InsertsHold
<1>5. ClaimsHold
  BY <1>2 DEF ClaimsHold, Claiming, Idle
<1>6. AttemptsHold /\ SettledByItsClaimer
  BY <1>2 DEF AttemptsHold, SettledByItsClaimer
<1> QED BY <1>1, <1>3, <1>4, <1>5, <1>6 DEF DeliveryInv

--------------------------------------------------------------------------------
(* The registry side: pins keep resolving to the same contract.             *)

\* What a step may do to the registry under the intents that pinned it.
RegistryKeeps ==
  /\ RegistryInv'
  /\ \A c \in Connector :
       /\ connector[c].configuration <= connector'[c].configuration
       /\ Registered(c) => Registered(c)'
       /\ DOMAIN audit[c] \subseteq DOMAIN audit'[c]
       /\ \A r \in DOMAIN audit[c] : audit'[c][r] = audit[c][r]

LEMMA RegistryUnchanged ==
  ASSUME RegistryInv, UNCHANGED <<connector, audit>>
  PROVE  RegistryKeeps
<1>1. RegistryInv'
  BY DEF RegistryInv, RegistryTypeOK, RowInv, Explains, Resolves
<1>2. \A c \in Connector : connector[c].configuration \in Nat
  BY DEF RegistryInv, RegistryTypeOK, Row
<1> QED BY <1>1, <1>2 DEF RegistryKeeps, Registered

\* A pin that exists resolves to the same capabilities after the step.
LEMMA PinKept ==
  ASSUME RegistryInv, RegistryKeeps, NEW c \in Connector,
         NEW pin \in 1..connector[c].configuration
  PROVE  CapabilitiesAt(c, pin)' = CapabilitiesAt(c, pin)
<1>1. /\ connector[c].configuration \in Nat
      /\ connector'[c].configuration \in Nat
      /\ Resolves(audit[c], connector[c])
      /\ Resolves(audit'[c], connector'[c])
  BY DEF RegistryInv, RegistryKeeps, RegistryTypeOK, Row, RowInv
<1>2. pin \in 1..connector'[c].configuration
  BY <1>1 DEF RegistryKeeps
<1>3. PICK r \in DOMAIN audit[c] : Snapshots(audit[c], pin) = {r}
  BY <1>1 DEF Resolves
<1>4. PICK s \in DOMAIN audit'[c] : Snapshots(audit'[c], pin) = {s}
  BY <1>1, <1>2 DEF Resolves
<1>5. r \in Snapshots(audit'[c], pin)
  BY <1>3 DEF Snapshots, RegistryKeeps
<1>6. Snapshots(audit'[c], pin) = {r}
  BY <1>4, <1>5
<1>7. (CHOOSE x \in Snapshots(audit[c], pin) : TRUE) = r
  BY <1>3
<1>8. (CHOOSE x \in Snapshots(audit'[c], pin) : TRUE) = r
  BY <1>6
<1> QED BY <1>7, <1>8 DEF CapabilitiesAt, RegistryKeeps

\* An accepted reconfiguration appends to the audit trail it explains.
LEMMA MutateKeeps ==
  ASSUME RegistryInv, RegistryInv', NEW c \in Connector, NEW expected, NEW next, NEW category,
         next.configuration = connector[c].configuration,
         next.lifecycle # "unregistered", next \in Row,
         Mutate(c, expected, next, category)
  PROVE  RegistryKeeps /\ \A d \in Connector \ {c} : connector'[d] = connector[d]
<1> DEFINE row == Advanced(next, category)
           added == AuditOf(row, category)
<1>1. /\ connector \in [Connector -> Row] /\ audit \in [Connector -> Seq(AuditRow)]
      /\ connector[c].configuration \in Nat
  BY DEF RegistryInv, RegistryTypeOK, Row
<1>2. /\ connector' = [connector EXCEPT ![c] = row]
      /\ audit' = [audit EXCEPT ![c] = Append(audit[c], added)]
  BY DEF Mutate
<1>3. /\ row.configuration \in Nat
      /\ row.configuration >= connector[c].configuration
      /\ row.lifecycle # "unregistered"
  <2>1. /\ row \in Row /\ row.lifecycle # "unregistered"
        /\ row.configuration = connector[c].configuration
                               + (IF AdvancesConfiguration(category) THEN 1 ELSE 0)
    BY AdvancedRow
  <2> QED BY <1>1, <2>1 DEF Row
<1> HIDE DEF row, added
<1>4. \A d \in Connector \ {c} : connector'[d] = connector[d] /\ audit'[d] = audit[d]
  BY <1>1, <1>2
<1>5. connector'[c] = row /\ audit'[c] = Append(audit[c], added)
  BY <1>1, <1>2
<1>6. /\ DOMAIN audit[c] \subseteq DOMAIN audit'[c]
      /\ \A r \in DOMAIN audit[c] : audit'[c][r] = audit[c][r]
  <2>1. audit[c] \in Seq(AuditRow)
    BY <1>1
  <2> QED BY <2>1, <1>5
<1>7. \A d \in Connector : connector[d].configuration \in Nat
  BY <1>1 DEF Row
<1>8. ASSUME NEW d \in Connector
      PROVE  /\ connector[d].configuration <= connector'[d].configuration
             /\ Registered(d) => Registered(d)'
             /\ DOMAIN audit[d] \subseteq DOMAIN audit'[d]
             /\ \A r \in DOMAIN audit[d] : audit'[d][r] = audit[d][r]
  <2>1. CASE d = c
    BY <2>1, <1>1, <1>3, <1>5, <1>6 DEF Registered
  <2>2. CASE d # c
    BY <2>2, <1>4, <1>7 DEF Registered
  <2> QED BY <2>1, <2>2
<1> QED BY <1>4, <1>8 DEF RegistryKeeps

\* A registration or a reconfiguration keeps every pin, and touches one
\* connector, whose shared lock nobody holds if it was registered.
LEMMA ConnectorStepKeeps ==
  ASSUME DeliveryInv, NEW c \in Connector, RegisterConnector(c) \/ Reconfigure(c)
  PROVE  /\ RegistryKeeps
         /\ \A d \in Connector \ {c} : connector'[d] = connector[d]
         /\ Registered(c) => ~ConnectorShared(c)
<1>1. RegistryInv /\ connector[c] \in Row
  BY DEF DeliveryInv, RegistryInv, RegistryTypeOK
<1>2. CASE RegisterConnector(c)
  <2>1. PICK cap \in Declarable, k \in Credential : Register(c, cap, k)
    BY <1>2 DEF RegisterConnector
  <2>2. RegistryInv'
    BY <1>1, <2>1, RegisterInv
  <2>3. ~Registered(c) /\ audit[c] = << >> /\ connector[c].configuration = 0
    BY <1>1, <2>1 DEF Register, Registered, RegistryInv, RowInv, Explains
  <2>4. /\ connector'[c].configuration \in Nat
        /\ \A d \in Connector : connector[d].configuration \in Nat
    BY <1>1, <2>2 DEF RegistryInv, RegistryTypeOK, Row
  <2>5. \A d \in Connector \ {c} : connector'[d] = connector[d] /\ audit'[d] = audit[d]
    BY <1>1, <2>1 DEF Register, RegistryInv, RegistryTypeOK
  <2>6. DOMAIN audit[c] = {}
    BY <2>3
  <2> QED BY <2>2, <2>3, <2>4, <2>5, <2>6 DEF RegistryKeeps, Registered
<1>3. CASE Reconfigure(c)
  <2>1. ~ConnectorShared(c)
    BY <1>3 DEF Reconfigure
  <2>2. ASSUME NEW s \in Lifecycle, ChangeLifecycle(c, connector[c].record, s)
        PROVE  RegistryKeeps /\ \A d \in Connector \ {c} : connector'[d] = connector[d]
    <3> DEFINE next == [connector[c] EXCEPT !.lifecycle = s]
    <3>1. RegistryInv'
      BY <1>1, <2>2, ChangeInv
    <3>2. /\ next \in Row
          /\ next.configuration = connector[c].configuration
          /\ next.lifecycle # "unregistered"
      BY <1>1 DEF Row, Lifecycle
    <3>3. Mutate(c, connector[c].record, next, "lifecycle_changed")
      BY <2>2 DEF ChangeLifecycle
    <3> HIDE DEF next
    <3> QED BY <1>1, <3>1, <3>2, <3>3, MutateKeeps
  <2>3. ASSUME NEW cap \in Declarable, UpdateCapabilities(c, connector[c].record, cap)
        PROVE  RegistryKeeps /\ \A d \in Connector \ {c} : connector'[d] = connector[d]
    <3> DEFINE next == [connector[c] EXCEPT !.capabilities = cap]
    <3>1. RegistryInv'
      BY <1>1, <2>3, ChangeInv
    <3>2. Mutate(c, connector[c].record, next, "capabilities_changed")
      BY <2>3 DEF UpdateCapabilities
    <3>3. /\ next \in Row
          /\ next.configuration = connector[c].configuration
          /\ next.lifecycle # "unregistered"
      BY <1>1, <3>2, RegistryAssumption DEF Row, Mutate, Registered
    <3> HIDE DEF next
    <3> QED BY <1>1, <3>1, <3>2, <3>3, MutateKeeps
  <2> QED BY <1>3, <2>1, <2>2, <2>3 DEF Reconfigure
<1> QED BY <1>2, <1>3

--------------------------------------------------------------------------------
(* What every step of the outbox keeps.                                     *)

\* Rows that exist keep their columns, committed rows stay committed, and
\* what is resolved stays resolved.
Moves ==
  \A i \in Intent :
    /\ state[i] # "absent" => intent'[i] = intent[i] /\ state'[i] # "absent"
    /\ Committed(i) => Committed(i)'
    /\ Committed(i) /\ state[i] \notin Blocking => state'[i] \notin Blocking

LEMMA GatedKept ==
  ASSUME Moves, NEW seen \in SUBSET Intent, NEW i \in Intent, Gated(seen, i), Committed(i)
  PROVE  Gated(seen, i)'
<1> SUFFICES ASSUME NEW p \in seen
             PROVE  /\ Committed(p)'
                    /\ (intent[i].ordered /\ Precedes(p, i) => state[p] \notin Blocking)'
  BY DEF Gated
<1>1. p \in Intent /\ Committed(p) /\ state[p] # "absent" /\ state[i] # "absent"
  BY DEF Gated, Committed, DeliveryState
<1>2. intent'[p] = intent[p] /\ intent'[i] = intent[i] /\ Committed(p)'
  BY <1>1 DEF Moves
<1>3. Precedes(p, i)' = Precedes(p, i)
  BY <1>2 DEF Precedes, SameStream
<1> QED BY <1>1, <1>2, <1>3 DEF Gated, Moves

LEMMA PinnedKept ==
  ASSUME RegistryInv, IntentsStored, RegistryKeeps, Moves, NEW i \in Intent, state[i] # "absent"
  PROVE  /\ PinnedCapabilities(i)' = PinnedCapabilities(i)
<1>1. /\ intent[i] \in IntentRow /\ intent'[i] = intent[i]
      /\ intent[i].pin \in 1..connector[intent[i].connector].configuration
  BY DEF IntentsStored, Moves
<1>2. intent[i].connector \in Connector
  BY <1>1 DEF IntentRow
<1> DEFINE c == intent[i].connector
           pin == intent[i].pin
<1> HIDE DEF c, pin
<1>3. c \in Connector /\ pin \in 1..connector[c].configuration
  BY <1>1, <1>2 DEF c, pin
<1> QED BY <1>1, <1>3, PinKept DEF PinnedCapabilities, c, pin

\* What a step leaves of the rows it does not write.
LEMMA StoredKept ==
  ASSUME IntentsStored, RegistryInv, RegistryKeeps, Moves, NEW i \in Intent, state[i] # "absent"
  PROVE  /\ intent'[i] = intent[i] /\ intent[i] \in IntentRow
         /\ Registered(intent[i].connector) /\ (Registered(intent[i].connector))'
         /\ intent[i].pin \in 1..connector'[intent[i].connector].configuration
<1>1. /\ intent[i] \in IntentRow /\ intent'[i] = intent[i]
      /\ Registered(intent[i].connector)
      /\ intent[i].pin \in 1..connector[intent[i].connector].configuration
      /\ intent[i].connector \in Connector
  BY DEF IntentsStored, Moves, IntentRow
<1>2. /\ connector[intent[i].connector].configuration \in Nat
      /\ connector'[intent[i].connector].configuration \in Nat
  BY <1>1 DEF RegistryInv, RegistryKeeps, RegistryTypeOK, Row
<1> QED BY <1>1, <1>2 DEF RegistryKeeps

\* Steps that write no connector and no column of an intent.
LEMMA FixedRows ==
  ASSUME DeliveryInv, UNCHANGED <<connector, audit, intent>>,
         \A i \in Intent : state'[i] \in {"absent", "uncommitted"} \/ state[i] = "absent"
                             => state'[i] = state[i]
  PROVE  /\ RegistryKeeps
         /\ IntentsStored' /\ InsertsHold'
         /\ \A i \in Intent : PinnedCapabilities(i)' = PinnedCapabilities(i)
<1>1. RegistryKeeps
  BY RegistryUnchanged DEF DeliveryInv
<1>2. IntentsStored'
  BY DEF DeliveryInv, IntentsStored, Registered
<1>3. InsertsHold'
  BY DEF DeliveryInv, InsertsHold
<1>4. \A i \in Intent : PinnedCapabilities(i)' = PinnedCapabilities(i)
  BY DEF PinnedCapabilities, CapabilitiesAt
<1> QED BY <1>1, <1>2, <1>3, <1>4

\* A claim in flight survives whatever leaves its row and its connector alone.
LEMMA ClaimKept ==
  ASSUME DeliveryInv, Moves, NEW w \in Worker, Claiming(w), worker'[w] = worker[w],
         NEW i \in Intent, i = worker[w].intent,
         state'[i] = state[i], attempts'[i] = attempts[i],
         connector'[intent[i].connector] = connector[intent[i].connector],
         \A v \in Worker : Claiming(v)' /\ worker'[v].intent = i => worker'[v] = worker[v]
  PROVE  ClaimHolds(w)'
<1>1. ClaimHolds(w) /\ worker[w] \in WorkerRow
  BY DEF DeliveryInv, ClaimsHold, TypeOK
<1>2. Committed(i) /\ state[i] # "absent" /\ worker[w].visible \in SUBSET Intent
  BY <1>1 DEF ClaimHolds, Committed, DeliveryState, WorkerRow, Idle, Claiming
<1>3. Gated(worker[w].visible, i)'
  <2>1. Gated(worker[w].visible, i)
    BY <1>1 DEF ClaimHolds
  <2>2. worker'[w].visible = worker[w].visible
    OBVIOUS
  <2> DEFINE seen == worker[w].visible
  <2> HIDE DEF seen
  <2>3. \A s \in SUBSET Intent : Gated(s, i) => Gated(s, i)'
    BY <1>2, GatedKept
  <2> QED BY <1>2, <2>1, <2>2, <2>3
<1>4. intent'[i] = intent[i]
  BY <1>2 DEF Moves
<1>5. Dispatching(intent[i].connector)' /\ ~HasOpenAttempt(i)'
  BY <1>1, <1>4 DEF ClaimHolds, Dispatching, HasOpenAttempt
<1>6. \A v \in Worker : Claiming(v)' /\ worker'[v].intent = i => v = w
  BY <1>1 DEF ClaimHolds, Claiming
<1> QED BY <1>1, <1>3, <1>5, <1>6 DEF ClaimHolds

\* An attempt keeps what it promises while its row does.
LEMMA AttemptKept ==
  ASSUME DeliveryInv, RegistryKeeps, Moves, NEW i \in Intent, NEW n \in DOMAIN attempts[i],
         attempts'[i][n].outcome = attempts[i][n].outcome,
         attempts'[i][n].visible = attempts[i][n].visible,
         attempts[i][n].outcome = "open" => Len(attempts'[i]) = Len(attempts[i]),
         attempts[i][n].outcome = "ambiguous" /\ ~PinnedCapabilities(i).supportsIdempotencyKey
           /\ state[i] \in AfterAmbiguous
             => Len(attempts'[i]) = Len(attempts[i]) /\ state'[i] \in AfterAmbiguous
  PROVE  AttemptHolds(i, n)'
<1>1. AttemptHolds(i, n) /\ attempts[i] \in Seq(Attempt)
  BY DEF DeliveryInv, AttemptsHold, TypeOK
<1>2. Committed(i)
  <2>1. attempts[i] # << >>
    OBVIOUS
  <2> QED BY <2>1 DEF DeliveryInv, AttemptsHold
<1>3. attempts[i][n].visible \in SUBSET Intent
  <2>1. attempts[i][n] \in Attempt
    BY <1>1
  <2> QED BY <2>1 DEF Attempt
<1>4. Gated(attempts[i][n].visible, i)'
  <2>1. Gated(attempts[i][n].visible, i)
    BY <1>1 DEF AttemptHolds
  <2>2. \A s \in SUBSET Intent : Gated(s, i) => Gated(s, i)'
    BY <1>2, GatedKept
  <2> QED BY <1>3, <2>1, <2>2
<1>5. PinnedCapabilities(i)' = PinnedCapabilities(i)
  BY <1>2, PinnedKept DEF DeliveryInv, Committed, DeliveryState
<1> QED BY <1>1, <1>4, <1>5 DEF AttemptHolds

--------------------------------------------------------------------------------
(* The steps.                                                               *)

\* Registrations and reconfigurations.
LEMMA ConnectorStepInv ==
  ASSUME DeliveryInv, NEW c \in Connector, RegisterConnector(c) \/ Reconfigure(c)
  PROVE  DeliveryInv'
<1>1. /\ RegistryKeeps
      /\ \A d \in Connector \ {c} : connector'[d] = connector[d]
      /\ Registered(c) => ~ConnectorShared(c)
  BY ConnectorStepKeeps
<1>2. UNCHANGED <<intent, state, schedule, attempts, worker, calls>>
  BY DEF RegisterConnector, Reconfigure
<1>3. Moves
  BY <1>2 DEF Moves, Committed
<1>4. TypeOK'
  BY <1>1, <1>2 DEF DeliveryInv, TypeOK, RegistryKeeps, RegistryInv, Committed
<1>5. IntentsStored'
  BY <1>1, <1>2, <1>3, StoredKept DEF DeliveryInv, IntentsStored
<1>6. ASSUME NEW i \in Intent, state[i] # "absent",
             state[i] = "uncommitted" \/ \E w \in Worker : Claiming(w) /\ worker[w].intent = i
      PROVE  connector'[intent[i].connector] = connector[intent[i].connector]
  <2>1. intent[i].connector \in Connector /\ Registered(intent[i].connector)
    BY <1>6 DEF DeliveryInv, IntentsStored, IntentRow
  <2>2. intent[i].connector # c
    BY <1>1, <1>6, <2>1 DEF ConnectorShared
  <2> QED BY <1>1, <2>1, <2>2
<1>7. InsertsHold'
  BY <1>2, <1>6 DEF DeliveryInv, InsertsHold
<1>8. ASSUME NEW w \in Worker, Claiming(w)' PROVE ClaimHolds(w)'
  <2>1. Claiming(w) /\ worker[w] \in WorkerRow /\ ClaimHolds(w)
    BY <1>2, <1>8 DEF Claiming, DeliveryInv, TypeOK, ClaimsHold
  <2>2. worker[w].intent \in Intent /\ state[worker[w].intent] # "absent"
    BY <2>1 DEF WorkerRow, Idle, Claiming, ClaimHolds
  <2>3. connector'[intent[worker[w].intent].connector] = connector[intent[worker[w].intent].connector]
    BY <1>6, <2>1, <2>2
  <2> QED BY <1>2, <1>3, <2>1, <2>2, <2>3, ClaimKept
<1>9. AttemptsHold'
  <2>1. ASSUME NEW i \in Intent, NEW n \in DOMAIN attempts[i] PROVE AttemptHolds(i, n)'
    BY <1>1, <1>2, <1>3, AttemptKept
  <2> QED BY <1>2, <2>1 DEF DeliveryInv, AttemptsHold, Committed
<1>10. SettledByItsClaimer'
  BY <1>2 DEF DeliveryInv, SettledByItsClaimer
<1> QED BY <1>1, <1>4, <1>5, <1>7, <1>8, <1>9, <1>10 DEF DeliveryInv, ClaimsHold, RegistryKeeps

\* A producer inserts an intent, pinned to the connector it holds.
LEMMA InsertIntentInv ==
  ASSUME DeliveryInv, NEW i \in Intent, NEW c \in Connector, NEW a \in Aggregate,
         NEW r \in 0..MaxAggregateRevision, InsertIntent(i, c, a, r)
  PROVE  DeliveryInv'
<1> DEFINE row == intent'[i]
<1>1. /\ UNCHANGED <<connector, audit, schedule, attempts, worker, calls>>
      /\ state[i] = "absent"
      /\ state' = [state EXCEPT ![i] = "uncommitted"]
      /\ Registered(c) /\ connector[c].lifecycle # "retired"
  BY DEF InsertIntent
<1>2. intent \in [Intent -> IntentRow \union {NoIntent}] /\ connector[c] \in Row
      /\ state \in [Intent -> DeliveryState \union {"absent", "uncommitted", "aborted"}]
  BY DEF DeliveryInv, TypeOK, RegistryTypeOK
<1>3. /\ \A j \in Intent \ {i} : intent'[j] = intent[j] /\ state'[j] = state[j]
      /\ state'[i] = "uncommitted"
      /\ row.connector = c /\ row.pin = connector[c].configuration
      /\ row \in IntentRow
      /\ intent' = [intent EXCEPT ![i] = row]
  <2>1. PICK ordered : /\ ordered = CapabilitiesAt(c, connector[c].configuration).perAggregateOrdering
                       /\ intent' = [intent EXCEPT ![i] =
                            [connector |-> c, aggregate |-> a, revision |-> r,
                             pin |-> connector[c].configuration, ordered |-> ordered]]
    BY DEF InsertIntent
  <2>2. connector[c].configuration \in 1..connector[c].configuration
    BY <1>1, RegisteredConfigured DEF DeliveryInv
  <2>3. ordered \in BOOLEAN
    <3>1. CapabilitiesAt(c, connector[c].configuration) \in Capabilities
      BY <2>2, PinResolves DEF DeliveryInv
    <3> QED BY <2>1, <3>1 DEF Capabilities
  <2>4. intent'[i] = [connector |-> c, aggregate |-> a, revision |-> r,
                      pin |-> connector[c].configuration, ordered |-> ordered]
    BY <1>2, <2>1
  <2>5. intent'[i] \in IntentRow
    BY <2>2, <2>3, <2>4 DEF IntentRow
  <2> QED BY <1>1, <1>2, <2>1, <2>4, <2>5
<1> HIDE DEF row
<1>4. RegistryKeeps
  BY <1>1, RegistryUnchanged DEF DeliveryInv
<1>5. Moves
  BY <1>1, <1>3 DEF Moves, Committed, DeliveryState
<1>6. TypeOK'
  BY <1>1, <1>2, <1>3 DEF DeliveryInv, TypeOK, RegistryTypeOK, Committed
<1>7. IntentsStored' /\ InsertsHold'
  <2>1. connector[c].configuration \in 1..connector[c].configuration
    BY <1>1, RegisteredConfigured DEF DeliveryInv
  <2> QED BY <1>1, <1>3, <2>1 DEF DeliveryInv, IntentsStored, InsertsHold, Registered, row
<1>8. ASSUME NEW w \in Worker, Claiming(w)' PROVE ClaimHolds(w)'
  <2>1. Claiming(w) /\ worker[w] \in WorkerRow /\ ClaimHolds(w)
    BY <1>1, <1>8 DEF Claiming, DeliveryInv, TypeOK, ClaimsHold
  <2>2. worker[w].intent \in Intent \ {i}
    BY <1>1, <2>1 DEF WorkerRow, Idle, Claiming, ClaimHolds
  <2> QED BY <1>1, <1>3, <1>5, <2>1, <2>2, ClaimKept
<1>9. AttemptsHold'
  <2>1. ASSUME NEW j \in Intent, NEW n \in DOMAIN attempts[j] PROVE AttemptHolds(j, n)'
    <3>1. j # i
      BY <1>1 DEF DeliveryInv, AttemptsHold, Committed, DeliveryState
    <3> QED BY <1>1, <1>3, <1>4, <1>5, <3>1, AttemptKept
  <2>2. ~Committed(i) /\ \A j \in Intent \ {i} : Committed(j)' = Committed(j)
    BY <1>1, <1>3 DEF Committed, DeliveryState
  <2> QED BY <1>1, <2>1, <2>2 DEF DeliveryInv, AttemptsHold
<1>10. SettledByItsClaimer'
  BY <1>1 DEF DeliveryInv, SettledByItsClaimer
<1> QED BY <1>4, <1>6, <1>7, <1>8, <1>9, <1>10 DEF DeliveryInv, ClaimsHold, RegistryKeeps

\* What every step that writes only outbox rows and workers keeps, given
\* what it does to claims and attempts.
LEMMA OutboxStepInv ==
  ASSUME DeliveryInv, UNCHANGED <<connector, audit, intent>>, TypeOK', SettledByItsClaimer',
         \A i \in Intent : state'[i] \in {"absent", "uncommitted"} \/ state[i] = "absent"
                             => state'[i] = state[i],
         \A w \in Worker : Claiming(w)' => ClaimHolds(w)',
         \A i \in Intent : /\ ~Committed(i)' => attempts'[i] = << >>
                           /\ \A n \in DOMAIN attempts'[i] : AttemptHolds(i, n)'
  PROVE  DeliveryInv'
<1>1. RegistryInv' /\ IntentsStored' /\ InsertsHold'
  BY FixedRows DEF RegistryKeeps
<1> QED BY <1>1 DEF DeliveryInv, ClaimsHold, AttemptsHold

\* The business transaction ends.
LEMMA EndInsertInv ==
  ASSUME DeliveryInv, NEW i \in Intent, NEW outcome \in {"pending", "aborted"},
         EndInsert(i, outcome)
  PROVE  DeliveryInv'
<1>1. /\ UNCHANGED <<connector, audit, intent, schedule, attempts, worker, calls>>
      /\ state[i] = "uncommitted" /\ state' = [state EXCEPT ![i] = outcome]
      /\ state \in [Intent -> DeliveryState \union {"absent", "uncommitted", "aborted"}]
  BY DEF EndInsert, DeliveryInv, TypeOK
<1>2. state'[i] = outcome /\ \A j \in Intent \ {i} : state'[j] = state[j]
  BY <1>1
<1>3. Moves /\ ~Committed(i)
  BY <1>1, <1>2 DEF Moves, Committed, DeliveryState
<1>4. TypeOK'
  <2>1. \A j \in Intent : Committed(j)' => intent[j] \in IntentRow
    BY <1>1, <1>2 DEF DeliveryInv, TypeOK, IntentsStored, Committed
  <2>2. state' \in [Intent -> DeliveryState \union {"absent", "uncommitted", "aborted"}]
    BY <1>1 DEF DeliveryState
  <2> QED BY <1>1, <2>1, <2>2 DEF DeliveryInv, TypeOK, RegistryTypeOK
<1>5. ASSUME NEW w \in Worker, Claiming(w)' PROVE ClaimHolds(w)'
  <2>1. Claiming(w) /\ worker[w] \in WorkerRow /\ ClaimHolds(w)
    BY <1>1, <1>5 DEF Claiming, DeliveryInv, TypeOK, ClaimsHold
  <2>2. worker[w].intent \in Intent \ {i}
    BY <1>1, <2>1 DEF WorkerRow, Idle, Claiming, ClaimHolds
  <2> QED BY <1>1, <1>2, <1>3, <2>1, <2>2, ClaimKept
<1>6. RegistryKeeps
  BY <1>1, RegistryUnchanged DEF DeliveryInv
<1>7. ASSUME NEW j \in Intent
      PROVE  /\ ~Committed(j)' => attempts'[j] = << >>
             /\ \A n \in DOMAIN attempts'[j] : AttemptHolds(j, n)'
  <2>1. CASE j = i
    BY <1>1, <1>3, <2>1 DEF DeliveryInv, AttemptsHold
  <2>2. CASE j # i
    <3>1. Committed(j)' = Committed(j)
      BY <1>2, <2>2 DEF Committed
    <3>2. ASSUME NEW n \in DOMAIN attempts[j] PROVE AttemptHolds(j, n)'
      BY <1>1, <1>2, <1>3, <1>6, <2>2, AttemptKept
    <3> QED BY <1>1, <3>1, <3>2 DEF DeliveryInv, AttemptsHold
  <2> QED BY <2>1, <2>2
<1>8. SettledByItsClaimer'
  BY <1>1 DEF DeliveryInv, SettledByItsClaimer
<1> QED BY <1>1, <1>2, <1>4, <1>5, <1>7, <1>8, OutboxStepInv

\* Steps that write only workers, schedules and calls.
LEMMA RowsUntouched ==
  ASSUME DeliveryInv, UNCHANGED <<connector, audit, intent, state, attempts>>
  PROVE  /\ Moves /\ RegistryKeeps
         /\ \A i \in Intent : /\ ~Committed(i)' => attempts'[i] = << >>
                              /\ \A n \in DOMAIN attempts'[i] : AttemptHolds(i, n)'
<1>1. Moves
  BY DEF Moves, Committed
<1>2. RegistryKeeps
  BY RegistryUnchanged DEF DeliveryInv
<1>3. ASSUME NEW i \in Intent, NEW n \in DOMAIN attempts[i] PROVE AttemptHolds(i, n)'
  BY <1>1, <1>2, AttemptKept
<1> QED BY <1>1, <1>2, <1>3 DEF DeliveryInv, AttemptsHold, Committed

\* A worker's step that ends no claim but its own, and starts none.
LEMMA WorkerMovesInv ==
  ASSUME DeliveryInv, UNCHANGED <<connector, audit, intent, state, attempts>>,
         NEW w \in Worker, NEW row \in WorkerRow, row.phase # "claiming",
         worker' = [worker EXCEPT ![w] = row], schedule' \in [Intent -> Schedule],
         calls \subseteq calls', calls' \subseteq Call
  PROVE  DeliveryInv'
<1>1. worker \in [Worker -> WorkerRow]
  BY DEF DeliveryInv, TypeOK
<1>2. worker'[w] = row /\ \A v \in Worker \ {w} : worker'[v] = worker[v]
  BY <1>1
<1>3. TypeOK'
  BY <1>1 DEF DeliveryInv, TypeOK, RegistryTypeOK, Committed
<1>4. SettledByItsClaimer'
  BY DEF DeliveryInv, SettledByItsClaimer
<1>5. ASSUME NEW v \in Worker, Claiming(v)' PROVE ClaimHolds(v)'
  <2>1. v # w /\ worker'[v] = worker[v]
    BY <1>2, <1>5 DEF Claiming
  <2>2. Claiming(v) /\ worker[v] \in WorkerRow /\ ClaimHolds(v)
    BY <1>5, <2>1 DEF Claiming, DeliveryInv, TypeOK, ClaimsHold
  <2>3. worker[v].intent \in Intent
    BY <2>2 DEF WorkerRow, Idle, Claiming
  <2>4. \A u \in Worker : Claiming(u)' => worker'[u] = worker[u]
    BY <1>2 DEF Claiming
  <2> QED BY <2>1, <2>2, <2>3, <2>4, RowsUntouched, ClaimKept
<1> QED BY <1>3, <1>4, <1>5, RowsUntouched, OutboxStepInv

\* A claim raises, a boundary is refused, a worker dies: it forgets.
LEMMA ForgetInv ==
  ASSUME DeliveryInv, NEW w \in Worker, ClaimRaise(w) \/ MarkRefused(w) \/ Crash(w)
  PROVE  DeliveryInv'
<1>1. /\ UNCHANGED <<connector, audit, intent, state, schedule, attempts, calls>>
      /\ worker' = [worker EXCEPT ![w] = Idle]
  BY DEF ClaimRaise, MarkRefused, Crash
<1>2. Idle \in WorkerRow /\ Idle.phase # "claiming"
  BY DEF WorkerRow, Idle
<1>3. schedule' \in [Intent -> Schedule] /\ calls' \subseteq Call
  BY <1>1 DEF DeliveryInv, TypeOK
<1> QED BY <1>1, <1>2, <1>3, WorkerMovesInv

\* A worker sends its settlement.
LEMMA ReportInv ==
  ASSUME DeliveryInv, NEW w \in Worker, NEW o \in Outcome, Report(w, o)
  PROVE  DeliveryInv'
<1> DEFINE call == [intent |-> worker[w].intent, attempt |-> worker[w].attempt,
                    token |-> w, outcome |-> o]
<1>1. /\ UNCHANGED <<connector, audit, intent, state, schedule, attempts>>
      /\ worker' = [worker EXCEPT ![w] = Idle]
      /\ calls' = calls \union {call}
      /\ worker[w].phase \in {"claimed", "boundary"}
  BY DEF Report
<1>2. Idle \in WorkerRow /\ Idle.phase # "claiming"
  BY DEF WorkerRow, Idle
<1>3. worker[w] \in WorkerRow /\ calls \subseteq Call /\ schedule \in [Intent -> Schedule]
  BY DEF DeliveryInv, TypeOK
<1>4. call \in Call
  BY <1>1, <1>3 DEF WorkerRow, Idle, Call
<1> QED BY <1>1, <1>2, <1>3, <1>4, WorkerMovesInv

\* The database clock reaches a scheduled retry.
LEMMA ScheduleDueInv ==
  ASSUME DeliveryInv, NEW i \in Intent, ScheduleDue(i)
  PROVE  DeliveryInv'
<1>1. /\ UNCHANGED <<connector, audit, intent, state, attempts, worker, calls>>
      /\ schedule' = [schedule EXCEPT ![i] = "due"]
      /\ schedule \in [Intent -> Schedule]
  BY DEF ScheduleDue, DeliveryInv, TypeOK
<1>2. TypeOK'
  BY <1>1 DEF DeliveryInv, TypeOK, RegistryTypeOK, Committed, Schedule
<1>3. ASSUME NEW v \in Worker, Claiming(v)' PROVE ClaimHolds(v)'
  <2>1. Claiming(v) /\ worker[v] \in WorkerRow /\ ClaimHolds(v)
    BY <1>1, <1>3 DEF Claiming, DeliveryInv, TypeOK, ClaimsHold
  <2>2. worker[v].intent \in Intent
    BY <2>1 DEF WorkerRow, Idle, Claiming
  <2> QED BY <1>1, <2>1, <2>2, RowsUntouched, ClaimKept
<1>4. SettledByItsClaimer'
  BY <1>1 DEF DeliveryInv, SettledByItsClaimer
<1> QED BY <1>1, <1>2, <1>3, <1>4, RowsUntouched, OutboxStepInv

\* A claim selects: its filter and its snapshot establish what it will hold.
LEMMA ClaimSelectInv ==
  ASSUME DeliveryInv, NEW w \in Worker, NEW c \in Connector, ClaimSelect(w, c)
  PROVE  DeliveryInv'
<1>1. /\ UNCHANGED <<connector, audit, intent, state, schedule, attempts, calls>>
      /\ worker[w].phase = "idle" /\ Dispatching(c)
      /\ worker \in [Worker -> WorkerRow]
  BY DEF ClaimSelect, DeliveryInv, TypeOK
<1>2. PICK i \in Intent :
        /\ First(i, Candidates(c))
        /\ worker' = [worker EXCEPT ![w] =
             [phase |-> "claiming", intent |-> i, attempt |-> 0,
              visible |-> {j \in Intent : Committed(j)}]]
  BY DEF ClaimSelect
<1>3. /\ i \in Eligible(c) /\ ~RowLocked(i)
  BY <1>2 DEF First, Candidates
<1>4. /\ Committed(i) /\ intent[i].connector = c /\ state[i] \in {"pending", "retrying"}
      /\ ~HasOpenAttempt(i) /\ ~HeldByPredecessor(i)
  BY <1>3 DEF Eligible
<1>5. /\ worker'[w].phase = "claiming" /\ worker'[w].intent = i
      /\ worker'[w].visible = {j \in Intent : Committed(j)}
      /\ worker'[w] \in WorkerRow
      /\ \A v \in Worker \ {w} : worker'[v] = worker[v]
  BY <1>1, <1>2 DEF WorkerRow
<1>6. TypeOK'
  <2>1. worker' \in [Worker -> WorkerRow]
    BY <1>1, <1>2, <1>5
  <2> QED BY <1>1, <2>1 DEF DeliveryInv, TypeOK, RegistryTypeOK, Committed
<1>7. ~\E v \in Worker : Claiming(v) /\ worker[v].intent = i
  BY <1>3 DEF RowLocked
<1>8. ClaimHolds(w)'
  <2>1. Gated({j \in Intent : Committed(j)}, i)'
    BY <1>1, <1>4 DEF Gated, Committed, HeldByPredecessor, Precedes, SameStream
  <2>2. \A v \in Worker : Claiming(v)' /\ worker'[v].intent = i => v = w
    BY <1>5, <1>7 DEF Claiming
  <2>3. Dispatching(intent[i].connector)' /\ ~HasOpenAttempt(i)'
    BY <1>1, <1>4 DEF Dispatching, HasOpenAttempt
  <2>4. Gated(worker[w].visible, i)'
    BY <2>1, <1>5, <1>1 DEF Gated, Committed, Precedes, SameStream
  <2> QED BY <1>1, <1>4, <1>5, <2>2, <2>3, <2>4 DEF ClaimHolds
<1>9. ASSUME NEW v \in Worker, Claiming(v)' PROVE ClaimHolds(v)'
  <2>1. CASE v = w
    BY <1>8, <2>1
  <2>2. CASE v # w
    <3>1. Claiming(v) /\ worker[v] \in WorkerRow /\ worker'[v] = worker[v]
      BY <1>1, <1>5, <1>9, <2>2 DEF Claiming
    <3>2. worker[v].intent \in Intent /\ worker[v].intent # i
      BY <1>7, <3>1 DEF WorkerRow, Idle, Claiming
    <3>3. \A u \in Worker : Claiming(u)' /\ worker'[u].intent = worker[v].intent
                               => worker'[u] = worker[u]
      BY <1>5, <3>2
    <3> QED BY <1>1, <3>1, <3>2, <3>3, RowsUntouched, ClaimKept
  <2> QED BY <2>1, <2>2
<1>10. SettledByItsClaimer'
  BY <1>1 DEF DeliveryInv, SettledByItsClaimer
<1> QED BY <1>1, <1>6, <1>9, <1>10, RowsUntouched, OutboxStepInv

\* A claim commits: the attempt it opens is gated by what the claim held.
LEMMA ClaimCommitInv ==
  ASSUME DeliveryInv, NEW w \in Worker, ClaimCommit(w)
  PROVE  DeliveryInv'
<1>1. Claiming(w) /\ worker \in [Worker -> WorkerRow] /\ worker[w] \in WorkerRow /\ ClaimHolds(w)
  BY DEF ClaimCommit, DeliveryInv, TypeOK, ClaimsHold
<1>2. worker[w].intent \in Intent /\ worker[w].visible \in SUBSET Intent
  BY <1>1 DEF WorkerRow, Idle, Claiming
<1>3. PICK i \in Intent, seen \in SUBSET Intent, last \in Nat :
        i = worker[w].intent /\ seen = worker[w].visible /\ last = Len(attempts[i]) + 1
  BY <1>2 DEF DeliveryInv, TypeOK
<1> DEFINE a == [token |-> w, dispatched |-> FALSE, outcome |-> "open",
                 visible |-> seen]
           row == [phase |-> "claimed", intent |-> i,
                   attempt |-> last, visible |-> {}]
<1>4. /\ UNCHANGED <<connector, audit, intent, calls>>
      /\ attempts' = [attempts EXCEPT ![i] = Append(@, a)]
      /\ state' = [state EXCEPT ![i] = "dispatching"]
      /\ schedule' = [schedule EXCEPT ![i] = "none"]
      /\ worker' = [worker EXCEPT ![w] = row]
  BY <1>3 DEF ClaimCommit
<1>5. /\ state \in [Intent -> DeliveryState \union {"absent", "uncommitted", "aborted"}]
      /\ attempts \in [Intent -> Seq(Attempt)]
  BY DEF DeliveryInv, TypeOK
<1>7. a \in Attempt /\ row \in WorkerRow
  BY DEF Attempt, WorkerRow
<1>8. /\ state[i] \in {"pending", "retrying"} /\ Committed(i)
      /\ \A n \in DOMAIN attempts[i] : attempts[i][n].outcome # "open"
      /\ Gated(seen, i)
      /\ \A v \in Worker : Claiming(v) /\ worker[v].intent = i => v = w
  BY <1>1, <1>3 DEF ClaimHolds, HasOpenAttempt, Committed, DeliveryState
<1>9. /\ state'[i] = "dispatching" /\ \A j \in Intent \ {i} : state'[j] = state[j]
      /\ attempts'[i] = Append(attempts[i], a)
      /\ \A j \in Intent \ {i} : attempts'[j] = attempts[j]
      /\ worker'[w] = row /\ \A v \in Worker \ {w} : worker'[v] = worker[v]
  BY <1>1, <1>4, <1>5
<1>10. /\ attempts'[i] \in Seq(Attempt) /\ Len(attempts'[i]) = last
      /\ DOMAIN attempts'[i] = 1..last /\ DOMAIN attempts[i] = 1..Len(attempts[i])
      /\ Len(attempts[i]) \in Nat
      /\ attempts'[i][last] = a
      /\ \A n \in DOMAIN attempts[i] : attempts'[i][n] = attempts[i][n]
  BY <1>3, <1>5, <1>7, <1>9
<1>11. a.outcome = "open" /\ a.visible = seen /\ row.phase = "claimed"
  OBVIOUS
<1> HIDE DEF a, row
<1>12. Moves
  BY <1>4, <1>8, <1>9 DEF Moves, Committed, DeliveryState, Blocking
<1>13. TypeOK'
  <2>1. state' \in [Intent -> DeliveryState \union {"absent", "uncommitted", "aborted"}]
    BY <1>4, <1>5 DEF DeliveryState
  <2>2. \A j \in Intent : Committed(j)' => intent[j] \in IntentRow
    BY <1>8, <1>9 DEF DeliveryInv, TypeOK, Committed
  <2>3. attempts' \in [Intent -> Seq(Attempt)] /\ worker' \in [Worker -> WorkerRow]
    BY <1>1, <1>4, <1>5, <1>7, <1>9, <1>10
  <2> QED BY <1>4, <2>1, <2>2, <2>3 DEF DeliveryInv, TypeOK, RegistryTypeOK, Schedule
<1>14. ASSUME NEW v \in Worker, Claiming(v)' PROVE ClaimHolds(v)'
  <2>1. v # w /\ worker'[v] = worker[v] /\ Claiming(v)
    BY <1>9, <1>11, <1>14 DEF Claiming
  <2>2. worker[v].intent \in Intent \ {i}
    BY <1>1, <1>8, <2>1 DEF WorkerRow, Idle, Claiming, DeliveryInv, TypeOK
  <2>3. \A u \in Worker : Claiming(u)' => worker'[u] = worker[u]
    BY <1>9, <1>11 DEF Claiming
  <2> QED BY <1>4, <1>9, <1>12, <2>1, <2>2, <2>3, ClaimKept
<1>15. RegistryKeeps
  BY <1>4, RegistryUnchanged DEF DeliveryInv
<1>16. ASSUME NEW j \in Intent
       PROVE  /\ ~Committed(j)' => attempts'[j] = << >>
              /\ \A n \in DOMAIN attempts'[j] : AttemptHolds(j, n)'
  <2>1. CASE j = i
    <3>1. Committed(j)'
      BY <1>9, <2>1 DEF Committed, DeliveryState
    <3>2. ASSUME NEW n \in DOMAIN attempts[i] PROVE AttemptHolds(i, n)'
      <4>1. attempts'[i][n] = attempts[i][n] /\ attempts[i][n].outcome # "open"
        BY <1>8, <1>10
      <4>2. state[i] \notin AfterAmbiguous
        BY <1>8 DEF AfterAmbiguous
      <4> QED BY <1>10, <1>12, <1>15, <4>1, <4>2, AttemptKept
    <3>3. AttemptHolds(i, last)'
      <4>1. Gated(seen, i)'
        BY <1>8, <1>12, GatedKept
      <4> QED BY <1>10, <1>11, <4>1 DEF AttemptHolds
    <3>4. ASSUME NEW n \in DOMAIN attempts'[i] PROVE AttemptHolds(i, n)'
      <4>1. n \in DOMAIN attempts[i] \/ n = last
        BY <1>3, <1>10
      <4> QED BY <3>2, <3>3, <4>1
    <3> QED BY <2>1, <3>1, <3>4
  <2>2. CASE j # i
    <3>1. Committed(j)' = Committed(j)
      BY <1>9, <2>2 DEF Committed
    <3>2. ASSUME NEW n \in DOMAIN attempts[j] PROVE AttemptHolds(j, n)'
      BY <1>4, <1>9, <1>12, <1>15, <2>2, AttemptKept
    <3> QED BY <1>9, <2>2, <3>1, <3>2 DEF DeliveryInv, AttemptsHold
  <2> QED BY <2>1, <2>2
<1>17. SettledByItsClaimer'
  <2> SUFFICES ASSUME NEW j \in Intent, NEW n \in DOMAIN attempts'[j],
                      attempts'[j][n].outcome # "open"
               PROVE  [intent |-> j, attempt |-> n, token |-> attempts'[j][n].token,
                       outcome |-> attempts'[j][n].outcome] \in calls'
    BY DEF SettledByItsClaimer
  <2>1. n \in DOMAIN attempts[j] /\ attempts'[j][n] = attempts[j][n]
    BY <1>9, <1>10, <1>11
  <2> QED BY <1>4, <2>1 DEF DeliveryInv, SettledByItsClaimer
<1> QED BY <1>4, <1>8, <1>9, <1>13, <1>14, <1>16, <1>17, OutboxStepInv

\* An attempt's row is rewritten in place.
LEMMA RowRewritten ==
  ASSUME attempts \in [Intent -> Seq(Attempt)], NEW i \in Intent, NEW n \in DOMAIN attempts[i],
         NEW new \in Attempt,
         attempts' = [attempts EXCEPT ![i] = [attempts[i] EXCEPT ![n] = new]]
  PROVE  /\ attempts' \in [Intent -> Seq(Attempt)]
         /\ \A j \in Intent \ {i} : attempts'[j] = attempts[j]
         /\ Len(attempts'[i]) = Len(attempts[i])
         /\ DOMAIN attempts'[i] = DOMAIN attempts[i]
         /\ attempts'[i][n] = new
         /\ \A m \in DOMAIN attempts[i] : m # n => attempts'[i][m] = attempts[i][m]
<1>1. PICK rows \in Seq(Attempt) : rows = attempts[i]
  OBVIOUS
<1>2. PICK changed : changed = [rows EXCEPT ![n] = new]
  OBVIOUS
<1>3. /\ changed \in Seq(Attempt) /\ Len(changed) = Len(rows)
      /\ DOMAIN changed = DOMAIN rows /\ changed[n] = new
      /\ \A m \in DOMAIN rows : m # n => changed[m] = rows[m]
  BY <1>1, <1>2
<1>4. attempts' = [attempts EXCEPT ![i] = changed]
  BY <1>1, <1>2
<1> QED BY <1>1, <1>3, <1>4

\* No claim is in flight on an intent with an open attempt, so whoever writes
\* only that intent's rows disturbs no claim.
LEMMA OthersClaimsKept ==
  ASSUME DeliveryInv, Moves, NEW i \in Intent,
         ~\E v \in Worker : Claiming(v) /\ worker[v].intent = i,
         UNCHANGED <<connector, audit, intent>>,
         \A v \in Worker : Claiming(v)' => worker'[v] = worker[v],
         \A j \in Intent \ {i} : state'[j] = state[j] /\ attempts'[j] = attempts[j],
         NEW v \in Worker, Claiming(v)'
  PROVE  ClaimHolds(v)'
<1>1. Claiming(v) /\ worker'[v] = worker[v] /\ worker[v] \in WorkerRow
  BY DEF Claiming, DeliveryInv, TypeOK
<1>2. worker[v].intent \in Intent \ {i}
  BY <1>1 DEF WorkerRow, Idle, Claiming
<1> QED BY <1>1, <1>2, ClaimKept

\* The dispatch boundary commits.
LEMMA MarkInv ==
  ASSUME DeliveryInv, NEW w \in Worker, MarkDispatchStarted(w)
  PROVE  DeliveryInv'
<1>1. /\ worker[w].phase = "claimed" /\ worker \in [Worker -> WorkerRow]
      /\ worker[w] \in WorkerRow
      /\ attempts \in [Intent -> Seq(Attempt)]
      /\ UNCHANGED <<connector, audit, intent, state, schedule, calls>>
  BY DEF MarkDispatchStarted, DeliveryInv, TypeOK
<1>2. worker[w].intent \in Intent
  BY <1>1 DEF WorkerRow, Idle
<1>3. PICK i \in Intent : i = worker[w].intent
  BY <1>2
<1>4. PICK n : i = worker[w].intent /\ n = worker[w].attempt
  BY <1>3
<1>5. n \in DOMAIN attempts[i] /\ attempts[i][n].outcome = "open"
  BY <1>4 DEF MarkDispatchStarted, Fence
<1>6. PICK new : new = [attempts[i][n] EXCEPT !.dispatched = TRUE]
  OBVIOUS
<1>7. /\ new \in Attempt /\ new.outcome = attempts[i][n].outcome
      /\ new.visible = attempts[i][n].visible /\ new.token = attempts[i][n].token
  <2>1. attempts[i][n] \in Attempt
    BY <1>1, <1>5
  <2> QED BY <1>6, <2>1 DEF Attempt
<1>8. attempts' = [attempts EXCEPT ![i] = [attempts[i] EXCEPT ![n] = new]]
  BY <1>4, <1>6 DEF MarkDispatchStarted
<1>9. /\ attempts' \in [Intent -> Seq(Attempt)]
      /\ \A j \in Intent \ {i} : attempts'[j] = attempts[j]
      /\ Len(attempts'[i]) = Len(attempts[i])
      /\ DOMAIN attempts'[i] = DOMAIN attempts[i]
      /\ attempts'[i][n] = new
      /\ \A m \in DOMAIN attempts[i] : m # n => attempts'[i][m] = attempts[i][m]
  BY <1>1, <1>5, <1>7, <1>8, RowRewritten
<1>10. PICK answer \in {"boundary", "claimed"} : worker' = [worker EXCEPT ![w].phase = answer]
  BY DEF MarkDispatchStarted
<1>11. /\ worker' \in [Worker -> WorkerRow]
       /\ worker'[w].phase # "claiming"
       /\ \A v \in Worker \ {w} : worker'[v] = worker[v]
  <2>1. PICK row \in WorkerRow : row = worker[w] /\ row.phase = "claimed"
    BY <1>1
  <2>2. PICK next : next = [row EXCEPT !.phase = answer]
    OBVIOUS
  <2>3. next \in WorkerRow /\ next.phase # "claiming"
    BY <2>1, <2>2, <1>10 DEF WorkerRow, Idle
  <2>4. worker' = [worker EXCEPT ![w] = next]
    BY <1>10, <2>1, <2>2
  <2> QED BY <1>1, <2>3, <2>4
<1>12. Moves /\ RegistryKeeps
  BY <1>1, RegistryUnchanged DEF Moves, Committed, DeliveryInv
<1>13. TypeOK'
  BY <1>1, <1>9, <1>11 DEF DeliveryInv, TypeOK, RegistryTypeOK, Committed
<1>14. ~\E v \in Worker : Claiming(v) /\ worker[v].intent = i
  BY <1>5 DEF DeliveryInv, ClaimsHold, ClaimHolds, HasOpenAttempt
<1>15. \A v \in Worker : Claiming(v)' => worker'[v] = worker[v]
  BY <1>11 DEF Claiming
<1>16. ASSUME NEW v \in Worker, Claiming(v)' PROVE ClaimHolds(v)'
  BY <1>1, <1>9, <1>12, <1>14, <1>15, <1>16, OthersClaimsKept
<1>17. ASSUME NEW j \in Intent, NEW m \in DOMAIN attempts[j]
       PROVE  /\ attempts'[j][m].outcome = attempts[j][m].outcome
              /\ attempts'[j][m].visible = attempts[j][m].visible
              /\ attempts'[j][m].token = attempts[j][m].token
              /\ DOMAIN attempts'[j] = DOMAIN attempts[j]
              /\ Len(attempts'[j]) = Len(attempts[j])
  BY <1>7, <1>9
<1>18. ASSUME NEW j \in Intent
       PROVE  /\ ~Committed(j)' => attempts'[j] = << >>
              /\ \A m \in DOMAIN attempts'[j] : AttemptHolds(j, m)'
  <2>1. DOMAIN attempts'[j] = DOMAIN attempts[j]
    BY <1>9
  <2>2. ASSUME NEW m \in DOMAIN attempts[j] PROVE AttemptHolds(j, m)'
    BY <1>1, <1>12, <1>17, AttemptKept
  <2>3. ~Committed(j)' => attempts'[j] = << >>
    <3>1. Committed(j)' = Committed(j)
      BY <1>1 DEF Committed
    <3>2. attempts[i] # << >>
      BY <1>5
    <3> QED BY <1>9, <3>1, <3>2 DEF DeliveryInv, AttemptsHold
  <2> QED BY <2>1, <2>2, <2>3
<1>19. SettledByItsClaimer'
  <2>1. \A j \in Intent : DOMAIN attempts'[j] = DOMAIN attempts[j]
    BY <1>9
  <2> QED BY <1>1, <1>17, <2>1 DEF DeliveryInv, SettledByItsClaimer
<1> QED BY <1>1, <1>13, <1>16, <1>18, <1>19, OutboxStepInv

\* A settlement executes on the attempt it names, which is the last one.
LEMMA CompleteInv ==
  ASSUME DeliveryInv, NEW call \in calls, Complete(call)
  PROVE  DeliveryInv'
<1>1. /\ call \in Call /\ attempts \in [Intent -> Seq(Attempt)]
      /\ state \in [Intent -> DeliveryState \union {"absent", "uncommitted", "aborted"}]
      /\ UNCHANGED <<connector, audit, intent, schedule, worker, calls>>
  BY DEF Complete, DeliveryInv, TypeOK
<1>2. PICK i \in Intent, n \in Nat, o \in Outcome :
        i = call.intent /\ n = call.attempt /\ o = call.outcome
  BY <1>1 DEF Call
<1>3. /\ n \in DOMAIN attempts[i] /\ attempts[i][n].outcome = "open"
      /\ attempts[i][n].token = call.token /\ state[i] = "dispatching"
  BY <1>2 DEF Complete, Fence
<1>4. PICK new : new = [attempts[i][n] EXCEPT !.outcome = o]
  OBVIOUS
<1>5. /\ new \in Attempt /\ new.outcome = o
      /\ new.visible = attempts[i][n].visible /\ new.token = attempts[i][n].token
      /\ new.visible \in SUBSET Intent
  <2>1. attempts[i][n] \in Attempt
    BY <1>1, <1>3
  <2> QED BY <1>4, <2>1 DEF Attempt
<1>6. attempts' = [attempts EXCEPT ![i] = [attempts[i] EXCEPT ![n] = new]]
  BY <1>2, <1>4 DEF Complete
<1>7. /\ attempts' \in [Intent -> Seq(Attempt)]
      /\ \A j \in Intent \ {i} : attempts'[j] = attempts[j]
      /\ Len(attempts'[i]) = Len(attempts[i])
      /\ DOMAIN attempts'[i] = DOMAIN attempts[i]
      /\ attempts'[i][n] = new
      /\ \A m \in DOMAIN attempts[i] : m # n => attempts'[i][m] = attempts[i][m]
  BY <1>1, <1>3, <1>5, <1>6, RowRewritten
<1>8. /\ state' = [state EXCEPT ![i] = StateAfter(o)]
      /\ state'[i] = StateAfter(o) /\ \A j \in Intent \ {i} : state'[j] = state[j]
  BY <1>1, <1>2 DEF Complete
<1>9. StateAfter(o) \in {"accepted", "retrying", "failed_permanent", "ambiguous"}
  BY <1>2 DEF StateAfter, Outcome
<1>10. Committed(i) /\ Committed(i)'
  BY <1>3, <1>8, <1>9 DEF Committed, DeliveryState
<1>11. Moves /\ RegistryKeeps
  <2>1. Moves
    BY <1>1, <1>3, <1>8, <1>9 DEF Moves, Committed, DeliveryState, Blocking
  <2> QED BY <1>1, <2>1, RegistryUnchanged DEF DeliveryInv
<1>12. TypeOK'
  <2>1. state' \in [Intent -> DeliveryState \union {"absent", "uncommitted", "aborted"}]
    BY <1>1, <1>8, <1>9 DEF DeliveryState
  <2>2. \A j \in Intent : Committed(j)' => intent[j] \in IntentRow
    BY <1>8, <1>10 DEF DeliveryInv, TypeOK, Committed
  <2> QED BY <1>1, <1>7, <2>1, <2>2 DEF DeliveryInv, TypeOK, RegistryTypeOK
<1>13. ~\E v \in Worker : Claiming(v) /\ worker[v].intent = i
  BY <1>3 DEF DeliveryInv, ClaimsHold, ClaimHolds, HasOpenAttempt
<1>14. ASSUME NEW v \in Worker, Claiming(v)' PROVE ClaimHolds(v)'
  BY <1>1, <1>7, <1>8, <1>11, <1>13, <1>14, OthersClaimsKept
<1>15. n = Len(attempts[i]) /\ Gated(attempts[i][n].visible, i)
  BY <1>3 DEF DeliveryInv, AttemptsHold, AttemptHolds
<1>16. ASSUME NEW m \in DOMAIN attempts[i] PROVE AttemptHolds(i, m)'
  <2>1. CASE m # n
    <3>1. attempts'[i][m] = attempts[i][m]
      BY <1>7, <2>1
    <3>2. state[i] \notin AfterAmbiguous
      BY <1>3 DEF AfterAmbiguous
    <3> QED BY <1>7, <1>11, <3>1, <3>2, AttemptKept
  <2>2. CASE m = n
    <3>1. \A seen \in SUBSET Intent : Gated(seen, i) => Gated(seen, i)'
      BY <1>10, <1>11, GatedKept
    <3>2. Gated(new.visible, i)'
      BY <1>5, <1>15, <3>1
    <3>3. o # "open" /\ (o = "ambiguous" => state'[i] \in AfterAmbiguous)
      BY <1>2, <1>8 DEF Outcome, StateAfter, AfterAmbiguous
    <3> QED BY <1>5, <1>7, <1>15, <2>2, <3>2, <3>3 DEF AttemptHolds
  <2> QED BY <2>1, <2>2
<1>17. ASSUME NEW j \in Intent
       PROVE  /\ ~Committed(j)' => attempts'[j] = << >>
              /\ \A m \in DOMAIN attempts'[j] : AttemptHolds(j, m)'
  <2>1. CASE j = i
    BY <1>7, <1>10, <1>16, <2>1
  <2>2. CASE j # i
    <3>1. Committed(j)' = Committed(j) /\ attempts'[j] = attempts[j]
      BY <1>7, <1>8, <2>2 DEF Committed
    <3>2. ASSUME NEW m \in DOMAIN attempts[j] PROVE AttemptHolds(j, m)'
      BY <1>8, <1>11, <2>2, <3>1, AttemptKept
    <3> QED BY <3>1, <3>2 DEF DeliveryInv, AttemptsHold
  <2> QED BY <2>1, <2>2
<1>18. SettledByItsClaimer'
  <2> SUFFICES ASSUME NEW j \in Intent, NEW m \in DOMAIN attempts'[j],
                      attempts'[j][m].outcome # "open"
               PROVE  [intent |-> j, attempt |-> m, token |-> attempts'[j][m].token,
                       outcome |-> attempts'[j][m].outcome] \in calls'
    BY DEF SettledByItsClaimer
  <2>1. CASE j = i /\ m = n
    <3>1. call = [intent |-> i, attempt |-> n, token |-> call.token, outcome |-> o]
      BY <1>1, <1>2 DEF Call
    <3> QED BY <1>1, <1>3, <1>5, <1>7, <2>1, <3>1
  <2>2. CASE ~(j = i /\ m = n)
    <3>1. m \in DOMAIN attempts[j] /\ attempts'[j][m] = attempts[j][m]
      BY <1>7, <2>2
    <3> QED BY <1>1, <3>1 DEF DeliveryInv, SettledByItsClaimer
  <2> QED BY <2>1, <2>2
<1>19. \A j \in Intent : state'[j] \in {"absent", "uncommitted"} \/ state[j] = "absent"
                           => state'[j] = state[j]
  BY <1>3, <1>8, <1>9
<1> QED BY <1>1, <1>12, <1>14, <1>17, <1>18, <1>19, OutboxStepInv

\* Another writer's update: the guard leads from no resolved state back to a
\* blocking one, and from an ambiguous delivery back only with a key.
LEMMA GuardedUpdateInv ==
  ASSUME DeliveryInv, NEW i \in Intent, NEW to \in DeliveryState, NEW when \in Schedule,
         GuardedUpdate(i, to, when)
  PROVE  DeliveryInv'
<1>1. /\ UNCHANGED <<connector, audit, intent, attempts, worker, calls>>
      /\ Committed(i) /\ ~RowLocked(i) /\ <<state[i], to>> \in Transitions
      /\ CapabilityAllows(i, to)
      /\ state' = [state EXCEPT ![i] = to] /\ schedule' = [schedule EXCEPT ![i] = when]
      /\ state \in [Intent -> DeliveryState \union {"absent", "uncommitted", "aborted"}]
      /\ schedule \in [Intent -> Schedule]
  BY DEF GuardedUpdate, DeliveryInv, TypeOK
<1>2. state'[i] = to /\ \A j \in Intent \ {i} : state'[j] = state[j]
  BY <1>1
<1>3. Committed(i)' /\ \A j \in Intent \ {i} : Committed(j)' = Committed(j)
  BY <1>2 DEF Committed
<1>4. state[i] \notin Blocking => to \notin Blocking
  BY <1>1 DEF Transitions, Blocking
<1>5. Moves
  BY <1>1, <1>2, <1>3, <1>4 DEF Moves, Committed, DeliveryState
<1>6. RegistryKeeps
  BY <1>1, RegistryUnchanged DEF DeliveryInv
<1>7. TypeOK'
  <2>1. \A j \in Intent : Committed(j)' => intent[j] \in IntentRow
    BY <1>1, <1>3 DEF DeliveryInv, TypeOK
  <2> QED BY <1>1, <2>1 DEF DeliveryInv, TypeOK, RegistryTypeOK
<1>8. ~\E v \in Worker : Claiming(v) /\ worker[v].intent = i
  BY <1>1 DEF RowLocked
<1>9. ASSUME NEW v \in Worker, Claiming(v)' PROVE ClaimHolds(v)'
  BY <1>1, <1>2, <1>5, <1>8, <1>9, OthersClaimsKept
<1>10. PinnedCapabilities(i).supportsIdempotencyKey
         \/ (state[i] \in AfterAmbiguous => to \in AfterAmbiguous)
  BY <1>1 DEF Transitions, CapabilityAllows, AfterAmbiguous
<1>11. ASSUME NEW j \in Intent
       PROVE  /\ ~Committed(j)' => attempts'[j] = << >>
              /\ \A m \in DOMAIN attempts'[j] : AttemptHolds(j, m)'
  <2>1. ASSUME NEW m \in DOMAIN attempts[j] PROVE AttemptHolds(j, m)'
    <3>1. CASE j = i
      BY <1>1, <1>2, <1>5, <1>6, <1>10, <3>1, AttemptKept
    <3>2. CASE j # i
      BY <1>1, <1>2, <1>5, <1>6, <3>2, AttemptKept
    <3> QED BY <3>1, <3>2
  <2> QED BY <1>1, <1>3, <2>1 DEF DeliveryInv, AttemptsHold
<1>12. SettledByItsClaimer'
  BY <1>1 DEF DeliveryInv, SettledByItsClaimer
<1>13. \A j \in Intent : state'[j] \in {"absent", "uncommitted"} \/ state[j] = "absent"
                           => state'[j] = state[j]
  BY <1>1, <1>2 DEF Committed, DeliveryState
<1> QED BY <1>1, <1>7, <1>9, <1>11, <1>12, <1>13, OutboxStepInv

\* A step that changes nothing.
LEMMA DeliveryStutterInv ==
  ASSUME DeliveryInv, UNCHANGED vars
  PROVE  DeliveryInv'
<1>1. /\ UNCHANGED <<connector, audit, intent, state, attempts>>
      /\ UNCHANGED <<schedule, worker, calls>>
  BY DEF vars
<1>2. TypeOK'
  BY <1>1 DEF DeliveryInv, TypeOK, RegistryTypeOK, Committed
<1>3. ASSUME NEW v \in Worker, Claiming(v)' PROVE ClaimHolds(v)'
  <2>1. Claiming(v) /\ worker[v] \in WorkerRow
    BY <1>1, <1>3 DEF Claiming, DeliveryInv, TypeOK
  <2>2. worker[v].intent \in Intent
    BY <2>1 DEF WorkerRow, Idle, Claiming
  <2> QED BY <1>1, <2>1, <2>2, RowsUntouched, ClaimKept
<1>4. SettledByItsClaimer'
  BY <1>1 DEF DeliveryInv, SettledByItsClaimer
<1> QED BY <1>1, <1>2, <1>3, <1>4, RowsUntouched, OutboxStepInv

LEMMA DeliveryStepInv == DeliveryInv /\ [Next]_vars => DeliveryInv'
<1> SUFFICES ASSUME DeliveryInv, [Next]_vars PROVE DeliveryInv'
  OBVIOUS
<1>1. CASE ConnectorStep
  BY <1>1, ConnectorStepInv DEF ConnectorStep
<1>2. CASE ProducerStep
  BY <1>2, InsertIntentInv, EndInsertInv DEF ProducerStep
<1>3. CASE WorkerStep
  BY <1>3, ClaimSelectInv, ClaimCommitInv, ForgetInv, MarkInv, ReportInv, CompleteInv
     DEF WorkerStep
<1>4. CASE OtherWriterStep
  BY <1>4, GuardedUpdateInv, ScheduleDueInv DEF OtherWriterStep
<1>5. CASE UNCHANGED vars
  BY <1>5, DeliveryStutterInv
<1> QED BY <1>1, <1>2, <1>3, <1>4, <1>5 DEF Next, ApiNext
--------------------------------------------------------------------------------
(* The theorems.                                                            *)

\* Delivery keeps its inductive invariant, and with it its types, whoever
\* writes the outbox within the guard.
THEOREM DeliveryInvariant == Spec => [](DeliveryInv /\ TypeOK)
<1>1. Init => DeliveryInv
  BY DeliveryInitInv
<1>2. DeliveryInv /\ [Next]_vars => DeliveryInv'
  BY DeliveryStepInv
<1>3. DeliveryInv => TypeOK
  BY DEF DeliveryInv
<1> QED BY <1>1, <1>2, <1>3, PTL DEF Spec

\* No ordered intent is attempted while a predecessor its claim could see is
\* unsettled (claim_integration_intent's ordering gate), for any stream; of
\* those committed after the claim's snapshot nothing is said.
THEOREM StreamsKeepOrder == Spec => []NoOvertaking
<1>1. DeliveryInv => NoOvertaking
  BY DeliveryInvSafe
<1> QED BY <1>1, DeliveryInvariant, PTL

\* An ambiguous attempt is followed by another only with the idempotency
\* key of the pinned semantics (the outbox transition guard).
THEOREM AmbiguityNeedsKey == Spec => []AmbiguousNeverBlindRetried
<1>1. DeliveryInv => AmbiguousNeverBlindRetried
  BY DeliveryInvSafe
<1> QED BY <1>1, DeliveryInvariant, PTL

\* A settlement carries an outcome its own claimer sent for that very
\* attempt (complete_integration_attempt's fence), late calls included.
THEOREM ClaimersSettle == Spec => []SettledByItsClaimer
<1>1. DeliveryInv => SettledByItsClaimer
  BY DeliveryInvSafe
<1> QED BY <1>1, DeliveryInvariant, PTL

\* A claim in flight never runs into the one-open-attempt index.
THEOREM ClaimsStayClear == Spec => []ClaimAvoidsOpenAttempts
<1>1. DeliveryInv => ClaimAvoidsOpenAttempts
  BY DeliveryInvSafe
<1> QED BY <1>1, DeliveryInvariant, PTL

\* What the code runs today is a special case of what the guard admits.
LEMMA ApiRefinesGuarded == ApiSpec => Spec
<1>1. [ApiNext]_vars => [Next]_vars
  BY DEF Next
<1> QED BY <1>1, PTL DEF ApiSpec, Spec

\* While only the function API writes, an intent's state follows its last
\* attempt.
Reflects(i) ==
  Committed(i) =>
    state[i] = IF attempts[i] = << >> THEN "pending"
               ELSE IF attempts[i][Len(attempts[i])].outcome = "open" THEN "dispatching"
               ELSE StateAfter(attempts[i][Len(attempts[i])].outcome)

LEMMA ReflectsAll ==
  ASSUME DeliveryInv
  PROVE  OutboxReflectsAttempts <=> \A i \in Intent : Reflects(i)
BY DEF DeliveryInv, AttemptsHold, AttemptHolds, OutboxReflectsAttempts, Reflects

LEMMA ReflectsKept ==
  ASSUME NEW i \in Intent, Reflects(i), state'[i] = state[i], attempts'[i] = attempts[i]
  PROVE  Reflects(i)'
BY DEF Reflects, Committed

LEMMA ClaimCommitReflects ==
  ASSUME DeliveryInv, \A i \in Intent : Reflects(i), NEW w \in Worker, ClaimCommit(w)
  PROVE  \A i \in Intent : Reflects(i)'
<1>1. worker[w] \in WorkerRow /\ Claiming(w)
  BY DEF ClaimCommit, DeliveryInv, TypeOK
<1>2. PICK i, a :
        /\ i \in Intent
        /\ a = [token |-> w, dispatched |-> FALSE, outcome |-> "open",
                visible |-> worker[w].visible]
        /\ attempts' = [attempts EXCEPT ![i] = Append(@, a)]
        /\ state' = [state EXCEPT ![i] = "dispatching"]
  <2>1. worker[w].intent \in Intent
    BY <1>1 DEF WorkerRow, Idle, Claiming
  <2>2. PICK i \in Intent : i = worker[w].intent
    BY <2>1
  <2>3. PICK a : a = [token |-> w, dispatched |-> FALSE, outcome |-> "open",
                      visible |-> worker[w].visible]
    OBVIOUS
  <2> QED BY <2>2, <2>3 DEF ClaimCommit
<1>3. attempts \in [Intent -> Seq(Attempt)] /\ DOMAIN state = Intent
  BY DEF DeliveryInv, TypeOK
<1>4. /\ attempts'[i] # << >> /\ Len(attempts'[i]) = Len(attempts[i]) + 1
      /\ attempts'[i][Len(attempts[i]) + 1] = a /\ a.outcome = "open"
      /\ state'[i] = "dispatching"
  BY <1>2, <1>3
<1>5. Reflects(i)'
  BY <1>4 DEF Reflects
<1>6. \A j \in Intent \ {i} : state'[j] = state[j] /\ attempts'[j] = attempts[j]
  BY <1>2, <1>3
<1> QED BY <1>5, <1>6, ReflectsKept

LEMMA MarkReflects ==
  ASSUME DeliveryInv, \A i \in Intent : Reflects(i), NEW w \in Worker, MarkDispatchStarted(w)
  PROVE  \A i \in Intent : Reflects(i)'
<1>1. worker[w] \in WorkerRow /\ worker[w].phase = "claimed"
  BY DEF MarkDispatchStarted, DeliveryInv, TypeOK
<1>2. PICK i \in Intent : \E n :
        /\ n \in DOMAIN attempts[i]
        /\ attempts' = [attempts EXCEPT ![i] = [attempts[i] EXCEPT ![n] =
                                                  [attempts[i][n] EXCEPT !.dispatched = TRUE]]]
  <2>1. worker[w].intent \in Intent
    BY <1>1 DEF WorkerRow, Idle
  <2>2. PICK i \in Intent : i = worker[w].intent
    BY <2>1
  <2>3. PICK n : n = worker[w].attempt
    OBVIOUS
  <2>4. n \in DOMAIN attempts[i]
    BY <2>2, <2>3 DEF MarkDispatchStarted, Fence
  <2>5. attempts' = [attempts EXCEPT ![i] = [attempts[i] EXCEPT ![n] =
                                              [attempts[i][n] EXCEPT !.dispatched = TRUE]]]
    BY <2>2, <2>3 DEF MarkDispatchStarted
  <2> QED BY <2>4, <2>5
<1>3. PICK n :
        /\ n \in DOMAIN attempts[i]
        /\ attempts' = [attempts EXCEPT ![i] = [attempts[i] EXCEPT ![n] =
                                                  [attempts[i][n] EXCEPT !.dispatched = TRUE]]]
  BY <1>2
<1>4. attempts \in [Intent -> Seq(Attempt)] /\ state' = state
  BY DEF DeliveryInv, TypeOK, MarkDispatchStarted
<1>5. PICK new \in Attempt : /\ new = [attempts[i][n] EXCEPT !.dispatched = TRUE]
                             /\ new.outcome = attempts[i][n].outcome
  <2>1. attempts[i][n] \in Attempt
    BY <1>3, <1>4
  <2>2. PICK new : new = [attempts[i][n] EXCEPT !.dispatched = TRUE]
    OBVIOUS
  <2>3. new \in Attempt /\ new.outcome = attempts[i][n].outcome
    BY <2>1, <2>2 DEF Attempt
  <2> QED BY <2>2, <2>3
<1>6. attempts' = [attempts EXCEPT ![i] = [attempts[i] EXCEPT ![n] = new]]
  BY <1>3, <1>5
<1>7. /\ \A j \in Intent \ {i} : attempts'[j] = attempts[j]
      /\ Len(attempts'[i]) = Len(attempts[i])
      /\ attempts'[i] \in Seq(Attempt) /\ attempts[i] \in Seq(Attempt)
      /\ \A m \in DOMAIN attempts[i] : attempts'[i][m].outcome = attempts[i][m].outcome
  BY <1>3, <1>4, <1>5, <1>6, RowRewritten
<1>8. /\ attempts'[i] # << >> /\ attempts[i] # << >>
      /\ Len(attempts[i]) \in DOMAIN attempts[i]
  BY <1>3, <1>7
<1>9. Reflects(i)'
  BY <1>4, <1>7, <1>8 DEF Reflects, Committed
<1> QED BY <1>4, <1>7, <1>9, ReflectsKept

LEMMA CompleteReflects ==
  ASSUME DeliveryInv, \A i \in Intent : Reflects(i), NEW call \in calls, Complete(call)
  PROVE  \A i \in Intent : Reflects(i)'
<1>1. call \in Call /\ attempts \in [Intent -> Seq(Attempt)] /\ DOMAIN state = Intent
  BY DEF DeliveryInv, TypeOK
<1>2. PICK i \in Intent, n \in Nat, o \in Outcome :
        i = call.intent /\ n = call.attempt /\ o = call.outcome
  BY <1>1 DEF Call
<1>3. /\ n \in DOMAIN attempts[i] /\ attempts[i][n].outcome = "open"
      /\ attempts' = [attempts EXCEPT ![i] = [attempts[i] EXCEPT ![n] =
                                                [attempts[i][n] EXCEPT !.outcome = o]]]
      /\ state' = [state EXCEPT ![i] = StateAfter(o)]
  BY <1>2 DEF Complete, Fence
<1>4. PICK new \in Attempt : new = [attempts[i][n] EXCEPT !.outcome = o] /\ new.outcome = o
  <2>1. attempts[i][n] \in Attempt
    BY <1>1, <1>3
  <2>2. PICK new : new = [attempts[i][n] EXCEPT !.outcome = o]
    OBVIOUS
  <2>3. new \in Attempt /\ new.outcome = o
    BY <1>2, <2>1, <2>2 DEF Attempt
  <2> QED BY <2>2, <2>3
<1>5. attempts' = [attempts EXCEPT ![i] = [attempts[i] EXCEPT ![n] = new]]
  BY <1>3, <1>4
<1>6. /\ \A j \in Intent \ {i} : attempts'[j] = attempts[j]
      /\ Len(attempts'[i]) = Len(attempts[i])
      /\ DOMAIN attempts'[i] = DOMAIN attempts[i]
      /\ attempts'[i][n].outcome = o
  BY <1>1, <1>3, <1>4, <1>5, RowRewritten
<1>7. n = Len(attempts[i]) /\ attempts'[i] # << >>
  BY <1>3, <1>6 DEF DeliveryInv, AttemptsHold, AttemptHolds
<1>8. Reflects(i)'
  <2>1. state'[i] = StateAfter(o) /\ o # "open"
    BY <1>1, <1>2, <1>3 DEF Outcome
  <2> QED BY <1>6, <1>7, <2>1 DEF Reflects
<1>9. \A j \in Intent \ {i} : state'[j] = state[j]
  BY <1>1, <1>3
<1> QED BY <1>6, <1>8, <1>9, ReflectsKept

LEMMA ApiStepReflects ==
  ASSUME DeliveryInv, \A i \in Intent : Reflects(i), [ApiNext]_vars
  PROVE  \A i \in Intent : Reflects(i)'
<1>1. CASE UNCHANGED <<state, attempts>>
  BY <1>1, ReflectsKept
<1>2. DOMAIN state = Intent
  BY DEF DeliveryInv, TypeOK
<1>3. CASE ProducerStep
  <2>1. PICK i \in Intent :
          /\ UNCHANGED attempts
          /\ ~Committed(i)
          /\ \E new \in {"uncommitted", "pending", "aborted"} : state' = [state EXCEPT ![i] = new]
    BY <1>3 DEF ProducerStep, InsertIntent, EndInsert, Committed, DeliveryState
  <2>2. \A j \in Intent \ {i} : Reflects(j)'
    BY <1>2, <2>1, ReflectsKept
  <2>3. attempts[i] = << >>
    BY <2>1 DEF DeliveryInv, AttemptsHold
  <2>4. Reflects(i)'
    BY <1>2, <2>1, <2>3 DEF Reflects, Committed, DeliveryState
  <2> QED BY <2>2, <2>4
<1>4. CASE ConnectorStep
  BY <1>1, <1>4 DEF ConnectorStep, RegisterConnector, Reconfigure
<1>5. CASE WorkerStep
  BY <1>1, <1>5, ClaimCommitReflects, MarkReflects, CompleteReflects
     DEF WorkerStep, ClaimSelect, ClaimRaise, MarkRefused, Report, Crash
<1>6. CASE UNCHANGED vars
  BY <1>1, <1>6 DEF vars
<1> QED BY <1>3, <1>4, <1>5, <1>6 DEF ApiNext

\* The outbox agrees with its attempt rows while only claims and
\* settlements write it, whoever crashes.
THEOREM TablesAgree == ApiSpec => []OutboxReflectsAttempts
<1> DEFINE Agree == DeliveryInv /\ \A i \in Intent : Reflects(i)
<1>1. Init => Agree
  BY DeliveryInitInv DEF Init, Reflects, Committed, DeliveryState
<1>2. Agree /\ [ApiNext]_vars => Agree'
  BY DeliveryStepInv, ApiStepReflects DEF Next
<1>3. Agree => OutboxReflectsAttempts
  BY ReflectsAll
<1> QED BY <1>1, <1>2, <1>3, PTL DEF ApiSpec

\* Which steps add an attempt: a claim that commits, on its connector.
LEMMA AttemptsGrowInClaims ==
  ASSUME DeliveryInv, [Next]_vars, NEW i \in Intent,
         attempts'[i] # attempts[i], Len(attempts'[i]) > Len(attempts[i])
  PROVE  Dispatching(intent[i].connector)
<1>1. attempts \in [Intent -> Seq(Attempt)]
  BY DEF DeliveryInv, TypeOK
<1>2. \/ \E w \in Worker : ClaimCommit(w) \/ MarkDispatchStarted(w)
      \/ \E call \in calls : Complete(call)
  BY DEF Next, ApiNext, ConnectorStep, RegisterConnector, Reconfigure, ProducerStep, InsertIntent,
         EndInsert, WorkerStep, ClaimSelect, ClaimRaise, MarkRefused, Report, Crash,
         OtherWriterStep, GuardedUpdate, ScheduleDue, vars
<1>3. ASSUME NEW w \in Worker, ClaimCommit(w) PROVE Dispatching(intent[i].connector)
  <2>1. worker[w].intent = i
    BY <1>1, <1>3 DEF ClaimCommit
  <2> QED BY <1>3, <2>1 DEF ClaimCommit, DeliveryInv, ClaimsHold, ClaimHolds
<1>4. ASSUME NEW j, NEW n, NEW new, attempts' = [attempts EXCEPT ![j][n] = new]
      PROVE  FALSE
  <2>1. j = i /\ attempts'[i] = [attempts[i] EXCEPT ![n] = new]
    BY <1>1, <1>4
  <2>2. attempts[i] \in Seq(Attempt)
    BY <1>1
  <2>3. Len([attempts[i] EXCEPT ![n] = new]) = Len(attempts[i])
    BY <2>2
  <2> QED BY <2>1, <2>2, <2>3
<1>5. ASSUME NEW w \in Worker, MarkDispatchStarted(w) PROVE FALSE
  <2>1. attempts' = [attempts EXCEPT ![worker[w].intent][worker[w].attempt] =
                       [attempts[worker[w].intent][worker[w].attempt] EXCEPT !.dispatched = TRUE]]
    BY <1>1, <1>5 DEF MarkDispatchStarted
  <2> QED BY <1>4, <2>1
<1>6. ASSUME NEW call \in calls, Complete(call) PROVE FALSE
  <2>1. attempts' = [attempts EXCEPT ![call.intent][call.attempt] =
                       [attempts[call.intent][call.attempt] EXCEPT !.outcome = call.outcome]]
    BY <1>1, <1>6 DEF Complete
  <2> QED BY <1>4, <2>1
<1> QED BY <1>2, <1>3, <1>5, <1>6

\* An intent commits only on the configuration it pinned and an attempt
\* opens only on a dispatching connector: the share locks hold to the end.
THEOREM ConnectorsAreHeld == Spec => ConnectorHeldThroughCommit
<1> DEFINE Held(i) ==
      /\ state[i] = "uncommitted" /\ state'[i] = "pending" =>
           LET row == connector[intent[i].connector]
           IN row.configuration = intent[i].pin /\ row.lifecycle # "retired"
      /\ attempts[i] # attempts'[i] /\ Len(attempts'[i]) > Len(attempts[i]) =>
           Dispatching(intent[i].connector)
<1>1. ASSUME DeliveryInv, [Next]_vars PROVE \A i \in Intent : Held(i)
  BY <1>1, AttemptsGrowInClaims DEF DeliveryInv, InsertsHold
<1>2. DeliveryInv /\ [Next]_vars => [\A i \in Intent : Held(i)]_vars
  BY <1>1
<1>3. Spec => []DeliveryInv
  BY DeliveryInvariant, PTL
<1> QED BY <1>2, <1>3, PTL DEF Spec, ConnectorHeldThroughCommit

--------------------------------------------------------------------------------
(* The tables implement the delivery contract.                              *)

Delivery == [i \in Intent |-> IF Committed(i) THEN state[i] ELSE "absent"]
Pinned == [i \in Intent |-> IF Committed(i) THEN PinnedCapabilities(i) ELSE NoCapabilities]

\* A step of the contract, seen in the tables.
ContractStep ==
  \/ \E i \in Intent :
       \/ /\ Delivery[i] = "absent"
          /\ Delivery' = [Delivery EXCEPT ![i] = "pending"]
          /\ \E cap \in Capabilities : Pinned' = [Pinned EXCEPT ![i] = cap]
       \/ \E to \in DeliveryState :
            /\ <<Delivery[i], to>> \in Transitions
            /\ <<Delivery[i], to>> = <<"accepted", "acknowledged">> => Pinned[i].reportsTerminalState
            /\ <<Delivery[i], to>> = <<"ambiguous", "dispatching">> => Pinned[i].supportsIdempotencyKey
            /\ Delivery' = [Delivery EXCEPT ![i] = to]
            /\ Pinned' = Pinned
  \/ Delivery' = Delivery /\ Pinned' = Pinned

LEMMA ContractStepIs == ContractStep => [Contract!Next]_(Contract!contractVars)
BY DEF ContractStep, Delivery, Pinned, Contract!Next, Contract!Enqueue, Contract!Transition,
       Contract!contractVars, Contract!deliveryStates, Contract!deliveryStateTransitions,
       Contract!transitionCapabilityPreconditions, DeliveryState, Transitions

LEMMA ContractInitIs == Init => Contract!Init
BY DEF Init, Contract!Init, Committed, DeliveryState

\* Pins do not move, so a step that moves no delivery state is a stutter.
LEMMA PinnedStays ==
  ASSUME DeliveryInv, RegistryKeeps, Moves, NEW i \in Intent, Committed(i)
  PROVE  Pinned'[i] = Pinned[i]
<1>1. Committed(i)' /\ state[i] # "absent"
  BY DEF Moves, Committed, DeliveryState
<1> QED BY <1>1, PinnedKept DEF Pinned, DeliveryInv

LEMMA NothingDelivered ==
  ASSUME DeliveryInv, RegistryKeeps, Moves, \A i \in Intent : Delivery'[i] = Delivery[i]
  PROVE  ContractStep
<1>1. ASSUME NEW i \in Intent PROVE Committed(i)' <=> Committed(i)
  BY DEF Delivery, Committed, DeliveryState
<1>2. ASSUME NEW i \in Intent PROVE Pinned'[i] = Pinned[i]
  BY <1>1, PinnedStays DEF Pinned
<1>3. Delivery' = Delivery
  BY DEF Delivery
<1>4. Pinned' = Pinned
  BY <1>2 DEF Pinned
<1> QED BY <1>3, <1>4 DEF ContractStep

\* A delivery state moves along a transition of the contract.
LEMMA StateMoves ==
  ASSUME DeliveryInv, NEW i \in Intent, NEW to \in DeliveryState,
         UNCHANGED <<connector, audit, intent>>, Committed(i),
         state' = [state EXCEPT ![i] = to], <<state[i], to>> \in Transitions,
         <<state[i], to>> = <<"accepted", "acknowledged">> =>
           PinnedCapabilities(i).reportsTerminalState,
         <<state[i], to>> = <<"ambiguous", "dispatching">> =>
           PinnedCapabilities(i).supportsIdempotencyKey
  PROVE  ContractStep
<1>1. DOMAIN state = Intent
  BY DEF DeliveryInv, TypeOK
<1>2. state'[i] = to /\ \A j \in Intent \ {i} : state'[j] = state[j]
  BY <1>1
<1>3. \A j \in Intent : Committed(j)' <=> Committed(j)
  BY <1>2 DEF Committed
<1>4. Delivery[i] = state[i] /\ Pinned[i] = PinnedCapabilities(i)
  BY DEF Delivery, Pinned
<1>5. Delivery' = [Delivery EXCEPT ![i] = to]
  BY <1>2, <1>3 DEF Delivery
<1>6. \A j \in Intent : PinnedCapabilities(j)' = PinnedCapabilities(j)
  BY DEF PinnedCapabilities, CapabilitiesAt
<1>7. Pinned' = Pinned
  BY <1>3, <1>6 DEF Pinned
<1> QED BY <1>4, <1>5, <1>7 DEF ContractStep

LEMMA StepMaps ==
  ASSUME DeliveryInv, [Next]_vars
  PROVE  ContractStep
<1>1. ASSUME UNCHANGED <<connector, audit>>, Moves,
             \A i \in Intent : Delivery'[i] = Delivery[i]
      PROVE  ContractStep
  BY <1>1, RegistryUnchanged, NothingDelivered DEF DeliveryInv
<1>2. DOMAIN state = Intent
  BY DEF DeliveryInv, TypeOK
<1>3. CASE UNCHANGED <<connector, audit, intent, state>>
  BY <1>1, <1>3 DEF Moves, Delivery, Committed
<1>4. CASE ConnectorStep
  <2>1. PICK c \in Connector : RegisterConnector(c) \/ Reconfigure(c)
    BY <1>4 DEF ConnectorStep
  <2>2. UNCHANGED <<intent, state>>
    BY <2>1 DEF RegisterConnector, Reconfigure
  <2>3. Moves /\ \A i \in Intent : Delivery'[i] = Delivery[i]
    BY <2>2 DEF Moves, Delivery, Committed
  <2> QED BY <2>1, <2>3, ConnectorStepKeeps, NothingDelivered
<1>5. ASSUME NEW i \in Intent, NEW c \in Connector, NEW a \in Aggregate,
             NEW r \in 0..MaxAggregateRevision, InsertIntent(i, c, a, r)
      PROVE  ContractStep
  <2>1. /\ UNCHANGED <<connector, audit>> /\ state[i] = "absent"
        /\ state' = [state EXCEPT ![i] = "uncommitted"]
        /\ \E row : intent' = [intent EXCEPT ![i] = row]
    BY <1>5 DEF InsertIntent
  <2>2. state'[i] = "uncommitted" /\ \A j \in Intent \ {i} : state'[j] = state[j]
    BY <1>2, <2>1
  <2>3. \A j \in Intent \ {i} : intent'[j] = intent[j]
    BY <2>1 DEF DeliveryInv, TypeOK
  <2>4. Moves /\ \A j \in Intent : Delivery'[j] = Delivery[j]
    BY <2>1, <2>2, <2>3 DEF Moves, Delivery, Committed, DeliveryState
  <2> QED BY <1>1, <2>1, <2>4
<1>6. ASSUME NEW i \in Intent, EndInsert(i, "aborted")
      PROVE  ContractStep
  <2>1. /\ UNCHANGED <<connector, audit, intent>> /\ state[i] = "uncommitted"
        /\ state'[i] = "aborted" /\ \A j \in Intent \ {i} : state'[j] = state[j]
    BY <1>2, <1>6 DEF EndInsert
  <2>2. Moves /\ \A j \in Intent : Delivery'[j] = Delivery[j]
    BY <2>1 DEF Moves, Delivery, Committed, DeliveryState
  <2> QED BY <1>1, <2>1, <2>2
<1>7. ASSUME NEW i \in Intent, EndInsert(i, "pending")
      PROVE  ContractStep
  <2>1. /\ UNCHANGED <<connector, audit, intent>> /\ state[i] = "uncommitted"
        /\ state'[i] = "pending" /\ \A j \in Intent \ {i} : state'[j] = state[j]
    BY <1>2, <1>7 DEF EndInsert
  <2>2. /\ ~Committed(i) /\ Committed(i)'
        /\ \A j \in Intent \ {i} : Committed(j)' = Committed(j)
    BY <2>1 DEF Committed, DeliveryState
  <2>3. \A j \in Intent : PinnedCapabilities(j)' = PinnedCapabilities(j)
    BY <2>1 DEF PinnedCapabilities, CapabilitiesAt
  <2>4. PinnedCapabilities(i) \in Capabilities
    BY <2>1, PinResolves DEF DeliveryInv, IntentsStored, IntentRow, PinnedCapabilities
  <2>5. Delivery[i] = "absent" /\ Delivery' = [Delivery EXCEPT ![i] = "pending"]
    BY <2>1, <2>2 DEF Delivery
  <2>6. Pinned' = [Pinned EXCEPT ![i] = PinnedCapabilities(i)]
    BY <2>2, <2>3 DEF Pinned
  <2> QED BY <2>4, <2>5, <2>6 DEF ContractStep
<1>8. ASSUME NEW w \in Worker, ClaimCommit(w) PROVE ContractStep
  <2>1. worker[w] \in WorkerRow /\ Claiming(w) /\ ClaimHolds(w)
    BY <1>8 DEF ClaimCommit, DeliveryInv, TypeOK, ClaimsHold
  <2>2. worker[w].intent \in Intent
    BY <2>1 DEF WorkerRow, Idle, Claiming
  <2>3. PICK i \in Intent : i = worker[w].intent
    BY <2>2
  <2>4. /\ UNCHANGED <<connector, audit, intent>> /\ state[i] \in {"pending", "retrying"}
        /\ state' = [state EXCEPT ![i] = "dispatching"]
    BY <1>8, <2>1, <2>3 DEF ClaimCommit, ClaimHolds
  <2>5. Committed(i) /\ <<state[i], "dispatching">> \in Transitions
    BY <2>4 DEF Committed, DeliveryState, Transitions
  <2> QED BY <2>4, <2>5, StateMoves DEF DeliveryState
<1>9. ASSUME NEW call \in calls, Complete(call) PROVE ContractStep
  <2>1. call \in Call
    BY DEF DeliveryInv, TypeOK
  <2>2. PICK i \in Intent, o \in Outcome : i = call.intent /\ o = call.outcome
    BY <2>1 DEF Call
  <2>3. /\ UNCHANGED <<connector, audit, intent>> /\ state[i] = "dispatching"
        /\ state' = [state EXCEPT ![i] = StateAfter(o)]
    BY <1>9, <2>2 DEF Complete
  <2>4. PICK to \in DeliveryState : to = StateAfter(o) /\ <<"dispatching", to>> \in Transitions
    BY <2>2 DEF StateAfter, Outcome, DeliveryState, Transitions
  <2>5. Committed(i)
    BY <2>3 DEF Committed, DeliveryState
  <2> QED BY <2>3, <2>4, <2>5, StateMoves
<1>10. ASSUME NEW i \in Intent, NEW to \in DeliveryState, NEW when \in Schedule,
              GuardedUpdate(i, to, when)
       PROVE  ContractStep
  <2>1. /\ UNCHANGED <<connector, audit, intent>> /\ Committed(i)
        /\ state' = [state EXCEPT ![i] = to] /\ <<state[i], to>> \in Transitions
        /\ CapabilityAllows(i, to)
    BY <1>10 DEF GuardedUpdate
  <2> QED BY <2>1, StateMoves DEF CapabilityAllows
<1>11. CASE ProducerStep
  BY <1>11, <1>5, <1>6, <1>7 DEF ProducerStep
<1>12. CASE WorkerStep
  BY <1>3, <1>8, <1>9, <1>12
     DEF WorkerStep, ClaimSelect, ClaimRaise, MarkDispatchStarted, MarkRefused, Report, Crash
<1>13. CASE OtherWriterStep
  BY <1>3, <1>10, <1>13 DEF OtherWriterStep, ScheduleDue
<1>14. CASE UNCHANGED vars
  BY <1>3, <1>14 DEF vars
<1> QED BY <1>4, <1>11, <1>12, <1>13, <1>14 DEF Next, ApiNext

\* The outbox, its attempts and its workers implement delivery-contract.ts:
\* every step is a transition the contract allows the pinned semantics.
THEOREM TablesImplementContract == Spec => RefinesContract
<1>1. Init => Contract!Init
  BY ContractInitIs
<1>2. DeliveryInv /\ [Next]_vars => [Contract!Next]_(Contract!contractVars)
  BY StepMaps, ContractStepIs
<1>3. Spec => []DeliveryInv
  BY DeliveryInvariant, PTL
<1> QED BY <1>1, <1>2, <1>3, PTL DEF Spec, RefinesContract, Contract!Spec
================================================================================
