-------------------------- MODULE IntegrationDelivery --------------------------
(***************************************************************************)
(* The integration outbox and the worker function API of one Organization. *)
(*                                                                         *)
(* A producer inserts an intent inside its own business transaction, which *)
(* share-locks the connector until it commits or rolls back.  A delivery   *)
(* worker claims an eligible intent (claim_integration_intent), records    *)
(* the dispatch boundary (mark_integration_dispatch_started) and settles   *)
(* the attempt (complete_integration_attempt).  Administrators reconfigure *)
(* the connector meanwhile; workers crash, and their last call may still   *)
(* be executed, late or more than once.                                    *)
(*                                                                         *)
(* Intents are numbered in the (created_at, id) order of their rows, so    *)
(* the number stands for both columns.  Attempts of an intent are a        *)
(* sequence: attempt_number and claim_generation are both max + 1 over the *)
(* same rows, so the index stands for both.  A worker's claim token is its *)
(* identity, the weakest token the worker may choose: it repeats.          *)
(***************************************************************************)
EXTENDS ConnectorRegistry

CONSTANTS
  NumIntents,     \* intents ever inserted, for model checking
  Aggregate,      \* <aggregate_type, aggregate_id> pairs
  MaxAggregateRevision,  \* bound on the aggregate revisions producers write
  MaxAttempts,    \* bound on attempts per intent
  Worker,
  NoIntent        \* the row of an intent not inserted yet

ASSUME DeliveryAssumption ==
  /\ NumIntents \in Nat
  /\ MaxAggregateRevision \in Nat
  /\ MaxAttempts \in Nat

VARIABLES
  intent,     \* intent[i]: the immutable columns of the outbox row
  state,      \* state[i]: its delivery state
  schedule,   \* schedule[i]: next_attempt_at, against the database clock
  attempts,   \* attempts[i]: its attempt rows, by attempt number
  worker,     \* worker[w]: what the worker process knows
  calls       \* settlement calls sent so far

outboxVars == <<intent, state, schedule, attempts>>
vars == <<connector, audit, intent, state, schedule, attempts, worker, calls>>

Intent == 1..NumIntents

DeliveryState == {"pending", "dispatching", "accepted", "acknowledged",
                  "retrying", "ambiguous", "failed_permanent",
                  "dead_lettered", "refused"}
Outcome  == {"succeeded", "failed_transient", "failed_permanent", "ambiguous"}
Schedule == {"none", "future", "due"}

\* revision 0 is a NULL aggregate_revision, which sorts before every other.
IntentRow == [connector : Connector,
              aggregate : Aggregate,
              revision  : 0..MaxAggregateRevision,
              pin       : Nat,
              ordered   : BOOLEAN]

\* visible is not a column: it keeps the intents the claim's snapshot showed.
Attempt == [token      : Worker,
            dispatched : BOOLEAN,
            outcome    : Outcome \union {"open"},
            visible    : SUBSET Intent]

Idle == [phase |-> "idle", intent |-> 0, attempt |-> 0, visible |-> {}]

Call == [intent : Intent, attempt : Nat, token : Worker, outcome : Outcome]

Init ==
  /\ RegistryInit
  /\ intent = [i \in Intent |-> NoIntent]
  /\ state = [i \in Intent |-> "absent"]
  /\ schedule = [i \in Intent |-> "none"]
  /\ attempts = [i \in Intent |-> << >>]
  /\ worker = [w \in Worker |-> Idle]
  /\ calls = {}

Committed(i) == state[i] \in DeliveryState

\* The semantics an intent pinned, never the connector's current row.
PinnedCapabilities(i) == CapabilitiesAt(intent[i].connector, intent[i].pin)

SameStream(i, j) ==
  /\ intent[i].connector = intent[j].connector
  /\ intent[i].aggregate = intent[j].aggregate

HasOpenAttempt(i) == \E n \in DOMAIN attempts[i] : attempts[i][n].outcome = "open"

--------------------------------------------------------------------------------
(* Locks: a claim and an uncommitted insert hold the connector FOR SHARE;   *)
(* a claim holds its candidate's row FOR UPDATE.                            *)

Claiming(w) == worker[w].phase = "claiming"

RowLocked(i) == \E w \in Worker : Claiming(w) /\ worker[w].intent = i

\* Mutant: an insert does not hold the connector.
ConnectorSharedByClaims(c) ==
  \E w \in Worker : Claiming(w) /\ intent[worker[w].intent].connector = c

ConnectorShared(c) ==
  \/ \E i \in Intent : state[i] = "uncommitted" /\ intent[i].connector = c
  \/ \E w \in Worker : Claiming(w) /\ intent[worker[w].intent].connector = c

(* The connector side.  A credential rotation changes nothing read here.    *)

RegisterConnector(c) ==
  /\ \E cap \in Declarable, k \in Credential : Register(c, cap, k)
  /\ UNCHANGED <<intent, state, schedule, attempts, worker, calls>>

\* An accepted reconfiguration: it waits for the share locks to be released.
Reconfigure(c) ==
  /\ ~ConnectorShared(c)
  /\ \/ \E s \in Lifecycle : ChangeLifecycle(c, connector[c].record, s)
     \/ \E cap \in Declarable : UpdateCapabilities(c, connector[c].record, cap)
  /\ UNCHANGED <<intent, state, schedule, attempts, worker, calls>>

--------------------------------------------------------------------------------
(* The producer side.                                                       *)

\* enqueueIntegrationIntent and the outbox guard: the connector is not
\* retired, its current configuration is pinned, the ordering requirement is
\* derived from the pinned snapshot, and an ordered intent has a revision.
InsertIntent(i, c, a, r) ==
  /\ state[i] = "absent"
  /\ \A j \in 1..(i - 1) : state[j] # "absent"
  /\ Registered(c)
  /\ connector[c].lifecycle # "retired"
  /\ LET pin == connector[c].configuration
         ordered == CapabilitiesAt(c, pin).perAggregateOrdering
     IN /\ ordered => r # 0
        /\ intent' = [intent EXCEPT ![i] =
             [connector |-> c, aggregate |-> a, revision |-> r, pin |-> pin,
              ordered |-> ordered]]
  /\ state' = [state EXCEPT ![i] = "uncommitted"]
  /\ UNCHANGED <<connector, audit, schedule, attempts, worker, calls>>

\* The business transaction ends; its intent becomes visible or never was.
EndInsert(i, outcome) ==
  /\ state[i] = "uncommitted"
  /\ state' = [state EXCEPT ![i] = outcome]
  /\ UNCHANGED <<connector, audit, intent, schedule, attempts, worker, calls>>

--------------------------------------------------------------------------------
(* The worker function API.                                                 *)

\* (aggregate_revision NULLS FIRST, created_at, id), within one stream.
Precedes(p, i) ==
  /\ SameStream(p, i)
  /\ \/ intent[p].revision < intent[i].revision
     \/ intent[p].revision = intent[i].revision /\ p < i

Blocking == {"pending", "retrying", "dispatching", "ambiguous", "dead_lettered"}

\* Mutant: the gate forgets predecessors that wait for a retry.
HeldUnlessRetrying(i) ==
  /\ intent[i].ordered
  /\ \E p \in Intent : /\ Committed(p)
                      /\ state[p] \in Blocking \ {"retrying"}
                      /\ Precedes(p, i)

\* An ordered intent waits for every unresolved predecessor of its stream,
\* whatever the predecessor's own ordering flag.
HeldByPredecessor(i) ==
  /\ intent[i].ordered
  /\ \E p \in Intent : Committed(p) /\ state[p] \in Blocking /\ Precedes(p, i)

\* Mutant: the filter on open attempts is dropped.
EligibleDespiteOpenAttempt(c) ==
  {i \in Intent : /\ Committed(i)
                  /\ intent[i].connector = c
                  /\ \/ state[i] = "pending"
                     \/ state[i] = "retrying" /\ schedule[i] = "due"
                  /\ ~HeldByPredecessor(i)}

Eligible(c) ==
  {i \in Intent : /\ Committed(i)
                  /\ intent[i].connector = c
                  /\ \/ state[i] = "pending"
                     \/ state[i] = "retrying" /\ schedule[i] = "due"
                  /\ ~HasOpenAttempt(i)
                  /\ ~HeldByPredecessor(i)}

\* FOR UPDATE SKIP LOCKED LIMIT 1 in (created_at, id) order.
Candidates(c) == {i \in Eligible(c) : ~RowLocked(i)}
First(i, S) == i \in S /\ \A j \in S : i <= j

\* The claim's snapshot: it holds the connector and the first candidate.
ClaimSelect(w, c) ==
  /\ worker[w].phase = "idle"
  /\ Dispatching(c)
  /\ \E i \in Intent :
       /\ First(i, Candidates(c))
       /\ Len(attempts[i]) < MaxAttempts
       /\ worker' = [worker EXCEPT ![w] =
            [phase |-> "claiming", intent |-> i, attempt |-> 0,
             visible |-> {j \in Intent : Committed(j)}]]
  /\ UNCHANGED <<connector, audit, intent, state, schedule, attempts, calls>>

\* The ordered-stream unique index: an ordered intent in dispatching or
\* ambiguous occupies its stream's slot.
SlotTaken(i) ==
  /\ intent[i].ordered
  /\ \E j \in Intent \ {i} : /\ Committed(j)
                             /\ state[j] \in {"dispatching", "ambiguous"}
                             /\ intent[j].ordered
                             /\ SameStream(i, j)

\* The unique indexes a claim can run into: the stream's slot, and the one
\* open attempt an intent may have.
IndexRefuses(i) == SlotTaken(i) \/ HasOpenAttempt(i)

\* The claim inserts the open attempt, moves the intent to dispatching with
\* its schedule cleared, and commits.
ClaimCommit(w) ==
  /\ Claiming(w)
  /\ LET i == worker[w].intent
         a == [token |-> w, dispatched |-> FALSE, outcome |-> "open",
               visible |-> worker[w].visible]
     IN /\ ~IndexRefuses(i)
        /\ attempts' = [attempts EXCEPT ![i] = Append(@, a)]
        /\ state' = [state EXCEPT ![i] = "dispatching"]
        /\ schedule' = [schedule EXCEPT ![i] = "none"]
        /\ worker' = [worker EXCEPT ![w] =
             [phase |-> "claimed", intent |-> i,
              attempt |-> Len(attempts[i]) + 1, visible |-> {}]]
  /\ UNCHANGED <<connector, audit, intent, calls>>

\* An index refuses the claim: the call raises and its transaction aborts.
ClaimRaise(w) ==
  /\ Claiming(w)
  /\ IndexRefuses(worker[w].intent)
  /\ worker' = [worker EXCEPT ![w] = Idle]
  /\ UNCHANGED <<connector, audit, intent, state, schedule, attempts, calls>>

\* The fence of mark and complete: the attempt is open and carries the token.
Fence(i, n, token) ==
  /\ n \in DOMAIN attempts[i]
  /\ attempts[i][n].outcome = "open"
  /\ attempts[i][n].token = token

\* The dispatch boundary commits; when the answer is lost the worker only
\* knows that it may ask again.
MarkDispatchStarted(w) ==
  /\ worker[w].phase = "claimed"
  /\ LET i == worker[w].intent
         n == worker[w].attempt
     IN /\ Fence(i, n, w)
        /\ state[i] = "dispatching"
        /\ attempts' = [attempts EXCEPT ![i][n].dispatched = TRUE]
        /\ \E answer \in {"boundary", "claimed"} :
             worker' = [worker EXCEPT ![w].phase = answer]
  /\ UNCHANGED <<connector, audit, intent, state, schedule, calls>>

\* The boundary is refused: the worker no longer owns the claim.
MarkRefused(w) ==
  /\ worker[w].phase = "claimed"
  /\ ~(/\ Fence(worker[w].intent, worker[w].attempt, w)
       /\ state[worker[w].intent] = "dispatching")
  /\ worker' = [worker EXCEPT ![w] = Idle]
  /\ UNCHANGED <<connector, audit, intent, state, schedule, attempts, calls>>

\* The worker sends its settlement call, before or after the boundary.
Report(w, o) ==
  /\ worker[w].phase \in {"claimed", "boundary"}
  /\ calls' = calls \union {[intent |-> worker[w].intent,
                             attempt |-> worker[w].attempt,
                             token |-> w, outcome |-> o]}
  /\ worker' = [worker EXCEPT ![w] = Idle]
  /\ UNCHANGED <<connector, audit, intent, state, schedule, attempts>>

\* The delivery state each attempt outcome leads to.
StateAfter(outcome) ==
  CASE outcome = "succeeded" -> "accepted"
    [] outcome = "failed_transient" -> "retrying"
    [] outcome = "failed_permanent" -> "failed_permanent"
    [] outcome = "ambiguous" -> "ambiguous"

\* Mutant: the attempt is settled and its intent is left dispatching.
CompleteAttemptOnly(call) ==
  /\ Fence(call.intent, call.attempt, call.token)
  /\ state[call.intent] = "dispatching"
  /\ attempts' = [attempts EXCEPT ![call.intent][call.attempt].outcome =
                                  call.outcome]
  /\ UNCHANGED <<connector, audit, intent, state, schedule, worker, calls>>

\* Mutant: the fence looks at the newest attempt, whichever the call names.
CompleteNewest(call) ==
  LET n == Len(attempts[call.intent])
  IN /\ Fence(call.intent, n, call.token)
     /\ state[call.intent] = "dispatching"
     /\ attempts' = [attempts EXCEPT ![call.intent][n].outcome = call.outcome]
     /\ state' = [state EXCEPT ![call.intent] = StateAfter(call.outcome)]
     /\ UNCHANGED <<connector, audit, intent, schedule, worker, calls>>

\* A settlement call executes.  Fenced out it returns false, and on an
\* intent that is not dispatching it raises and rolls back: neither changes
\* anything, so only the accepted case is a step.
Complete(call) ==
  /\ Fence(call.intent, call.attempt, call.token)
  /\ state[call.intent] = "dispatching"
  /\ attempts' = [attempts EXCEPT ![call.intent][call.attempt].outcome =
                                  call.outcome]
  /\ state' = [state EXCEPT ![call.intent] = StateAfter(call.outcome)]
  /\ UNCHANGED <<connector, audit, intent, schedule, worker, calls>>

\* The worker process dies: an open transaction aborts, a claim is forgotten.
Crash(w) ==
  /\ worker[w].phase # "idle"
  /\ worker' = [worker EXCEPT ![w] = Idle]
  /\ UNCHANGED <<connector, audit, intent, state, schedule, attempts, calls>>

--------------------------------------------------------------------------------
(* Writers other than the function API.  The outbox table's own guard is    *)
(* what limits them, so the model lets them do all that it admits.          *)

\* Mutant: a failed intent may be put back for a retry.
TransitionsWithReplay ==
  {<<from, "dispatching">> : from \in {"pending", "retrying", "ambiguous"}}
  \union {<<"dispatching", to>> :
             to \in {"accepted", "retrying", "ambiguous", "failed_permanent"}}
  \union {<<"failed_permanent", "retrying">>}

Transitions ==
  {<<"pending", "dispatching">>, <<"pending", "refused">>,
   <<"dispatching", "accepted">>, <<"dispatching", "retrying">>,
   <<"dispatching", "ambiguous">>, <<"dispatching", "failed_permanent">>,
   <<"dispatching", "dead_lettered">>,
   <<"retrying", "dispatching">>, <<"retrying", "dead_lettered">>,
   <<"accepted", "acknowledged">>,
   <<"ambiguous", "dispatching">>, <<"ambiguous", "accepted">>,
   <<"ambiguous", "failed_permanent">>, <<"ambiguous", "dead_lettered">>}

\* Mutant: the guard consults the connector's current capabilities.
CapabilityAllowsNow(i, to) ==
  LET now == connector[intent[i].connector].capabilities
  IN /\ to = "acknowledged" => now.reportsTerminalState
     /\ state[i] = "ambiguous" /\ to = "dispatching" => now.supportsIdempotencyKey

\* Two edges need a capability of the snapshot the intent pinned.
CapabilityAllows(i, to) ==
  /\ to = "acknowledged" => PinnedCapabilities(i).reportsTerminalState
  /\ state[i] = "ambiguous" /\ to = "dispatching" =>
       PinnedCapabilities(i).supportsIdempotencyKey

\* Any UPDATE of an outbox row that the guard, the schedule constraint and
\* the ordered-stream index accept.  It waits for a claim's row lock.
GuardedUpdate(i, to, when) ==
  /\ Committed(i)
  /\ ~RowLocked(i)
  /\ <<state[i], to>> \in Transitions
  /\ CapabilityAllows(i, to)
  /\ when # "none" => to = "retrying"
  /\ to \in {"dispatching", "ambiguous"} => ~SlotTaken(i)
  /\ state' = [state EXCEPT ![i] = to]
  /\ schedule' = [schedule EXCEPT ![i] = when]
  /\ UNCHANGED <<connector, audit, intent, attempts, worker, calls>>

\* The database clock reaches a scheduled retry.
ScheduleDue(i) ==
  /\ schedule[i] = "future"
  /\ schedule' = [schedule EXCEPT ![i] = "due"]
  /\ UNCHANGED <<connector, audit, intent, state, attempts, worker, calls>>

--------------------------------------------------------------------------------

ConnectorStep == \E c \in Connector : RegisterConnector(c) \/ Reconfigure(c)

ProducerStep ==
  \E i \in Intent :
    \/ \E c \in Connector, a \in Aggregate, r \in 0..MaxAggregateRevision :
         InsertIntent(i, c, a, r)
    \/ \E outcome \in {"pending", "aborted"} : EndInsert(i, outcome)

WorkerStep ==
  \/ \E w \in Worker :
       \/ \E c \in Connector : ClaimSelect(w, c)
       \/ ClaimCommit(w)
       \/ ClaimRaise(w)
       \/ MarkDispatchStarted(w)
       \/ MarkRefused(w)
       \/ \E o \in Outcome : Report(w, o)
       \/ Crash(w)
  \/ \E call \in calls : Complete(call)

OtherWriterStep ==
  \E i \in Intent :
    \/ \E to \in DeliveryState, when \in Schedule : GuardedUpdate(i, to, when)
    \/ ScheduleDue(i)

\* Only the function API moves delivery states: what the code runs today.
ApiNext == ConnectorStep \/ ProducerStep \/ WorkerStep
ApiSpec == Init /\ [][ApiNext]_vars

\* Any other writer the guard admits acts as well.
Next == ApiNext \/ OtherWriterStep
Spec == Init /\ [][Next]_vars

--------------------------------------------------------------------------------
(* What the subsystem promises.                                             *)

WorkerRow ==
  {Idle}
  \union [phase : {"claiming"}, intent : Intent, attempt : {0},
          visible : SUBSET Intent]
  \union [phase : {"claimed", "boundary"}, intent : Intent, attempt : Nat,
          visible : {{}}]

TypeOK ==
  /\ RegistryTypeOK
  /\ intent \in [Intent -> IntentRow \union {NoIntent}]
  /\ state \in [Intent -> DeliveryState \union {"absent", "uncommitted", "aborted"}]
  /\ schedule \in [Intent -> Schedule]
  /\ attempts \in [Intent -> Seq(Attempt)]
  /\ worker \in [Worker -> WorkerRow]
  /\ calls \subseteq Call
  /\ \A i \in Intent : Committed(i) => intent[i] \in IntentRow

\* Strict FIFO per stream.  Once an ordered intent has been claimed, every
\* predecessor its claim could see is resolved, and stays resolved: the
\* claim function gates once, on a snapshot, and relies on no transition
\* leading back from a resolved state to a blocking one.
NoOvertaking ==
  \A i \in Intent : \A n \in DOMAIN attempts[i] :
    \A p \in attempts[i][n].visible :
      intent[i].ordered /\ Precedes(p, i) => state[p] \notin Blocking

\* An attempt that may have taken effect at the destination is never
\* followed by another attempt, unless the semantics the intent pinned at
\* insert support an idempotency key, whatever the connector says by now.
AmbiguousNeverBlindRetried ==
  \A i \in Intent : \A n \in DOMAIN attempts[i] :
    attempts[i][n].outcome = "ambiguous" /\ n < Len(attempts[i]) =>
      PinnedCapabilities(i).supportsIdempotencyKey

\* Generation N cannot settle generation N + 1: every settled attempt
\* carries the outcome of a call its own claimer sent for that attempt, even
\* when workers repeat their token and late calls execute after a retry.
SettledByItsClaimer ==
  \A i \in Intent : \A n \in DOMAIN attempts[i] :
    attempts[i][n].outcome # "open" =>
      [intent |-> i, attempt |-> n, token |-> attempts[i][n].token,
       outcome |-> attempts[i][n].outcome] \in calls

\* The claim's own filter keeps it clear of the open-attempt index: no
\* claim in flight is ever about to open a second attempt, although an
\* intent may be rescheduled while its attempt is still open.
ClaimAvoidsOpenAttempts ==
  \A w \in Worker : Claiming(w) => ~HasOpenAttempt(worker[w].intent)

\* While only the function API writes, an intent's state is what its last
\* attempt says, and every earlier attempt is settled: a claim and a
\* settlement never leave the two tables disagreeing, whoever crashes.
OutboxReflectsAttempts ==
  \A i \in Intent :
    LET rows == attempts[i]
    IN /\ \A n \in DOMAIN rows : rows[n].outcome = "open" => n = Len(rows)
       /\ Committed(i) =>
            state[i] = IF rows = << >> THEN "pending"
                       ELSE IF rows[Len(rows)].outcome = "open" THEN "dispatching"
                       ELSE StateAfter(rows[Len(rows)].outcome)

\* The share lock holds through commit: an intent becomes visible only while
\* its pin is the connector's current configuration and the connector is not
\* retired, and an attempt opens only while the connector is dispatching.
ConnectorHeldThroughCommit ==
  [][\A i \in Intent :
       /\ state[i] = "uncommitted" /\ state'[i] = "pending" =>
            LET row == connector[intent[i].connector]
            IN row.configuration = intent[i].pin /\ row.lifecycle # "retired"
       /\ attempts[i] # attempts'[i] /\ Len(attempts'[i]) > Len(attempts[i]) =>
            Dispatching(intent[i].connector)]_vars

\* Streams are claimed independently: a claim never settles on an intent
\* whose stream slot is taken, a call bound to raise, while an intent of an
\* unrelated stream of the connector is eligible.  The claim prefilters
\* predecessors only, so an intent that arrives late with a lower aggregate
\* revision than the one in flight is chosen, and refused, by every call.
UnrelatedStreamsClaimable ==
  [][\A w \in Worker, i \in Intent :
       ~Claiming(w) /\ Claiming(w)' /\ worker'[w].intent = i /\ SlotTaken(i) =>
         \A k \in Candidates(intent[i].connector) : SameStream(k, i)]_vars

\* The tables implement the delivery contract.
NoCapabilities == "none"

Contract == INSTANCE DeliveryContract WITH
  delivery <- [i \in Intent |-> IF Committed(i) THEN state[i] ELSE "absent"],
  pinned   <- [i \in Intent |->
                 IF Committed(i) THEN PinnedCapabilities(i) ELSE NoCapabilities]

RefinesContract == Contract!Spec
================================================================================
