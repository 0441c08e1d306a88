------------------------- MODULE SubmissionIdempotency -------------------------
(***************************************************************************)
(* Creation of service requests with submission idempotency, in one active *)
(* Organization and for one Issue form.                                    *)
(*                                                                         *)
(* Each call of CreateServiceRequestService.create reads its attachment    *)
(* batch and the form before its transaction, then, inside one             *)
(* transaction, takes a reservation of the client's key (a unique          *)
(* constraint on which a concurrent holder makes it wait), shares the      *)
(* Issue, locks the batch and creates the request.  Nothing of it is       *)
(* visible before commit.  Clients may send any key with any submission,   *)
(* at any time; administrators change the Issue; batches and reservations  *)
(* grow old.                                                               *)
(*                                                                         *)
(* The request a call creates has the identity the call generated, so the  *)
(* call itself stands for it.  Validation, reference allocation and the    *)
(* child rows are one commit or one rollback: Fail is that rollback, and   *)
(* the crash of the process.                                               *)
(***************************************************************************)
EXTENDS Naturals, FiniteSets

CONSTANTS
  Call,         \* submissions sent to the server
  Key,          \* idempotency keys, scope included
  NoKey,        \* no key: staff intake and the trusted path need none
  Content,      \* the digested fields of a submission, its form version apart
  Batch,        \* attachment batches
  NoBatch,
  None,         \* no request, no reservation, no digest
  MaxFiles,     \* bound on the changes of a batch's files
  MaxVersion    \* bound on the published versions of the form

ASSUME SubmissionAssumption ==
  /\ NoKey \notin Key
  /\ NoBatch \notin Batch
  /\ MaxFiles \in Nat
  /\ MaxVersion \in Nat \ {0}

Version == 1..MaxVersion

Submission == [key : Key \union {NoKey}, content : Content, version : Version,
               batch : Batch \union {NoBatch}]

Phase == {"unsent", "sent", "prepared", "reserved", "verified", "attached", "done"}

CallRow == [phase : Phase \ {"unsent"}, key : Key \union {NoKey},
            content : Content, version : Version,
            batch : Batch \union {NoBatch}, files : Nat, finalized : BOOLEAN]

Refusal == {"in_progress", "mismatch", "expired", "unavailable", "changed", "failed"}

RequestRow == [key : Key \union {NoKey}, content : Content, version : Version,
               batch : Batch \union {NoBatch}, files : Nat]

DigestRow == [content : Content, version : Version]

ReservationRow == [fingerprint : [submission : DigestRow,
                                  batch : Batch \union {NoBatch}],
                   request : Call, open : BOOLEAN]

\* version is the form version the batch was opened for, 0 before that.
UnopenedBatch == [state : {"none"}, live : BOOLEAN, files : {0}, version : {0},
                  request : {None}, digest : {None}]

StagedBatch == [state : {"STAGED", "none"}, live : BOOLEAN, files : Nat,
                version : Version, request : {None}, digest : {None}]

FinalizedBatch == [state : {"FINALIZED"}, live : BOOLEAN, files : Nat,
                   version : Version, request : Call, digest : DigestRow]

BatchRow == UnopenedBatch \union StagedBatch \union FinalizedBatch

\* A suspended Issue is inactive, or not available to the caller's audience.
IssueAction == {"internal_intake", "external_redirect", "suspended"}

\* None is no row, no digest and no call.
ASSUME NoneAssumption ==
  /\ None \notin Call
  /\ None \notin DigestRow
  /\ None \notin RequestRow
  /\ None \notin ReservationRow

VARIABLES
  call,         \* call[h]: where the call is and what it knows
  answer,       \* answer[h]: what the server answered
  request,      \* request[h]: the committed request the call created
  reservation,  \* reservation[k]: the committed reservation of the key
  batch,        \* batch[b]: the batch row and the version of its files
  issue         \* the Issue: its published version and its action

vars == <<call, answer, request, reservation, batch, issue>>

\* The canonical digest bound to a batch, and the fingerprint bound to a key.
Digest(s) == [content |-> s.content, version |-> s.version]
Fingerprint(s) == [submission |-> Digest(s), batch |-> s.batch]

\* The transaction is open and holds its locks.
Open(h) == call[h].phase \in {"reserved", "verified", "attached"}

HoldsKey(h, k) == Open(h) /\ call[h].key = k

\* Mutant: the batch stays locked after its call has ended.
HoldsBatchAfterEnd(h, b) ==
  call[h].phase \in {"attached", "done"} /\ call[h].batch = b

HoldsBatch(h, b) == call[h].phase = "attached" /\ call[h].batch = b

\* FOR SHARE on the service definition, until the transaction ends.
IssueShared == \E h \in Call : call[h].phase \in {"verified", "attached"}

BatchLocked(b) == \E h \in Call : HoldsBatch(h, b)

\* batch(): the row exists and has not expired; FINALIZED rows expire too.
Usable(b) == batch[b].state # "none" /\ batch[b].live

\* prepare() finds it, and opened for the form of the submission.
Addressed(h) ==
  LET b == call[h].batch
  IN Usable(b) /\ batch[b].version = call[h].version

Unsent == [phase |-> "unsent", key |-> NoKey, content |-> None, version |-> 0,
           batch |-> NoBatch, files |-> 0, finalized |-> FALSE]

Init ==
  /\ call = [h \in Call |-> Unsent]
  /\ answer = [h \in Call |-> [kind |-> "none", request |-> None]]
  /\ request = [h \in Call |-> None]
  /\ reservation = [k \in Key |-> None]
  /\ batch = [b \in Batch |-> [state |-> "none", live |-> FALSE, files |-> 0,
                               version |-> 0, request |-> None, digest |-> None]]
  /\ issue = [version |-> 1, action |-> "internal_intake"]

\* The call ends: its transaction commits or rolls back and its locks go.
Answer(h, kind, r) ==
  /\ answer' = [answer EXCEPT ![h] = [kind |-> kind, request |-> r]]
  /\ call' = [call EXCEPT ![h].phase = "done"]

Refuse(h, kind) ==
  /\ Answer(h, kind, None)
  /\ UNCHANGED <<request, reservation, batch, issue>>

Receipt(h, r) ==
  /\ Answer(h, "receipt", r)
  /\ UNCHANGED <<request, reservation, batch, issue>>

--------------------------------------------------------------------------------
(* Before the transaction.                                                  *)

Send(h, s) ==
  /\ call[h].phase = "unsent"
  /\ s.version <= issue.version
  /\ call' = [call EXCEPT ![h] =
       [phase |-> "sent", key |-> s.key, content |-> s.content,
        version |-> s.version, batch |-> s.batch, files |-> 0,
        finalized |-> FALSE]]
  /\ UNCHANGED <<answer, request, reservation, batch, issue>>

\* prepareFiles reads the batch and verifies its objects, and the form is
\* read unless the batch is already FINALIZED.
Prepare(h) ==
  /\ call[h].phase = "sent"
  /\ LET b == call[h].batch
         finalized == b # NoBatch /\ batch[b].state = "FINALIZED"
     IN /\ b # NoBatch => /\ ~BatchLocked(b)
                          /\ Usable(b)
                          /\ batch[b].files > 0
        /\ ~finalized => issue.action # "external_redirect"
        /\ call' = [call EXCEPT ![h].phase = "prepared",
                                ![h].finalized = finalized,
                                ![h].files = IF b = NoBatch THEN 0 ELSE batch[b].files]
  /\ UNCHANGED <<answer, request, reservation, batch, issue>>

\* Refusals before the transaction: a batch that is gone, expired or empty,
\* or an Issue that an external service now handles.
PrepareRefused(h) ==
  /\ call[h].phase = "sent"
  /\ LET b == call[h].batch
         finalized == b # NoBatch /\ batch[b].state = "FINALIZED"
     IN /\ b # NoBatch => ~BatchLocked(b)
        /\ \/ b # NoBatch /\ (~Usable(b) \/ batch[b].files = 0)
           \/ ~finalized /\ issue.action = "external_redirect"
  /\ Refuse(h, "unavailable")

--------------------------------------------------------------------------------
(* The transaction.                                                         *)

\* The batch was FINALIZED when prepared: its own request is the answer,
\* before any reservation.
ReplayBatch(h) ==
  /\ call[h].phase = "prepared"
  /\ call[h].finalized
  /\ Addressed(h)
  /\ LET b == call[h].batch
     IN /\ batch[b].digest = Digest(call[h])
        /\ Receipt(h, batch[b].request)

ReplayBatchRefused(h) ==
  /\ call[h].phase = "prepared"
  /\ call[h].finalized
  /\ LET b == call[h].batch
     IN \/ ~Addressed(h) /\ Refuse(h, "unavailable")
        \/ /\ Addressed(h)
           /\ batch[b].digest # Digest(call[h])
           /\ Refuse(h, "changed")

\* Mutant: another transaction's uncommitted reservation is not waited for.
ReserveWithoutWaiting(h) ==
  /\ call[h].phase = "prepared"
  /\ ~call[h].finalized
  /\ call[h].key # NoKey => reservation[call[h].key] = None
  /\ call' = [call EXCEPT ![h].phase = "reserved"]
  /\ UNCHANGED <<answer, request, reservation, batch, issue>>

\* INSERT ... ON CONFLICT DO NOTHING wins the key once nobody holds it.
Reserve(h) ==
  /\ call[h].phase = "prepared"
  /\ ~call[h].finalized
  /\ LET k == call[h].key
     IN k # NoKey => /\ reservation[k] = None
                     /\ \A other \in Call : ~HoldsKey(other, k)
  /\ call' = [call EXCEPT ![h].phase = "reserved"]
  /\ UNCHANGED <<answer, request, reservation, batch, issue>>

\* The holder did not resolve within the lock timeout.
ReserveTimeout(h) ==
  /\ call[h].phase = "prepared"
  /\ ~call[h].finalized
  /\ \E other \in Call : call[h].key # NoKey /\ HoldsKey(other, call[h].key)
  /\ Refuse(h, "in_progress")

\* Mutant: the fingerprint is not compared.
ClassifyByAge(recorded, fingerprint) ==
  IF recorded.open THEN "replay" ELSE "expired"

\* classifySubmission: a mismatch is reported before an expiry.
Classify(recorded, fingerprint) ==
  IF recorded.fingerprint # fingerprint THEN "mismatch"
  ELSE IF recorded.open THEN "replay" ELSE "expired"

\* The key is taken by a committed reservation, read back and classified.
Judge(h) ==
  /\ call[h].phase = "prepared"
  /\ ~call[h].finalized
  /\ call[h].key # NoKey
  /\ LET recorded == reservation[call[h].key]
     IN /\ recorded # None
        /\ LET kind == Classify(recorded, Fingerprint(call[h]))
           IN IF kind = "replay" THEN Receipt(h, recorded.request)
              ELSE Refuse(h, kind)

\* The Issue is shared FOR SHARE: it still takes this form's submissions.
Verify(h) ==
  /\ call[h].phase = "reserved"
  /\ issue = [version |-> call[h].version, action |-> "internal_intake"]
  /\ call' = [call EXCEPT ![h].phase = "verified"]
  /\ UNCHANGED <<answer, request, reservation, batch, issue>>

VerifyRefused(h) ==
  /\ call[h].phase = "reserved"
  /\ issue # [version |-> call[h].version, action |-> "internal_intake"]
  /\ Refuse(h, "changed")

\* Mutant: the files are not compared with the ones that were verified.
AttachUnverified(h) ==
  /\ call[h].phase = "verified"
  /\ LET b == call[h].batch
     IN /\ b # NoBatch
        /\ ~BatchLocked(b)
        /\ Addressed(h)
        /\ batch[b].state = "STAGED"
  /\ call' = [call EXCEPT ![h].phase = "attached"]
  /\ UNCHANGED <<answer, request, reservation, batch, issue>>

\* prepare() locks the batch: still STAGED, with the files verified before.
Attach(h) ==
  /\ call[h].phase = "verified"
  /\ LET b == call[h].batch
     IN /\ b # NoBatch
        /\ ~BatchLocked(b)
        /\ Addressed(h)
        /\ batch[b].state = "STAGED"
        /\ batch[b].files = call[h].files
  /\ call' = [call EXCEPT ![h].phase = "attached"]
  /\ UNCHANGED <<answer, request, reservation, batch, issue>>

\* Another submission finalized the batch meanwhile.  Holding a reservation
\* that would name no request, the call fails closed; without one it answers
\* with that submission's request.
AttachFinalized(h) ==
  /\ call[h].phase = "verified"
  /\ LET b == call[h].batch
     IN /\ b # NoBatch
        /\ ~BatchLocked(b)
        /\ Addressed(h)
        /\ batch[b].state = "FINALIZED"
        /\ batch[b].digest = Digest(call[h])
        /\ \/ call[h].key # NoKey /\ Refuse(h, "in_progress")
           \/ call[h].key = NoKey /\ Receipt(h, batch[b].request)

AttachRefused(h) ==
  /\ call[h].phase = "verified"
  /\ LET b == call[h].batch
     IN /\ b # NoBatch
        /\ ~BatchLocked(b)
        /\ \/ ~Addressed(h) /\ Refuse(h, "unavailable")
           \/ /\ Addressed(h)
              /\ \/ batch[b].state = "FINALIZED" /\ batch[b].digest # Digest(call[h])
                 \/ batch[b].state = "STAGED" /\ batch[b].files # call[h].files
              /\ Refuse(h, "changed")

\* The commit: the request with its child rows, the reservation naming it
\* and the finalized batch appear together, or not at all.
Create(h) ==
  /\ \/ call[h].phase = "verified" /\ call[h].batch = NoBatch
     \/ call[h].phase = "attached"
  /\ LET k == call[h].key
         b == call[h].batch
     IN /\ request' = [request EXCEPT ![h] =
             [key |-> k, content |-> call[h].content, version |-> call[h].version,
              batch |-> b, files |-> call[h].files]]
        /\ reservation' = IF k = NoKey THEN reservation
             ELSE [reservation EXCEPT ![k] =
                     [fingerprint |-> Fingerprint(call[h]), request |-> h,
                      open |-> TRUE]]
        /\ batch' = IF b = NoBatch THEN batch
             ELSE [batch EXCEPT ![b].state = "FINALIZED", ![b].request = h,
                                ![b].digest = Digest(call[h])]
  /\ Answer(h, "receipt", h)
  /\ UNCHANGED issue

\* Validation fails, a constraint refuses, or the process dies: rollback.
Fail(h) ==
  /\ call[h].phase \notin {"unsent", "done"}
  /\ Refuse(h, "failed")

--------------------------------------------------------------------------------
(* The rest of the system.                                                  *)

\* start(): a batch is opened for a published version of the form.
OpenBatch(b, version) ==
  /\ batch[b].version = 0
  /\ version <= issue.version
  /\ issue.action # "external_redirect"
  /\ batch' = [batch EXCEPT ![b] =
       [state |-> "STAGED", live |-> TRUE, files |-> 0, version |-> version,
        request |-> None, digest |-> None]]
  /\ UNCHANGED <<call, answer, request, reservation, issue>>

\* An upload or a removal changes the files of a staged batch.
ChangeFiles(b) ==
  /\ batch[b].state = "STAGED"
  /\ Usable(b)
  /\ ~BatchLocked(b)
  /\ batch[b].files < MaxFiles
  /\ batch' = [batch EXCEPT ![b].files = @ + 1]
  /\ UNCHANGED <<call, answer, request, reservation, issue>>

\* Thirty minutes after the batch was opened.
ExpireBatch(b) ==
  /\ Usable(b)
  /\ batch' = [batch EXCEPT ![b].live = FALSE]
  /\ UNCHANGED <<call, answer, request, reservation, issue>>

\* The owner discards a staged batch, or the cleanup job finds it expired.
DeleteBatch(b) ==
  /\ batch[b].state = "STAGED"
  /\ ~BatchLocked(b)
  /\ batch' = [batch EXCEPT ![b].state = "none"]
  /\ UNCHANGED <<call, answer, request, reservation, issue>>

\* The retry window closes, at least an hour after the request was created
\* and so after its batch, which lives 31 minutes at most, has expired.
CloseWindow(k) ==
  /\ reservation[k] # None
  /\ reservation[k].open
  /\ LET b == reservation[k].fingerprint.batch
     IN b # NoBatch => ~batch[b].live
  /\ reservation' = [reservation EXCEPT ![k].open = FALSE]
  /\ UNCHANGED <<call, answer, request, batch, issue>>

ChangedIssues ==
  {i \in [version : {issue.version, issue.version + 1}, action : IssueAction] :
     i # issue /\ i.version <= MaxVersion}

\* Mutant: an administrator does not wait for submissions being created.
AdministerAtOnce ==
  /\ issue' \in ChangedIssues
  /\ UNCHANGED <<call, answer, request, reservation, batch>>

\* An administrator publishes a version of the form, changes what the Issue
\* takes, or both; it waits for the transactions that share the Issue.
Administer ==
  /\ ~IssueShared
  /\ issue' \in ChangedIssues
  /\ UNCHANGED <<call, answer, request, reservation, batch>>

--------------------------------------------------------------------------------

\* What the server does for a call once it was sent, failures apart.
Serve(h) ==
  \/ Prepare(h) \/ PrepareRefused(h)
  \/ ReplayBatch(h) \/ ReplayBatchRefused(h)
  \/ Reserve(h) \/ ReserveTimeout(h) \/ Judge(h)
  \/ Verify(h) \/ VerifyRefused(h)
  \/ Attach(h) \/ AttachFinalized(h) \/ AttachRefused(h)
  \/ Create(h)

Next ==
  \/ \E h \in Call :
       \/ \E s \in Submission : Send(h, s)
       \/ Serve(h)
       \/ Fail(h)
  \/ \E b \in Batch :
       \/ \E version \in Version : OpenBatch(b, version)
       \/ ChangeFiles(b) \/ ExpireBatch(b) \/ DeleteBatch(b)
  \/ \E k \in Key : CloseWindow(k)
  \/ Administer

\* The server works on every call it received; nothing else must happen.
Spec == Init /\ [][Next]_vars /\ \A h \in Call : WF_vars(Serve(h))

--------------------------------------------------------------------------------

TypeOK ==
  /\ call \in [Call -> {Unsent} \union CallRow]
  /\ answer \in [Call -> [kind : {"none"} \union Refusal, request : {None}]
                        \union [kind : {"receipt"}, request : Call]]
  /\ request \in [Call -> RequestRow \union {None}]
  /\ reservation \in [Key -> ReservationRow \union {None}]
  /\ batch \in [Batch -> BatchRow]
  /\ issue \in [version : Version, action : IssueAction]

\* A key creates at most one request, whatever order its copies run in.
OneRequestPerKey ==
  \A g, h \in Call :
    request[g] # None /\ request[h] # None /\ request[g].key = request[h].key
      => g = h \/ request[g].key = NoKey

\* A committed reservation names a committed request of its own key and
\* fingerprint: no path commits the reservation of a request it did not make.
ReservationNamesItsRequest ==
  \A k \in Key : reservation[k] # None =>
    LET r == request[reservation[k].request]
    IN /\ r # None
       /\ r.key = k
       /\ Fingerprint(r) = reservation[k].fingerprint

\* Whoever gets a receipt, first, replayed or through its batch, sent the
\* very submission the request was created from.
ReceiptIsOwn ==
  \A h \in Call : answer[h].kind = "receipt" =>
    LET r == request[answer[h].request]
    IN /\ r # None
       /\ Fingerprint(r) = Fingerprint(call[h])

\* A request and its batch name each other, one request per batch, and the
\* batch still holds exactly the files verified before the transaction.
EvidenceAsVerified ==
  /\ \A h \in Call : request[h] # None /\ request[h].batch # NoBatch =>
       LET b == batch[request[h].batch]
       IN /\ b.state = "FINALIZED"
          /\ b.request = h
          /\ b.files = request[h].files
  /\ \A b \in Batch : batch[b].state = "FINALIZED" =>
       request[batch[b].request] # None /\ request[batch[b].request].batch = b

\* A request is created only from the form that is current when it commits,
\* on an Issue that still takes submissions.
CreatedFromCurrentForm ==
  [][\A h \in Call : request[h] = None /\ request'[h] # None =>
       issue = [version |-> request'[h].version, action |-> "internal_intake"]]_vars

\* Every call received is answered: the waits for keys, for batches and for
\* the Issue form no cycle.
EveryCallAnswered ==
  \A h \in Call : call[h].phase = "sent" ~> call[h].phase = "done"

\* The feature's contract: while its Issue still takes submissions, an exact
\* replay of a committed submission, inside the retry window, returns the
\* original receipt or is told to retry.
ExactReplayReturnsReceipt ==
  [][\A h \in Call :
       (/\ answer[h].kind = "none"
        /\ answer'[h].kind \in {"unavailable", "changed", "mismatch", "expired"}
        /\ call[h].key # NoKey
        /\ issue.action = "internal_intake")
       => LET recorded == reservation[call[h].key]
          IN recorded = None \/ ~recorded.open
             \/ recorded.fingerprint # Fingerprint(call[h])]_vars
================================================================================
