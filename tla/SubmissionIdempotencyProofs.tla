---------------------- MODULE SubmissionIdempotencyProofs ----------------------
(***************************************************************************)
(* Creation of service requests: for any number of calls, keys, batches    *)
(* and form versions, a key creates one request, reservations and receipts *)
(* name the request of their own submission, the evidence is what was      *)
(* verified, and nothing is created from a superseded form.                *)
(***************************************************************************)
EXTENDS SubmissionIdempotency, TLAPS

\* An answer is given once, when the call ends.
AnswerInv == \A h \in Call : answer[h].kind # "none" => call[h].phase = "done"

\* The open transaction that holds a key is alone, and holds it before any
\* reservation of the key is committed.
KeyInv ==
  /\ \A g, h \in Call :
       Open(g) /\ Open(h) /\ call[g].key = call[h].key =>
         g = h \/ call[g].key = NoKey
  /\ \A h \in Call :
       Open(h) /\ call[h].key # NoKey => reservation[call[h].key] = None

\* A committed request is the one its call submitted, and the reservation of
\* its key names it: this is why a second request of the key cannot exist.
RequestInv ==
  \A h \in Call : request[h] # None =>
    /\ call[h].phase = "done"
    /\ request[h].key = call[h].key
    /\ Fingerprint(request[h]) = Fingerprint(call[h])
    /\ request[h].key # NoKey =>
         /\ reservation[request[h].key] # None
         /\ reservation[request[h].key].request = h

\* A locked batch is locked once, is staged, and holds the verified files.
LockInv ==
  /\ \A g, h \in Call :
       /\ call[g].phase = "attached"
       /\ call[h].phase = "attached"
       /\ call[g].batch = call[h].batch
       => g = h
  /\ \A h \in Call : call[h].phase = "attached" =>
       /\ call[h].batch # NoBatch
       /\ batch[call[h].batch].state = "STAGED"
       /\ batch[call[h].batch].files = call[h].files

\* A finalized batch keeps the digest of its request, so that a replay
\* through the batch compares with what was really submitted.
DigestInv ==
  \A b \in Batch : batch[b].state = "FINALIZED" =>
    batch[b].digest = Digest(request[batch[b].request])

\* A batch that a call found finalized remains so: its request answers.
FinalizedInv ==
  \A h \in Call : call[h].finalized =>
    call[h].batch \in Batch /\ batch[call[h].batch].state = "FINALIZED"

\* While a transaction shares the Issue, the form stays the one it verified.
FormInv ==
  \A h \in Call : call[h].phase \in {"verified", "attached"} =>
    issue = [version |-> call[h].version, action |-> "internal_intake"]

\* The inductive invariant.
SubmissionInv ==
  /\ TypeOK
  /\ AnswerInv
  /\ KeyInv
  /\ RequestInv
  /\ ReservationNamesItsRequest
  /\ ReceiptIsOwn
  /\ LockInv
  /\ EvidenceAsVerified
  /\ DigestInv
  /\ FinalizedInv
  /\ FormInv

LEMMA SentCall ==
  ASSUME TypeOK, NEW h \in Call, call[h].phase # "unsent"
  PROVE  call[h] \in CallRow
BY DEF TypeOK, Unsent

LEMMA BatchRowFields ==
  ASSUME NEW row \in BatchRow
  PROVE  /\ row.files \in Nat
         /\ row.state = "FINALIZED" => row \in FinalizedBatch
         /\ row.state = "STAGED" => row \in StagedBatch
         /\ row.version = 0 => row \in UnopenedBatch
<1>1. CASE row \in UnopenedBatch
  BY <1>1 DEF UnopenedBatch
<1>2. CASE row \in StagedBatch
  BY <1>2 DEF StagedBatch, Version
<1>3. CASE row \in FinalizedBatch
  BY <1>3 DEF FinalizedBatch, Version
<1> QED BY <1>1, <1>2, <1>3 DEF BatchRow

LEMMA SubmissionInitInv == Init => SubmissionInv
<1> SUFFICES ASSUME Init PROVE SubmissionInv
  OBVIOUS
<1>1. TypeOK
  BY SubmissionAssumption DEF Init, TypeOK, BatchRow, UnopenedBatch, Version, IssueAction
<1>2. AnswerInv /\ ReceiptIsOwn
  BY DEF Init, AnswerInv, ReceiptIsOwn
<1>3. KeyInv /\ LockInv /\ FinalizedInv /\ FormInv
  BY DEF Init, Unsent, KeyInv, LockInv, FinalizedInv, FormInv, Open
<1>4. RequestInv /\ ReservationNamesItsRequest
  BY DEF Init, RequestInv, ReservationNamesItsRequest
<1>5. EvidenceAsVerified /\ DigestInv
  BY DEF Init, EvidenceAsVerified, DigestInv
<1> QED BY <1>1, <1>2, <1>3, <1>4, <1>5 DEF SubmissionInv

--------------------------------------------------------------------------------
(* Steps that change one call only.                                         *)

\* A call that has not ended owns no request and no answer yet, so whatever
\* it learns disturbs neither the requests nor the receipts.
LEMMA CallStepKeepsRecords ==
  ASSUME SubmissionInv, NEW h \in Call, NEW row \in CallRow,
         call[h].phase # "done",
         row.finalized =>
           row.batch \in Batch /\ batch[row.batch].state = "FINALIZED",
         call' = [call EXCEPT ![h] = row],
         UNCHANGED <<answer, request, reservation, batch, issue>>
  PROVE  /\ (TypeOK /\ AnswerInv /\ RequestInv /\ ReservationNamesItsRequest)'
         /\ (ReceiptIsOwn /\ EvidenceAsVerified /\ DigestInv /\ FinalizedInv)'
<1> USE DEF SubmissionInv
<1>1. call \in [Call -> {Unsent} \union CallRow]
  BY DEF TypeOK
<1>2. /\ call'[h] = row
      /\ \A g \in Call \ {h} : call'[g] = call[g]
  BY <1>1
<1>3. request[h] = None /\ answer[h].kind = "none"
  BY DEF RequestInv, AnswerInv
<1>4. TypeOK'
  <2>1. call' \in [Call -> {Unsent} \union CallRow]
    BY <1>1
  <2> QED BY <2>1 DEF TypeOK
<1>5. AnswerInv' /\ RequestInv'
  <2>1. AnswerInv'
    BY <1>2, <1>3 DEF AnswerInv
  <2>2. RequestInv'
    BY <1>2, <1>3 DEF RequestInv
  <2> QED BY <2>1, <2>2
<1>6. ReservationNamesItsRequest' /\ EvidenceAsVerified' /\ DigestInv'
  BY DEF ReservationNamesItsRequest, EvidenceAsVerified, DigestInv
<1>7. ReceiptIsOwn'
  BY <1>2, <1>3 DEF ReceiptIsOwn
<1>8. FinalizedInv'
  BY <1>2 DEF FinalizedInv
<1> QED BY <1>4, <1>5, <1>6, <1>7, <1>8

\* Before its transaction a call holds nothing.
LEMMA UnlockedStepKeepsInv ==
  ASSUME SubmissionInv, NEW h \in Call, NEW row \in CallRow,
         call[h].phase # "done", row.phase \in {"sent", "prepared"},
         row.finalized =>
           row.batch \in Batch /\ batch[row.batch].state = "FINALIZED",
         call' = [call EXCEPT ![h] = row],
         UNCHANGED <<answer, request, reservation, batch, issue>>
  PROVE  SubmissionInv'
<1>1. /\ (TypeOK /\ AnswerInv /\ RequestInv /\ ReservationNamesItsRequest)'
      /\ (ReceiptIsOwn /\ EvidenceAsVerified /\ DigestInv /\ FinalizedInv)'
  BY CallStepKeepsRecords
<1>2. /\ call'[h] = row
      /\ \A g \in Call \ {h} : call'[g] = call[g]
  BY DEF SubmissionInv, TypeOK
<1>3. KeyInv'
  BY <1>2 DEF SubmissionInv, KeyInv, Open
<1>4. LockInv'
  BY <1>2 DEF SubmissionInv, LockInv
<1>5. FormInv'
  BY <1>2 DEF SubmissionInv, FormInv
<1> QED BY <1>1, <1>3, <1>4, <1>5 DEF SubmissionInv

LEMMA SendKeepsInv ==
  ASSUME SubmissionInv, NEW h \in Call, NEW s \in Submission, Send(h, s)
  PROVE  SubmissionInv'
<1> DEFINE row == [phase |-> "sent", key |-> s.key, content |-> s.content,
                   version |-> s.version, batch |-> s.batch, files |-> 0,
                   finalized |-> FALSE]
<1>1. row \in CallRow /\ row.phase = "sent" /\ row.finalized = FALSE
  BY DEF Submission, CallRow, Phase
<1>2. call[h].phase # "done" /\ call' = [call EXCEPT ![h] = row]
  BY DEF Send
<1> HIDE DEF row
<1> QED BY <1>1, <1>2, UnlockedStepKeepsInv DEF Send

LEMMA PrepareKeepsInv ==
  ASSUME SubmissionInv, NEW h \in Call, Prepare(h)
  PROVE  SubmissionInv'
<1> DEFINE b == call[h].batch
           finalized == b # NoBatch /\ batch[b].state = "FINALIZED"
           files == IF b = NoBatch THEN 0 ELSE batch[b].files
           row == [call[h] EXCEPT !.phase = "prepared", !.finalized = finalized,
                                  !.files = files]
<1>1. call[h] \in CallRow
  BY SentCall DEF SubmissionInv, Prepare
<1>2. files \in Nat
  <2>1. \A c \in Batch : batch[c].files \in Nat
    BY BatchRowFields DEF SubmissionInv, TypeOK
  <2> QED BY <1>1, <2>1 DEF CallRow
<1>3. row \in CallRow /\ row.phase = "prepared"
  <2>1. finalized \in BOOLEAN
    OBVIOUS
  <2> HIDE DEF finalized, files
  <2> QED BY <1>1, <1>2, <2>1 DEF CallRow, Phase
<1>4. call' = [call EXCEPT ![h] = row]
  BY DEF Prepare, SubmissionInv, TypeOK
<1>5. row.finalized => row.batch \in Batch /\ batch[row.batch].state = "FINALIZED"
  BY <1>1 DEF CallRow
<1>6. call[h].phase # "done"
  BY DEF Prepare
<1> HIDE DEF row
<1> QED BY <1>3, <1>4, <1>5, <1>6, UnlockedStepKeepsInv DEF Prepare

\* A step inside the transaction moves the phase only.
LEMMA PhaseRow ==
  ASSUME TypeOK, NEW h \in Call, call[h].phase # "unsent",
         NEW phase \in Phase \ {"unsent"},
         call' = [call EXCEPT ![h].phase = phase]
  PROVE  \E row \in CallRow :
           /\ call' = [call EXCEPT ![h] = row]
           /\ row = [call[h] EXCEPT !.phase = phase]
<1>1. call[h] \in CallRow
  BY SentCall
<1>2. [call[h] EXCEPT !.phase = phase] \in CallRow
  BY <1>1 DEF CallRow
<1>3. call' = [call EXCEPT ![h] = [call[h] EXCEPT !.phase = phase]]
  BY DEF TypeOK
<1> QED BY <1>2, <1>3

\* The unique index admits a key only while no open call holds it and no
\* committed reservation records it.
LEMMA ReserveKeepsInv ==
  ASSUME SubmissionInv, NEW h \in Call, Reserve(h)
  PROVE  SubmissionInv'
<1>1. PICK row \in CallRow : /\ call' = [call EXCEPT ![h] = row]
                             /\ row = [call[h] EXCEPT !.phase = "reserved"]
  BY PhaseRow DEF Reserve, SubmissionInv, Phase
<1>2. call[h] \in CallRow
  BY SentCall DEF SubmissionInv, Reserve
<1>3. row.phase = "reserved" /\ row.key = call[h].key
  BY <1>1, <1>2 DEF CallRow
<1>4. row.finalized => row.batch \in Batch /\ batch[row.batch].state = "FINALIZED"
  BY <1>1, <1>2 DEF CallRow, SubmissionInv, FinalizedInv
<1>5. /\ (TypeOK /\ AnswerInv /\ RequestInv /\ ReservationNamesItsRequest)'
      /\ (ReceiptIsOwn /\ EvidenceAsVerified /\ DigestInv /\ FinalizedInv)'
  BY <1>1, <1>2, <1>4, CallStepKeepsRecords DEF Reserve
<1>6. /\ call'[h] = row
      /\ \A g \in Call \ {h} : call'[g] = call[g]
  BY <1>1 DEF SubmissionInv, TypeOK
<1>7. KeyInv'
  <2>1. \A g \in Call : Open(g) /\ call[g].key = call[h].key =>
                           call[h].key = NoKey
    BY DEF Reserve, HoldsKey
  <2>2. call[h].key # NoKey => reservation'[call[h].key] = None
    BY DEF Reserve
  <2> QED BY <1>3, <1>6, <2>1, <2>2 DEF SubmissionInv, KeyInv, Open, Reserve
<1>8. LockInv' /\ FormInv'
  <2>1. LockInv'
    BY <1>3, <1>6 DEF SubmissionInv, LockInv, Reserve
  <2>2. FormInv'
    BY <1>3, <1>6 DEF SubmissionInv, FormInv, Reserve
  <2> QED BY <2>1, <2>2
<1> QED BY <1>5, <1>7, <1>8 DEF SubmissionInv

\* Sharing the Issue fixes the form that was compared with the call's.
LEMMA VerifyKeepsInv ==
  ASSUME SubmissionInv, NEW h \in Call, Verify(h)
  PROVE  SubmissionInv'
<1>1. PICK row \in CallRow : /\ call' = [call EXCEPT ![h] = row]
                             /\ row = [call[h] EXCEPT !.phase = "verified"]
  BY PhaseRow DEF Verify, SubmissionInv, Phase
<1>2. call[h] \in CallRow
  BY SentCall DEF SubmissionInv, Verify
<1>3. /\ row.phase = "verified"
      /\ row.key = call[h].key
      /\ row.version = call[h].version
  BY <1>1, <1>2 DEF CallRow
<1>4. row.finalized => row.batch \in Batch /\ batch[row.batch].state = "FINALIZED"
  BY <1>1, <1>2 DEF CallRow, SubmissionInv, FinalizedInv
<1>5. /\ (TypeOK /\ AnswerInv /\ RequestInv /\ ReservationNamesItsRequest)'
      /\ (ReceiptIsOwn /\ EvidenceAsVerified /\ DigestInv /\ FinalizedInv)'
  BY <1>1, <1>2, <1>4, CallStepKeepsRecords DEF Verify
<1>6. /\ call'[h] = row
      /\ \A g \in Call \ {h} : call'[g] = call[g]
  BY <1>1 DEF SubmissionInv, TypeOK
<1>7. KeyInv'
  <2>1. \A g \in Call : Open(g)' => Open(g) /\ call'[g].key = call[g].key
    BY <1>3, <1>6 DEF Open, Verify
  <2> QED BY <2>1 DEF SubmissionInv, KeyInv, Verify
<1>8. LockInv'
  BY <1>3, <1>6 DEF SubmissionInv, LockInv, Verify
<1>9. FormInv'
  BY <1>3, <1>6 DEF SubmissionInv, FormInv, Verify
<1> QED BY <1>5, <1>7, <1>8, <1>9 DEF SubmissionInv

\* The batch is locked by nobody else, staged, and holds the verified files.
LEMMA AttachKeepsInv ==
  ASSUME SubmissionInv, NEW h \in Call, Attach(h)
  PROVE  SubmissionInv'
<1>1. PICK row \in CallRow : /\ call' = [call EXCEPT ![h] = row]
                             /\ row = [call[h] EXCEPT !.phase = "attached"]
  BY PhaseRow DEF Attach, SubmissionInv, Phase
<1>2. call[h] \in CallRow
  BY SentCall DEF SubmissionInv, Attach
<1>3. /\ row.phase = "attached"
      /\ row.key = call[h].key
      /\ row.version = call[h].version
      /\ row.batch = call[h].batch
      /\ row.files = call[h].files
  BY <1>1, <1>2 DEF CallRow
<1>4. row.finalized => row.batch \in Batch /\ batch[row.batch].state = "FINALIZED"
  BY <1>1, <1>2 DEF CallRow, SubmissionInv, FinalizedInv
<1>5. /\ (TypeOK /\ AnswerInv /\ RequestInv /\ ReservationNamesItsRequest)'
      /\ (ReceiptIsOwn /\ EvidenceAsVerified /\ DigestInv /\ FinalizedInv)'
  BY <1>1, <1>2, <1>4, CallStepKeepsRecords DEF Attach
<1>6. /\ call'[h] = row
      /\ \A g \in Call \ {h} : call'[g] = call[g]
  BY <1>1 DEF SubmissionInv, TypeOK
<1>7. KeyInv'
  <2>1. \A g \in Call : Open(g)' => Open(g) /\ call'[g].key = call[g].key
    BY <1>3, <1>6 DEF Open, Attach
  <2> QED BY <2>1 DEF SubmissionInv, KeyInv, Attach
<1>8. LockInv'
  <2>1. \A g \in Call : call[g].phase = "attached" =>
                           call[g].batch # call[h].batch
    BY DEF Attach, BatchLocked, HoldsBatch
  <2>2. /\ call[h].batch # NoBatch
        /\ batch'[call[h].batch].state = "STAGED"
        /\ batch'[call[h].batch].files = call[h].files
    BY DEF Attach
  <2> QED BY <1>3, <1>6, <2>1, <2>2 DEF SubmissionInv, LockInv, Attach
<1>9. FormInv'
  BY <1>3, <1>6 DEF SubmissionInv, FormInv, Attach
<1> QED BY <1>5, <1>7, <1>8, <1>9 DEF SubmissionInv

--------------------------------------------------------------------------------
(* Steps that answer.                                                       *)

\* An answer releases what the call held.  A receipt must name a request of
\* the very submission: that is the obligation of each replay path.
LEMMA AnswerKeepsInv ==
  ASSUME SubmissionInv, NEW h \in Call, call[h].phase \notin {"unsent", "done"},
         NEW kind, NEW r, Answer(h, kind, r),
         UNCHANGED <<request, reservation, batch, issue>>,
         \/ kind \in Refusal /\ r = None
         \/ /\ kind = "receipt" /\ r \in Call /\ request[r] # None
            /\ Fingerprint(request[r]) = Fingerprint(call[h])
  PROVE  SubmissionInv'
<1>1. PICK row \in CallRow : /\ call' = [call EXCEPT ![h] = row]
                             /\ row = [call[h] EXCEPT !.phase = "done"]
  BY PhaseRow DEF Answer, SubmissionInv, Phase
<1>2. call[h] \in CallRow
  BY SentCall DEF SubmissionInv
<1>3. /\ row.phase = "done"
      /\ row.content = call[h].content
      /\ row.version = call[h].version
      /\ row.batch = call[h].batch
      /\ row.finalized = call[h].finalized
  BY <1>1, <1>2 DEF CallRow
<1>4. /\ call'[h] = row
      /\ \A g \in Call \ {h} : call'[g] = call[g]
  BY <1>1 DEF SubmissionInv, TypeOK
<1>5. /\ answer'[h] = [kind |-> kind, request |-> r]
      /\ \A g \in Call \ {h} : answer'[g] = answer[g]
  BY DEF Answer, SubmissionInv, TypeOK
<1>6. request[h] = None
  BY DEF SubmissionInv, RequestInv
<1>7. TypeOK'
  <2>1. call' \in [Call -> {Unsent} \union CallRow]
    BY <1>1 DEF SubmissionInv, TypeOK
  <2>2. answer' \in [Call -> [kind : {"none"} \union Refusal, request : {None}]
                             \union [kind : {"receipt"}, request : Call]]
    BY DEF Answer, SubmissionInv, TypeOK
  <2> QED BY <2>1, <2>2 DEF SubmissionInv, TypeOK
<1>8. AnswerInv'
  BY <1>3, <1>4, <1>5 DEF SubmissionInv, AnswerInv
<1>9. KeyInv'
  BY <1>3, <1>4 DEF SubmissionInv, KeyInv, Open
<1>10. RequestInv'
  BY <1>3, <1>4, <1>6 DEF SubmissionInv, RequestInv
<1>11. ReservationNamesItsRequest' /\ EvidenceAsVerified' /\ DigestInv'
  BY DEF SubmissionInv, ReservationNamesItsRequest, EvidenceAsVerified, DigestInv
<1>12. ReceiptIsOwn'
  <2>1. Fingerprint(row) = Fingerprint(call[h])
    BY <1>3 DEF Fingerprint, Digest
  <2>2. kind = "receipt" => /\ request[r] # None
                           /\ Fingerprint(request[r]) = Fingerprint(row)
    BY <2>1 DEF Refusal
  <2> QED BY <1>4, <1>5, <2>2 DEF SubmissionInv, ReceiptIsOwn
<1>13. LockInv'
  BY <1>3, <1>4 DEF SubmissionInv, LockInv
<1>14. FormInv'
  BY <1>3, <1>4 DEF SubmissionInv, FormInv
<1>15. FinalizedInv'
  BY <1>3, <1>4 DEF SubmissionInv, FinalizedInv
<1> QED BY <1>7, <1>8, <1>9, <1>10, <1>11, <1>12, <1>13, <1>14, <1>15
        DEF SubmissionInv

LEMMA RefuseKeepsInv ==
  ASSUME SubmissionInv, NEW h \in Call, call[h].phase \notin {"unsent", "done"},
         NEW kind \in Refusal, Refuse(h, kind)
  PROVE  SubmissionInv'
BY AnswerKeepsInv DEF Refuse

\* A finalized batch names a request of the batch itself, so that an equal
\* digest makes an equal fingerprint.
LEMMA BatchReceiptKeepsInv ==
  ASSUME SubmissionInv, NEW h \in Call, call[h].phase \notin {"unsent", "done"},
         call[h].batch \in Batch, batch[call[h].batch].state = "FINALIZED",
         batch[call[h].batch].digest = Digest(call[h]),
         Receipt(h, batch[call[h].batch].request)
  PROVE  SubmissionInv'
<1> DEFINE b == call[h].batch
           r == batch[b].request
<1>1. r \in Call
  BY BatchRowFields DEF SubmissionInv, TypeOK, FinalizedBatch
<1>2. request[r] # None /\ request[r].batch = b
  BY DEF SubmissionInv, EvidenceAsVerified
<1>3. Digest(request[r]) = Digest(call[h])
  BY DEF SubmissionInv, DigestInv
<1>4. Fingerprint(request[r]) = Fingerprint(call[h])
  BY <1>2, <1>3 DEF Fingerprint
<1> HIDE DEF r
<1> QED BY <1>1, <1>2, <1>4, AnswerKeepsInv DEF Receipt, r

\* A replay by key: the reservation names a request of its own fingerprint,
\* so classifying by fingerprint is enough.
LEMMA JudgeKeepsInv ==
  ASSUME SubmissionInv, NEW h \in Call, Judge(h)
  PROVE  SubmissionInv'
<1> DEFINE recorded == reservation[call[h].key]
           kind == Classify(recorded, Fingerprint(call[h]))
<1>1. /\ call[h].phase = "prepared"
      /\ call[h].key # NoKey
      /\ recorded # None
      /\ IF kind = "replay" THEN Receipt(h, recorded.request)
         ELSE Refuse(h, kind)
  BY DEF Judge
<1>2. call[h].key \in Key
  BY <1>1, SentCall DEF SubmissionInv, CallRow
<1>3. recorded \in ReservationRow
  BY <1>1, <1>2 DEF SubmissionInv, TypeOK
<1>4. recorded.open \in BOOLEAN /\ recorded.request \in Call
  BY <1>3 DEF ReservationRow
<1>5. kind \in {"mismatch", "expired", "replay"}
  BY <1>4 DEF Classify
<1>6. CASE kind = "replay"
  <2>1. recorded.fingerprint = Fingerprint(call[h])
    BY <1>4, <1>6 DEF Classify
  <2>2. /\ request[recorded.request] # None
        /\ Fingerprint(request[recorded.request]) = Fingerprint(call[h])
    BY <1>1, <1>2, <2>1 DEF SubmissionInv, ReservationNamesItsRequest
  <2> HIDE DEF recorded, kind
  <2> QED BY <1>1, <1>4, <1>6, <2>2, AnswerKeepsInv DEF Receipt
<1>7. CASE kind # "replay"
  <2>1. kind \in Refusal
    BY <1>5, <1>7 DEF Refusal
  <2> HIDE DEF recorded, kind
  <2> QED BY <1>1, <1>7, <2>1, RefuseKeepsInv
<1> QED BY <1>6, <1>7

\* Every other step that answers refuses, or answers through the batch.
LEMMA OtherAnswersKeepInv ==
  ASSUME SubmissionInv, NEW h \in Call,
         \/ PrepareRefused(h) \/ ReplayBatch(h) \/ ReplayBatchRefused(h)
         \/ ReserveTimeout(h) \/ VerifyRefused(h)
         \/ AttachFinalized(h) \/ AttachRefused(h) \/ Fail(h)
  PROVE  SubmissionInv'
<1>1. CASE PrepareRefused(h)
  BY <1>1, RefuseKeepsInv DEF PrepareRefused, Refusal
<1>2. CASE ReplayBatch(h)
  <2>1. call[h].batch \in Batch /\ batch[call[h].batch].state = "FINALIZED"
    BY <1>2 DEF ReplayBatch, SubmissionInv, FinalizedInv
  <2> QED BY <1>2, <2>1, BatchReceiptKeepsInv DEF ReplayBatch
<1>3. CASE ReplayBatchRefused(h)
  BY <1>3, RefuseKeepsInv DEF ReplayBatchRefused, Refusal
<1>4. CASE ReserveTimeout(h)
  BY <1>4, RefuseKeepsInv DEF ReserveTimeout, Refusal
<1>5. CASE VerifyRefused(h)
  BY <1>5, RefuseKeepsInv DEF VerifyRefused, Refusal
<1>6. CASE AttachFinalized(h)
  <2>1. call[h] \in CallRow
    BY <1>6, SentCall DEF SubmissionInv, AttachFinalized
  <2>2. call[h].batch \in Batch
    BY <1>6, <2>1 DEF AttachFinalized, CallRow
  <2>3. CASE Refuse(h, "in_progress")
    BY <1>6, <2>3, RefuseKeepsInv DEF AttachFinalized, Refusal
  <2>4. CASE Receipt(h, batch[call[h].batch].request)
    BY <1>6, <2>2, <2>4, BatchReceiptKeepsInv DEF AttachFinalized
  <2> QED BY <1>6, <2>3, <2>4 DEF AttachFinalized
<1>7. CASE AttachRefused(h)
  BY <1>7, RefuseKeepsInv DEF AttachRefused, Refusal
<1>8. CASE Fail(h)
  BY <1>8, RefuseKeepsInv DEF Fail, Refusal
<1> QED BY <1>1, <1>2, <1>3, <1>4, <1>5, <1>6, <1>7, <1>8

--------------------------------------------------------------------------------
(* The commit.                                                              *)

LEMMA CreateKeepsInv ==
  ASSUME SubmissionInv, NEW h \in Call, Create(h)
  PROVE  SubmissionInv'
<1> DEFINE k == call[h].key
           b == call[h].batch
           made == [key |-> k, content |-> call[h].content,
                    version |-> call[h].version, batch |-> b,
                    files |-> call[h].files]
           reserved == [fingerprint |-> Fingerprint(call[h]), request |-> h,
                        open |-> TRUE]
           finalized == [batch[b] EXCEPT !.state = "FINALIZED", !.request = h,
                                         !.digest = Digest(call[h])]
<1>1. call[h].phase \in {"verified", "attached"} /\ call[h] \in CallRow
  BY SentCall DEF Create, SubmissionInv
<1>2. PICK row \in CallRow : /\ call' = [call EXCEPT ![h] = row]
                             /\ row = [call[h] EXCEPT !.phase = "done"]
  BY <1>1, PhaseRow DEF Create, Answer, SubmissionInv, Phase
<1>3. /\ row.phase = "done"
      /\ row.key = k /\ row.content = call[h].content
      /\ row.version = call[h].version /\ row.batch = b
      /\ row.finalized = call[h].finalized
  BY <1>1, <1>2 DEF CallRow
<1>4. /\ call'[h] = row
      /\ \A g \in Call \ {h} : call'[g] = call[g]
  BY <1>2 DEF SubmissionInv, TypeOK
<1>5. /\ answer' = [answer EXCEPT ![h] = [kind |-> "receipt", request |-> h]]
      /\ answer'[h] = [kind |-> "receipt", request |-> h]
      /\ \A g \in Call \ {h} : answer'[g] = answer[g]
  BY DEF Create, Answer, SubmissionInv, TypeOK
<1>6. /\ request' = [request EXCEPT ![h] = made]
      /\ request'[h] = made
      /\ \A g \in Call \ {h} : request'[g] = request[g]
      /\ made \in RequestRow /\ made # None
  BY <1>1, NoneAssumption DEF Create, SubmissionInv, TypeOK, CallRow, RequestRow
<1>7. /\ made.key = k /\ made.batch = b /\ made.files = call[h].files
      /\ Digest(made) = Digest(call[h])
      /\ Fingerprint(made) = Fingerprint(call[h])
  BY DEF Digest, Fingerprint
<1>8. k = NoKey \/ (k \in Key /\ reservation[k] = None)
  BY <1>1 DEF SubmissionInv, KeyInv, Open, CallRow
<1>9. IF k = NoKey THEN reservation' = reservation
      ELSE /\ reservation' = [reservation EXCEPT ![k] = reserved]
           /\ reservation'[k] = reserved
           /\ \A key \in Key \ {k} : reservation'[key] = reservation[key]
  BY <1>8 DEF Create, SubmissionInv, TypeOK
<1>10. reserved \in ReservationRow /\ reserved # None
  <2>1. Fingerprint(call[h]) \in [submission : DigestRow,
                                  batch : Batch \union {NoBatch}]
    BY <1>1 DEF CallRow, DigestRow, Fingerprint, Digest
  <2>2. reserved \in ReservationRow
    BY <2>1 DEF ReservationRow
  <2> QED BY <2>2, NoneAssumption
<1>11. b = NoBatch \/ /\ b \in Batch /\ call[h].phase = "attached"
                      /\ batch[b].state = "STAGED"
                      /\ batch[b].files = call[h].files
  BY <1>1 DEF Create, SubmissionInv, LockInv, CallRow
<1>12. IF b = NoBatch THEN batch' = batch
       ELSE /\ batch' = [batch EXCEPT ![b] = finalized]
            /\ batch'[b] = finalized
            /\ \A c \in Batch \ {b} : batch'[c] = batch[c]
  <2>1. CASE b = NoBatch
    BY <2>1 DEF Create
  <2>2. CASE b # NoBatch
    <3>1. b \in Batch
      BY <1>11, <2>2
    <3>2. batch' = [batch EXCEPT ![b].state = "FINALIZED", ![b].request = h,
                                 ![b].digest = Digest(call[h])]
      BY <2>2 DEF Create
    <3>3. batch' = [batch EXCEPT ![b] = finalized]
      BY <3>1, <3>2 DEF SubmissionInv, TypeOK
    <3> QED BY <2>2, <3>1, <3>3 DEF SubmissionInv, TypeOK
  <2> QED BY <2>1, <2>2
<1>13. b # NoBatch =>
         /\ finalized \in FinalizedBatch
         /\ finalized.state = "FINALIZED" /\ finalized.request = h
         /\ finalized.files = call[h].files /\ finalized.digest = Digest(call[h])
  <2> SUFFICES ASSUME b # NoBatch
               PROVE  /\ finalized \in FinalizedBatch
                      /\ finalized.state = "FINALIZED" /\ finalized.request = h
                      /\ finalized.files = call[h].files
                      /\ finalized.digest = Digest(call[h])
    OBVIOUS
  <2>1. batch[b] \in StagedBatch
    BY <1>11, BatchRowFields DEF SubmissionInv, TypeOK
  <2>2. Digest(call[h]) \in DigestRow
    BY <1>1 DEF CallRow, DigestRow, Digest
  <2> QED BY <1>11, <2>1, <2>2 DEF StagedBatch, FinalizedBatch
<1>14. request[h] = None
  BY <1>1 DEF SubmissionInv, RequestInv
<1> HIDE DEF made, reserved, finalized
<1>15. TypeOK'
  <2>1. call' \in [Call -> {Unsent} \union CallRow]
    BY <1>2 DEF SubmissionInv, TypeOK
  <2>2. answer' \in [Call -> [kind : {"none"} \union Refusal, request : {None}]
                             \union [kind : {"receipt"}, request : Call]]
    BY <1>5 DEF SubmissionInv, TypeOK
  <2>3. request' \in [Call -> RequestRow \union {None}]
    BY <1>6 DEF SubmissionInv, TypeOK
  <2>4. reservation' \in [Key -> ReservationRow \union {None}]
    BY <1>9, <1>10 DEF SubmissionInv, TypeOK
  <2>5. batch' \in [Batch -> BatchRow]
    BY <1>12, <1>13 DEF SubmissionInv, TypeOK, BatchRow
  <2>6. issue' = issue
    BY DEF Create
  <2> QED BY <2>1, <2>2, <2>3, <2>4, <2>5, <2>6 DEF SubmissionInv, TypeOK
<1>16. AnswerInv'
  BY <1>3, <1>4, <1>5 DEF SubmissionInv, AnswerInv
\* The key leaves the open call and enters the reservation: no other open
\* call held it.
<1>17. KeyInv'
  <2>1. \A g \in Call : Open(g)' => /\ g # h /\ Open(g)
                                    /\ call'[g].key = call[g].key
    BY <1>3, <1>4 DEF Open
  <2>2. \A g \in Call \ {h} : Open(g) /\ call[g].key # NoKey => call[g].key # k
    BY <1>1 DEF SubmissionInv, KeyInv, Open
  <2>3. \A g \in Call : Open(g) /\ call[g].key # NoKey => call[g].key \in Key
    BY SentCall DEF SubmissionInv, Open, CallRow
  <2> QED BY <1>9, <2>1, <2>2, <2>3 DEF SubmissionInv, KeyInv
<1>18. RequestInv'
  <2> SUFFICES ASSUME NEW g \in Call, request'[g] # None
               PROVE  /\ call'[g].phase = "done"
                      /\ request'[g].key = call'[g].key
                      /\ Fingerprint(request'[g]) = Fingerprint(call'[g])
                      /\ request'[g].key # NoKey =>
                           /\ reservation'[request'[g].key] # None
                           /\ reservation'[request'[g].key].request = g
    BY DEF RequestInv
  <2>1. CASE g = h
    <3>1. Fingerprint(row) = Fingerprint(call[h])
      BY <1>3 DEF Fingerprint, Digest
    <3>2. k # NoKey => reservation'[k] # None /\ reservation'[k].request = h
      BY <1>9, <1>10 DEF reserved
    <3> QED BY <1>3, <1>4, <1>6, <1>7, <2>1, <3>1, <3>2
  <2>2. CASE g # h
    <3>1. /\ request'[g] = request[g] /\ request[g] # None
          /\ call'[g] = call[g]
      BY <1>4, <1>6, <2>2
    <3>2. request[g].key # NoKey =>
            request[g].key \in Key /\ reservation[request[g].key] # None
      BY <3>1 DEF SubmissionInv, RequestInv, TypeOK, RequestRow
    <3>3. request[g].key # NoKey =>
            reservation'[request[g].key] = reservation[request[g].key]
      BY <1>8, <1>9, <3>2
    <3> QED BY <3>1, <3>3 DEF SubmissionInv, RequestInv
  <2> QED BY <2>1, <2>2
<1>19. ReservationNamesItsRequest'
  <2> SUFFICES ASSUME NEW key \in Key, reservation'[key] # None
               PROVE  /\ request'[reservation'[key].request] # None
                      /\ request'[reservation'[key].request].key = key
                      /\ Fingerprint(request'[reservation'[key].request])
                           = reservation'[key].fingerprint
    BY DEF ReservationNamesItsRequest
  <2>1. CASE k # NoKey /\ key = k
    <3>1. /\ reservation'[key] = reserved
          /\ reserved.request = h
          /\ reserved.fingerprint = Fingerprint(call[h])
      BY <1>9, <2>1 DEF reserved
    <3> QED BY <1>6, <1>7, <2>1, <3>1
  <2>2. CASE ~(k # NoKey /\ key = k)
    <3>1. reservation'[key] = reservation[key]
      BY <1>9, <2>2
    <3>2. /\ reservation[key].request \in Call
          /\ request[reservation[key].request] # None
      BY <3>1 DEF SubmissionInv, ReservationNamesItsRequest, TypeOK, ReservationRow
    <3>3. request'[reservation[key].request] = request[reservation[key].request]
      BY <1>6, <1>14, <3>2
    <3> QED BY <3>1, <3>3 DEF SubmissionInv, ReservationNamesItsRequest
  <2> QED BY <2>1, <2>2
<1>20. ReceiptIsOwn'
  <2> SUFFICES ASSUME NEW g \in Call, answer'[g].kind = "receipt"
               PROVE  /\ request'[answer'[g].request] # None
                      /\ Fingerprint(request'[answer'[g].request])
                           = Fingerprint(call'[g])
    BY DEF ReceiptIsOwn
  <2>1. CASE g = h
    <3>1. Fingerprint(row) = Fingerprint(call[h])
      BY <1>3 DEF Fingerprint, Digest
    <3> QED BY <1>4, <1>5, <1>6, <1>7, <2>1, <3>1
  <2>2. CASE g # h
    <3>1. answer'[g] = answer[g] /\ call'[g] = call[g]
      BY <1>4, <1>5, <2>2
    <3>2. /\ answer[g].request \in Call
          /\ request[answer[g].request] # None
      BY <3>1 DEF SubmissionInv, ReceiptIsOwn, TypeOK, Refusal
    <3>3. request'[answer[g].request] = request[answer[g].request]
      BY <1>6, <1>14, <3>2
    <3> QED BY <3>1, <3>3 DEF SubmissionInv, ReceiptIsOwn
  <2> QED BY <2>1, <2>2
\* The batch was locked by this call alone.
<1>21. LockInv'
  <2>1. \A g \in Call : call'[g].phase = "attached" =>
          /\ g # h /\ call'[g] = call[g]
          /\ b # NoBatch => call[g].batch # b
    BY <1>3, <1>4, <1>11 DEF SubmissionInv, LockInv
  <2>2. \A g \in Call : call'[g].phase = "attached" =>
          /\ call[g].batch \in Batch
          /\ batch'[call[g].batch] = batch[call[g].batch]
    BY <1>12, <2>1, SentCall DEF SubmissionInv, LockInv, CallRow
  <2> QED BY <2>1, <2>2 DEF SubmissionInv, LockInv
<1>22. EvidenceAsVerified' /\ DigestInv'
  <2>1. ASSUME NEW g \in Call, request'[g] # None, request'[g].batch # NoBatch
        PROVE  /\ batch'[request'[g].batch].state = "FINALIZED"
               /\ batch'[request'[g].batch].request = g
               /\ batch'[request'[g].batch].files = request'[g].files
    <3>1. CASE g = h
      BY <1>6, <1>7, <1>12, <1>13, <2>1, <3>1
    <3>2. CASE g # h
      <4>1. request'[g] = request[g]
        BY <1>6, <3>2
      <4>2. /\ request[g].batch \in Batch
            /\ batch[request[g].batch].state = "FINALIZED"
        BY <2>1, <4>1 DEF SubmissionInv, EvidenceAsVerified, TypeOK, RequestRow
      <4>3. batch'[request[g].batch] = batch[request[g].batch]
        BY <1>11, <1>12, <4>2
      <4> QED BY <2>1, <4>1, <4>3 DEF SubmissionInv, EvidenceAsVerified
    <3> QED BY <3>1, <3>2
  <2>2. ASSUME NEW c \in Batch, batch'[c].state = "FINALIZED"
        PROVE  /\ request'[batch'[c].request] # None
               /\ request'[batch'[c].request].batch = c
               /\ batch'[c].digest = Digest(request'[batch'[c].request])
    <3>1. CASE b # NoBatch /\ c = b
      BY <1>6, <1>7, <1>12, <1>13, <3>1
    <3>2. CASE ~(b # NoBatch /\ c = b)
      <4>1. batch'[c] = batch[c]
        BY <1>12, <3>2
      <4>2. batch[c].request \in Call /\ request[batch[c].request] # None
        BY <2>2, <4>1, BatchRowFields
           DEF SubmissionInv, EvidenceAsVerified, TypeOK, FinalizedBatch
      <4>3. request'[batch[c].request] = request[batch[c].request]
        BY <1>6, <1>14, <4>2
      <4> QED BY <2>2, <4>1, <4>3 DEF SubmissionInv, EvidenceAsVerified, DigestInv
    <3> QED BY <3>1, <3>2
  <2> QED BY <2>1, <2>2 DEF EvidenceAsVerified, DigestInv
<1>23. FinalizedInv'
  <2>1. \A g \in Call : /\ call'[g].finalized = call[g].finalized
                        /\ call'[g].batch = call[g].batch
    BY <1>3, <1>4
  <2>2. \A c \in Batch : batch[c].state = "FINALIZED" => batch'[c].state = "FINALIZED"
    BY <1>12, <1>13
  <2> QED BY <2>1, <2>2 DEF SubmissionInv, FinalizedInv
<1>24. FormInv'
  BY <1>3, <1>4 DEF SubmissionInv, FormInv, Create
<1> QED BY <1>15, <1>16, <1>17, <1>18, <1>19, <1>20, <1>21, <1>22, <1>23, <1>24
        DEF SubmissionInv

--------------------------------------------------------------------------------
(* The rest of the system.                                                  *)

\* A batch row that nobody has locked may change its files, age or go, as
\* long as a finalized row keeps what names its request.
LEMMA BatchStepKeepsInv ==
  ASSUME SubmissionInv, NEW b \in Batch,
         NEW row \in BatchRow,
         batch' = [batch EXCEPT ![b] = row],
         batch[b].state = "FINALIZED" =>
           /\ row.state = "FINALIZED"
           /\ row.request = batch[b].request
           /\ row.files = batch[b].files
           /\ row.digest = batch[b].digest,
         batch[b].state # "FINALIZED" => row.state # "FINALIZED",
         BatchLocked(b) => row.state = batch[b].state /\ row.files = batch[b].files,
         UNCHANGED <<call, answer, request, reservation, issue>>
  PROVE  SubmissionInv'
<1>1. /\ batch'[b] = row
      /\ \A c \in Batch \ {b} : batch'[c] = batch[c]
  BY DEF SubmissionInv, TypeOK
<1>2. TypeOK'
  BY DEF SubmissionInv, TypeOK
<1>3. (AnswerInv /\ KeyInv /\ RequestInv /\ ReservationNamesItsRequest)'
  BY DEF SubmissionInv, AnswerInv, KeyInv, RequestInv, Open,
         ReservationNamesItsRequest
<1>4. (ReceiptIsOwn /\ FormInv)'
  BY DEF SubmissionInv, ReceiptIsOwn, FormInv
<1>5. LockInv'
  <2>1. \A h \in Call : call[h].phase = "attached" => call[h].batch \in Batch
    BY SentCall DEF SubmissionInv, LockInv, CallRow
  <2>2. \A h \in Call : call[h].phase = "attached" /\ call[h].batch = b =>
                           BatchLocked(b)
    BY DEF BatchLocked, HoldsBatch
  <2> QED BY <1>1, <2>1, <2>2 DEF SubmissionInv, LockInv
<1>6. EvidenceAsVerified' /\ DigestInv'
  <2>1. \A h \in Call : request[h] # None /\ request[h].batch # NoBatch =>
                           request[h].batch \in Batch
    BY DEF SubmissionInv, TypeOK, RequestRow
  <2>2. EvidenceAsVerified'
    BY <1>1, <2>1 DEF SubmissionInv, EvidenceAsVerified
  <2>3. DigestInv'
    BY <1>1 DEF SubmissionInv, DigestInv
  <2> QED BY <2>2, <2>3
<1>7. FinalizedInv'
  BY <1>1 DEF SubmissionInv, FinalizedInv
<1> QED BY <1>2, <1>3, <1>4, <1>5, <1>6, <1>7 DEF SubmissionInv

LEMMA BatchActionsKeepInv ==
  ASSUME SubmissionInv, NEW b \in Batch,
         \/ \E version \in Version : OpenBatch(b, version)
         \/ ChangeFiles(b) \/ ExpireBatch(b) \/ DeleteBatch(b)
  PROVE  SubmissionInv'
<1>1. batch[b] \in BatchRow
  BY DEF SubmissionInv, TypeOK
<1>2. CASE ChangeFiles(b)
  <2> DEFINE row == [batch[b] EXCEPT !.files = @ + 1]
  <2>1. batch[b] \in StagedBatch /\ batch[b].state = "STAGED" /\ ~BatchLocked(b)
    BY <1>1, <1>2, BatchRowFields DEF ChangeFiles
  <2>2. row \in StagedBatch /\ row.state = "STAGED"
    BY <2>1 DEF StagedBatch
  <2>3. batch' = [batch EXCEPT ![b] = row]
    BY <1>2 DEF ChangeFiles, SubmissionInv, TypeOK
  <2> HIDE DEF row
  <2> QED BY <1>2, <2>1, <2>2, <2>3, BatchStepKeepsInv DEF ChangeFiles, BatchRow
<1>3. CASE ExpireBatch(b)
  <2> DEFINE row == [batch[b] EXCEPT !.live = FALSE]
  <2>1. /\ row \in BatchRow
        /\ row.state = batch[b].state /\ row.request = batch[b].request
        /\ row.files = batch[b].files /\ row.digest = batch[b].digest
    BY <1>1 DEF BatchRow, UnopenedBatch, StagedBatch, FinalizedBatch
  <2>2. batch' = [batch EXCEPT ![b] = row]
    BY <1>3 DEF ExpireBatch, SubmissionInv, TypeOK
  <2> HIDE DEF row
  <2> QED BY <1>3, <2>1, <2>2, BatchStepKeepsInv DEF ExpireBatch
<1>4. CASE DeleteBatch(b)
  <2> DEFINE row == [batch[b] EXCEPT !.state = "none"]
  <2>1. batch[b] \in StagedBatch /\ batch[b].state = "STAGED" /\ ~BatchLocked(b)
    BY <1>1, <1>4, BatchRowFields DEF DeleteBatch
  <2>2. row \in StagedBatch /\ row.state = "none"
    BY <2>1 DEF StagedBatch
  <2>3. batch' = [batch EXCEPT ![b] = row]
    BY <1>4 DEF DeleteBatch, SubmissionInv, TypeOK
  <2> HIDE DEF row
  <2> QED BY <1>4, <2>1, <2>2, <2>3, BatchStepKeepsInv DEF DeleteBatch, BatchRow
<1>5. ASSUME NEW version \in Version, OpenBatch(b, version) PROVE SubmissionInv'
  <2> DEFINE row == [state |-> "STAGED", live |-> TRUE, files |-> 0,
                     version |-> version, request |-> None, digest |-> None]
  <2>1. batch[b].state = "none"
    BY <1>1, <1>5, BatchRowFields DEF OpenBatch, UnopenedBatch
  <2>2. row \in StagedBatch /\ row.state = "STAGED"
    BY DEF StagedBatch
  <2>3. batch' = [batch EXCEPT ![b] = row]
    BY <1>5 DEF OpenBatch
  <2>4. ~BatchLocked(b)
    BY <2>1 DEF SubmissionInv, LockInv, BatchLocked, HoldsBatch
  <2> HIDE DEF row
  <2> QED BY <1>5, <2>1, <2>2, <2>3, <2>4, BatchStepKeepsInv DEF OpenBatch, BatchRow
<1> QED BY <1>2, <1>3, <1>4, <1>5

LEMMA CloseWindowKeepsInv ==
  ASSUME SubmissionInv, NEW k \in Key, CloseWindow(k)
  PROVE  SubmissionInv'
<1> DEFINE row == [reservation[k] EXCEPT !.open = FALSE]
<1>1. /\ reservation[k] \in ReservationRow
      /\ reservation[k] # None
  BY DEF CloseWindow, SubmissionInv, TypeOK
<1>2. /\ row \in ReservationRow
      /\ row.request = reservation[k].request
      /\ row.fingerprint = reservation[k].fingerprint
  BY <1>1 DEF ReservationRow
<1>3. /\ reservation' = [reservation EXCEPT ![k] = row]
      /\ reservation'[k] = row
      /\ \A key \in Key \ {k} : reservation'[key] = reservation[key]
  BY DEF CloseWindow, SubmissionInv, TypeOK
<1>4. row # None
  BY <1>2, NoneAssumption
<1> HIDE DEF row
<1>5. TypeOK'
  BY <1>2, <1>3 DEF CloseWindow, SubmissionInv, TypeOK
<1>6. (AnswerInv /\ ReceiptIsOwn /\ LockInv /\ EvidenceAsVerified)'
  BY DEF CloseWindow, SubmissionInv, AnswerInv, ReceiptIsOwn, LockInv,
         EvidenceAsVerified
<1>7. (DigestInv /\ FinalizedInv /\ FormInv)'
  BY DEF CloseWindow, SubmissionInv, DigestInv, FinalizedInv, FormInv
<1>8. KeyInv'
  <2>1. \A h \in Call : Open(h) /\ call[h].key # NoKey => call[h].key \in Key
    BY SentCall DEF SubmissionInv, Open, CallRow
  <2> QED BY <1>1, <1>3, <2>1 DEF CloseWindow, SubmissionInv, KeyInv, Open
<1>9. RequestInv'
  <2>1. \A h \in Call : request[h] # None /\ request[h].key # NoKey =>
                           request[h].key \in Key
    BY DEF SubmissionInv, TypeOK, RequestRow
  <2>2. \A key \in Key : reservation[key] # None =>
          /\ reservation'[key] # None
          /\ reservation'[key].request = reservation[key].request
    BY <1>2, <1>3, <1>4
  <2>3. request' = request /\ call' = call
    BY DEF CloseWindow
  <2> QED BY <2>1, <2>2, <2>3 DEF SubmissionInv, RequestInv
<1>10. ReservationNamesItsRequest'
  BY <1>1, <1>2, <1>3 DEF CloseWindow, SubmissionInv, ReservationNamesItsRequest
<1> QED BY <1>5, <1>6, <1>7, <1>8, <1>9, <1>10 DEF SubmissionInv

\* The administrator waits for the transactions that share the Issue.
LEMMA AdministerKeepsInv ==
  ASSUME SubmissionInv, Administer
  PROVE  SubmissionInv'
<1>1. TypeOK'
  <2>1. issue' \in [version : Version, action : IssueAction]
    BY SubmissionAssumption
       DEF Administer, ChangedIssues, SubmissionInv, TypeOK, Version
  <2> QED BY <2>1 DEF Administer, SubmissionInv, TypeOK
<1>2. (AnswerInv /\ KeyInv /\ RequestInv /\ ReservationNamesItsRequest)'
  BY DEF Administer, SubmissionInv, AnswerInv, KeyInv, RequestInv, Open,
         ReservationNamesItsRequest
<1>3. (ReceiptIsOwn /\ LockInv /\ EvidenceAsVerified)'
  BY DEF Administer, SubmissionInv, ReceiptIsOwn, LockInv, EvidenceAsVerified
<1>4. (DigestInv /\ FinalizedInv)'
  BY DEF Administer, SubmissionInv, DigestInv, FinalizedInv
<1>5. FormInv'
  BY DEF Administer, IssueShared, FormInv
<1> QED BY <1>1, <1>2, <1>3, <1>4, <1>5 DEF SubmissionInv

LEMMA StutterKeepsInv ==
  ASSUME SubmissionInv, UNCHANGED vars
  PROVE  SubmissionInv'
<1>1. (TypeOK /\ AnswerInv /\ KeyInv /\ RequestInv /\ ReservationNamesItsRequest)'
  BY DEF vars, SubmissionInv, TypeOK, AnswerInv, KeyInv, RequestInv, Open,
         ReservationNamesItsRequest
<1>2. (ReceiptIsOwn /\ LockInv /\ EvidenceAsVerified)'
  BY DEF vars, SubmissionInv, ReceiptIsOwn, LockInv, EvidenceAsVerified
<1>3. (DigestInv /\ FinalizedInv /\ FormInv)'
  BY DEF vars, SubmissionInv, DigestInv, FinalizedInv, FormInv
<1> QED BY <1>1, <1>2, <1>3 DEF SubmissionInv

LEMMA NextKeepsInv == SubmissionInv /\ [Next]_vars => SubmissionInv'
<1> SUFFICES ASSUME SubmissionInv, [Next]_vars PROVE SubmissionInv'
  OBVIOUS
<1>1. ASSUME NEW h \in Call, NEW s \in Submission, Send(h, s) PROVE SubmissionInv'
  BY <1>1, SendKeepsInv
<1>2. ASSUME NEW h \in Call, Serve(h) PROVE SubmissionInv'
  BY <1>2, PrepareKeepsInv, ReserveKeepsInv, VerifyKeepsInv, AttachKeepsInv,
     JudgeKeepsInv, OtherAnswersKeepInv, CreateKeepsInv DEF Serve
<1>3. ASSUME NEW h \in Call, Fail(h) PROVE SubmissionInv'
  BY <1>3, OtherAnswersKeepInv
<1>4. ASSUME NEW b \in Batch,
             \/ \E version \in Version : OpenBatch(b, version)
             \/ ChangeFiles(b) \/ ExpireBatch(b) \/ DeleteBatch(b)
      PROVE  SubmissionInv'
  BY <1>4, BatchActionsKeepInv
<1>5. ASSUME NEW k \in Key, CloseWindow(k) PROVE SubmissionInv'
  BY <1>5, CloseWindowKeepsInv
<1>6. CASE Administer
  BY <1>6, AdministerKeepsInv
<1>7. CASE UNCHANGED vars
  BY <1>7, StutterKeepsInv
<1> QED BY <1>1, <1>2, <1>3, <1>4, <1>5, <1>6, <1>7 DEF Next

\* The invariant that ties keys, reservations, requests, batches and answers
\* together holds whatever calls, failures and administrators do.
THEOREM SubmissionInvariant == Spec => []SubmissionInv
BY SubmissionInitInv, NextKeepsInv, PTL DEF Spec

LEMMA InvGivesOneRequestPerKey == SubmissionInv => OneRequestPerKey
BY DEF SubmissionInv, RequestInv, OneRequestPerKey

\* A key never creates two requests, and no committed reservation of a key
\* names anything but the request the key created.
THEOREM KeysCreateOneRequest ==
  Spec => [](TypeOK /\ OneRequestPerKey /\ ReservationNamesItsRequest)
<1>1. SubmissionInv => TypeOK /\ OneRequestPerKey /\ ReservationNamesItsRequest
  BY InvGivesOneRequestPerKey DEF SubmissionInv
<1> QED BY <1>1, SubmissionInvariant, PTL

\* Every receipt, first or replayed, is the receipt of the submission sent.
THEOREM ReceiptsAreOwn == Spec => []ReceiptIsOwn
<1>1. SubmissionInv => ReceiptIsOwn
  BY DEF SubmissionInv
<1> QED BY <1>1, SubmissionInvariant, PTL

\* The evidence of a request is what was verified before its transaction.
THEOREM EvidenceIsAsVerified == Spec => []EvidenceAsVerified
<1>1. SubmissionInv => EvidenceAsVerified
  BY DEF SubmissionInv
<1> QED BY <1>1, SubmissionInvariant, PTL

\* Nothing is created from a superseded form or on a redirected Issue.
THEOREM OnlyCurrentForms == Spec => CreatedFromCurrentForm
<1> DEFINE Current ==
      \A h \in Call : request[h] = None /\ request'[h] # None =>
        issue = [version |-> request'[h].version, action |-> "internal_intake"]
<1>1. ASSUME SubmissionInv, [Next]_vars PROVE [Current]_vars
  <2> SUFFICES ASSUME NEW h \in Call, request[h] = None, request'[h] # None
               PROVE  issue = [version |-> request'[h].version,
                               action |-> "internal_intake"]
    OBVIOUS
  <2>1. request' # request
    OBVIOUS
  <2>2. PICK g \in Call : Create(g)
    BY <1>1, <2>1 DEF Next, Serve, vars, Send, Prepare, PrepareRefused, ReplayBatch,
       ReplayBatchRefused, Reserve, ReserveTimeout, Judge, Verify, VerifyRefused,
       Attach, AttachFinalized, AttachRefused, Fail, Refuse, Receipt, OpenBatch,
       ChangeFiles, ExpireBatch, DeleteBatch, CloseWindow, Administer
  <2>3. g = h /\ request'[h].version = call[h].version
    BY <1>1, <2>2 DEF Create, SubmissionInv, TypeOK
  <2> QED BY <1>1, <2>2, <2>3 DEF Create, SubmissionInv, FormInv
<1> QED BY <1>1, SubmissionInvariant, PTL DEF Spec, CreatedFromCurrentForm
================================================================================
