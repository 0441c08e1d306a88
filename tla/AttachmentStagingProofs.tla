------------------------ MODULE AttachmentStagingProofs ------------------------
(***************************************************************************)
(* Attachments: for any number of uploads, batches and parents, and any    *)
(* times with Lifetime + MaxCommit <= Grace, no live row misses its object *)
(* and a sweep of the store misses no orphan that is past its grace.       *)
(***************************************************************************)
EXTENDS AttachmentStaging, FiniteSetTheorems, TLAPS

\* No batch was opened in the future.
OpenedInv == \A b \in Batch : batch[b].opened # None => batch[b].opened <= clock

Unwritten(u) == upload[u] = None \/ upload[u].phase = "admitted"

\* An object is written while its batch is open to the claim, never before.
WrittenAfterOpening(u) ==
  /\ Unwritten(u) => object[u] = None
  /\ upload[u] # None => batch[upload[u].batch].opened \in Nat
  /\ upload[u] # None /\ object[u] # None =>
       batch[upload[u].batch].opened <= object[u]

WrittenInv == \A u \in Upload : WrittenAfterOpening(u)

\* An object may be collected before its upload records it only once the
\* batch has expired, and then the upload records nothing.
Pending(u) ==
  upload[u] # None /\ upload[u].phase = "written" =>
    \/ object[u] # None
    \/ batch[upload[u].batch].opened + Lifetime <= clock

PendingInv == \A u \in Upload : Pending(u)

\* While a row is being recorded its batch is staged and its object younger
\* than the grace; the file has no row yet.
RecordedInTime(u) ==
  Recorded(u) =>
    /\ batch[upload[u].batch].state = "STAGED"
    /\ row[upload[u].file] = None
    /\ object[u] # None
    /\ upload[u].since < batch[upload[u].batch].opened + Lifetime
    /\ clock <= upload[u].since + MaxCommit

\* A batch is locked, and a row of a file is inserted, by one at a time.
RecordedAlone(u, v) ==
  Recorded(u) /\ Recorded(v) /\ u # v =>
    upload[u].file # upload[v].file /\ upload[u].batch # upload[v].batch

RecordedInv ==
  /\ \A u \in Upload : RecordedInTime(u)
  /\ \A u, v \in Upload : RecordedAlone(u, v)

\* A row's key is an upload that committed it; the row stands for it.
RowIsCommitted(f) ==
  row[f] # None =>
    /\ upload[row[f].key] # None
    /\ upload[row[f].key].phase \in {"unreported", "disowned", "done"}
    /\ upload[row[f].key].batch = row[f].batch

RowInv == \A f \in File : RowIsCommitted(f)

\* What the cleanup is about to remove is old and has no row.
CleanupInv ==
  /\ cleanup.now <= clock
  /\ cleanup.phase # "sweeping" => cleanup.old = {} /\ cleanup.condemned = None
  /\ \A u \in cleanup.old :
       /\ ~Unwritten(u)
       /\ object[u] # None => object[u] + Grace <= cleanup.now
  /\ cleanup.condemned # None =>
       cleanup.condemned \in cleanup.old /\ ~Referenced(cleanup.condemned)

\* The inductive invariant.
StagingInv ==
  /\ TypeOK
  /\ OpenedInv
  /\ WrittenInv
  /\ PendingInv
  /\ RecordedInv
  /\ RowInv
  /\ CleanupInv
  /\ RowsHaveObjects
  /\ SweepMissesNothing

LEMMA UploadFields ==
  ASSUME TypeOK, NEW u \in Upload, upload[u] # None
  PROVE  /\ upload[u] \in UploadRow
         /\ upload[u].batch \in Batch
         /\ upload[u].file \in File
         /\ upload[u].content \in Content
         /\ upload[u].since \in Nat
BY DEF TypeOK, UploadRow

LEMMA BatchFields ==
  ASSUME TypeOK, NEW b \in Batch
  PROVE  /\ batch[b].state \in {"none", "admitting"} => batch[b].opened = None
         /\ batch[b].state \in {"STAGED", "FINALIZED", "deleted"}
              => batch[b].opened \in Nat
         /\ batch[b].state \in BatchState
         /\ batch[b] = [state |-> batch[b].state, opened |-> batch[b].opened]
BY DEF TypeOK, BatchState

LEMMA BatchInState ==
  ASSUME TypeOK, NEW b \in Batch, NEW s \in BatchState
  PROVE  [batch[b] EXCEPT !.state = s]
           = [state |-> s, opened |-> batch[b].opened]
<1>1. CASE batch[b] \in [state : {"none", "admitting"}, opened : {None}]
  BY <1>1
<1>2. CASE batch[b] \in [state : {"STAGED", "FINALIZED", "deleted"}, opened : Nat]
  BY <1>2
<1> QED BY <1>1, <1>2 DEF TypeOK

LEMMA RowFields ==
  ASSUME TypeOK, NEW f \in File, row[f] # None
  PROVE  row[f].key \in Upload /\ row[f].batch \in Batch
BY DEF TypeOK, Row

\* The argument of the grace: an object of a batch that is still open to
\* claims is younger than any inventory lets it be.
LEMMA OpenBatchObjectsAreYoung ==
  ASSUME StagingInv, NEW u \in Upload, upload[u] # None, object[u] # None,
         clock < batch[upload[u].batch].opened + Lifetime
  PROVE  ~(object[u] + Grace <= cleanup.now)
<1>1. object[u] \in Nat /\ clock \in Nat /\ cleanup.now \in Nat
  BY DEF StagingInv, TypeOK
<1>2. /\ batch[upload[u].batch].opened \in Nat
      /\ batch[upload[u].batch].opened <= object[u]
  BY NoneAssumption DEF StagingInv, WrittenInv, WrittenAfterOpening, Unwritten
<1>3. cleanup.now <= clock
  BY DEF StagingInv, CleanupInv
<1> QED BY <1>1, <1>2, <1>3, TimingAssumption

LEMMA RecordedObjectsAreYoung ==
  ASSUME StagingInv, NEW u \in Upload, Recorded(u)
  PROVE  object[u] # None /\ ~(object[u] + Grace <= cleanup.now)
<1>0. upload[u] # None
  BY DEF Recorded
<1>1. object[u] \in Nat /\ clock \in Nat /\ cleanup.now \in Nat
  BY DEF StagingInv, TypeOK, RecordedInv, RecordedInTime
<1>2. /\ batch[upload[u].batch].opened \in Nat
      /\ batch[upload[u].batch].opened <= object[u]
  BY <1>0, <1>1, NoneAssumption DEF StagingInv, WrittenInv, WrittenAfterOpening, Unwritten
<1>3. cleanup.now <= clock
  BY DEF StagingInv, CleanupInv
<1>4. /\ upload[u].since \in Nat
      /\ upload[u].since < batch[upload[u].batch].opened + Lifetime
      /\ clock <= upload[u].since + MaxCommit
  BY <1>0, UploadFields DEF StagingInv, RecordedInv, RecordedInTime
<1> QED BY <1>1, <1>2, <1>3, <1>4, NoneAssumption, TimingAssumption

LEMMA StagingInitInv == Init => StagingInv
<1> SUFFICES ASSUME Init PROVE StagingInv
  OBVIOUS
<1>1. TypeOK
  BY DEF Init, TypeOK, Idle
<1>2. OpenedInv /\ WrittenInv /\ PendingInv /\ RecordedInv
  BY DEF Init, OpenedInv, WrittenInv, WrittenAfterOpening, Unwritten, PendingInv, Pending,
         RecordedInv, RecordedInTime, RecordedAlone, Recorded
<1>4. RowInv /\ RowsHaveObjects
  BY DEF Init, RowInv, RowIsCommitted, RowsHaveObjects
<1>3. CleanupInv /\ SweepMissesNothing
  BY DEF Init, Idle, CleanupInv, SweepMissesNothing
<1> QED BY <1>1, <1>2, <1>3, <1>4 DEF StagingInv

--------------------------------------------------------------------------------
(* Steps of an upload.                                                      *)

\* An upload that goes on or gives up before it committed anything owns no
\* row, so nothing else is disturbed.
LEMMA UncommittedStep ==
  ASSUME StagingInv, NEW u \in Upload, NEW r \in UploadRow,
         upload[u] # None =>
           /\ upload[u].phase \in {"admitted", "written", "recorded"}
           /\ r.batch = upload[u].batch,
         upload[u] = None => batch[r.batch].opened \in Nat,
         r.phase = "admitted" => upload[u] = None,
         r.phase \in {"admitted", "surplus", "failing", "done"},
         upload' = [upload EXCEPT ![u] = r],
         UNCHANGED <<clock, batch, row, object, parent, cleanup>>
  PROVE  StagingInv'
<1> USE DEF StagingInv
<1>0. /\ r # None
      /\ upload'[u] = r
      /\ \A v \in Upload \ {u} : upload'[v] = upload[v]
      /\ \A v \in Upload : Recorded(v)' <=> Recorded(v) /\ v # u
  BY NoneAssumption DEF TypeOK, Recorded
<1>1. TypeOK' /\ OpenedInv'
  BY DEF TypeOK, OpenedInv
<1>2. ASSUME NEW v \in Upload PROVE WrittenAfterOpening(v)'
  BY <1>0 DEF WrittenInv, WrittenAfterOpening, Unwritten
<1>3. ASSUME NEW v \in Upload PROVE Pending(v)'
  BY <1>0 DEF PendingInv, Pending
<1>4. ASSUME NEW v \in Upload PROVE RecordedInTime(v)'
  BY <1>0 DEF RecordedInv, RecordedInTime
<1>5. ASSUME NEW v \in Upload, NEW w \in Upload PROVE RecordedAlone(v, w)'
  BY <1>0 DEF RecordedInv, RecordedAlone
<1>6. \A f \in File : row[f] # None => row[f].key # u
  BY NoneAssumption DEF RowInv, RowIsCommitted
<1>7. ASSUME NEW f \in File PROVE RowIsCommitted(f)'
  BY <1>0, <1>6, RowFields DEF RowInv, RowIsCommitted
<1>8. RowsHaveObjects'
  BY <1>0, <1>6, RowFields DEF RowsHaveObjects
<1>9. CleanupInv' /\ SweepMissesNothing'
  BY <1>0 DEF CleanupInv, Unwritten, SweepMissesNothing, Referenced, TypeOK
<1> QED BY <1>1, <1>2, <1>3, <1>4, <1>5, <1>7, <1>8, <1>9
        DEF WrittenInv, PendingInv, RecordedInv, RowInv

LEMMA AdmitStep ==
  ASSUME StagingInv, NEW u \in Upload, NEW f \in File, NEW b \in Batch,
         NEW c \in Content, Admit(u, f, b, c)
  PROVE  StagingInv'
<1> DEFINE r == [phase |-> "admitted", file |-> f, batch |-> b,
                 content |-> c, since |-> 0]
<1>1. r \in UploadRow
  BY DEF UploadRow, UploadPhase
<1>2. batch[b].opened \in Nat
  BY BatchFields DEF Admit, Staged, StagingInv
<1> QED BY <1>1, <1>2, UncommittedStep DEF Admit

LEMMA PhaseRow ==
  ASSUME TypeOK, NEW u \in Upload, upload[u] # None, NEW p \in UploadPhase
  PROVE  /\ [upload[u] EXCEPT !.phase = p] \in UploadRow
         /\ [upload[u] EXCEPT !.phase = p].phase = p
         /\ [upload[u] EXCEPT !.phase = p].batch = upload[u].batch
         /\ [upload[u] EXCEPT !.phase = p].file = upload[u].file
         /\ [upload[u] EXCEPT !.phase = p].since = upload[u].since
BY UploadFields DEF UploadRow

\* Reject, Found and Fail.
LEMMA GiveUpStep ==
  ASSUME StagingInv, NEW u \in Upload, Reject(u) \/ Found(u) \/ Fail(u)
  PROVE  StagingInv'
<1>1. PICK p \in {"done", "surplus", "failing"} :
        upload' = [upload EXCEPT ![u] = [upload[u] EXCEPT !.phase = p]]
  BY DEF Reject, Found, Fail, Enter
<1>2. /\ upload[u] # None
      /\ upload[u].phase \in {"admitted", "written", "recorded"}
      /\ UNCHANGED <<clock, batch, row, object, parent, cleanup>>
  BY DEF Reject, Found, Fail
<1>3. p \in UploadPhase
  BY DEF UploadPhase
<1> QED BY <1>1, <1>2, <1>3, PhaseRow, UncommittedStep DEF StagingInv

LEMMA WriteStep ==
  ASSUME StagingInv, NEW u \in Upload, Write(u)
  PROVE  StagingInv'
<1> USE DEF StagingInv
<1> DEFINE r == [upload[u] EXCEPT !.phase = "written"]
<1>0. /\ upload[u] # None /\ upload[u].phase = "admitted"
      /\ r \in UploadRow /\ r.phase = "written" /\ r.batch = upload[u].batch
      /\ r # None
      /\ upload' = [upload EXCEPT ![u] = r]
      /\ object' = [object EXCEPT ![u] = clock]
      /\ UNCHANGED <<clock, batch, row, parent, cleanup>>
  BY PhaseRow, NoneAssumption DEF Write, Enter, UploadPhase
<1> HIDE DEF r
<1>a. /\ upload'[u] = r /\ object'[u] = clock /\ clock \in Nat
      /\ \A v \in Upload \ {u} : upload'[v] = upload[v] /\ object'[v] = object[v]
      /\ \A v \in Upload : Recorded(v)' <=> Recorded(v)
      /\ ~Recorded(u)
  BY <1>0 DEF TypeOK, Recorded
<1>b. \A f \in File : row[f] # None => row[f].key # u
  BY <1>0 DEF RowInv, RowIsCommitted
<1>1. TypeOK' /\ OpenedInv'
  BY <1>0 DEF TypeOK, OpenedInv
<1>2. ASSUME NEW v \in Upload PROVE WrittenAfterOpening(v)'
  BY <1>0, <1>a, UploadFields, NoneAssumption
     DEF WrittenInv, WrittenAfterOpening, Unwritten, OpenedInv
<1>3. ASSUME NEW v \in Upload PROVE Pending(v)'
  BY <1>0, <1>a, NoneAssumption DEF PendingInv, Pending
<1>4. ASSUME NEW v \in Upload PROVE RecordedInTime(v)'
  BY <1>0, <1>a DEF RecordedInv, RecordedInTime
<1>5. ASSUME NEW v \in Upload, NEW w \in Upload PROVE RecordedAlone(v, w)'
  BY <1>0, <1>a DEF RecordedInv, RecordedAlone
<1>6. ASSUME NEW f \in File PROVE RowIsCommitted(f)'
  BY <1>0, <1>a, <1>b, RowFields DEF RowInv, RowIsCommitted
<1>7. RowsHaveObjects'
  BY <1>0, <1>a, <1>b, RowFields DEF RowsHaveObjects
<1>8. CleanupInv' /\ SweepMissesNothing'
  <2>1. object[u] = None \/ object[u] \in Nat
    BY DEF TypeOK
  <2>2. ~(object'[u] + Grace <= cleanup'.now)
    BY <1>0, <1>a, TimingAssumption DEF CleanupInv, Unwritten, TypeOK
  <2>3. u \notin cleanup.old
    BY <1>0 DEF CleanupInv, Unwritten
  <2>4. CleanupInv'
    BY <1>0, <1>a, <2>3 DEF CleanupInv, Unwritten, Referenced, TypeOK
  <2>5. SweepMissesNothing'
    BY <1>0, <1>a, <2>2 DEF SweepMissesNothing, Referenced
  <2> QED BY <2>4, <2>5
<1> QED BY <1>1, <1>2, <1>3, <1>4, <1>5, <1>6, <1>7, <1>8
        DEF WrittenInv, PendingInv, RecordedInv, RowInv

LEMMA RecordStep ==
  ASSUME StagingInv, NEW u \in Upload, Record(u)
  PROVE  StagingInv'
<1> USE DEF StagingInv
<1> DEFINE r == [upload[u] EXCEPT !.phase = "recorded", !.since = clock]
<1>0. /\ upload[u] # None /\ upload[u].phase = "written"
      /\ upload' = [upload EXCEPT ![u] = r]
      /\ UNCHANGED <<clock, batch, row, object, parent, cleanup>>
  BY DEF Record
<1>p. /\ r \in UploadRow /\ r # None
      /\ r.phase = "recorded" /\ r.since = clock
      /\ r.batch = upload[u].batch /\ r.file = upload[u].file
  <2>1. upload[u] \in UploadRow /\ clock \in Nat
    BY <1>0, UploadFields DEF TypeOK
  <2>2. /\ r \in UploadRow /\ r.phase = "recorded" /\ r.since = clock
        /\ r.batch = upload[u].batch /\ r.file = upload[u].file
    BY <2>1 DEF UploadRow, UploadPhase
  <2>3. r # None
    BY <2>2, NoneAssumption
  <2> QED BY <2>2, <2>3
<1> HIDE DEF r
<1>a. /\ upload'[u] = r
      /\ \A v \in Upload \ {u} : upload'[v] = upload[v]
      /\ \A v \in Upload : Recorded(v)' <=> Recorded(v) \/ v = u
      /\ ~Recorded(u)
  BY <1>0, <1>p DEF TypeOK, Recorded
<1>b. \A f \in File : row[f] # None => row[f].key # u
  BY <1>0 DEF RowInv, RowIsCommitted
<1>c. /\ batch[r.batch].state = "STAGED"
      /\ ~(batch[r.batch].opened + Lifetime <= clock)
      /\ row[r.file] = None
      /\ \A v \in Upload : Recorded(v) =>
           upload[v].batch # r.batch /\ upload[v].file # r.file
  BY <1>p DEF Record, Staged, Expired, BatchLocked, FilePending
<1>d. object[u] # None
  BY <1>0, <1>c, <1>p DEF PendingInv, Pending
<1>1. TypeOK' /\ OpenedInv'
  BY <1>0, <1>p DEF TypeOK, OpenedInv
<1>2. ASSUME NEW v \in Upload PROVE WrittenAfterOpening(v)'
  BY <1>0, <1>a, <1>p DEF WrittenInv, WrittenAfterOpening, Unwritten
<1>3. ASSUME NEW v \in Upload PROVE Pending(v)'
  BY <1>0, <1>a, <1>p DEF PendingInv, Pending
<1>4. ASSUME NEW v \in Upload PROVE RecordedInTime(v)'
  <2>1. CASE v # u
    BY <1>0, <1>a, <2>1 DEF RecordedInv, RecordedInTime
  <2>2. CASE v = u
    <3>1. clock \in Nat /\ batch[r.batch].opened \in Nat
      BY <1>0, <1>p DEF TypeOK, WrittenInv, WrittenAfterOpening, Unwritten
    <3>2. clock < batch[r.batch].opened + Lifetime /\ clock <= clock + MaxCommit
      BY <1>c, <3>1, TimingAssumption
    <3> QED BY <1>0, <1>a, <1>c, <1>d, <1>p, <2>2, <3>2 DEF RecordedInTime
  <2> QED BY <2>1, <2>2
<1>5. ASSUME NEW v \in Upload, NEW w \in Upload PROVE RecordedAlone(v, w)'
  BY <1>0, <1>a, <1>c DEF RecordedInv, RecordedAlone
<1>6. ASSUME NEW f \in File PROVE RowIsCommitted(f)'
  BY <1>0, <1>a, <1>b, RowFields DEF RowInv, RowIsCommitted
<1>7. RowsHaveObjects'
  BY <1>0, <1>a, <1>b, RowFields DEF RowsHaveObjects
<1>8. CleanupInv' /\ SweepMissesNothing'
  BY <1>0, <1>a, <1>p DEF CleanupInv, Unwritten, SweepMissesNothing, Referenced, TypeOK
<1> QED BY <1>1, <1>2, <1>3, <1>4, <1>5, <1>6, <1>7, <1>8
        DEF WrittenInv, PendingInv, RecordedInv, RowInv

LEMMA CommitStep ==
  ASSUME StagingInv, NEW u \in Upload, Commit(u) \/ CommitUnreported(u)
  PROVE  StagingInv'
<1> USE DEF StagingInv
<1>z. PICK p \in {"done", "unreported"} :
        upload' = [upload EXCEPT ![u] = [upload[u] EXCEPT !.phase = p]]
  BY DEF Commit, CommitUnreported, Enter
<1> DEFINE r == [upload[u] EXCEPT !.phase = p]
<1> DEFINE f == upload[u].file
<1>0. /\ Recorded(u) /\ upload[u] # None
      /\ row' = [row EXCEPT ![f] = RowOf(u)]
      /\ upload' = [upload EXCEPT ![u] = r]
      /\ UNCHANGED <<clock, batch, object, parent, cleanup>>
  BY <1>z DEF Commit, CommitUnreported, Committed, Recorded
<1>p. /\ r \in UploadRow /\ r # None /\ r.phase = p
      /\ r.batch = upload[u].batch /\ r.file = upload[u].file
  <2>1. p \in UploadPhase
    BY DEF UploadPhase
  <2>2. /\ r \in UploadRow /\ r.phase = p
        /\ r.batch = upload[u].batch /\ r.file = upload[u].file
    BY <1>0, <2>1, PhaseRow
  <2>3. r # None
    BY <2>2, NoneAssumption
  <2> QED BY <2>2, <2>3
<1> HIDE DEF r
<1>q. /\ f \in File /\ RowOf(u) \in Row /\ RowOf(u) # None
      /\ RowOf(u).key = u /\ RowOf(u).batch = upload[u].batch
  BY <1>0, UploadFields, NoneAssumption DEF RowOf, Row
<1> HIDE DEF f
<1>a. /\ upload'[u] = r
      /\ \A v \in Upload \ {u} : upload'[v] = upload[v]
      /\ \A v \in Upload : Recorded(v)' <=> Recorded(v) /\ v # u
      /\ row'[f] = RowOf(u)
      /\ \A g \in File \ {f} : row'[g] = row[g]
  BY <1>0, <1>p, <1>q DEF TypeOK, Recorded
<1>b. \A g \in File : row[g] # None => row[g].key # u
  BY <1>0 DEF RowInv, RowIsCommitted, Recorded
<1>c. object[u] # None /\ ~(object[u] + Grace <= cleanup.now)
  BY <1>0, RecordedObjectsAreYoung
<1>d. row[f] = None
  BY <1>0 DEF RecordedInv, RecordedInTime, f
<1>e. \A v \in Upload : Referenced(v)' <=> Referenced(v) \/ v = u
  BY <1>a, <1>d, <1>q DEF Referenced
<1>1. TypeOK' /\ OpenedInv'
  BY <1>0, <1>p, <1>q DEF TypeOK, OpenedInv
<1>2. ASSUME NEW v \in Upload PROVE WrittenAfterOpening(v)'
  BY <1>0, <1>a, <1>p DEF WrittenInv, WrittenAfterOpening, Unwritten
<1>3. ASSUME NEW v \in Upload PROVE Pending(v)'
  BY <1>0, <1>a, <1>p DEF PendingInv, Pending
<1>4. ASSUME NEW v \in Upload PROVE RecordedInTime(v)'
  <2> SUFFICES ASSUME Recorded(v)' PROVE RecordedInTime(v)'
    BY DEF RecordedInTime
  <2>1. v # u /\ Recorded(v) /\ upload'[v] = upload[v]
    BY <1>a
  <2>2. upload[v].file # f
    BY <1>0, <2>1 DEF RecordedInv, RecordedAlone, f
  <2>3. upload[v].file \in File
    BY <2>1, UploadFields DEF Recorded
  <2> QED BY <1>0, <1>a, <2>1, <2>2, <2>3 DEF RecordedInv, RecordedInTime
<1>5. ASSUME NEW v \in Upload, NEW w \in Upload PROVE RecordedAlone(v, w)'
  BY <1>0, <1>a DEF RecordedInv, RecordedAlone
<1>6. ASSUME NEW g \in File PROVE RowIsCommitted(g)'
  BY <1>0, <1>a, <1>b, <1>p, <1>q, RowFields DEF RowInv, RowIsCommitted
<1>7. RowsHaveObjects'
  BY <1>0, <1>a, <1>b, <1>c, <1>q, RowFields DEF RowsHaveObjects
<1>8. CleanupInv' /\ SweepMissesNothing'
  BY <1>0, <1>c, <1>e DEF CleanupInv, Unwritten, SweepMissesNothing, TypeOK
<1> QED BY <1>1, <1>2, <1>3, <1>4, <1>5, <1>6, <1>7, <1>8
        DEF WrittenInv, PendingInv, RecordedInv, RowInv

\* The object of an upload that holds no row may be removed.
LEMMA DiscardStep ==
  ASSUME StagingInv, NEW u \in Upload, Discard(u)
  PROVE  StagingInv'
<1> USE DEF StagingInv
<1>z. PICK p \in {"done", "disowned"} :
        /\ upload' = [upload EXCEPT ![u] = [upload[u] EXCEPT !.phase = p]]
        /\ p = "done" => upload[u].phase # "unreported"
  BY DEF Discard, Enter
<1> DEFINE r == [upload[u] EXCEPT !.phase = p]
<1>0. /\ upload[u] # None
      /\ upload[u].phase \in {"surplus", "failing", "unreported"}
      /\ upload' = [upload EXCEPT ![u] = r]
      /\ object' = [object EXCEPT ![u] = None] \/ object' = object
      /\ UNCHANGED <<clock, batch, row, parent, cleanup>>
  BY <1>z DEF Discard
<1>p. /\ r \in UploadRow /\ r # None /\ r.phase = p
      /\ r.batch = upload[u].batch
  <2>1. p \in UploadPhase
    BY DEF UploadPhase
  <2>2. /\ r \in UploadRow /\ r.phase = p /\ r.batch = upload[u].batch
    BY <1>0, <2>1, PhaseRow
  <2>3. r # None
    BY <2>2, NoneAssumption
  <2> QED BY <2>2, <2>3
<1> HIDE DEF r
<1>a. /\ upload'[u] = r
      /\ \A v \in Upload \ {u} : upload'[v] = upload[v] /\ object'[v] = object[v]
      /\ object'[u] \in {None, object[u]}
      /\ \A v \in Upload : Recorded(v)' <=> Recorded(v)
      /\ ~Recorded(u)
  BY <1>0, <1>p DEF TypeOK, Recorded
<1>b. \A f \in File : row[f] # None /\ row[f].key = u => p = "disowned"
  BY <1>0, <1>z DEF RowInv, RowIsCommitted
<1>1. TypeOK' /\ OpenedInv'
  BY <1>0, <1>p DEF TypeOK, OpenedInv
<1>2. ASSUME NEW v \in Upload PROVE WrittenAfterOpening(v)'
  BY <1>0, <1>a, <1>p DEF WrittenInv, WrittenAfterOpening, Unwritten
<1>3. ASSUME NEW v \in Upload PROVE Pending(v)'
  BY <1>0, <1>a, <1>p DEF PendingInv, Pending
<1>4. ASSUME NEW v \in Upload PROVE RecordedInTime(v)'
  BY <1>0, <1>a DEF RecordedInv, RecordedInTime
<1>5. ASSUME NEW v \in Upload, NEW w \in Upload PROVE RecordedAlone(v, w)'
  BY <1>0, <1>a DEF RecordedInv, RecordedAlone
<1>6. ASSUME NEW f \in File PROVE RowIsCommitted(f)'
  BY <1>0, <1>a, <1>b, <1>p, RowFields DEF RowInv, RowIsCommitted
<1>7. RowsHaveObjects'
  BY <1>0, <1>a, <1>b, <1>p, RowFields DEF RowsHaveObjects
<1>8. CleanupInv' /\ SweepMissesNothing'
  <2>1. CleanupInv'
    BY <1>0, <1>a, <1>p DEF CleanupInv, Unwritten, Referenced, TypeOK
  <2>2. SweepMissesNothing'
    BY <1>0, <1>a DEF SweepMissesNothing, Referenced
  <2> QED BY <2>1, <2>2
<1> QED BY <1>1, <1>2, <1>3, <1>4, <1>5, <1>6, <1>7, <1>8
        DEF WrittenInv, PendingInv, RecordedInv, RowInv

--------------------------------------------------------------------------------
(* Steps of batches, parents and the cleanup.                               *)

\* Batches that no upload uses may be opened; rows may go; a batch may leave
\* its state unless a row is being recorded in it.
LEMMA BatchesAndRowsStep ==
  ASSUME StagingInv, OpenedInv',
         \A u \in Upload : upload[u] # None =>
           batch'[upload[u].batch].opened = batch[upload[u].batch].opened,
         \A u \in Upload : Recorded(u) =>
           batch'[upload[u].batch].state = "STAGED",
         \A f \in File : row'[f] \in {row[f], None},
         UNCHANGED <<clock, object, upload>>
  PROVE  /\ WrittenInv' /\ PendingInv' /\ RecordedInv'
         /\ RowInv' /\ RowsHaveObjects'
<1> USE DEF StagingInv
<1>a. \A u \in Upload : Recorded(u)' <=> Recorded(u)
  BY DEF Recorded
<1>2. ASSUME NEW v \in Upload PROVE WrittenAfterOpening(v)'
  BY DEF WrittenInv, WrittenAfterOpening, Unwritten
<1>3. ASSUME NEW v \in Upload PROVE Pending(v)'
  BY DEF PendingInv, Pending
<1>4. ASSUME NEW v \in Upload PROVE RecordedInTime(v)'
  <2> SUFFICES ASSUME Recorded(v)' PROVE RecordedInTime(v)'
    BY DEF RecordedInTime
  <2>1. Recorded(v) /\ upload[v] # None /\ upload[v].file \in File
    BY <1>a, UploadFields DEF Recorded
  <2> QED BY <2>1 DEF RecordedInv, RecordedInTime
<1>5. ASSUME NEW v \in Upload, NEW w \in Upload PROVE RecordedAlone(v, w)'
  BY <1>a DEF RecordedInv, RecordedAlone
<1>6. ASSUME NEW f \in File PROVE RowIsCommitted(f)'
  BY DEF RowInv, RowIsCommitted
<1>7. RowsHaveObjects'
  BY DEF RowsHaveObjects
<1> QED BY <1>2, <1>3, <1>4, <1>5, <1>6, <1>7
        DEF WrittenInv, PendingInv, RecordedInv, RowInv

LEMMA AdmissionStep ==
  ASSUME StagingInv, NEW b \in Batch,
         CountBatches(b) \/ OpenBatch(b) \/ OpenFails(b)
  PROVE  StagingInv'
<1> USE DEF StagingInv
<1>1. /\ batch[b].state \in {"none", "admitting"}
      /\ batch[b].opened = None
      /\ UNCHANGED <<clock, row, object, upload, parent, cleanup>>
      /\ clock \in Nat
  BY BatchFields DEF CountBatches, OpenBatch, OpenFails, TypeOK
<1>2. PICK new \in [state : {"none", "admitting"}, opened : {None}] \union
                   [state : {"STAGED"}, opened : {clock}] :
        batch' = [batch EXCEPT ![b] = new]
  <2>1. CASE CountBatches(b)
    BY <1>1, <2>1 DEF CountBatches, TypeOK
  <2>2. CASE OpenBatch(b)
    BY <2>2 DEF OpenBatch
  <2>3. CASE OpenFails(b)
    BY <1>1, <2>3 DEF OpenFails, TypeOK
  <2> QED BY <2>1, <2>2, <2>3
<1>3. TypeOK'
  BY <1>1, <1>2 DEF TypeOK
<1>4. OpenedInv'
  BY <1>1, <1>2 DEF TypeOK, OpenedInv
<1>5. \A u \in Upload : upload[u] # None =>
        upload[u].batch \in Batch \ {b}
  BY <1>1, UploadFields, NoneAssumption DEF WrittenInv, WrittenAfterOpening
<1>6. \A c \in Batch \ {b} : batch'[c] = batch[c]
  BY <1>2 DEF TypeOK
<1>7. \A u \in Upload : Recorded(u) => batch'[upload[u].batch].state = "STAGED"
  BY <1>5, <1>6 DEF RecordedInv, RecordedInTime, Recorded
<1>8. /\ WrittenInv' /\ PendingInv' /\ RecordedInv'
      /\ RowInv' /\ RowsHaveObjects'
  BY <1>1, <1>4, <1>5, <1>6, <1>7, BatchesAndRowsStep
<1>9. CleanupInv' /\ SweepMissesNothing'
  BY <1>1 DEF CleanupInv, Unwritten, SweepMissesNothing, Referenced
<1> QED BY <1>3, <1>4, <1>8, <1>9

LEMMA RemoveStep ==
  ASSUME StagingInv, NEW b \in Batch,
         RemoveBatch(b) \/ \E f \in File : RemoveFile(b, f)
  PROVE  StagingInv'
<1> USE DEF StagingInv
<1>1. PICK files \in SUBSET RowsOf(b) : Delete(files)
  BY DEF RemoveBatch, RemoveFile
<1>2. /\ Staged(b)
      /\ UNCHANGED <<clock, object, upload, parent, cleanup>>
      /\ \/ batch' = batch
         \/ batch' = [batch EXCEPT ![b].state = "deleted"]
  BY DEF RemoveBatch, RemoveFile
<1>3. /\ \A f \in File : row'[f] = IF f \in files THEN None ELSE row[f]
      /\ row' \in [File -> Row \union {None}]
  BY <1>1 DEF Delete, TypeOK
<1>4. /\ \A c \in Batch : batch'[c].opened = batch[c].opened
      /\ \A c \in Batch \ {b} : batch'[c] = batch[c]
  BY <1>2 DEF TypeOK
<1>5. TypeOK'
  <2>1. batch[b].opened \in Nat
    BY <1>2, BatchFields DEF Staged
  <2>2. [batch[b] EXCEPT !.state = "deleted"]
          = [state |-> "deleted", opened |-> batch[b].opened]
    BY BatchInState DEF BatchState
  <2> QED BY <1>2, <1>3, <2>1, <2>2 DEF TypeOK
<1>6. OpenedInv'
  BY <1>2, <1>4 DEF OpenedInv
<1>7. \A u \in Upload : upload[u] # None => upload[u].batch \in Batch
  BY UploadFields
<1>8. \A u \in Upload : Recorded(u) => batch'[upload[u].batch].state = "STAGED"
  BY <1>2, <1>4, <1>7
     DEF RecordedInv, RecordedInTime, Recorded, Staged, BatchLocked
<1>9. /\ WrittenInv' /\ PendingInv' /\ RecordedInv'
      /\ RowInv' /\ RowsHaveObjects'
  BY <1>2, <1>3, <1>4, <1>6, <1>7, <1>8, BatchesAndRowsStep
<1>10. CleanupInv'
  BY <1>2, <1>3 DEF CleanupInv, Unwritten, Referenced
<1>11. SweepMissesNothing'
  <2> SUFFICES ASSUME cleanup.phase = "sweeping", NEW u \in Upload,
                      object[u] # None, object[u] + Grace <= cleanup.now,
                      Referenced(u), ~Referenced(u)'
               PROVE  FALSE
    BY <1>2 DEF SweepMissesNothing
  <2>1. PICK f \in File : row[f] # None /\ row[f].key = u /\ f \in files
    BY <1>3 DEF Referenced
  <2>2. upload[u] # None /\ upload[u].batch = b
    BY <1>1, <2>1 DEF RowInv, RowIsCommitted, RowsOf
  <2>3. clock < batch[upload[u].batch].opened + Lifetime
    BY <1>2, <2>2, TimingAssumption
       DEF Staged, Expired, TypeOK, WrittenInv, WrittenAfterOpening
  <2> QED BY <2>2, <2>3, OpenBatchObjectsAreYoung
<1> QED BY <1>5, <1>6, <1>9, <1>10, <1>11

LEMMA ParentStepInv ==
  ASSUME StagingInv, NEW p \in Parent, ParentStep(p)
  PROVE  StagingInv'
<1> USE DEF StagingInv
<1>1. /\ UNCHANGED <<clock, row, object, upload, cleanup>>
      /\ \/ batch' = batch
         \/ \E b \in Batch : /\ Staged(b)
                            /\ batch' = [batch EXCEPT ![b].state = "FINALIZED"]
  <2>1. parent[p] # None => parent[p].batch \in Batch
    BY DEF TypeOK, ParentRow
  <2> QED BY <2>1 DEF ParentStep, PrepareFiles, ReadObject, Finalize, ParentFails
<1>2. parent' \in [Parent -> ParentRow \union {None}]
  <2>1. CASE \E b \in Batch : PrepareFiles(p, b)
    <3>1. PICK b \in Batch : PrepareFiles(p, b)
      BY <2>1
    <3>2. Manifest(b) \in SUBSET Upload
      BY RowFields DEF Manifest, RowsOf
    <3> QED BY <3>1, <3>2 DEF PrepareFiles, TypeOK, ParentRow
  <2>2. CASE \E u \in Upload : ReadObject(p, u)
    BY <2>2 DEF ReadObject, TypeOK, ParentRow
  <2>3. CASE Finalize(p) \/ ParentFails(p)
    BY <2>3 DEF Finalize, ParentFails, TypeOK, ParentRow
  <2> QED BY <2>1, <2>2, <2>3 DEF ParentStep
<1>3. /\ \A c \in Batch : batch'[c].opened = batch[c].opened
      /\ \A c \in Batch : BatchLocked(c) => batch'[c] = batch[c]
  BY <1>1 DEF TypeOK, Staged
<1>4. TypeOK'
  <2>1. CASE batch' = batch
    BY <1>1, <1>2, <2>1 DEF TypeOK
  <2>2. ASSUME NEW b \in Batch, Staged(b),
               batch' = [batch EXCEPT ![b].state = "FINALIZED"]
        PROVE  TypeOK'
    <3>1. batch[b].opened \in Nat
      BY <2>2, BatchFields DEF Staged
    <3>2. [batch[b] EXCEPT !.state = "FINALIZED"]
            = [state |-> "FINALIZED", opened |-> batch[b].opened]
      BY BatchInState DEF BatchState
    <3> QED BY <1>1, <1>2, <2>2, <3>1, <3>2 DEF TypeOK
  <2> QED BY <1>1, <2>1, <2>2
<1>5. OpenedInv'
  BY <1>1, <1>3 DEF OpenedInv
<1>6. \A u \in Upload : upload[u] # None => upload[u].batch \in Batch
  BY UploadFields
<1>7. \A u \in Upload : Recorded(u) => batch'[upload[u].batch].state = "STAGED"
  BY <1>3, <1>6 DEF RecordedInv, RecordedInTime, Recorded, BatchLocked
<1>8. /\ WrittenInv' /\ PendingInv' /\ RecordedInv'
      /\ RowInv' /\ RowsHaveObjects'
  BY <1>1, <1>3, <1>5, <1>6, <1>7, BatchesAndRowsStep
<1>9. CleanupInv' /\ SweepMissesNothing'
  BY <1>1 DEF CleanupInv, Unwritten, SweepMissesNothing, Referenced
<1> QED BY <1>4, <1>5, <1>8, <1>9

LEMMA ExpireStep ==
  ASSUME StagingInv, ExpireBatches
  PROVE  StagingInv'
<1> USE DEF StagingInv
<1>1. /\ UNCHANGED <<clock, object, upload, parent>>
      /\ \A b \in Batch :
           batch'[b] = IF b \in ExpiredBatches
                       THEN [batch[b] EXCEPT !.state = "deleted"] ELSE batch[b]
      /\ \A f \in File : row'[f] \in {row[f], None}
      /\ row' \in [File -> Row \union {None}]
      /\ cleanup' = [cleanup EXCEPT !.phase = "listing", !.now = clock]
      /\ cleanup.phase = "idle"
  BY DEF ExpireBatches, Delete, TypeOK
<1>2. \A b \in ExpiredBatches : batch[b].state = "STAGED" /\ ~BatchLocked(b)
  BY DEF ExpiredBatches, InState
<1>3. \A b \in Batch :
        [batch[b] EXCEPT !.state = "deleted"]
          = [state |-> "deleted", opened |-> batch[b].opened]
  BY BatchInState DEF BatchState
<1>4. TypeOK'
  <2>1. batch' \in [Batch -> [state : {"none", "admitting"}, opened : {None}] \union
                   [state : {"STAGED", "FINALIZED", "deleted"}, opened : Nat]]
    <3>1. \A b \in Batch : batch'[b] \in
            [state : {"none", "admitting"}, opened : {None}] \union
            [state : {"STAGED", "FINALIZED", "deleted"}, opened : Nat]
      <4> TAKE b \in Batch
      <4>1. CASE b \in ExpiredBatches
        BY <1>1, <1>2, <1>3, <4>1, BatchFields
      <4>2. CASE b \notin ExpiredBatches
        BY <1>1, <4>2 DEF TypeOK
      <4> QED BY <4>1, <4>2
    <3> QED BY <3>1 DEF ExpireBatches
  <2>2. cleanup' \in [phase : {"idle", "listing", "sweeping"}, now : Nat,
                      old : SUBSET Upload, condemned : Upload \union {None}]
    BY <1>1 DEF TypeOK
  <2> QED BY <1>1, <2>1, <2>2 DEF TypeOK
<1>5. \A b \in Batch : batch'[b].opened = batch[b].opened
  BY <1>1, <1>3
<1>6. OpenedInv'
  BY <1>1, <1>5 DEF OpenedInv
<1>7. \A u \in Upload : upload[u] # None => upload[u].batch \in Batch
  BY UploadFields
<1>8. \A u \in Upload : Recorded(u) => batch'[upload[u].batch].state = "STAGED"
  BY <1>1, <1>2, <1>7 DEF RecordedInv, RecordedInTime, Recorded, BatchLocked
<1>9. /\ WrittenInv' /\ PendingInv' /\ RecordedInv'
      /\ RowInv' /\ RowsHaveObjects'
  BY <1>1, <1>5, <1>6, <1>7, <1>8, BatchesAndRowsStep
<1>10. CleanupInv' /\ SweepMissesNothing'
  BY <1>1 DEF CleanupInv, SweepMissesNothing, TypeOK
<1> QED BY <1>4, <1>6, <1>9, <1>10

LEMMA InventoryStep ==
  ASSUME StagingInv, TakeInventory
  PROVE  StagingInv'
<1> USE DEF StagingInv
<1>1. /\ UNCHANGED <<clock, batch, row, object, upload, parent>>
      /\ cleanup' = [cleanup EXCEPT !.phase = "sweeping",
                                    !.old = {u \in Upload : Old(u)}]
      /\ cleanup.phase = "listing"
  BY DEF TakeInventory
<1>2. TypeOK' /\ OpenedInv'
  BY <1>1 DEF TypeOK, OpenedInv
<1>4. /\ WrittenInv' /\ PendingInv' /\ RecordedInv'
      /\ RowInv' /\ RowsHaveObjects'
  BY <1>1, <1>2, BatchesAndRowsStep DEF RecordedInv, RecordedInTime
<1>5. cleanup'.phase = "sweeping" /\ cleanup'.now = cleanup.now
      /\ cleanup'.old = {u \in Upload : Old(u)} /\ cleanup'.condemned = None
  BY <1>1 DEF TypeOK, CleanupInv
<1>6. CleanupInv'
  BY <1>1, <1>5 DEF CleanupInv, WrittenInv, WrittenAfterOpening, Unwritten, Old
<1>7. SweepMissesNothing'
  BY <1>1, <1>5 DEF SweepMissesNothing, Old
<1> QED BY <1>2, <1>4, <1>6, <1>7

LEMMA LookUpStep ==
  ASSUME StagingInv, NEW u \in Upload, LookUp(u)
  PROVE  StagingInv'
<1> USE DEF StagingInv
<1>1. /\ UNCHANGED <<clock, batch, row, object, upload, parent>>
      /\ cleanup.phase = "sweeping" /\ cleanup.condemned = None
      /\ u \in cleanup.old
  BY DEF LookUp
<1>2. cleanup' \in [phase : {"idle", "listing", "sweeping"}, now : Nat,
                    old : SUBSET Upload, condemned : Upload \union {None}]
  BY DEF LookUp, TypeOK
<1>3. TypeOK' /\ OpenedInv'
  BY <1>1, <1>2 DEF TypeOK, OpenedInv
<1>4. /\ WrittenInv' /\ PendingInv' /\ RecordedInv'
      /\ RowInv' /\ RowsHaveObjects'
  BY <1>1, <1>3, BatchesAndRowsStep DEF RecordedInv, RecordedInTime
<1>5. CASE Referenced(u)
  <2>1. /\ cleanup'.phase = "sweeping" /\ cleanup'.now = cleanup.now
        /\ cleanup'.old = cleanup.old \ {u} /\ cleanup'.condemned = None
    BY <1>1, <1>5 DEF LookUp, TypeOK
  <2>2. CleanupInv'
    BY <1>1, <2>1 DEF CleanupInv, Unwritten
  <2>3. SweepMissesNothing'
    BY <1>1, <1>5, <2>1 DEF SweepMissesNothing, Referenced
  <2> QED BY <1>3, <1>4, <2>2, <2>3
<1>6. CASE ~Referenced(u)
  <2>1. /\ cleanup'.phase = "sweeping" /\ cleanup'.now = cleanup.now
        /\ cleanup'.old = cleanup.old /\ cleanup'.condemned = u
    BY <1>1, <1>6 DEF LookUp, TypeOK
  <2>2. CleanupInv'
    BY <1>1, <1>6, <2>1 DEF CleanupInv, Unwritten, Referenced
  <2>3. SweepMissesNothing'
    BY <1>1, <2>1 DEF SweepMissesNothing, Referenced
  <2> QED BY <1>3, <1>4, <2>2, <2>3
<1> QED BY <1>5, <1>6

\* What is removed has no row, and its upload will not record one: it is old.
LEMMA RemoveOrphanStep ==
  ASSUME StagingInv, RemoveOrphan
  PROVE  StagingInv'
<1> USE DEF StagingInv
<1> DEFINE u == cleanup.condemned
<1>1. /\ UNCHANGED <<clock, batch, row, upload, parent>>
      /\ u \in cleanup.old /\ u \in Upload /\ ~Referenced(u)
      /\ object' = [object EXCEPT ![u] = None]
      /\ cleanup' = [cleanup EXCEPT !.old = @ \ {u}, !.condemned = None]
      /\ cleanup.phase = "sweeping"
  BY DEF RemoveOrphan, CleanupInv, TypeOK
<1> HIDE DEF u
<1>2. /\ cleanup'.phase = "sweeping" /\ cleanup'.now = cleanup.now
      /\ cleanup'.old = cleanup.old \ {u} /\ cleanup'.condemned = None
      /\ object'[u] = None
      /\ \A v \in Upload \ {u} : object'[v] = object[v]
      /\ \A v \in Upload : Recorded(v)' <=> Recorded(v)
  BY <1>1 DEF TypeOK, Recorded
<1>3. ~Recorded(u)
  BY <1>1, RecordedObjectsAreYoung DEF CleanupInv
<1>4. TypeOK' /\ OpenedInv'
  BY <1>1 DEF TypeOK, OpenedInv
<1>5. ASSUME NEW v \in Upload PROVE WrittenAfterOpening(v)'
  BY <1>1, <1>2 DEF WrittenInv, WrittenAfterOpening, Unwritten
<1>6. ASSUME NEW v \in Upload PROVE Pending(v)'
  <2>1. CASE v # u
    BY <1>1, <1>2, <2>1 DEF PendingInv, Pending
  <2>2. ASSUME v = u, upload[u] # None, upload[u].phase = "written"
        PROVE  batch[upload[u].batch].opened + Lifetime <= clock
    <3>1. CASE object[u] = None
      BY <1>1, <2>2, <3>1 DEF PendingInv, Pending
    <3>2. CASE object[u] # None
      <4>1. object[u] + Grace <= cleanup.now
        BY <1>1, <3>2 DEF CleanupInv
      <4>2. ~(clock < batch[upload[u].batch].opened + Lifetime)
        BY <1>1, <2>2, <3>2, <4>1, OpenBatchObjectsAreYoung
      <4> QED BY <1>1, <2>2, <4>2, TimingAssumption
              DEF WrittenInv, WrittenAfterOpening, TypeOK
    <3> QED BY <3>1, <3>2
  <2> QED BY <1>1, <2>1, <2>2 DEF Pending
<1>7. ASSUME NEW v \in Upload PROVE RecordedInTime(v)'
  BY <1>1, <1>2, <1>3 DEF RecordedInv, RecordedInTime
<1>8. ASSUME NEW v \in Upload, NEW w \in Upload PROVE RecordedAlone(v, w)'
  BY <1>1, <1>2 DEF RecordedInv, RecordedAlone
<1>9. ASSUME NEW f \in File PROVE RowIsCommitted(f)'
  BY <1>1 DEF RowInv, RowIsCommitted
<1>10. RowsHaveObjects'
  BY <1>1, <1>2, RowFields DEF RowsHaveObjects, Referenced
<1>11. CleanupInv'
  BY <1>1, <1>2 DEF CleanupInv, Unwritten
<1>12. SweepMissesNothing'
  BY <1>1, <1>2 DEF SweepMissesNothing, Referenced
<1> QED BY <1>4, <1>5, <1>6, <1>7, <1>8, <1>9, <1>10, <1>11, <1>12
        DEF WrittenInv, PendingInv, RecordedInv, RowInv

LEMMA EndCleanupStep ==
  ASSUME StagingInv, EndCleanup
  PROVE  StagingInv'
<1> USE DEF StagingInv
<1>1. /\ UNCHANGED <<clock, batch, row, object, upload, parent>>
      /\ cleanup' = Idle /\ clock \in Nat
  BY DEF EndCleanup, TypeOK
<1>2. TypeOK' /\ OpenedInv'
  BY <1>1 DEF TypeOK, OpenedInv, Idle
<1>3. /\ WrittenInv' /\ PendingInv' /\ RecordedInv'
      /\ RowInv' /\ RowsHaveObjects'
  BY <1>1, <1>2, BatchesAndRowsStep DEF RecordedInv, RecordedInTime
<1>4. CleanupInv' /\ SweepMissesNothing'
  BY <1>1 DEF CleanupInv, SweepMissesNothing, Idle
<1> QED BY <1>2, <1>3, <1>4

--------------------------------------------------------------------------------
(* The process ends; time passes.                                           *)

LEMMA CrashStep ==
  ASSUME StagingInv, Crash
  PROVE  StagingInv'
<1> USE DEF StagingInv
<1>0. UNCHANGED <<clock, batch, row, object, parent, cleanup>>
  BY DEF Crash
<1>1. ASSUME NEW u \in Upload
      PROVE  \/ upload'[u] = upload[u] /\ ~Recorded(u)
             \/ /\ upload[u] # None
                /\ upload'[u] \in UploadRow /\ upload'[u] # None
                /\ upload'[u].phase = "done"
                /\ upload'[u].batch = upload[u].batch
                /\ upload[u].phase # "disowned"
  <2>1. CASE InFlight(u)
    <3>1. upload[u] # None /\ upload'[u] = [upload[u] EXCEPT !.phase = "done"]
          /\ upload[u].phase # "disowned"
      BY <2>1 DEF Crash, InFlight
    <3>2. /\ upload'[u] \in UploadRow /\ upload'[u].phase = "done"
          /\ upload'[u].batch = upload[u].batch
      <4>1. "done" \in UploadPhase
        BY DEF UploadPhase
      <4> QED BY <3>1, <4>1, PhaseRow
    <3>3. upload'[u] # None
      BY <3>2, NoneAssumption
    <3> QED BY <3>1, <3>2, <3>3
  <2>2. CASE ~InFlight(u)
    BY <2>2 DEF Crash, InFlight, Recorded
  <2> QED BY <2>1, <2>2
<1>2. TypeOK' /\ OpenedInv'
  <2>1. upload' \in [Upload -> UploadRow \union {None}]
    <3>1. \A u \in Upload : upload'[u] \in UploadRow \union {None}
      BY <1>1 DEF TypeOK
    <3> QED BY <3>1 DEF Crash
  <2> QED BY <1>0, <2>1 DEF TypeOK, OpenedInv
<1>3. \A u \in Upload : ~Recorded(u)'
  BY <1>1 DEF Recorded
<1>4. WrittenInv'
  <2> SUFFICES ASSUME NEW u \in Upload PROVE WrittenAfterOpening(u)'
    BY DEF WrittenInv
  <2> QED BY <1>0, <1>1 DEF WrittenInv, WrittenAfterOpening, Unwritten
<1>5. PendingInv'
  <2> SUFFICES ASSUME NEW u \in Upload PROVE Pending(u)'
    BY DEF PendingInv
  <2> QED BY <1>0, <1>1 DEF PendingInv, Pending
<1>6. RecordedInv'
  BY <1>3 DEF RecordedInv, RecordedInTime, RecordedAlone
<1>7. RowInv'
  <2> SUFFICES ASSUME NEW f \in File PROVE RowIsCommitted(f)'
    BY DEF RowInv
  <2> QED BY <1>0, <1>1, RowFields DEF RowInv, RowIsCommitted
<1>8. RowsHaveObjects'
  BY <1>0, <1>1, RowFields DEF RowsHaveObjects, RowInv, RowIsCommitted
<1>9. CleanupInv' /\ SweepMissesNothing'
  <2>1. cleanup.old \subseteq Upload
    BY DEF TypeOK
  <2> QED BY <1>0, <1>1, <2>1
          DEF CleanupInv, SweepMissesNothing, Unwritten, Referenced
<1> QED BY <1>2, <1>4, <1>5, <1>6, <1>7, <1>8, <1>9

LEMMA TickStep ==
  ASSUME StagingInv, Tick
  PROVE  StagingInv'
<1> USE DEF StagingInv
<1>1. /\ UNCHANGED <<batch, row, object, upload, parent, cleanup>>
      /\ clock' = clock + 1 /\ clock \in Nat
      /\ \A u \in Upload : Recorded(u)' <=> Recorded(u)
  BY DEF Tick, TypeOK, Recorded
<1>2. TypeOK'
  BY <1>1 DEF TypeOK
<1>3. OpenedInv'
  BY <1>1 DEF OpenedInv, TypeOK
<1>4. WrittenInv'
  BY <1>1 DEF WrittenInv, WrittenAfterOpening, Unwritten
<1>5. PendingInv'
  <2> SUFFICES ASSUME NEW u \in Upload PROVE Pending(u)'
    BY DEF PendingInv
  <2>1. upload[u] # None => batch[upload[u].batch].opened \in Nat
    BY DEF WrittenInv, WrittenAfterOpening
  <2> QED BY <1>1, <2>1, TimingAssumption DEF PendingInv, Pending
<1>6. RecordedInv'
  <2>1. ASSUME NEW u \in Upload PROVE RecordedInTime(u)'
    <3> SUFFICES ASSUME Recorded(u) PROVE RecordedInTime(u)'
      BY <1>1 DEF RecordedInTime
    <3>1. clock < upload[u].since + MaxCommit /\ upload[u].since \in Nat
      BY UploadFields DEF Tick, Recorded
    <3>2. clock' <= upload[u].since + MaxCommit
      BY <1>1, <3>1, TimingAssumption
    <3> QED BY <1>1, <3>2 DEF RecordedInv, RecordedInTime
  <2>2. ASSUME NEW u \in Upload, NEW v \in Upload PROVE RecordedAlone(u, v)'
    BY <1>1 DEF RecordedInv, RecordedAlone
  <2> QED BY <2>1, <2>2 DEF RecordedInv
<1>7. RowInv' /\ RowsHaveObjects'
  BY <1>1 DEF RowInv, RowIsCommitted, RowsHaveObjects
<1>8. CleanupInv' /\ SweepMissesNothing'
  <2>1. cleanup.now \in Nat
    BY DEF TypeOK
  <2> QED BY <1>1, <2>1
          DEF CleanupInv, SweepMissesNothing, Unwritten, Referenced
<1> QED BY <1>2, <1>3, <1>4, <1>5, <1>6, <1>7, <1>8

--------------------------------------------------------------------------------

LEMMA StagingStep == StagingInv /\ [Next]_vars => StagingInv'
<1> SUFFICES ASSUME StagingInv, [Next]_vars PROVE StagingInv'
  OBVIOUS
<1>1. ASSUME NEW u \in Upload, UploadStep(u) PROVE StagingInv'
  BY <1>1, AdmitStep, GiveUpStep, WriteStep, RecordStep, CommitStep, DiscardStep
     DEF UploadStep
<1>2. ASSUME NEW b \in Batch, BatchStep(b) PROVE StagingInv'
  BY <1>2, AdmissionStep, RemoveStep DEF BatchStep
<1>3. CASE CleanupStep
  BY <1>3, ExpireStep, InventoryStep, LookUpStep, RemoveOrphanStep, EndCleanupStep
     DEF CleanupStep
<1>4. CASE UNCHANGED vars
  <2>1. TypeOK' /\ OpenedInv'
    BY <1>4 DEF vars, StagingInv, TypeOK, OpenedInv
  <2>2. /\ WrittenInv' /\ PendingInv' /\ RecordedInv'
        /\ RowInv' /\ RowsHaveObjects'
    BY <1>4, <2>1, BatchesAndRowsStep
       DEF vars, StagingInv, RecordedInv, RecordedInTime
  <2>3. CleanupInv' /\ SweepMissesNothing'
    BY <1>4 DEF vars, StagingInv, CleanupInv, SweepMissesNothing, Unwritten, Referenced
  <2> QED BY <2>1, <2>2, <2>3 DEF StagingInv
<1> QED BY <1>1, <1>2, <1>3, <1>4, ParentStepInv, CrashStep, TickStep DEF Next

\* The inductive invariant over rows, objects, uploads and the cleanup.
THEOREM StagingInvariant == Spec => []StagingInv
BY StagingInitInv, StagingStep, PTL DEF Spec

\* No live row misses its object, unless its upload was told that its commit
\* failed: for every number of uploads, retries, crashes and cleanups, as long
\* as no transaction outlasts what the grace leaves over a batch's lifetime.
THEOREM NoRowLosesItsObject == Spec => []RowsHaveObjects
<1>1. StagingInv => RowsHaveObjects
  BY DEF StagingInv
<1> QED BY <1>1, StagingInvariant, PTL

\* A sweep of the store looks up or removes every orphan past its grace.
THEOREM SweepsAreComplete == Spec => []SweepMissesNothing
<1>1. StagingInv => SweepMissesNothing
  BY DEF StagingInv
<1> QED BY <1>1, StagingInvariant, PTL

LEMMA SameRowsSameManifest ==
  ASSUME NEW b \in Batch,
         \A f \in File : row[f] # None /\ row[f].batch = b => row'[f] = row[f],
         \A f \in File : row'[f] # None /\ row'[f].batch = b => row'[f] = row[f]
  PROVE  Manifest(b)' = Manifest(b)
<1>1. RowsOf(b)' = RowsOf(b)
  BY DEF RowsOf
<1>2. \A f \in RowsOf(b) : row'[f] = row[f]
  BY DEF RowsOf
<1> QED BY <1>1, <1>2 DEF Manifest

LEMMA FinalizedStep ==
  ASSUME StagingInv, [Next]_vars, NEW b \in Batch
  PROVE  FinalizedKept(b)
<1> USE DEF StagingInv
<1> SUFFICES ASSUME batch'[b].state = "FINALIZED"
             PROVE  \/ batch[b].state = "FINALIZED" /\ Manifest(b)' = Manifest(b)
                    \/ \E p \in Parent :
                         /\ parent[p] # None
                         /\ parent[p].batch = b
                         /\ parent[p].unread = {}
                         /\ Manifest(b)' = parent[p].manifest
  BY DEF FinalizedKept
<1>1. CASE UNCHANGED <<batch, row>>
  BY <1>1, SameRowsSameManifest
<1>2. ASSUME NEW u \in Upload, Commit(u) \/ CommitUnreported(u)
      PROVE  batch[b].state = "FINALIZED" /\ Manifest(b)' = Manifest(b)
  <2>1. /\ Recorded(u) /\ upload[u] # None /\ batch' = batch
        /\ row' = [row EXCEPT ![upload[u].file] = RowOf(u)]
    BY <1>2 DEF Commit, CommitUnreported, Committed, Recorded
  <2>2. row[upload[u].file] = None /\ upload[u].batch # b
    BY <2>1 DEF RecordedInv, RecordedInTime
  <2>3. upload[u].file \in File /\ RowOf(u).batch # b
    BY <2>1, <2>2, UploadFields DEF RowOf
  <2>4. \A f \in File : f # upload[u].file => row'[f] = row[f]
    BY <2>1, <2>3 DEF TypeOK
  <2>5. row'[upload[u].file] = RowOf(u)
    BY <2>1, <2>3 DEF TypeOK
  <2> QED BY <2>1, <2>2, <2>3, <2>4, <2>5, SameRowsSameManifest
<1>3. ASSUME NEW c \in Batch,
             RemoveBatch(c) \/ \E f \in File : RemoveFile(c, f)
      PROVE  batch[b].state = "FINALIZED" /\ Manifest(b)' = Manifest(b)
  <2>1. PICK files \in SUBSET RowsOf(c) : Delete(files)
    BY <1>3 DEF RemoveBatch, RemoveFile
  <2>2. Staged(c) /\ (batch' = batch \/ batch' = [batch EXCEPT ![c].state = "deleted"])
    BY <1>3 DEF RemoveBatch, RemoveFile
  <2>3. b # c /\ batch'[b] = batch[b]
    BY <2>2 DEF TypeOK, Staged
  <2>4. \A f \in File : row'[f] = IF f \in files THEN None ELSE row[f]
    BY <2>1 DEF Delete
  <2> QED BY <2>1, <2>3, <2>4, SameRowsSameManifest DEF RowsOf
<1>4. ASSUME NEW c \in Batch, CountBatches(c) \/ OpenBatch(c) \/ OpenFails(c)
      PROVE  batch[b].state = "FINALIZED" /\ Manifest(b)' = Manifest(b)
  <2>1. row' = row /\ batch'[b].state = batch[b].state
    BY <1>4 DEF CountBatches, OpenBatch, OpenFails, TypeOK
  <2> QED BY <2>1, SameRowsSameManifest
<1>5. CASE ExpireBatches
  <2>1. /\ \A c \in ExpiredBatches : batch[c].state = "STAGED"
        /\ batch'[b] = IF b \in ExpiredBatches
                       THEN [batch[b] EXCEPT !.state = "deleted"] ELSE batch[b]
        /\ \A f \in File :
             row'[f] = IF f \in UNION {RowsOf(c) : c \in ExpiredBatches}
                       THEN None ELSE row[f]
    BY <1>5 DEF ExpireBatches, ExpiredBatches, InState, Delete
  <2>2. batch'[b] = batch[b] /\ b \notin ExpiredBatches
    <3>1. CASE b \in ExpiredBatches
      <4>1. batch'[b] = [state |-> "deleted", opened |-> batch[b].opened]
        BY <2>1, <3>1, BatchInState DEF BatchState
      <4> QED BY <4>1
    <3>2. CASE b \notin ExpiredBatches
      BY <2>1, <3>2
    <3> QED BY <3>1, <3>2
  <2>3. \A f \in File : row[f] # None /\ row[f].batch = b => row'[f] = row[f]
    BY <2>1, <2>2 DEF RowsOf
  <2>4. \A f \in File : row'[f] # None => row'[f] = row[f]
    BY <2>1
  <2> QED BY <2>2, <2>3, <2>4, SameRowsSameManifest
<1>6. ASSUME NEW p \in Parent, Finalize(p)
      PROVE  \/ batch[b].state = "FINALIZED" /\ Manifest(b)' = Manifest(b)
             \/ /\ parent[p] # None /\ parent[p].batch = b
                /\ parent[p].unread = {} /\ Manifest(b)' = parent[p].manifest
  <2>1. /\ row' = row /\ parent[p] # None /\ parent[p].unread = {}
        /\ Manifest(parent[p].batch) = parent[p].manifest
        /\ batch' = [batch EXCEPT ![parent[p].batch].state = "FINALIZED"]
    BY <1>6 DEF Finalize
  <2>2. Manifest(b)' = Manifest(b)
    BY <2>1, SameRowsSameManifest
  <2>3. b # parent[p].batch => batch'[b] = batch[b]
    BY <2>1 DEF TypeOK
  <2> QED BY <2>1, <2>2, <2>3
<1>7. CASE UNCHANGED vars
  BY <1>1, <1>7 DEF vars
<1>8. ASSUME NEW u \in Upload, UploadStep(u)
      PROVE  UNCHANGED <<batch, row>> \/ Commit(u) \/ CommitUnreported(u)
  BY <1>8 DEF UploadStep, Admit, Reject, Write, Record, Found, Fail, Discard
<1>9. ASSUME NEW p \in Parent, ParentStep(p)
      PROVE  UNCHANGED <<batch, row>> \/ Finalize(p)
  BY <1>9 DEF ParentStep, PrepareFiles, ReadObject, ParentFails
<1>10. CleanupStep => UNCHANGED <<batch, row>> \/ ExpireBatches
  BY DEF CleanupStep, TakeInventory, LookUp, RemoveOrphan, EndCleanup
<1>11. Crash \/ Tick => UNCHANGED <<batch, row>>
  BY DEF Crash, Tick
<1> QED BY <1>1, <1>2, <1>3, <1>4, <1>5, <1>6, <1>7, <1>8, <1>9, <1>10, <1>11
        DEF Next, BatchStep

\* A finalized batch holds exactly the files its parent read, from then on.
THEOREM FinalizedStaysAsRead == Spec => FinalizedAsRead
<1>1. StagingInv /\ [Next]_vars => [\A b \in Batch : FinalizedKept(b)]_vars
  BY FinalizedStep
<1> QED BY <1>1, StagingInvariant, PTL DEF Spec, FinalizedAsRead

--------------------------------------------------------------------------------
(* Admission.                                                               *)

\* One admission at a time has counted, and what it counted is still below
\* the limits.
AdmissionInv ==
  /\ \A b, c \in InState("admitting") : b = c
  /\ Cardinality(InState("STAGED")) <= MaxStaged
  /\ Cardinality(OpenedWithinHour) <= MaxHourly
  /\ InState("admitting") # {} =>
       /\ Cardinality(InState("STAGED")) < MaxStaged
       /\ Cardinality(OpenedWithinHour) < MaxHourly

LEMMA BatchSetsAreFinite ==
  /\ \A S \in SUBSET Batch : IsFiniteSet(S) /\ Cardinality(S) \in Nat
  /\ \A T \in SUBSET Batch : \A S \in SUBSET T : Cardinality(S) <= Cardinality(T)
  /\ MaxStaged \in Nat /\ MaxHourly \in Nat
BY LimitAssumption, FS_Subset, FS_CardinalityType

\* Batches leave the counted sets, or none is admitted.
LEMMA FewerBatches ==
  ASSUME AdmissionInv,
         InState("admitting")' \subseteq InState("admitting"),
         InState("STAGED")' \subseteq InState("STAGED"),
         OpenedWithinHour' \subseteq OpenedWithinHour
  PROVE  AdmissionInv'
<1> DEFINE staged == InState("STAGED")
<1> DEFINE hourly == OpenedWithinHour
<1>1. staged \in SUBSET Batch /\ hourly \in SUBSET Batch
  BY DEF InState, OpenedWithinHour
<1>2. staged' \in SUBSET staged /\ hourly' \in SUBSET hourly
  OBVIOUS
<1>3. Cardinality(staged') <= Cardinality(staged)
      /\ Cardinality(hourly') <= Cardinality(hourly)
  BY <1>1, <1>2, BatchSetsAreFinite
<1>4. {Cardinality(staged), Cardinality(hourly), Cardinality(staged'),
       Cardinality(hourly')} \subseteq Nat
  BY <1>1, <1>2, BatchSetsAreFinite
<1>5. AdmissionInv /\ MaxStaged \in Nat /\ MaxHourly \in Nat
  BY BatchSetsAreFinite
<1>6. Cardinality(staged)' = Cardinality(staged')
      /\ Cardinality(hourly)' = Cardinality(hourly')
  OBVIOUS
<1> QED BY <1>3, <1>4, <1>5, <1>6 DEF AdmissionInv

LEMMA CountStep ==
  ASSUME TypeOK, AdmissionInv, NEW b \in Batch, CountBatches(b)
  PROVE  AdmissionInv'
<1>1. batch' = [batch EXCEPT ![b].state = "admitting"] /\ clock' = clock
      /\ batch[b].state = "none" /\ InState("admitting") = {}
  BY DEF CountBatches, AdmissionFree
<1>2. InState("STAGED")' = InState("STAGED")
      /\ InState("admitting")' = {b}
      /\ OpenedWithinHour' = OpenedWithinHour
  BY <1>1 DEF TypeOK, InState, OpenedWithinHour
<1> QED BY <1>2 DEF AdmissionInv, CountBatches

LEMMA OpenStep ==
  ASSUME TypeOK, AdmissionInv, NEW b \in Batch, OpenBatch(b)
  PROVE  AdmissionInv'
<1> DEFINE staged == InState("STAGED")
<1> DEFINE hourly == OpenedWithinHour
<1>1. batch' = [batch EXCEPT ![b] = [state |-> "STAGED", opened |-> clock]]
      /\ clock' = clock /\ b \in InState("admitting")
  BY DEF OpenBatch, InState
<1>2. InState("admitting")' = {}
  BY <1>1 DEF AdmissionInv, TypeOK, InState
<1>3. staged' \in SUBSET (staged \union {b}) /\ hourly' \in SUBSET (hourly \union {b})
  BY <1>1 DEF TypeOK, InState, OpenedWithinHour
<1>4. /\ staged \in SUBSET Batch /\ hourly \in SUBSET Batch
      /\ staged \union {b} \in SUBSET Batch /\ hourly \union {b} \in SUBSET Batch
  BY DEF InState, OpenedWithinHour
<1>5. /\ Cardinality(staged \union {b}) <= Cardinality(staged) + 1
      /\ Cardinality(hourly \union {b}) <= Cardinality(hourly) + 1
  BY <1>4, BatchSetsAreFinite, FS_AddElement
<1>6. Cardinality(staged') <= Cardinality(staged \union {b})
      /\ Cardinality(hourly') <= Cardinality(hourly \union {b})
  BY <1>3, <1>4, BatchSetsAreFinite
<1>7. {Cardinality(staged), Cardinality(hourly), Cardinality(staged'),
       Cardinality(hourly'), Cardinality(staged \union {b}),
       Cardinality(hourly \union {b}), MaxStaged, MaxHourly} \subseteq Nat
  <2>1. staged' \in SUBSET Batch /\ hourly' \in SUBSET Batch
    BY <1>3, <1>4
  <2> QED BY <1>4, <2>1, BatchSetsAreFinite
<1>8. Cardinality(staged) < MaxStaged /\ Cardinality(hourly) < MaxHourly
  BY <1>1 DEF AdmissionInv
<1>9. Cardinality(staged') <= MaxStaged /\ Cardinality(hourly') <= MaxHourly
  BY <1>5, <1>6, <1>7, <1>8
<1>10. Cardinality(staged)' = Cardinality(staged')
       /\ Cardinality(hourly)' = Cardinality(hourly')
  OBVIOUS
<1> QED BY <1>2, <1>9, <1>10 DEF AdmissionInv

LEMMA AdmissionKept ==
  ASSUME StagingInv, AdmissionInv, [Next]_vars
  PROVE  AdmissionInv'
<1> USE DEF StagingInv
<1>1. ASSUME clock' = clock \/ clock' = clock + 1,
             \A b \in Batch :
               /\ batch'[b].opened = batch[b].opened
               /\ \/ batch'[b].state = batch[b].state
                  \/ batch'[b].state \notin {"admitting", "STAGED"}
      PROVE  AdmissionInv'
  <2>1. InState("admitting")' \subseteq InState("admitting")
        /\ InState("STAGED")' \subseteq InState("STAGED")
    BY <1>1 DEF InState
  <2>2. OpenedWithinHour' \subseteq OpenedWithinHour
    <3> SUFFICES ASSUME NEW b \in Batch, batch[b].opened # None,
                        batch[b].opened + Hour > clock'
                 PROVE  batch[b].opened + Hour > clock
      BY <1>1 DEF OpenedWithinHour
    <3>1. batch[b].opened \in Nat /\ clock \in Nat /\ Hour \in Nat
      BY BatchFields, TimingAssumption DEF TypeOK, BatchState
    <3> QED BY <1>1, <3>1
  <2> QED BY <2>1, <2>2, FewerBatches
<1>2. ASSUME NEW b \in Batch, BatchStep(b) PROVE AdmissionInv'
  <2>1. CASE OpenFails(b)
    <3>1. batch'[b] = [state |-> "none", opened |-> batch[b].opened]
      BY <2>1, BatchInState DEF OpenFails, BatchState, TypeOK
    <3>2. \A c \in Batch \ {b} : batch'[c] = batch[c]
      BY <2>1 DEF OpenFails, TypeOK
    <3> QED BY <1>1, <2>1, <3>1, <3>2 DEF OpenFails
  <2>2. CASE RemoveBatch(b)
    <3>1. batch'[b] = [state |-> "deleted", opened |-> batch[b].opened]
      BY <2>2, BatchInState DEF RemoveBatch, BatchState, TypeOK
    <3>2. \A c \in Batch \ {b} : batch'[c] = batch[c]
      BY <2>2 DEF RemoveBatch, TypeOK
    <3> QED BY <1>1, <2>2, <3>1, <3>2 DEF RemoveBatch
  <2>3. CASE \E f \in File : RemoveFile(b, f)
    BY <1>1, <2>3 DEF RemoveFile
  <2> QED BY <1>2, <2>1, <2>2, <2>3, CountStep, OpenStep DEF BatchStep
<1>3. ASSUME NEW p \in Parent, ParentStep(p) PROVE AdmissionInv'
  BY <1>1, <1>3
     DEF ParentStep, PrepareFiles, ReadObject, Finalize, ParentFails, TypeOK
<1>4. CASE ExpireBatches
  <2>1. \A b \in Batch :
          batch'[b] = IF b \in ExpiredBatches
                      THEN [batch[b] EXCEPT !.state = "deleted"] ELSE batch[b]
    BY <1>4 DEF ExpireBatches
  <2>2. \A b \in Batch :
          [batch[b] EXCEPT !.state = "deleted"]
            = [state |-> "deleted", opened |-> batch[b].opened]
    BY BatchInState DEF BatchState
  <2> QED BY <1>1, <1>4, <2>1, <2>2 DEF ExpireBatches
<1>5. ASSUME NEW u \in Upload, UploadStep(u) PROVE batch' = batch /\ clock' = clock
  BY <1>5 DEF UploadStep, Admit, Reject, Write, Record, Found, Commit,
              CommitUnreported, Fail, Discard
<1>6. ASSUME CleanupStep, ~ExpireBatches PROVE batch' = batch /\ clock' = clock
  BY <1>6 DEF CleanupStep, TakeInventory, LookUp, RemoveOrphan, EndCleanup
<1>7. Crash \/ Tick \/ UNCHANGED vars =>
        batch' = batch /\ (clock' = clock \/ clock' = clock + 1)
  BY DEF Crash, Tick, vars
<1> QED BY <1>1, <1>2, <1>3, <1>4, <1>5, <1>6, <1>7 DEF Next

\* Admissions that count at the same time never exceed the limits together.
THEOREM AdmissionsStayWithinLimits == Spec => []AdmissionLimits
<1>1. Init => AdmissionInv
  <2> SUFFICES ASSUME Init PROVE AdmissionInv
    OBVIOUS
  <2>1. InState("admitting") = {} /\ InState("STAGED") = {} /\ OpenedWithinHour = {}
    BY DEF Init, InState, OpenedWithinHour
  <2> QED BY <2>1, FS_EmptySet, BatchSetsAreFinite DEF AdmissionInv
<1>2. AdmissionInv => AdmissionLimits
  BY DEF AdmissionInv, AdmissionLimits
<1>3. StagingInv /\ AdmissionInv /\ [Next]_vars => AdmissionInv'
  BY AdmissionKept
<1> QED BY <1>1, <1>2, <1>3, StagingInvariant, PTL DEF Spec
================================================================================
