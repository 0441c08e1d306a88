--------------------------- MODULE AttachmentStaging ---------------------------
(***************************************************************************)
(* Attachments of one Organization: admission of batches, uploads, removal *)
(* of staged files, finalization by a parent, and the cleanup command.     *)
(*                                                                         *)
(* The database and the object store share no transaction.  An upload      *)
(* writes its object under a fresh key, then records it in a transaction   *)
(* that locks the batch; when that transaction is reported to have failed, *)
(* or found the file recorded already, the upload removes the object it    *)
(* wrote, if it lives to do so.  Removing a file deletes its row only.     *)
(* What is left in the store without a row is collected by the cleanup,    *)
(* which spares objects younger than Grace.                                *)
(*                                                                         *)
(* An upload's storage key is as fresh as the upload, so the upload stands *)
(* for its key and its object.  A parent is a request, note or             *)
(* communication whose creation finalizes the batch.                       *)
(***************************************************************************)
EXTENDS Naturals, FiniteSets

CONSTANTS
  Upload,         \* calls of upload(), and the objects they write
  File,           \* file identities chosen by clients
  Content,        \* what a file contains after processing
  Batch,          \* attachment batches
  Parent,         \* creations that finalize a batch
  None,           \* no row, no object, no time
  Lifetime,       \* a batch is open to its claim for this long
  Grace,          \* the cleanup spares objects younger than this
  Hour,           \* the window of the admission count
  MaxCommit,      \* a transaction that recorded a file ends within this time
  MaxStaged,      \* staged batches of the Organization
  MaxHourly,      \* batches opened within Hour
  MaxFiles,       \* files of a batch
  MaxProcessing,  \* uploads in one process
  MaxClock        \* bound on time

\* The commit's duration is not bounded by the code; the Grace left over
\* after a batch's Lifetime is the time the cleanup allows it.
ASSUME TimingAssumption ==
  /\ Lifetime \in Nat \ {0}
  /\ MaxCommit \in Nat \ {0}
  /\ Grace \in Nat
  /\ Hour \in Nat
  /\ Lifetime + MaxCommit <= Grace

ASSUME LimitAssumption ==
  /\ {MaxStaged, MaxHourly, MaxFiles, MaxProcessing, MaxClock} \subseteq Nat
  /\ IsFiniteSet(Batch)
  /\ IsFiniteSet(File)

Row == [key : Upload, batch : Batch, content : Content]

\* unreported, disowned: the commit happened and was reported as a failure.
UploadPhase == {"admitted", "written", "recorded", "surplus", "failing",
                "unreported", "disowned", "done"}

UploadRow == [phase : UploadPhase, file : File, batch : Batch,
              content : Content, since : Nat]

ParentRow == [phase : {"reading", "done"}, batch : Batch,
              manifest : SUBSET Upload, unread : SUBSET Upload]

ASSUME NoneAssumption ==
  /\ None \notin Row
  /\ None \notin Nat
  /\ None \notin UploadRow
  /\ None \notin ParentRow
  /\ None \notin Upload

VARIABLES
  clock,    \* the time all parties read
  batch,    \* batch[b]: the batch row, and when its admission was audited
  row,      \* row[f]: the committed attachment row of the file
  object,   \* object[u]: when the upload's object was modified last
  upload,   \* upload[u]: where the call is and what it was asked
  parent,   \* parent[p]: where the creation is and what it verified
  cleanup   \* the cleanup command

vars == <<clock, batch, row, object, upload, parent, cleanup>>

BatchState == {"none", "admitting", "STAGED", "FINALIZED", "deleted"}

InFlight(u) ==
  /\ upload[u] # None
  /\ upload[u].phase \in {"admitted", "written", "recorded", "surplus",
                          "failing", "unreported"}

\* Its second transaction is open and has inserted the row.
Recorded(u) == upload[u] # None /\ upload[u].phase = "recorded"

BatchLocked(b) == \E u \in Upload : Recorded(u) /\ upload[u].batch = b

Expired(b) == batch[b].opened + Lifetime <= clock

\* What batch() requires of the row it has locked.
Staged(b) ==
  /\ batch[b].state = "STAGED"
  /\ ~Expired(b)
  /\ ~BatchLocked(b)

RowsOf(b) == {f \in File : row[f] # None /\ row[f].batch = b}

Referenced(u) == \E f \in File : row[f] # None /\ row[f].key = u

\* The rows a parent may see change: which file has which object.
Manifest(b) == {row[f].key : f \in RowsOf(b)}

Idle == [phase |-> "idle", now |-> 0, old |-> {}, condemned |-> None]

Init ==
  /\ clock = 0
  /\ batch = [b \in Batch |-> [state |-> "none", opened |-> None]]
  /\ row = [f \in File |-> None]
  /\ object = [u \in Upload |-> None]
  /\ upload = [u \in Upload |-> None]
  /\ parent = [p \in Parent |-> None]
  /\ cleanup = Idle

(***************************************************************************)
(* Admission of a batch: start().                                          *)
(***************************************************************************)

InState(s) == {b \in Batch : batch[b].state = s}

OpenedWithinHour ==
  {b \in Batch : batch[b].opened # None /\ batch[b].opened + Hour > clock}

\* Mutant: admissions are not serialized.
Unserialized == TRUE

\* The advisory lock of the Organization, held until the insert commits.
AdmissionFree == InState("admitting") = {}

CountBatches(b) ==
  /\ batch[b].state = "none"
  /\ AdmissionFree
  /\ Cardinality(InState("STAGED")) < MaxStaged
  /\ Cardinality(OpenedWithinHour) < MaxHourly
  /\ batch' = [batch EXCEPT ![b].state = "admitting"]
  /\ UNCHANGED <<clock, row, object, upload, parent, cleanup>>

OpenBatch(b) ==
  /\ batch[b].state = "admitting"
  /\ batch' = [batch EXCEPT ![b] = [state |-> "STAGED", opened |-> clock]]
  /\ UNCHANGED <<clock, row, object, upload, parent, cleanup>>

OpenFails(b) ==
  /\ batch[b].state = "admitting"
  /\ batch' = [batch EXCEPT ![b].state = "none"]
  /\ UNCHANGED <<clock, row, object, upload, parent, cleanup>>

(***************************************************************************)
(* An upload.                                                              *)
(***************************************************************************)

Enter(u, phase) == upload' = [upload EXCEPT ![u].phase = phase]

\* The first transaction of upload().
Admit(u, f, b, c) ==
  /\ upload[u] = None
  /\ Cardinality({v \in Upload : InFlight(v)}) < MaxProcessing
  /\ Staged(b)
  /\ upload' = [upload EXCEPT ![u] = [phase |-> "admitted", file |-> f,
                  batch |-> b, content |-> c, since |-> 0]]
  /\ UNCHANGED <<clock, batch, row, object, parent, cleanup>>

\* Processing, the scanner or the store refuses; nothing stays in the store.
Reject(u) ==
  /\ upload[u] # None
  /\ upload[u].phase = "admitted"
  /\ Enter(u, "done")
  /\ UNCHANGED <<clock, batch, row, object, parent, cleanup>>

Write(u) ==
  /\ upload[u] # None
  /\ upload[u].phase = "admitted"
  /\ object' = [object EXCEPT ![u] = clock]
  /\ Enter(u, "written")
  /\ UNCHANGED <<clock, batch, row, parent, cleanup>>

\* Another transaction has inserted a row of this file and not ended yet.
FilePending(f) == \E v \in Upload : Recorded(v) /\ upload[v].file = f

\* The second transaction: the batch is locked and the row inserted.
Record(u) ==
  /\ upload[u] # None
  /\ upload[u].phase = "written"
  /\ LET f == upload[u].file
         b == upload[u].batch
     IN /\ Staged(b)
        /\ row[f] = None
        /\ ~FilePending(f)
        /\ Cardinality(RowsOf(b)) < MaxFiles
  /\ upload' = [upload EXCEPT ![u].phase = "recorded", ![u].since = clock]
  /\ UNCHANGED <<clock, batch, row, object, parent, cleanup>>

RowOf(u) ==
  [key |-> u, batch |-> upload[u].batch, content |-> upload[u].content]

\* The file is recorded already, identical: the answer is the prior row.
Found(u) ==
  /\ upload[u] # None
  /\ upload[u].phase = "written"
  /\ LET prior == row[upload[u].file]
     IN /\ Staged(upload[u].batch)
        /\ prior # None
        /\ prior.batch = upload[u].batch
        /\ prior.content = upload[u].content
  /\ Enter(u, "surplus")
  /\ UNCHANGED <<clock, batch, row, object, parent, cleanup>>

Committed(u) == row' = [row EXCEPT ![upload[u].file] = RowOf(u)]

Commit(u) ==
  /\ Recorded(u)
  /\ Committed(u)
  /\ Enter(u, "done")
  /\ UNCHANGED <<clock, batch, object, parent, cleanup>>

\* The database commits and the connection breaks before it says so.
CommitUnreported(u) ==
  /\ Recorded(u)
  /\ Committed(u)
  /\ Enter(u, "unreported")
  /\ UNCHANGED <<clock, batch, object, parent, cleanup>>

\* The batch is gone, expired or full, the file is another's or differs, or
\* the transaction fails: it rolls back.
Fail(u) ==
  /\ upload[u] # None
  /\ upload[u].phase \in {"written", "recorded"}
  /\ Enter(u, "failing")
  /\ UNCHANGED <<clock, batch, row, object, parent, cleanup>>

\* The object written for nothing is removed; a failure to remove it is ignored.
Discard(u) ==
  /\ upload[u] # None
  /\ upload[u].phase \in {"surplus", "failing", "unreported"}
  /\ \/ object' = [object EXCEPT ![u] = None]
     \/ UNCHANGED object
  /\ Enter(u, IF upload[u].phase = "unreported" THEN "disowned" ELSE "done")
  /\ UNCHANGED <<clock, batch, row, parent, cleanup>>

\* The process ends; what its uploads had not committed is rolled back.
Crash ==
  /\ \E u \in Upload : InFlight(u)
  /\ upload' = [u \in Upload |->
                  IF InFlight(u) THEN [upload[u] EXCEPT !.phase = "done"]
                  ELSE upload[u]]
  /\ UNCHANGED <<clock, batch, row, object, parent, cleanup>>

(***************************************************************************)
(* Removal and finalization.                                               *)
(***************************************************************************)

\* Rows go, objects stay for the cleanup.
Delete(files) == row' = [f \in File |-> IF f \in files THEN None ELSE row[f]]

RemoveFile(b, f) ==
  /\ Staged(b)
  /\ f \in RowsOf(b)
  /\ Delete({f})
  /\ UNCHANGED <<clock, batch, object, upload, parent, cleanup>>

RemoveBatch(b) ==
  /\ Staged(b)
  /\ Delete(RowsOf(b))
  /\ batch' = [batch EXCEPT ![b].state = "deleted"]
  /\ UNCHANGED <<clock, object, upload, parent, cleanup>>

\* prepareFiles(): the manifest is read in a transaction of its own.
PrepareFiles(p, b) ==
  /\ parent[p] = None
  /\ Staged(b)
  /\ RowsOf(b) # {}
  /\ parent' = [parent EXCEPT ![p] = [phase |-> "reading", batch |-> b,
                  manifest |-> Manifest(b), unread |-> Manifest(b)]]
  /\ UNCHANGED <<clock, batch, row, object, upload, cleanup>>

\* An object is read and compared with its row; a missing one ends the call.
ReadObject(p, u) ==
  /\ parent[p] # None
  /\ parent[p].phase = "reading"
  /\ u \in parent[p].unread
  /\ object[u] # None
  /\ parent' = [parent EXCEPT ![p].unread = @ \ {u}]
  /\ UNCHANGED <<clock, batch, row, object, upload, cleanup>>

\* Mutant: the batch is finalized without comparing the manifest again.
FinalizeUnchecked(p) ==
  /\ parent[p] # None
  /\ parent[p].phase = "reading"
  /\ parent[p].unread = {}
  /\ Staged(parent[p].batch)
  /\ batch' = [batch EXCEPT ![parent[p].batch].state = "FINALIZED"]
  /\ parent' = [parent EXCEPT ![p].phase = "done"]
  /\ UNCHANGED <<clock, row, object, upload, cleanup>>

\* prepare() and finalize() in the parent's transaction.
Finalize(p) ==
  /\ parent[p] # None
  /\ parent[p].phase = "reading"
  /\ parent[p].unread = {}
  /\ Staged(parent[p].batch)
  /\ Manifest(parent[p].batch) = parent[p].manifest
  /\ batch' = [batch EXCEPT ![parent[p].batch].state = "FINALIZED"]
  /\ parent' = [parent EXCEPT ![p].phase = "done"]
  /\ UNCHANGED <<clock, row, object, upload, cleanup>>

ParentFails(p) ==
  /\ parent[p] # None
  /\ parent[p].phase = "reading"
  /\ parent' = [parent EXCEPT ![p].phase = "done"]
  /\ UNCHANGED <<clock, batch, row, object, upload, cleanup>>

(***************************************************************************)
(* The cleanup command, with the time it started at.                       *)
(***************************************************************************)

\* FOR UPDATE SKIP LOCKED over the staged batches that have expired.
ExpiredBatches ==
  {b \in InState("STAGED") : Expired(b) /\ ~BatchLocked(b)}

ExpireBatches ==
  /\ cleanup.phase = "idle"
  /\ cleanup' = [cleanup EXCEPT !.phase = "listing", !.now = clock]
  /\ Delete(UNION {RowsOf(b) : b \in ExpiredBatches})
  /\ batch' = [b \in Batch |->
                 IF b \in ExpiredBatches
                 THEN [batch[b] EXCEPT !.state = "deleted"] ELSE batch[b]]
  /\ UNCHANGED <<clock, object, upload, parent>>

\* Mutants: the grace is a batch's lifetime; it must be exceeded.
OldAsExpired(u) == object[u] # None /\ object[u] + Lifetime <= cleanup.now
OldStrictly(u) == object[u] # None /\ object[u] + Grace < cleanup.now

Old(u) == object[u] # None /\ object[u] + Grace <= cleanup.now

TakeInventory ==
  /\ cleanup.phase = "listing"
  /\ cleanup' = [cleanup EXCEPT !.phase = "sweeping",
                                !.old = {u \in Upload : Old(u)}]
  /\ UNCHANGED <<clock, batch, row, object, upload, parent>>

LookUp(u) ==
  /\ cleanup.phase = "sweeping"
  /\ cleanup.condemned = None
  /\ u \in cleanup.old
  /\ cleanup' = IF Referenced(u) THEN [cleanup EXCEPT !.old = @ \ {u}]
                ELSE [cleanup EXCEPT !.condemned = u]
  /\ UNCHANGED <<clock, batch, row, object, upload, parent>>

RemoveOrphan ==
  /\ cleanup.condemned # None
  /\ object' = [object EXCEPT ![cleanup.condemned] = None]
  /\ cleanup' = [cleanup EXCEPT !.old = @ \ {cleanup.condemned},
                                !.condemned = None]
  /\ UNCHANGED <<clock, batch, row, upload, parent>>

\* The sweep is finished, or the command fails where it is.
EndCleanup ==
  /\ cleanup.phase # "idle"
  /\ cleanup' = Idle
  /\ UNCHANGED <<clock, batch, row, object, upload, parent>>

\* Time passes, and no transaction stays open past MaxCommit.
Tick ==
  /\ clock < MaxClock
  /\ \A u \in Upload : Recorded(u) => clock < upload[u].since + MaxCommit
  /\ clock' = clock + 1
  /\ UNCHANGED <<batch, row, object, upload, parent, cleanup>>

UploadStep(u) ==
  \/ \E f \in File, b \in Batch, c \in Content : Admit(u, f, b, c)
  \/ Reject(u) \/ Write(u) \/ Record(u) \/ Found(u)
  \/ Commit(u) \/ CommitUnreported(u) \/ Fail(u) \/ Discard(u)

BatchStep(b) ==
  \/ CountBatches(b) \/ OpenBatch(b) \/ OpenFails(b)
  \/ \E f \in File : RemoveFile(b, f)
  \/ RemoveBatch(b)

ParentStep(p) ==
  \/ \E b \in Batch : PrepareFiles(p, b)
  \/ \E u \in Upload : ReadObject(p, u)
  \/ Finalize(p) \/ ParentFails(p)

CleanupStep ==
  \/ ExpireBatches \/ TakeInventory
  \/ \E u \in Upload : LookUp(u)
  \/ RemoveOrphan \/ EndCleanup

Next ==
  \/ \E u \in Upload : UploadStep(u)
  \/ \E b \in Batch : BatchStep(b)
  \/ \E p \in Parent : ParentStep(p)
  \/ CleanupStep
  \/ Crash
  \/ Tick

Spec == Init /\ [][Next]_vars

(***************************************************************************)
(* Properties.                                                             *)
(***************************************************************************)

\* Every variable stays in its type; a batch that was opened has its time.
TypeOK ==
  /\ clock \in Nat
  /\ batch \in [Batch -> [state : {"none", "admitting"}, opened : {None}] \union
                         [state : {"STAGED", "FINALIZED", "deleted"}, opened : Nat]]
  /\ row \in [File -> Row \union {None}]
  /\ object \in [Upload -> Nat \union {None}]
  /\ upload \in [Upload -> UploadRow \union {None}]
  /\ parent \in [Parent -> ParentRow \union {None}]
  /\ cleanup \in [phase : {"idle", "listing", "sweeping"}, now : Nat,
                  old : SUBSET Upload, condemned : Upload \union {None}]

\* No live row misses its object, whoever removes objects: a failed upload, a
\* repeated one, or a cleanup that lists the store while uploads are between
\* their write and their commit.  Only an upload that was told its commit
\* failed, when it had not, removes an object in use.
RowsHaveObjects ==
  \A f \in File :
    row[f] # None /\ upload[row[f].key].phase # "disowned"
      => object[row[f].key] # None

\* What a parent finalized has every object it was verified with, as long as
\* the parent lives: no removal, retry or cleanup reaches it.
EvidenceStored ==
  \A f \in File :
    row[f] # None /\ batch[row[f].batch].state = "FINALIZED"
      => object[row[f].key] # None

\* A sweep misses nothing: an object past its grace without a row is still
\* to be looked up or removed, whatever is removed or expires meanwhile.
SweepMissesNothing ==
  cleanup.phase = "sweeping" =>
    \A u \in Upload :
      object[u] # None /\ object[u] + Grace <= cleanup.now /\ ~Referenced(u)
        => u \in cleanup.old

FinalizedKept(b) ==
  batch'[b].state = "FINALIZED" =>
    \/ batch[b].state = "FINALIZED" /\ Manifest(b)' = Manifest(b)
    \/ \E p \in Parent :
         /\ parent[p] # None
         /\ parent[p].batch = b
         /\ parent[p].unread = {}
         /\ Manifest(b)' = parent[p].manifest

\* A finalized batch holds exactly the files its parent read, from then on.
FinalizedAsRead == [][\A b \in Batch : FinalizedKept(b)]_vars

\* Admissions that count at the same time never exceed the limits together.
AdmissionLimits ==
  /\ Cardinality(InState("STAGED")) <= MaxStaged
  /\ Cardinality(OpenedWithinHour) <= MaxHourly
================================================================================
