----------------------- MODULE RequestCorrespondence -----------------------
(***************************************************************************)
(* Internal notes and messages to the requester: the composer in a staff   *)
(* member's browser, which retries a submission whose answer it lost, and  *)
(* the transaction that records an entry once per submission key and gives *)
(* it the files of the attachment batch the submission claims.             *)
(*                                                                         *)
(* The two streams have the same code; a message needs an eligible         *)
(* requester besides. An answer can be lost after the entry is committed   *)
(* and a request given up on can still arrive late, after a retry.         *)
(***************************************************************************)
EXTENDS Naturals, FiniteSets

CONSTANTS
  Authors, Drafts,
  NormalBody,                          \* what a draft is stored as (line ends, outer blanks)
  MaxKeys, MaxBatches, MaxIntents      \* bounds

ASSUME CorrespondenceAssumption ==
  /\ NormalBody \in [Drafts -> Drafts]
  /\ MaxKeys \in Nat /\ MaxBatches \in Nat /\ MaxIntents \in Nat \ {0}

VARIABLES
  stream,       \* which of the two streams this is
  entries,      \* rows: [author, key, body, batch, intent]
  finalizedBy,  \* of each attachment batch, the entry it was finalized for, Staged or Removed
  open,         \* authors still permitted; for a message, also that its requester is eligible
  composer,     \* of each author
  late,         \* requests their composer gave up on before the server saw them
  keysUsed, batchesUsed

correspondenceVars ==
  <<stream, entries, finalizedBy, open, composer, late, keysUsed, batchesUsed>>

Staged == [author |-> "none", key |-> 0]
Removed == [author |-> "removed", key |-> 0]
NoSubmission == [body |-> "none", batch |-> 0, key |-> 0]

(* `intent` counts what its author meant to add: it moves on when draft or files change. *)
Blank(intent) ==
  [phase |-> "editing", draft |-> "none", files |-> FALSE, claim |-> 0,
   submission |-> NoSubmission, intent |-> intent]

BatchOf(c) == IF c.files THEN c.claim ELSE 0

EntryId(e) == [author |-> e.author, key |-> e.key]

CorrespondenceTypeOK ==
  /\ stream \in {"note", "communication"}
  /\ \A e \in entries : /\ e.author \in Authors /\ e.key \in 1..MaxKeys /\ e.body \in Drafts
                        /\ e.batch \in 0..MaxBatches /\ e.intent \in 1..MaxIntents
  /\ \A b \in 1..MaxBatches :
       finalizedBy[b] \in {Staged, Removed} \cup [author : Authors, key : 1..MaxKeys]
  /\ open \in SUBSET Authors
  /\ \A a \in Authors :
       /\ composer[a].phase \in {"editing", "sent", "added", "refused", "denied", "closed"}
       /\ composer[a].claim \in 0..MaxBatches /\ composer[a].intent \in 1..MaxIntents
  /\ keysUsed \in 0..MaxKeys /\ batchesUsed \in 0..MaxBatches

CorrespondenceInit ==
  /\ stream \in {"note", "communication"}
  /\ entries = {} /\ finalizedBy = [b \in 1..MaxBatches |-> Staged]
  /\ open = Authors
  /\ composer = [a \in Authors |-> Blank(1)]
  /\ late = {}
  /\ keysUsed = 0 /\ batchesUsed = 0

-----------------------------------------------------------------------------
(* The composer.                                                           *)

Editing(a) == composer[a].phase = "editing" /\ composer[a].intent < MaxIntents

Edit(a) ==
  /\ Editing(a)
  /\ \E d \in Drafts \ {composer[a].draft} :
       composer' = [composer EXCEPT ![a].draft = d, ![a].intent = @ + 1]
  /\ UNCHANGED <<stream, entries, finalizedBy, open, late, keysUsed, batchesUsed>>

(* Selects and uploads a file: into the batch begun before, or into a new one when there is none
   or the upload finds it finalized. *)
Attach(a) ==
  LET begun == composer[a].claim # 0 /\ finalizedBy[composer[a].claim] = Staged
      b == IF begun THEN composer[a].claim ELSE batchesUsed + 1 IN
  /\ Editing(a) /\ ~(begun /\ composer[a].files) /\ b <= MaxBatches
  /\ batchesUsed' = IF begun THEN batchesUsed ELSE b
  /\ composer' = [composer EXCEPT ![a].files = TRUE, ![a].claim = b, ![a].intent = @ + 1]
  /\ UNCHANGED <<stream, entries, finalizedBy, open, late, keysUsed>>

(* A finalized batch cannot lose a file (404): the browser forgets the batch instead. *)
Detach(a) ==
  /\ Editing(a) /\ composer[a].files
  /\ composer' = [composer EXCEPT ![a].files = FALSE, ![a].intent = @ + 1,
                    ![a].claim = IF finalizedBy[@] = Staged THEN @ ELSE 0]
  /\ UNCHANGED <<stream, entries, finalizedBy, open, late, keysUsed, batchesUsed>>

\* Mutant: compares the batch begun, whether or not it is sent.
RepeatsWithClaim(c) == c.submission.body = c.draft /\ c.submission.batch = c.claim

Repeats(c) == c.submission.body = c.draft /\ c.submission.batch = BatchOf(c)

(* The key of the last attempt serves again while body and batch are what they were then. *)
Send(a) ==
  LET c == composer[a]
      key == IF Repeats(c) THEN c.submission.key ELSE keysUsed + 1 IN
  /\ c.phase = "editing" /\ c.draft # "none" /\ key <= MaxKeys
  /\ keysUsed' = IF Repeats(c) THEN keysUsed ELSE key
  /\ composer' = [composer EXCEPT ![a].phase = "sent",
                    ![a].submission = [body |-> c.draft, batch |-> BatchOf(c), key |-> key]]
  /\ UNCHANGED <<stream, entries, finalizedBy, open, late, batchesUsed>>

Message(a) ==
  [author |-> a, key |-> composer[a].submission.key, batch |-> composer[a].submission.batch,
   body |-> NormalBody[composer[a].submission.body], intent |-> composer[a].intent]

(* "Your draft is retained; try again." The request may be lost, under way or done. *)
GiveUp(a) ==
  /\ composer[a].phase \in {"sent", "added", "refused", "denied"}
  /\ late' \in IF composer[a].phase = "sent" THEN {late, late \cup {Message(a)}} ELSE {late}
  /\ composer' = [composer EXCEPT ![a].phase = "editing"]
  /\ UNCHANGED <<stream, entries, finalizedBy, open, keysUsed, batchesUsed>>

(* The answer: the draft is cleared when the entry was added, and kept when it was refused; when
   the author may not add any more the composer closes. *)
Hear(a) ==
  LET c == composer[a] IN
  /\ \/ c.phase = "added" /\ c.intent < MaxIntents
        /\ composer' = [composer EXCEPT ![a] = Blank(c.intent + 1)]
     \/ c.phase = "refused" /\ composer' = [composer EXCEPT ![a].phase = "editing"]
     \/ c.phase = "denied"
        /\ composer' = [composer EXCEPT ![a] = [Blank(c.intent) EXCEPT !.phase = "closed"]]
  /\ UNCHANGED <<stream, entries, finalizedBy, open, late, keysUsed, batchesUsed>>

(* The author leaves the request: the draft and its key are gone, and files staged for it are
   removed. What was sent may still arrive. *)
Leave(a) ==
  LET c == composer[a] IN
  /\ c.phase # "closed" /\ c # Blank(c.intent) /\ c.intent < MaxIntents
  /\ late' \in IF c.phase = "sent" THEN {late, late \cup {Message(a)}} ELSE {late}
  /\ finalizedBy' = [b \in DOMAIN finalizedBy |->
                       IF b = c.claim /\ finalizedBy[b] = Staged THEN Removed ELSE finalizedBy[b]]
  /\ composer' = [composer EXCEPT ![a] = Blank(c.intent + 1)]
  /\ UNCHANGED <<stream, entries, open, keysUsed, batchesUsed>>

-----------------------------------------------------------------------------
(* The transaction: the outcome for m, and what it writes.                 *)

Prior(m) == {e \in entries : EntryId(e) = EntryId(m)}

(* A finalized batch serves again only for the content it was finalized with. *)
BatchReady(m) ==
  m.batch # 0 /\ finalizedBy[m.batch] \notin {Staged, Removed} =>
    \A e \in entries : EntryId(e) = finalizedBy[m.batch] => e.body = m.body

(* onConflict doNothing, then the prior row: same body and the same batch, or none at all. *)
SameAsPrior(m) == \A e \in Prior(m) : e.body = m.body /\ e.batch = m.batch

\* Mutant: a finalized batch is bound anew.
FinalizesAnew(m) == m.batch # 0 => finalizedBy[m.batch] # Removed

(* Finalizing binds a staged batch; a finalized one has to be this entry's already. *)
Finalizes(m) == m.batch # 0 => finalizedBy[m.batch] \in {Staged, EntryId(m)}

Outcome(m) ==
  IF m.author \notin open THEN "denied"
  ELSE IF BatchReady(m) /\ SameAsPrior(m) /\ Finalizes(m) THEN "added" ELSE "refused"

Write(m) ==
  IF Outcome(m) = "added"
  THEN /\ entries' = IF Prior(m) = {} THEN entries \cup {m} ELSE entries
       /\ finalizedBy' = IF m.batch = 0 THEN finalizedBy
                         ELSE [finalizedBy EXCEPT ![m.batch] = EntryId(m)]
  ELSE UNCHANGED <<entries, finalizedBy>>

Create(a) ==
  /\ composer[a].phase = "sent"
  /\ Write(Message(a))
  /\ composer' = [composer EXCEPT ![a].phase = Outcome(Message(a))]
  /\ UNCHANGED <<stream, open, late, keysUsed, batchesUsed>>

CreateLate ==
  /\ \E m \in late : Write(m) /\ late' = late \ {m}
  /\ UNCHANGED <<stream, open, composer, keysUsed, batchesUsed>>

(* A permission is revoked, or (messages) the requester becomes ineligible for every author. *)
Close ==
  /\ \/ \E a \in open : open' = open \ {a}
     \/ stream = "communication" /\ open # {} /\ open' = {}
  /\ UNCHANGED <<stream, entries, finalizedBy, composer, late, keysUsed, batchesUsed>>

CorrespondenceNext ==
  \/ \E a \in Authors : \/ Edit(a) \/ Attach(a) \/ Detach(a) \/ Send(a)
                        \/ GiveUp(a) \/ Hear(a) \/ Leave(a) \/ Create(a)
  \/ CreateLate
  \/ Close

CorrespondenceSpec == CorrespondenceInit /\ [][CorrespondenceNext]_correspondenceVars

-----------------------------------------------------------------------------
(* However often an author presses the button for the same text and files, whether answers were
   lost or requests arrived late, the stream holds it once (InternalNotes.jsx:168,
   request-note.repository.ts:98). *)
RetriesAddOnce ==
  \A e, f \in entries : e.author = f.author /\ e.intent = f.intent => e = f

(* The files an author sent with an entry are shown with that entry and with no other, also when
   the text was changed after a lost answer while the same files stayed selected
   (attachment.service.ts:650). *)
FilesStayWithTheirEntry ==
  \A e \in entries : e.batch # 0 => finalizedBy[e.batch] = EntryId(e)

(* What the stream holds is what its authors meant: each intended entry once, with its own files. *)
StreamHoldsWhatWasMeant == RetriesAddOnce /\ FilesStayWithTheirEntry
===========================================================================
