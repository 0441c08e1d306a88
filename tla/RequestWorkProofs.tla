--------------------------- MODULE RequestWorkProofs ---------------------------
(***************************************************************************)
(* A request's own work, for any number of authors, staff, entries, links  *)
(* and commands: streams hold each intended entry once with its own files, *)
(* ended links show nothing and are ended by those who saw them, and staff *)
(* act on what they read with the authority they still have.               *)
(***************************************************************************)
EXTENDS RequestHandling, RequestCorrespondence, RequesterTracking, TLAPS

--------------------------------------------------------------------------------
(* Notes and messages: the inductive invariant.                             *)

MessageRow == [author : Authors, key : 1..MaxKeys, batch : 0..MaxBatches, body : Drafts,
               intent : 1..MaxIntents]

ComposerRow == [phase : {"editing", "sent", "added", "refused", "denied", "closed"},
                draft : Drafts \cup {"none"}, files : BOOLEAN, claim : 0..MaxBatches,
                submission : [body : Drafts \cup {"none"}, batch : 0..MaxBatches,
                              key : 0..MaxKeys],
                intent : 1..MaxIntents]

\* What is sent repeats what the composer shows, until the author edits.
ComposerHolds(c) ==
  /\ c.phase \in {"sent", "added", "refused", "denied"} =>
       Repeats(c) /\ c.submission.key # 0 /\ c.submission.body \in Drafts
  /\ c.submission.body # "none" => c.submission.key # 0

\* A message of the composer's present intent: the next attempt uses its key.
MessageHolds(m, c) ==
  /\ m.intent <= c.intent
  /\ m.intent = c.intent /\ c.phase # "closed" => m.key = c.submission.key /\ Repeats(c)

Messages == entries \cup late

OneKeyPerIntent ==
  \A m, n \in Messages : m.author = n.author /\ m.intent = n.intent => m.key = n.key

OneEntryPerKey == \A e, f \in entries : EntryId(e) = EntryId(f) => e = f

CorrespondenceInv ==
  /\ CorrespondenceTypeOK
  /\ Messages \subseteq MessageRow
  /\ composer \in [Authors -> ComposerRow]
  /\ finalizedBy \in [1..MaxBatches -> {Staged, Removed} \cup [author : Authors, key : 1..MaxKeys]]
  /\ \A a \in Authors : ComposerHolds(composer[a])
  /\ \A m \in Messages : MessageHolds(m, composer[m.author])
  /\ OneKeyPerIntent
  /\ OneEntryPerKey
  /\ FilesStayWithTheirEntry

\* The invariant gives what the stream promises.
LEMMA CorrespondenceInvSafe ==
  CorrespondenceInv => CorrespondenceTypeOK /\ StreamHoldsWhatWasMeant
<1> SUFFICES ASSUME CorrespondenceInv PROVE RetriesAddOnce
  BY DEF CorrespondenceInv, StreamHoldsWhatWasMeant
<1> QED BY DEF CorrespondenceInv, OneKeyPerIntent, OneEntryPerKey, RetriesAddOnce, EntryId, Messages

LEMMA CorrespondenceInitInv == CorrespondenceInit => CorrespondenceInv
<1> SUFFICES ASSUME CorrespondenceInit PROVE CorrespondenceInv
  OBVIOUS
<1>1. Messages = {} /\ entries = {}
  BY DEF CorrespondenceInit, Messages
<1>2. /\ Blank(1) \in ComposerRow /\ Blank(1).phase = "editing"
      /\ composer = [a \in Authors |-> Blank(1)]
  BY CorrespondenceAssumption DEF CorrespondenceInit, Blank, NoSubmission, ComposerRow
<1>3. /\ finalizedBy \in [1..MaxBatches -> {Staged, Removed}]
  BY DEF CorrespondenceInit
<1>4. CorrespondenceTypeOK
  BY <1>1, <1>2, <1>3, CorrespondenceAssumption
     DEF CorrespondenceInit, CorrespondenceTypeOK, ComposerRow
<1>5. \A a \in Authors : ComposerHolds(composer[a])
  BY <1>2 DEF ComposerHolds, Blank, NoSubmission
<1> QED BY <1>1, <1>2, <1>3, <1>4, <1>5
        DEF CorrespondenceInv, OneKeyPerIntent, OneEntryPerKey, FilesStayWithTheirEntry

--------------------------------------------------------------------------------
(* What the steps have in common.                                           *)

\* A step of one author's composer that writes no entry: what it still has
\* under way may become late.
LEMMA ComposerStepInv ==
  ASSUME CorrespondenceInv, NEW a \in Authors, NEW next \in ComposerRow,
         composer' = [composer EXCEPT ![a] = next],
         UNCHANGED <<stream, entries, open>>,
         finalizedBy' \in [1..MaxBatches -> {Staged, Removed} \cup [author : Authors, key : 1..MaxKeys]],
         \A b \in 1..MaxBatches : finalizedBy[b] # Staged => finalizedBy'[b] = finalizedBy[b],
         late \subseteq late',
         \A m \in late' : m \in late \/ /\ m = Message(a) /\ m \in MessageRow
                                         /\ composer[a].phase = "sent",
         keysUsed' \in 0..MaxKeys, batchesUsed' \in 0..MaxBatches,
         ComposerHolds(next),
         \A m \in Messages' : m.author = a => MessageHolds(m, next)
  PROVE  CorrespondenceInv'
<1>1. /\ composer \in [Authors -> ComposerRow] /\ CorrespondenceTypeOK
      /\ Messages \subseteq MessageRow
  BY DEF CorrespondenceInv
<1>2. composer'[a] = next /\ \A b \in Authors \ {a} : composer'[b] = composer[b]
  BY <1>1
<1>3. Messages' \subseteq MessageRow /\ composer' \in [Authors -> ComposerRow]
  BY <1>1 DEF Messages
<1>4. CorrespondenceTypeOK'
  BY <1>1, <1>3 DEF CorrespondenceTypeOK, ComposerRow
<1>5. \A b \in Authors : ComposerHolds(composer'[b])
  BY <1>2 DEF CorrespondenceInv
<1>6. ASSUME NEW m \in Messages' PROVE MessageHolds(m, composer'[m.author])
  <2>1. CASE m.author = a
    BY <1>2, <2>1
  <2>2. CASE m.author # a
    <3>1. m \in Messages
      BY <2>2 DEF Messages, Message
    <3>2. m.author \in Authors
      BY <1>1, <3>1 DEF MessageRow
    <3> QED BY <1>2, <2>2, <3>1, <3>2 DEF CorrespondenceInv
  <2> QED BY <2>1, <2>2
<1>7. ASSUME NEW m \in Messages, composer[a].phase = "sent", m.author = a,
             m.intent = composer[a].intent
      PROVE  m.key = composer[a].submission.key
  BY <1>7 DEF CorrespondenceInv, MessageHolds
<1>8. OneKeyPerIntent'
  <2> SUFFICES ASSUME NEW m \in Messages', NEW n \in Messages',
                      m.author = n.author, m.intent = n.intent
               PROVE  m.key = n.key
    BY DEF OneKeyPerIntent
  <2>1. \A x \in Messages' : x \in Messages \/ (x = Message(a) /\ composer[a].phase = "sent")
    BY DEF Messages
  <2>2. /\ Message(a).author = a /\ Message(a).key = composer[a].submission.key
        /\ Message(a).intent = composer[a].intent
    BY DEF Message
  <2>3. CASE m \in Messages /\ n \in Messages
    BY <2>3 DEF CorrespondenceInv, OneKeyPerIntent
  <2>4. CASE m \notin Messages \/ n \notin Messages
    BY <1>7, <2>1, <2>2, <2>4
  <2> QED BY <2>3, <2>4
<1>9. OneEntryPerKey'
  BY DEF CorrespondenceInv, OneEntryPerKey
<1>10. FilesStayWithTheirEntry'
  <2> SUFFICES ASSUME NEW e \in entries, e.batch # 0
               PROVE  finalizedBy'[e.batch] = EntryId(e)
    BY DEF FilesStayWithTheirEntry
  <2>1. e \in MessageRow /\ finalizedBy[e.batch] = EntryId(e)
    BY <1>1 DEF CorrespondenceInv, FilesStayWithTheirEntry, Messages
  <2>2. EntryId(e) # Staged /\ e.batch \in 1..MaxBatches
    BY <2>1, CorrespondenceAssumption DEF MessageRow, EntryId, Staged
  <2> QED BY <2>1, <2>2
<1> QED BY <1>3, <1>4, <1>5, <1>6, <1>8, <1>9, <1>10 DEF CorrespondenceInv

\* What is under way in a composer is a message.
LEMMA MessageIs ==
  ASSUME CorrespondenceInv, NEW a \in Authors, composer[a].phase = "sent"
  PROVE  /\ Message(a) \in MessageRow
         /\ Message(a).author = a /\ Message(a).intent = composer[a].intent
         /\ Message(a).key = composer[a].submission.key
         /\ Repeats(composer[a])
<1>1. composer[a] \in ComposerRow /\ ComposerHolds(composer[a])
  BY DEF CorrespondenceInv
<1>2. /\ composer[a].submission.key \in 1..MaxKeys /\ composer[a].submission.body \in Drafts
      /\ composer[a].submission.batch \in 0..MaxBatches /\ composer[a].intent \in 1..MaxIntents
  BY <1>1, CorrespondenceAssumption DEF ComposerHolds, ComposerRow
<1>3. NormalBody[composer[a].submission.body] \in Drafts
  BY <1>2, CorrespondenceAssumption
<1> QED BY <1>1, <1>2, <1>3 DEF Message, MessageRow, ComposerHolds

\* The transaction for a message: it records it once, with its files.
LEMMA WriteKeeps ==
  ASSUME CorrespondenceInv, NEW m \in MessageRow, Write(m)
  PROVE  /\ entries \subseteq entries' /\ entries' \subseteq entries \cup {m}
         /\ finalizedBy' \in [1..MaxBatches -> {Staged, Removed} \cup [author : Authors, key : 1..MaxKeys]]
         /\ OneEntryPerKey' /\ FilesStayWithTheirEntry'
<1>1. /\ finalizedBy \in [1..MaxBatches -> {Staged, Removed} \cup [author : Authors, key : 1..MaxKeys]]
      /\ entries \subseteq MessageRow /\ OneEntryPerKey /\ FilesStayWithTheirEntry
  BY DEF CorrespondenceInv, Messages
<1>2. CASE Outcome(m) # "added"
  BY <1>1, <1>2 DEF Write, OneEntryPerKey, FilesStayWithTheirEntry
<1>3. CASE Outcome(m) = "added"
  <2>1. SameAsPrior(m) /\ Finalizes(m)
    BY <1>3 DEF Outcome
  <2>2. /\ entries' = IF Prior(m) = {} THEN entries \cup {m} ELSE entries
        /\ finalizedBy' = IF m.batch = 0 THEN finalizedBy
                          ELSE [finalizedBy EXCEPT ![m.batch] = EntryId(m)]
    BY <1>3 DEF Write
  <2>3. EntryId(m) \in [author : Authors, key : 1..MaxKeys] /\ m.batch \in 0..MaxBatches
    BY DEF MessageRow, EntryId
  <2>4. OneEntryPerKey'
    BY <1>1, <2>2 DEF OneEntryPerKey, Prior
  <2>5. FilesStayWithTheirEntry'
    <3> SUFFICES ASSUME NEW e \in entries', e.batch # 0
                 PROVE  finalizedBy'[e.batch] = EntryId(e)
      BY DEF FilesStayWithTheirEntry
    <3>1. e \in MessageRow /\ e.batch \in 1..MaxBatches
      BY <1>1, <2>2, CorrespondenceAssumption DEF MessageRow
    <3>2. CASE e.batch = m.batch
      <4>1. finalizedBy'[e.batch] = EntryId(m)
        BY <1>1, <2>2, <3>1, <3>2
      <4>2. CASE e \in entries
        <5>1. finalizedBy[m.batch] = EntryId(e)
          BY <1>1, <3>2, <4>2 DEF FilesStayWithTheirEntry
        <5>2. EntryId(e) # Staged
          BY <3>1, CorrespondenceAssumption DEF MessageRow, EntryId, Staged
        <5> QED BY <2>1, <3>2, <4>1, <5>1, <5>2 DEF Finalizes
      <4>3. CASE e \notin entries
        BY <2>2, <4>1, <4>3
      <4> QED BY <4>2, <4>3
    <3>3. CASE e.batch # m.batch
      <4>1. finalizedBy'[e.batch] = finalizedBy[e.batch]
        BY <1>1, <2>2, <3>1, <3>3
      <4>2. e \in entries
        BY <2>2, <3>3
      <4> QED BY <1>1, <4>1, <4>2 DEF FilesStayWithTheirEntry
    <3> QED BY <3>2, <3>3
  <2> QED BY <1>1, <2>2, <2>3, <2>4, <2>5
<1> QED BY <1>2, <1>3

\* The transaction ends for a message: the composers keep what they show.
LEMMA WriteStepInv ==
  ASSUME CorrespondenceInv, NEW m \in MessageRow, Write(m),
         UNCHANGED <<stream, open, keysUsed, batchesUsed>>, late' \subseteq late,
         MessageHolds(m, composer[m.author]),
         \A n \in Messages : n.author = m.author /\ n.intent = m.intent => n.key = m.key,
         composer' \in [Authors -> ComposerRow],
         \A b \in Authors :
           /\ composer'[b].intent = composer[b].intent
           /\ composer'[b].submission = composer[b].submission
           /\ Repeats(composer'[b]) = Repeats(composer[b])
           /\ (composer'[b].phase = "closed") = (composer[b].phase = "closed")
           /\ ComposerHolds(composer'[b])
  PROVE  CorrespondenceInv'
<1>1. /\ entries \subseteq entries' /\ entries' \subseteq entries \cup {m}
      /\ finalizedBy' \in [1..MaxBatches -> {Staged, Removed} \cup [author : Authors, key : 1..MaxKeys]]
      /\ OneEntryPerKey' /\ FilesStayWithTheirEntry'
  BY WriteKeeps
<1>2. Messages' \subseteq Messages \cup {m} /\ Messages \subseteq MessageRow
  BY <1>1 DEF Messages, CorrespondenceInv
<1>3. CorrespondenceTypeOK'
  BY <1>1, <1>2 DEF CorrespondenceInv, CorrespondenceTypeOK, Messages, MessageRow, ComposerRow
<1>4. ASSUME NEW n \in Messages' PROVE MessageHolds(n, composer'[n.author])
  <2>1. n.author \in Authors /\ MessageHolds(n, composer[n.author])
    BY <1>2 DEF CorrespondenceInv, MessageRow
  <2> QED BY <2>1 DEF MessageHolds
<1>5. OneKeyPerIntent'
  BY <1>2 DEF CorrespondenceInv, OneKeyPerIntent
<1> QED BY <1>1, <1>2, <1>3, <1>4, <1>5 DEF CorrespondenceInv

--------------------------------------------------------------------------------
(* The steps.                                                               *)

\* The author edits the text or its files: a new intent nobody has sent.
LEMMA EditInv ==
  ASSUME CorrespondenceInv, NEW a \in Authors, Edit(a) \/ Attach(a) \/ Detach(a)
  PROVE  CorrespondenceInv'
<1>1. PICK c \in ComposerRow : c = composer[a]
  BY DEF CorrespondenceInv
<1>2. /\ c.phase = "editing" /\ c.intent < MaxIntents
      /\ UNCHANGED <<stream, entries, open, late, keysUsed, finalizedBy>>
      /\ c.intent + 1 \in 1..MaxIntents /\ ComposerHolds(c)
  <2>1. /\ c.phase = "editing" /\ c.intent < MaxIntents /\ ComposerHolds(c)
        /\ UNCHANGED <<stream, entries, open, late, keysUsed, finalizedBy>>
    BY <1>1 DEF Edit, Attach, Detach, Editing, CorrespondenceInv
  <2>2. c.intent \in 1..MaxIntents
    BY DEF ComposerRow
  <2> QED BY <2>1, <2>2, CorrespondenceAssumption
<1>3. /\ CorrespondenceTypeOK
      /\ \A m \in Messages : m.author = a => m.intent <= c.intent
      /\ \A m \in Messages : m.intent \in Nat
      /\ finalizedBy \in [1..MaxBatches -> {Staged, Removed} \cup [author : Authors, key : 1..MaxKeys]]
  BY <1>1 DEF CorrespondenceInv, MessageHolds, MessageRow
<1>4. \E next \in ComposerRow : /\ composer' = [composer EXCEPT ![a] = next]
                               /\ next.phase = "editing" /\ next.intent = c.intent + 1
                               /\ next.submission = c.submission
                               /\ batchesUsed' \in 0..MaxBatches
  <2>1. CASE Edit(a)
    <3>1. PICK d \in Drafts :
            composer' = [composer EXCEPT ![a].draft = d, ![a].intent = @ + 1]
      BY <2>1 DEF Edit
    <3>2. PICK next : next = [c EXCEPT !.draft = d, !.intent = c.intent + 1]
      OBVIOUS
    <3>3. /\ next \in ComposerRow /\ next.phase = "editing" /\ next.intent = c.intent + 1
          /\ next.submission = c.submission
      BY <1>2, <3>2 DEF ComposerRow
    <3>4. composer' = [composer EXCEPT ![a] = next]
      BY <1>1, <3>1, <3>2
    <3>5. batchesUsed' \in 0..MaxBatches
      BY <1>3, <2>1 DEF Edit, CorrespondenceTypeOK
    <3> QED BY <3>3, <3>4, <3>5
  <2>2. CASE Attach(a)
    <3>1. PICK b \in 0..MaxBatches :
            /\ composer' = [composer EXCEPT ![a].files = TRUE, ![a].claim = b, ![a].intent = @ + 1]
            /\ batchesUsed' \in {batchesUsed, b}
      <4>1. c.claim \in 0..MaxBatches /\ batchesUsed \in 0..MaxBatches
        BY <1>3 DEF CorrespondenceTypeOK, ComposerRow
      <4>2. PICK begun \in BOOLEAN :
              begun = (composer[a].claim # 0 /\ finalizedBy[composer[a].claim] = Staged)
        OBVIOUS
      <4>3. PICK b : b = IF begun THEN composer[a].claim ELSE batchesUsed + 1
        OBVIOUS
      <4>4. /\ b <= MaxBatches
            /\ composer' = [composer EXCEPT ![a].files = TRUE, ![a].claim = b, ![a].intent = @ + 1]
            /\ batchesUsed' = IF begun THEN batchesUsed ELSE b
        BY <2>2, <4>2, <4>3 DEF Attach
      <4>5. b \in 0..MaxBatches /\ batchesUsed' \in {batchesUsed, b}
        BY <1>1, <4>1, <4>3, <4>4, CorrespondenceAssumption
      <4> QED BY <4>4, <4>5
    <3>2. PICK next : next = [c EXCEPT !.files = TRUE, !.claim = b, !.intent = c.intent + 1]
      OBVIOUS
    <3>3. /\ next \in ComposerRow /\ next.phase = "editing" /\ next.intent = c.intent + 1
          /\ next.submission = c.submission
      BY <1>2, <3>2 DEF ComposerRow
    <3>4. composer' = [composer EXCEPT ![a] = next]
      BY <1>1, <3>1, <3>2
    <3>5. batchesUsed' \in 0..MaxBatches
      BY <1>3, <3>1 DEF CorrespondenceTypeOK
    <3> QED BY <3>3, <3>4, <3>5
  <2>3. CASE Detach(a)
    <3>1. PICK b \in 0..MaxBatches :
            composer' = [composer EXCEPT ![a].files = FALSE, ![a].intent = @ + 1, ![a].claim = b]
      <4>1. c.claim \in 0..MaxBatches /\ 0 \in 0..MaxBatches
        BY CorrespondenceAssumption DEF ComposerRow
      <4>2. PICK b : b = IF finalizedBy[composer[a].claim] = Staged THEN composer[a].claim ELSE 0
        OBVIOUS
      <4>3. composer' = [composer EXCEPT ![a].files = FALSE, ![a].intent = @ + 1, ![a].claim = b]
        BY <2>3, <4>2 DEF Detach
      <4> QED BY <1>1, <4>1, <4>2, <4>3
    <3>2. PICK next : next = [c EXCEPT !.files = FALSE, !.intent = c.intent + 1, !.claim = b]
      OBVIOUS
    <3>3. /\ next \in ComposerRow /\ next.phase = "editing" /\ next.intent = c.intent + 1
          /\ next.submission = c.submission
      BY <1>2, <3>2 DEF ComposerRow
    <3>4. composer' = [composer EXCEPT ![a] = next]
      BY <1>1, <3>1, <3>2
    <3>5. batchesUsed' \in 0..MaxBatches
      BY <1>3, <2>3 DEF Detach, CorrespondenceTypeOK
    <3> QED BY <3>3, <3>4, <3>5
  <2> QED BY <2>1, <2>2, <2>3
<1>5. PICK next \in ComposerRow : /\ composer' = [composer EXCEPT ![a] = next]
                                /\ next.phase = "editing" /\ next.intent = c.intent + 1
                                /\ next.submission = c.submission
                               /\ next.submission = c.submission
                                /\ batchesUsed' \in 0..MaxBatches
  BY <1>4
<1>6. ComposerHolds(next) /\ \A m \in Messages' : m.author = a => MessageHolds(m, next)
  BY <1>2, <1>3, <1>5 DEF ComposerHolds, MessageHolds, Messages, ComposerRow
<1>7. keysUsed' \in 0..MaxKeys
  BY <1>2, <1>3 DEF CorrespondenceTypeOK
<1> QED BY <1>2, <1>3, <1>5, <1>6, <1>7, ComposerStepInv

\* A submission leaves with the key of what it repeats, or a new one.
LEMMA SendInv ==
  ASSUME CorrespondenceInv, NEW a \in Authors, Send(a)
  PROVE  CorrespondenceInv'
<1>1. PICK c \in ComposerRow : c = composer[a]
  BY DEF CorrespondenceInv
<1>2. PICK key : key = IF Repeats(c) THEN c.submission.key ELSE keysUsed + 1
  OBVIOUS
<1>3. PICK next : next = [c EXCEPT !.phase = "sent",
                            !.submission = [body |-> c.draft, batch |-> BatchOf(c), key |-> key]]
  OBVIOUS
<1>4. /\ c.phase = "editing" /\ c.draft # "none" /\ key <= MaxKeys
      /\ keysUsed' = IF Repeats(c) THEN keysUsed ELSE key
      /\ composer' = [composer EXCEPT ![a] = next]
      /\ UNCHANGED <<stream, entries, finalizedBy, open, late, batchesUsed>>
  BY <1>1, <1>2, <1>3 DEF Send
<1>5. /\ CorrespondenceTypeOK
      /\ finalizedBy \in [1..MaxBatches -> {Staged, Removed} \cup [author : Authors, key : 1..MaxKeys]]
      /\ \A m \in Messages : m.author = a => MessageHolds(m, c)
  BY <1>1 DEF CorrespondenceInv
<1>6. /\ keysUsed' \in 0..MaxKeys /\ batchesUsed' \in 0..MaxBatches /\ key \in 0..MaxKeys
      /\ ~Repeats(c) => key # 0
  BY <1>2, <1>4, <1>5, CorrespondenceAssumption DEF CorrespondenceTypeOK, ComposerRow
<1>7. BatchOf(c) \in 0..MaxBatches /\ c.draft \in Drafts
  BY <1>4, CorrespondenceAssumption DEF BatchOf, ComposerRow
<1>8. /\ next \in ComposerRow /\ next.phase = "sent" /\ next.intent = c.intent
      /\ next.submission = [body |-> c.draft, batch |-> BatchOf(c), key |-> key]
      /\ next.draft = c.draft /\ next.files = c.files /\ next.claim = c.claim
  BY <1>3, <1>6, <1>7 DEF ComposerRow
<1>9. Repeats(next)
  BY <1>8 DEF Repeats, BatchOf
<1>10. Repeats(c) => key # 0
  BY <1>1, <1>2, <1>4 DEF CorrespondenceInv, ComposerHolds, Repeats
<1>11. ComposerHolds(next)
  BY <1>6, <1>7, <1>8, <1>9, <1>10 DEF ComposerHolds
<1>12. \A m \in Messages' : m.author = a => MessageHolds(m, next)
  BY <1>2, <1>4, <1>5, <1>8, <1>9 DEF MessageHolds, Messages
<1> QED BY <1>4, <1>5, <1>6, <1>8, <1>11, <1>12, ComposerStepInv

\* The composer stops waiting, or hears, or the author leaves: what was
\* under way may still arrive late.
LEMMA StopWaitingInv ==
  ASSUME CorrespondenceInv, NEW a \in Authors, GiveUp(a) \/ Hear(a) \/ Leave(a)
  PROVE  CorrespondenceInv'
<1>1. PICK c \in ComposerRow : c = composer[a]
  BY DEF CorrespondenceInv
<1>2. /\ CorrespondenceTypeOK /\ ComposerHolds(c)
      /\ finalizedBy \in [1..MaxBatches -> {Staged, Removed} \cup [author : Authors, key : 1..MaxKeys]]
      /\ \A m \in Messages : m.author = a => MessageHolds(m, c)
      /\ keysUsed \in 0..MaxKeys /\ batchesUsed \in 0..MaxBatches /\ c.intent \in 1..MaxIntents
      /\ \A m \in Messages : m.intent \in Nat
  BY <1>1 DEF CorrespondenceInv, CorrespondenceTypeOK, ComposerRow, MessageRow
<1>3. /\ UNCHANGED <<stream, entries, open, keysUsed, batchesUsed>>
      /\ late \subseteq late'
      /\ \A m \in late' : m \in late \/ (m = Message(a) /\ c.phase = "sent")
  BY <1>1 DEF GiveUp, Hear, Leave
<1>4. \A m \in late' : m \in late \/ /\ m = Message(a) /\ m \in MessageRow
                                      /\ composer[a].phase = "sent"
  BY <1>1, <1>3, MessageIs
<1>5. ASSUME NEW m \in Messages', m.author = a
      PROVE  MessageHolds(m, c) /\ m.intent <= c.intent /\ m.intent \in Nat
  <2>1. CASE m \in Messages
    BY <1>2, <1>5, <2>1 DEF MessageHolds
  <2>2. CASE m \notin Messages
    <3>1. m = Message(a) /\ c.phase = "sent"
      BY <1>3, <2>2 DEF Messages
    <3> QED BY <1>1, <1>2, <3>1, MessageIs DEF MessageHolds
  <2> QED BY <2>1, <2>2
<1>6. CASE GiveUp(a)
  <2>1. PICK next : next = [c EXCEPT !.phase = "editing"]
    OBVIOUS
  <2>2. /\ next \in ComposerRow /\ next.phase = "editing" /\ next.intent = c.intent
        /\ next.submission = c.submission /\ Repeats(next) = Repeats(c)
    BY <2>1 DEF ComposerRow, Repeats, BatchOf
  <2>3. /\ composer' = [composer EXCEPT ![a] = next] /\ UNCHANGED finalizedBy
        /\ c.phase # "closed"
    BY <1>1, <1>6, <2>1 DEF GiveUp
  <2>4. ComposerHolds(next)
    BY <1>2, <2>2 DEF ComposerHolds
  <2>5. \A m \in Messages' : m.author = a => MessageHolds(m, next)
    BY <1>5, <2>2, <2>3 DEF MessageHolds
  <2> QED BY <1>2, <1>3, <1>4, <2>2, <2>3, <2>4, <2>5, ComposerStepInv
<1>7. ASSUME NEW i \in 1..MaxIntents, i > c.intent,
             composer' = [composer EXCEPT ![a] = Blank(i)],
             finalizedBy' \in [1..MaxBatches -> {Staged, Removed} \cup [author : Authors, key : 1..MaxKeys]],
             \A b \in 1..MaxBatches : finalizedBy[b] # Staged => finalizedBy'[b] = finalizedBy[b]
      PROVE  CorrespondenceInv'
  <2>1. PICK next : next = Blank(i)
    OBVIOUS
  <2>2. next \in ComposerRow /\ ComposerHolds(next) /\ next.intent = i
    BY <2>1, CorrespondenceAssumption DEF Blank, NoSubmission, ComposerRow, ComposerHolds
  <2>3. \A m \in Messages' : m.author = a => MessageHolds(m, next)
    BY <1>2, <1>5, <1>7, <2>2 DEF MessageHolds
  <2> QED BY <1>2, <1>3, <1>4, <1>7, <2>1, <2>2, <2>3, ComposerStepInv
<1>8. CASE Leave(a)
  <2>1. composer' = [composer EXCEPT ![a] = Blank(c.intent + 1)] /\ c.intent + 1 \in 1..MaxIntents
    BY <1>1, <1>2, <1>8, CorrespondenceAssumption DEF Leave
  <2>2. /\ finalizedBy' \in [1..MaxBatches -> {Staged, Removed} \cup [author : Authors, key : 1..MaxKeys]]
        /\ \A b \in 1..MaxBatches : finalizedBy[b] # Staged => finalizedBy'[b] = finalizedBy[b]
    BY <1>2, <1>8 DEF Leave
  <2>3. c.intent + 1 > c.intent
    BY <1>2, CorrespondenceAssumption
  <2> QED BY <1>7, <2>1, <2>2, <2>3
<1>9. CASE Hear(a)
  <2>1. UNCHANGED finalizedBy /\ late' = late
    BY <1>9 DEF Hear
  <2>2. CASE c.phase = "added"
    <3>1. composer' = [composer EXCEPT ![a] = Blank(c.intent + 1)] /\ c.intent + 1 \in 1..MaxIntents
      BY <1>1, <1>2, <1>9, <2>2, CorrespondenceAssumption DEF Hear
    <3>2. c.intent + 1 > c.intent
      BY <1>2, CorrespondenceAssumption
    <3> QED BY <1>2, <1>7, <2>1, <3>1, <3>2
  <2>3. CASE c.phase = "refused"
    <3>1. PICK next : next = [c EXCEPT !.phase = "editing"]
      OBVIOUS
    <3>2. /\ next \in ComposerRow /\ next.phase = "editing" /\ next.intent = c.intent
          /\ next.submission = c.submission /\ Repeats(next) = Repeats(c)
      BY <3>1 DEF ComposerRow, Repeats, BatchOf
    <3>3. composer' = [composer EXCEPT ![a] = next]
      BY <1>1, <1>9, <2>3, <3>1 DEF Hear
    <3>4. ComposerHolds(next)
      BY <1>2, <3>2 DEF ComposerHolds
    <3>5. \A m \in Messages' : m.author = a => MessageHolds(m, next)
      BY <1>5, <2>3, <3>2 DEF MessageHolds
    <3> QED BY <1>2, <1>3, <1>4, <2>1, <3>2, <3>3, <3>4, <3>5, ComposerStepInv
  <2>4. CASE c.phase = "denied"
    <3>1. PICK next : next = [Blank(c.intent) EXCEPT !.phase = "closed"]
      OBVIOUS
    <3>2. /\ next \in ComposerRow /\ next.phase = "closed" /\ next.intent = c.intent
          /\ ComposerHolds(next)
      <4>1. PICK b : b = Blank(c.intent)
        OBVIOUS
      <4>2. b \in ComposerRow /\ b.submission.body = "none" /\ b.intent = c.intent
        BY <1>2, <4>1, CorrespondenceAssumption DEF Blank, NoSubmission, ComposerRow
      <4>3. next = [b EXCEPT !.phase = "closed"]
        BY <3>1, <4>1
      <4> QED BY <4>2, <4>3 DEF ComposerRow, ComposerHolds
    <3>3. composer' = [composer EXCEPT ![a] = next]
      BY <1>1, <1>9, <2>4, <3>1 DEF Hear
    <3>4. \A m \in Messages' : m.author = a => MessageHolds(m, next)
      BY <1>5, <3>2 DEF MessageHolds
    <3> QED BY <1>2, <1>3, <1>4, <2>1, <3>2, <3>3, <3>4, ComposerStepInv
  <2> QED BY <1>1, <1>9, <2>2, <2>3, <2>4 DEF Hear
<1> QED BY <1>6, <1>8, <1>9

\* The server runs a submission, on time or late.
LEMMA CreateInv ==
  ASSUME CorrespondenceInv, NEW a \in Authors, Create(a)
  PROVE  CorrespondenceInv'
<1>1. PICK c \in ComposerRow : c = composer[a]
  BY DEF CorrespondenceInv
<1>2. PICK m : m = Message(a)
  OBVIOUS
<1>3. c.phase = "sent" /\ Write(m) /\ UNCHANGED <<stream, open, late, keysUsed, batchesUsed>>
  BY <1>1, <1>2 DEF Create
<1>4. PICK next : next = [c EXCEPT !.phase = Outcome(m)]
  OBVIOUS
<1>5. composer' = [composer EXCEPT ![a] = next]
  BY <1>1, <1>2, <1>4 DEF Create
<1>6. /\ m \in MessageRow /\ m.author = a /\ m.intent = c.intent
      /\ m.key = c.submission.key /\ Repeats(c)
  BY <1>1, <1>2, <1>3, MessageIs
<1>7. Outcome(m) \in {"added", "refused", "denied"}
  BY DEF Outcome
<1>8. /\ next \in ComposerRow /\ next.phase # "closed" /\ next.intent = c.intent
      /\ next.submission = c.submission /\ Repeats(next) = Repeats(c)
      /\ next.phase \in {"added", "refused", "denied"}
  BY <1>4, <1>7 DEF ComposerRow, Repeats, BatchOf
<1>9. ComposerHolds(next)
  BY <1>1, <1>3, <1>8 DEF CorrespondenceInv, ComposerHolds
<1>10. /\ composer' \in [Authors -> ComposerRow]
       /\ composer'[a] = next /\ \A b \in Authors \ {a} : composer'[b] = composer[b]
  BY <1>5, <1>8 DEF CorrespondenceInv
<1>11. \A b \in Authors :
         /\ composer'[b].intent = composer[b].intent
         /\ composer'[b].submission = composer[b].submission
         /\ Repeats(composer'[b]) = Repeats(composer[b])
         /\ (composer'[b].phase = "closed") = (composer[b].phase = "closed")
         /\ ComposerHolds(composer'[b])
  BY <1>1, <1>3, <1>8, <1>9, <1>10 DEF CorrespondenceInv
<1>12. MessageHolds(m, composer[m.author])
  BY <1>1, <1>6 DEF MessageHolds, ComposerRow
<1>13. \A n \in Messages : n.author = m.author /\ n.intent = m.intent => n.key = m.key
  BY <1>1, <1>3, <1>6 DEF CorrespondenceInv, MessageHolds
<1> QED BY <1>3, <1>6, <1>10, <1>11, <1>12, <1>13, WriteStepInv

LEMMA CreateLateInv ==
  ASSUME CorrespondenceInv, CreateLate
  PROVE  CorrespondenceInv'
<1>1. PICK m \in late : Write(m) /\ late' = late \ {m}
  BY DEF CreateLate
<1>2. UNCHANGED <<stream, open, composer, keysUsed, batchesUsed>>
  BY DEF CreateLate
<1>3. m \in Messages /\ m \in MessageRow
  BY <1>1 DEF Messages, CorrespondenceInv
<1>4. /\ MessageHolds(m, composer[m.author])
      /\ \A n \in Messages : n.author = m.author /\ n.intent = m.intent => n.key = m.key
  BY <1>3 DEF CorrespondenceInv, OneKeyPerIntent
<1>5. /\ composer' \in [Authors -> ComposerRow]
      /\ \A b \in Authors : ComposerHolds(composer'[b]) /\ composer'[b] = composer[b]
  BY <1>2 DEF CorrespondenceInv
<1> QED BY <1>1, <1>2, <1>3, <1>4, <1>5, WriteStepInv

LEMMA CloseInv ==
  ASSUME CorrespondenceInv, Close \/ UNCHANGED correspondenceVars
  PROVE  CorrespondenceInv'
<1>1. UNCHANGED <<stream, entries, finalizedBy, composer, late, keysUsed, batchesUsed>>
  BY DEF Close, correspondenceVars
<1>2. open' \in SUBSET Authors
  BY DEF Close, correspondenceVars, CorrespondenceInv, CorrespondenceTypeOK
<1>3. CorrespondenceTypeOK'
  BY <1>1, <1>2 DEF CorrespondenceInv, CorrespondenceTypeOK
<1> QED BY <1>1, <1>3 DEF CorrespondenceInv, Messages, OneKeyPerIntent, OneEntryPerKey,
                          FilesStayWithTheirEntry

\* Each entry an author meant is in the stream at most once, with its own
\* files, whichever answers were lost and requests arrived late
\* (request-note.repository.ts, attachment.service.ts finalize).
THEOREM StreamsHoldWhatWasMeant ==
  CorrespondenceSpec => [](CorrespondenceTypeOK /\ StreamHoldsWhatWasMeant)
<1>1. CorrespondenceInit => CorrespondenceInv
  BY CorrespondenceInitInv
<1>2. CorrespondenceInv /\ [CorrespondenceNext]_correspondenceVars => CorrespondenceInv'
  BY EditInv, SendInv, StopWaitingInv, CreateInv, CreateLateInv, CloseInv DEF CorrespondenceNext
<1>3. CorrespondenceInv => CorrespondenceTypeOK /\ StreamHoldsWhatWasMeant
  BY CorrespondenceInvSafe
<1> QED BY <1>1, <1>2, <1>3, PTL DEF CorrespondenceSpec

--------------------------------------------------------------------------------
(* The requester's link: the inductive invariant.                           *)

\* Only the newest credential may be active, and a page that holds the
\* request's row shows one that is.
TrackingInv ==
  /\ TrackingTypeOK
  /\ \A c \in DOMAIN credentials : credentials[c].status = "active" => c = Len(credentials)
  /\ \A r \in Requesters :
       /\ page[r].phase # "idle" => page[r].credential \in DOMAIN credentials
       /\ page[r].phase = "locked" => credentials[page[r].credential].status = "active"

DialogRow == [phase : {"closed", "open", "changing"},
              seen : 0..MaxCredentials, link : 0..MaxCredentials]
PageRow == [phase : {"idle", "found", "locked"}, credential : 0..MaxCredentials]

LEMMA TrackingInvSafe == TrackingInv => RevokedLinkShowsNothing
BY DEF TrackingInv, RevokedLinkShowsNothing, Usable, Version

LEMMA TrackingInitInv == TrackingInit => TrackingInv
<1> SUFFICES ASSUME TrackingInit PROVE TrackingInv
  OBVIOUS
<1>1. PICK row \in Credential : row = [status |-> "active", expired |-> FALSE]
  BY DEF Credential
<1>2. credentials = << >> \/ credentials = <<row>>
  BY <1>1 DEF TrackingInit
<1>3. /\ credentials \in Seq(Credential) /\ Len(credentials) \in 0..1
      /\ DOMAIN credentials = 1..Len(credentials)
  <2>1. CASE credentials = << >>
    BY <2>1
  <2>2. CASE credentials = <<row>>
    BY <1>1, <2>2
  <2> QED BY <1>2, <2>1, <2>2
<1>4. \A c \in DOMAIN credentials : c = Len(credentials)
  BY <1>3
<1>5. TrackingTypeOK
  BY <1>3, TrackingAssumption DEF TrackingInit, TrackingTypeOK, Closed, NoPage
<1> QED BY <1>4, <1>5 DEF TrackingInit, TrackingInv, NoPage

\* Ending the active row leaves every other row alone.
LEMMA RevokedRows ==
  ASSUME NEW rows \in Seq(Credential)
  PROVE  /\ Revoked(rows) \in Seq(Credential) /\ Len(Revoked(rows)) = Len(rows)
         /\ \A c \in DOMAIN rows : c # Len(rows) => Revoked(rows)[c] = rows[c]
         /\ rows # << >> => Revoked(rows)[Len(rows)].status = "revoked"
<1> DEFINE F(c) == IF c = Len(rows) THEN [rows[c] EXCEPT !.status = "revoked"] ELSE rows[c]
<1>1. \A c \in 1..Len(rows) : F(c) \in Credential
  <2> SUFFICES ASSUME NEW c \in 1..Len(rows) PROVE F(c) \in Credential
    OBVIOUS
  <2>1. rows[c] \in Credential
    OBVIOUS
  <2> QED BY <2>1 DEF Credential
<1>2. Revoked(rows) = [c \in 1..Len(rows) |-> F(c)]
  BY DEF Revoked
<1>3. rows # << >> => F(Len(rows)).status = "revoked"
  <2> SUFFICES ASSUME rows # << >> PROVE F(Len(rows)).status = "revoked"
    OBVIOUS
  <2>1. rows[Len(rows)] \in Credential
    OBVIOUS
  <2> QED BY <2>1 DEF Credential
<1>4. Revoked(rows) \in Seq(Credential) /\ Len(Revoked(rows)) = Len(rows)
  BY <1>1, <1>2
<1> QED BY <1>2, <1>3, <1>4

\* What a command makes of the rows: it ends at most the newest.
LEMMA ChangedRows ==
  ASSUME TrackingInv, NEW x \in changes, Change(x)
  PROVE  /\ credentials' \in Seq(Credential) /\ Len(credentials') <= MaxCredentials
         /\ Len(credentials) <= Len(credentials')
         /\ \A c \in DOMAIN credentials : c # Len(credentials) => credentials'[c] = credentials[c]
         /\ \A c \in DOMAIN credentials : credentials[c].status = "revoked" => credentials'[c].status = "revoked"
         /\ \A c \in DOMAIN credentials' : credentials'[c].status = "active" => c = Len(credentials')
<1>1. /\ credentials \in Seq(Credential) /\ Len(credentials) <= MaxCredentials
      /\ Len(credentials) \in Nat /\ MaxCredentials \in Nat
      /\ \A c \in DOMAIN credentials : credentials[c].status = "active" => c = Len(credentials)
      /\ DOMAIN credentials = 1..Len(credentials)
      /\ \A c \in DOMAIN credentials : credentials[c] \in Credential
  BY TrackingAssumption DEF TrackingInv, TrackingTypeOK
<1>2. PICK ended : ended = IF Active THEN Revoked(credentials) ELSE credentials
  OBVIOUS
<1>3. PICK new \in Credential : new = [status |-> "active", expired |-> FALSE]
  BY DEF Credential
<1>4. /\ ended \in Seq(Credential) /\ Len(ended) = Len(credentials)
      /\ \A c \in DOMAIN credentials : c # Len(credentials) => ended[c] = credentials[c]
  BY <1>1, <1>2, RevokedRows
<1>5. \A c \in DOMAIN credentials : ended[c].status = "revoked"
  <2> SUFFICES ASSUME NEW c \in DOMAIN credentials PROVE ended[c].status = "revoked"
    OBVIOUS
  <2>1. credentials[c].status \in {"active", "revoked"}
    BY <1>1 DEF Credential
  <2>2. CASE Active /\ c = Len(credentials)
    <3>1. credentials # << >>
      BY <1>1, <2>2
    <3> QED BY <1>1, <1>2, <2>2, <3>1, RevokedRows
  <2>3. CASE ~(Active /\ c = Len(credentials))
    <3>1. credentials[c].status = "revoked"
      <4>1. CASE c # Len(credentials)
        BY <1>1, <2>1, <4>1
      <4>2. CASE c = Len(credentials)
        BY <1>1, <2>1, <2>3, <4>2 DEF Active, Version
      <4> QED BY <4>1, <4>2
    <3> QED BY <1>2, <1>4, <2>3, <3>1
  <2> QED BY <2>2, <2>3
<1>6. /\ credentials' = IF x.operation = "revoke" THEN ended ELSE Append(ended, new)
      /\ x.operation # "revoke" => Len(credentials) < MaxCredentials
  BY <1>2, <1>3 DEF Change, Version
<1>7. CASE x.operation = "revoke"
  BY <1>1, <1>4, <1>5, <1>6, <1>7
<1>8. CASE x.operation # "revoke"
  <2>1. /\ credentials' = Append(ended, new) /\ Len(credentials') = Len(credentials) + 1
        /\ credentials' \in Seq(Credential) /\ DOMAIN credentials' = 1..(Len(credentials) + 1)
        /\ \A c \in DOMAIN credentials : credentials'[c] = ended[c]
    BY <1>1, <1>4, <1>6, <1>8
  <2> QED BY <1>1, <1>4, <1>5, <1>6, <1>8, <2>1
<1> QED BY <1>7, <1>8

LEMMA ChangeTrackingInv ==
  ASSUME TrackingInv, NEW x \in changes, Change(x)
  PROVE  TrackingInv'
<1>1. /\ credentials' \in Seq(Credential) /\ Len(credentials') <= MaxCredentials
      /\ Len(credentials) <= Len(credentials')
      /\ \A c \in DOMAIN credentials' : credentials'[c].status = "active" => c = Len(credentials')
  BY ChangedRows
<1>2. /\ TrackingTypeOK /\ page' = page /\ changes' = changes \ {x}
      /\ \A r \in Requesters : page[r].phase # "locked"
      /\ \A r \in Requesters : page[r].phase # "idle" => page[r].credential \in DOMAIN credentials
  BY DEF Change, TrackingInv, RowShared
<1>3. /\ DOMAIN credentials \subseteq DOMAIN credentials'
      /\ Len(credentials') \in 0..MaxCredentials
  BY <1>1, <1>2, TrackingAssumption DEF TrackingTypeOK
<1>4. dialog' \in [Managers -> [phase : {"closed", "open", "changing"},
                              seen : 0..MaxCredentials, link : 0..MaxCredentials]]
  <2>1. PICK n \in 0..MaxCredentials, l \in 0..MaxCredentials :
          /\ n = Len(credentials')
          /\ l = IF x.operation = "revoke" THEN 0 ELSE Len(credentials')
    BY <1>3, TrackingAssumption
  <2>2. PICK row \in DialogRow : row = [phase |-> "open", seen |-> n, link |-> l]
    BY DEF DialogRow
  <2>3. \/ dialog' = dialog
        \/ dialog' = [dialog EXCEPT ![x.manager] = row]
    <3>1. CASE dialog[x.manager] = [phase |-> "changing", seen |-> x.seen, link |-> 0]
      BY <2>1, <2>2, <3>1 DEF Change
    <3>2. CASE dialog[x.manager] # [phase |-> "changing", seen |-> x.seen, link |-> 0]
      BY <3>2 DEF Change
    <3> QED BY <3>1, <3>2
  <2> QED BY <1>2, <2>2, <2>3 DEF TrackingTypeOK, DialogRow
<1>5. TrackingTypeOK'
  BY <1>1, <1>2, <1>4 DEF TrackingTypeOK
<1> QED BY <1>1, <1>2, <1>3, <1>5 DEF TrackingInv

LEMMA ExpireInv ==
  ASSUME TrackingInv, Expire
  PROVE  TrackingInv'
<1>1. PICK i \in DOMAIN credentials : credentials' = [credentials EXCEPT ![i].expired = TRUE]
  BY DEF Expire
<1>2. credentials \in Seq(Credential) /\ credentials[i] \in Credential
  BY <1>1 DEF TrackingInv, TrackingTypeOK
<1>3. PICK row \in Credential : row = [credentials[i] EXCEPT !.expired = TRUE]
                               /\ row.status = credentials[i].status
  <2>1. PICK row : row = [credentials[i] EXCEPT !.expired = TRUE]
    OBVIOUS
  <2>2. row \in Credential /\ row.status = credentials[i].status
    BY <1>2, <2>1 DEF Credential
  <2> QED BY <2>1, <2>2
<1>4. /\ credentials' \in Seq(Credential) /\ Len(credentials') = Len(credentials)
      /\ DOMAIN credentials' = DOMAIN credentials
      /\ \A c \in DOMAIN credentials : credentials'[c].status = credentials[c].status
  BY <1>1, <1>2, <1>3
<1>5. UNCHANGED <<dialog, changes, page>>
  BY DEF Expire
<1> QED BY <1>4, <1>5 DEF TrackingInv, TrackingTypeOK

\* A dialog and the commands under way are no matter of the invariant, but for
\* their types.
LEMMA DialogStepInv ==
  ASSUME TrackingInv, UNCHANGED <<credentials, page>>,
         dialog' \in [Managers -> DialogRow],
         changes' \in SUBSET [manager : Managers, seen : 0..MaxCredentials, operation : Operations]
  PROVE  TrackingInv'
BY DEF TrackingInv, TrackingTypeOK, DialogRow

\* Nor is anything but the page that moves, when the rows stay.
LEMMA PageStepInv ==
  ASSUME TrackingInv, UNCHANGED <<credentials, dialog, changes>>,
         NEW r \in Requesters, NEW row \in PageRow,
         page' = [page EXCEPT ![r] = row],
         row.phase # "idle" => row.credential \in DOMAIN credentials,
         row.phase = "locked" => credentials[row.credential].status = "active"
  PROVE  TrackingInv'
<1>1. page \in [Requesters -> PageRow]
  BY DEF TrackingInv, TrackingTypeOK, PageRow
<1>2. page' \in [Requesters -> PageRow] /\ page'[r] = row
      /\ \A q \in Requesters \ {r} : page'[q] = page[q]
  BY <1>1
<1> QED BY <1>2 DEF TrackingInv, TrackingTypeOK, PageRow

LEMMA OpenDialogInv ==
  ASSUME TrackingInv, NEW m \in Managers, OpenDialog(m)
  PROVE  TrackingInv'
<1>1. dialog \in [Managers -> DialogRow] /\ Len(credentials) \in 0..MaxCredentials
  BY TrackingAssumption DEF TrackingInv, TrackingTypeOK, DialogRow
<1>2. PICK row \in DialogRow : row = [phase |-> "open", seen |-> Len(credentials), link |-> 0]
  <2>1. PICK n : n = Len(credentials)
    OBVIOUS
  <2>2. n \in 0..MaxCredentials /\ 0 \in 0..MaxCredentials
    BY <1>1, <2>1, TrackingAssumption
  <2>3. [phase |-> "open", seen |-> n, link |-> 0] \in DialogRow
    BY <2>2 DEF DialogRow
  <2> QED BY <2>1, <2>3
<1>3. dialog' = [dialog EXCEPT ![m] = row] /\ UNCHANGED <<credentials, changes, page>>
  BY <1>2 DEF OpenDialog, Version
<1>4. changes' \in SUBSET [manager : Managers, seen : 0..MaxCredentials, operation : Operations]
  BY <1>3 DEF TrackingInv, TrackingTypeOK
<1> QED BY <1>1, <1>3, <1>4, DialogStepInv

LEMMA AskChangeInv ==
  ASSUME TrackingInv, NEW m \in Managers, NEW operation \in Operations, AskChange(m, operation)
  PROVE  TrackingInv'
<1>1. PICK d \in DialogRow : d = dialog[m]
  BY DEF TrackingInv, TrackingTypeOK, DialogRow
<1>2. PICK row : row = [[d EXCEPT !.phase = "changing"] EXCEPT !.link = 0]
  OBVIOUS
<1>3. row \in DialogRow
  <2>1. [d EXCEPT !.phase = "changing"] \in DialogRow
    BY DEF DialogRow
  <2>2. 0 \in 0..MaxCredentials
    BY TrackingAssumption
  <2> QED BY <1>2, <2>1, <2>2 DEF DialogRow
<1>4. dialog' = [dialog EXCEPT ![m] = row]
  BY <1>1, <1>2 DEF AskChange, TrackingInv, TrackingTypeOK
<1>5. dialog' \in [Managers -> DialogRow]
  BY <1>3, <1>4 DEF TrackingInv, TrackingTypeOK, DialogRow
<1>6. PICK x \in [manager : Managers, seen : 0..MaxCredentials, operation : Operations] :
        x = [manager |-> m, seen |-> d.seen, operation |-> operation]
  BY <1>1 DEF DialogRow
<1>7. changes' = changes \cup {x} /\ UNCHANGED <<credentials, page>>
  BY <1>1, <1>6 DEF AskChange
<1>8. changes' \in SUBSET [manager : Managers, seen : 0..MaxCredentials, operation : Operations]
  BY <1>6, <1>7 DEF TrackingInv, TrackingTypeOK
<1> QED BY <1>5, <1>7, <1>8, DialogStepInv

LEMMA ClosedIsDialog == Closed \in DialogRow /\ NoPage \in PageRow
BY TrackingAssumption DEF Closed, NoPage, DialogRow, PageRow

LEMMA LoseChangeInv ==
  ASSUME TrackingInv, NEW m \in Managers, LoseChange(m)
  PROVE  TrackingInv'
<1>1. dialog' \in [Managers -> DialogRow]
  BY ClosedIsDialog DEF LoseChange, TrackingInv, TrackingTypeOK, DialogRow
<1>2. changes' \in SUBSET [manager : Managers, seen : 0..MaxCredentials, operation : Operations]
  BY DEF LoseChange, TrackingInv, TrackingTypeOK
<1> QED BY <1>1, <1>2, DialogStepInv DEF LoseChange

LEMMA RefuseChangeInv ==
  ASSUME TrackingInv, NEW x \in changes, RefuseChange(x)
  PROVE  TrackingInv'
<1>1. PICK closed \in DialogRow : closed = Closed
  BY ClosedIsDialog
<1>2. dialog' = dialog \/ dialog' = [dialog EXCEPT ![x.manager] = closed]
  BY <1>1 DEF RefuseChange
<1>3. dialog' \in [Managers -> DialogRow]
  BY <1>2 DEF TrackingInv, TrackingTypeOK, DialogRow
<1>4. changes' \in SUBSET [manager : Managers, seen : 0..MaxCredentials, operation : Operations]
  BY DEF RefuseChange, TrackingInv, TrackingTypeOK
<1> QED BY <1>3, <1>4, DialogStepInv DEF RefuseChange

LEMMA LookupInv ==
  ASSUME TrackingInv, NEW r \in Requesters, Lookup(r)
  PROVE  TrackingInv'
<1>1. PICK c \in Known[r] :
        Usable(c) /\ page' = [page EXCEPT ![r] = [phase |-> "found", credential |-> c]]
  BY DEF Lookup
<1>2. c \in DOMAIN credentials /\ c \in 0..MaxCredentials
  BY <1>1, TrackingAssumption DEF Usable
<1>3. PICK row \in PageRow : row = [phase |-> "found", credential |-> c]
  BY <1>2 DEF PageRow
<1> QED BY <1>1, <1>2, <1>3, PageStepInv DEF Lookup

\* The second look is made with the request's row held: what it finds usable
\* stays so while the page holds the row.
LEMMA RecheckInv ==
  ASSUME TrackingInv, NEW r \in Requesters, Recheck(r)
  PROVE  TrackingInv'
<1>1. PICK old \in PageRow : old = page[r]
  BY DEF TrackingInv, TrackingTypeOK, PageRow
<1>2. PICK none \in PageRow : none = NoPage /\ none.phase = "idle"
  BY ClosedIsDialog DEF NoPage
<1>3. PICK row : row = IF Usable(old.credential) THEN [old EXCEPT !.phase = "locked"] ELSE none
  OBVIOUS
<1>4. page' = [page EXCEPT ![r] = row] /\ UNCHANGED <<credentials, dialog, changes>>
  BY <1>1, <1>2, <1>3 DEF Recheck
<1>5. CASE Usable(old.credential)
  <2>1. row \in PageRow /\ row.credential = old.credential
    BY <1>3, <1>5 DEF PageRow
  <2>2. /\ old.credential \in DOMAIN credentials
        /\ credentials[old.credential].status = "active"
    BY <1>5 DEF Usable
  <2> QED BY <1>4, <2>1, <2>2, PageStepInv
<1>6. CASE ~Usable(old.credential)
  BY <1>2, <1>3, <1>4, <1>6, PageStepInv
<1> QED BY <1>5, <1>6

LEMMA ShowInv ==
  ASSUME TrackingInv, NEW r \in Requesters, Show(r)
  PROVE  TrackingInv'
<1>1. PICK none \in PageRow : none = NoPage /\ none.phase = "idle"
  BY ClosedIsDialog DEF NoPage
<1>2. page' = [page EXCEPT ![r] = none] /\ UNCHANGED <<credentials, dialog, changes>>
  BY <1>1 DEF Show
<1> QED BY <1>1, <1>2, PageStepInv

LEMMA TrackingStepInv == TrackingInv /\ [TrackingNext]_trackingVars => TrackingInv'
<1>1. TrackingInv /\ UNCHANGED trackingVars => TrackingInv'
  BY DEF trackingVars, TrackingInv, TrackingTypeOK
<1> QED BY <1>1, OpenDialogInv, LoseChangeInv, AskChangeInv, ChangeTrackingInv, RefuseChangeInv,
           LookupInv, RecheckInv, ShowInv, ExpireInv DEF TrackingNext

\* Who takes a link's "active" away has applied a command to that very version.
LEMMA EndedSeen ==
  ASSUME TrackingInv, [TrackingNext]_trackingVars, NEW c \in DOMAIN credentials,
         credentials[c].status = "active", credentials'[c].status = "revoked"
  PROVE  \E x \in changes \ changes' : x.seen = c
<1>1. c = Len(credentials) /\ "active" # "revoked"
  BY DEF TrackingInv
<1>2. ASSUME NEW x \in changes, Change(x)
      PROVE  x \in changes \ changes' /\ x.seen = c
  BY <1>1, <1>2 DEF Change, Applies, Version
<1>3. ASSUME Expire PROVE FALSE
  <2>1. PICK i \in DOMAIN credentials : credentials' = [credentials EXCEPT ![i].expired = TRUE]
    BY <1>3 DEF Expire
  <2>2. credentials \in Seq(Credential) /\ credentials[i] \in Credential /\ credentials[c] \in Credential
    BY DEF TrackingInv, TrackingTypeOK
  <2>3. [credentials[i] EXCEPT !.expired = TRUE].status = credentials[i].status
    BY <2>2 DEF Credential
  <2>4. credentials'[c].status = credentials[c].status
    BY <2>1, <2>2, <2>3
  <2> QED BY <1>1, <2>4
<1>4. ASSUME UNCHANGED credentials PROVE FALSE
  BY <1>1, <1>4
<1>5. \/ \E x \in changes : Change(x)
      \/ Expire
      \/ UNCHANGED credentials
  BY DEF TrackingNext, trackingVars, OpenDialog, LoseChange, AskChange, RefuseChange, Lookup,
         Recheck, Show
<1> QED BY <1>2, <1>3, <1>4, <1>5

\* A link ends only at the hands of a command that had that very version on its
\* screen, and an ended link shows nothing, also to a page whose lookup found it
\* before (request-tracking.service.ts:121, request-tracking.repository.ts:109).
THEOREM LinksEndAsSeen == TrackingSpec => LinksEndSeen
<1>1. TrackingInit => TrackingInv
  BY TrackingInitInv
<1>2. TrackingInv /\ [TrackingNext]_trackingVars => TrackingInv'
  BY TrackingStepInv
<1>3. TrackingInv => RevokedLinkShowsNothing
  BY TrackingInvSafe
<1>4. TrackingInv /\ [TrackingNext]_trackingVars =>
        [\A c \in DOMAIN credentials :
           credentials[c].status = "active" /\ credentials'[c].status = "revoked"
             => \E x \in changes \ changes' : x.seen = c]_trackingVars
  BY EndedSeen
<1> QED BY <1>1, <1>2, <1>3, <1>4, PTL DEF TrackingSpec, LinksEndSeen

--------------------------------------------------------------------------------
(* Staff and their commands: the inductive invariant.                       *)

\* What a member of staff has read is no newer than the request, and of an
\* equal revision it is the request itself; the authority a transaction
\* resolved is still the actor's; and a checked target waits under the row.
Trusts(s) ==
  /\ session[s] # Idle =>
       /\ session[s].view.request.revision <= request.revision
       /\ session[s].view.request.revision = request.revision => session[s].view = Seen
  /\ Sharing(s) => session[s].access = Authority(s)
  /\ session[s].phase = "checked" =>
       /\ session[s].command.op = "legacy_assign"
       /\ session[s].command.arg \in Principals \cup {"department", "unassigned"}
       /\ Allows(session[s].access, request, "legacy_assign")

AssignmentRow == [type : {"owned", "department", "unassigned"}, target : Principals \cup {Nobody},
                  by : {"staff", "system", "development_staff"}]

HandlingInv ==
  /\ HandlingTypeOK
  /\ \A s \in Staff : Trusts(s)
  /\ \A s, t \in Staff : session[s].phase = "checked" /\ session[t].phase = "checked" => s = t
  /\ OwnershipExplained

LEMMA ActionIs ==
  ASSUME NEW op \in Actions
  PROVE  /\ op \in {"start_work", "hold", "resume", "close", "reopen"}
         /\ \A st \in DOMAIN Workflow[op] : Workflow[op][st] \in Statuses
BY DEF Actions, Workflow, Statuses

LEMMA HandlingInitInv == HandlingInit => HandlingInv
<1> SUFFICES ASSUME HandlingInit PROVE HandlingInv
  OBVIOUS
<1>1. PICK p \in Principals \cup {Nobody} :
        /\ assignment = IF p = Nobody THEN NoRow
                        ELSE [type |-> "owned", target |-> p, by |-> "system"]
        /\ explained = p
  BY DEF HandlingInit
<1>2. /\ assignment \in {NoRow} \cup AssignmentRow
      /\ explained = Owner
  <2>1. CASE p = Nobody
    BY <1>1, <2>1 DEF NoRow, Owner
  <2>2. CASE p # Nobody
    BY <1>1, <2>2 DEF AssignmentRow, Owner
  <2> QED BY <2>1, <2>2
<1>3. request \in Request
  BY HandlingAssumption DEF HandlingInit, Request, Statuses
<1>4. \A s \in Staff : session[s] = Idle /\ session[s].phase = "idle"
  BY DEF HandlingInit, Idle
<1>5. HandlingTypeOK
  BY <1>1, <1>2, <1>3, <1>4, HandlingAssumption
     DEF HandlingInit, HandlingTypeOK, AssignmentRow, RequestPermissions
<1> QED BY <1>2, <1>4, <1>5 DEF HandlingInv, Trusts, Sharing, OwnershipExplained

\* A command of s commits: it advances the revision, leaves authority alone
\* and ends the session of s; no other transaction holds the row.
LEMMA CommitInv ==
  ASSUME HandlingInv, NEW s \in Staff, session[s].phase \in {"authorized", "checked"},
         \A t \in Staff \ {s} : session[t].phase # "checked",
         Finish(s), UNCHANGED referenceVars,
         request' \in Request, request'.revision = request.revision + 1,
         assignment' \in {NoRow} \cup AssignmentRow,
         watchers' \in SUBSET Principals, explained' \in Principals \cup {Nobody},
         OwnershipExplained'
  PROVE  HandlingInv'
<1>1. /\ DOMAIN session' = Staff /\ session'[s] = Idle /\ Idle.phase = "idle"
      /\ \A t \in Staff \ {s} : session'[t] = session[t]
  BY DEF Finish, HandlingInv, HandlingTypeOK, Idle
<1>2. HandlingTypeOK'
  BY <1>1 DEF HandlingInv, HandlingTypeOK, AssignmentRow, referenceVars
<1>3. \A t \in Staff : Authority(t)' = Authority(t)
  BY DEF Authority, referenceVars
<1>4. \A t \in Staff : Trusts(t)'
  <2> SUFFICES ASSUME NEW t \in Staff PROVE Trusts(t)'
    OBVIOUS
  <2>1. CASE t = s
    BY <1>1, <2>1 DEF Trusts, Sharing
  <2>2. CASE t # s
    <3>1. Trusts(t) /\ session'[t] = session[t] /\ session[t].phase # "checked"
      BY <1>1, <2>2 DEF HandlingInv
    <3>2. session[t] # Idle => session[t].view.request.revision < request'.revision
      <4> SUFFICES ASSUME session[t] # Idle PROVE session[t].view.request.revision < request'.revision
        OBVIOUS
      <4>1. /\ session[t].view.request.revision <= request.revision
            /\ session[t].view.request.revision \in Nat /\ request.revision \in Nat
        BY <3>1 DEF Trusts, HandlingInv, HandlingTypeOK, View, Request
      <4> QED BY <4>1
    <3>3. session[t] # Idle =>
            /\ session[t].view.request.revision \in Nat /\ request'.revision \in Nat
      BY DEF HandlingInv, HandlingTypeOK, View, Request
    <3> QED BY <1>3, <3>1, <3>2, <3>3 DEF Trusts, Sharing
  <2> QED BY <2>1, <2>2
<1>5. \A t, u \in Staff : ~(session'[t].phase = "checked")
  BY <1>1
<1> QED BY <1>2, <1>4, <1>5 DEF HandlingInv

\* What a command that took the row has to start from.
LEMMA AdmittedHolds ==
  ASSUME HandlingInv, NEW s \in Staff, NEW op, Admitted(s, op)
  PROVE  /\ session[s].phase = "authorized" /\ session[s] # Idle
         /\ \A t \in Staff : session[t].phase # "checked"
         /\ session[s].access = Authority(s)
         /\ Allows(Authority(s), request, op)
<1>1. session[s].phase = "authorized" /\ Sharing(s)
  BY DEF Admitted, Sharing
<1>2. session[s] # Idle
  BY <1>1 DEF Idle
<1>3. session[s].access = Authority(s)
  BY <1>1 DEF HandlingInv, Trusts
<1> QED BY <1>1, <1>2, <1>3 DEF Admitted, RowHeld

\* The revision after a command.
LEMMA AdvanceIs ==
  ASSUME NEW s \in Staff, Current(s), HandlingInv, NEW changed \in Request, Advance(changed)
  PROVE  /\ request' \in Request /\ request'.revision = request.revision + 1
         /\ request'.routed = changed.routed
<1>1. request.revision + 1 \in 1..MaxRevision
  BY HandlingAssumption DEF Current, HandlingInv, HandlingTypeOK, Request
<1>2. PICK n \in 1..MaxRevision : n = request.revision + 1
  BY <1>1
<1>3. request' = [changed EXCEPT !.revision = n]
  BY <1>2 DEF Advance
<1> QED BY <1>2, <1>3 DEF Request

LEMMA WorkflowInv ==
  ASSUME HandlingInv, NEW s \in Staff, NEW c, DoWorkflow(s, c)
  PROVE  HandlingInv'
<1>1. /\ c.op \in Actions /\ Current(s) /\ request.status \in DOMAIN Workflow[c.op]
      /\ request \in Request
  BY DEF DoWorkflow, HandlingInv, HandlingTypeOK
<1>2. PICK st \in Statuses : st = Workflow[c.op][request.status]
  BY <1>1, ActionIs
<1>3. PICK changed : changed = [request EXCEPT !.status = st]
  OBVIOUS
<1>4. changed \in Request
  BY <1>1, <1>3 DEF Request
<1>5. Advance(changed)
  BY <1>2, <1>3 DEF DoWorkflow
<1>6. request' \in Request /\ request'.revision = request.revision + 1
  BY <1>1, <1>4, <1>5, AdvanceIs
<1>7. /\ session[s].phase = "authorized" /\ \A t \in Staff : session[t].phase # "checked"
  BY AdmittedHolds DEF DoWorkflow
<1>8. Finish(s) /\ UNCHANGED <<assignment, watchers, explained, referenceVars>>
  BY DEF DoWorkflow
<1>9. /\ assignment' \in {NoRow} \cup AssignmentRow /\ watchers' \in SUBSET Principals
      /\ explained' \in Principals \cup {Nobody} /\ OwnershipExplained'
  BY <1>8 DEF HandlingInv, HandlingTypeOK, AssignmentRow, OwnershipExplained, Owner
<1> QED BY <1>6, <1>7, <1>8, <1>9, CommitInv

\* Routing ends the assignments its new unit does not admit, and says so.
LEMMA RouteInv ==
  ASSUME HandlingInv, NEW s \in Staff, NEW c, DoRoute(s, c)
  PROVE  /\ HandlingInv'
         /\ UnitOf(request') = c.arg /\ c.arg \in member[s] \cap unitActive
         /\ Owner' # Nobody => Eligible(Owner', c.arg)
<1>1. /\ Current(s) /\ request \in Request /\ c.arg \in Units /\ c.arg \in unitActive
  BY DEF DoRoute, HandlingInv, HandlingTypeOK
<1>2. PICK changed : changed = [request EXCEPT !.routed = c.arg]
  OBVIOUS
<1>3. changed \in Request /\ changed.routed = c.arg
  BY <1>1, <1>2 DEF Request
<1>4. Advance(changed)
  BY <1>2 DEF DoRoute
<1>5. /\ request' \in Request /\ request'.revision = request.revision + 1
      /\ request'.routed = c.arg
  BY <1>1, <1>3, <1>4, AdvanceIs
<1>6. /\ session[s].phase = "authorized" /\ \A t \in Staff : session[t].phase # "checked"
      /\ session[s].access = Authority(s)
  BY AdmittedHolds DEF DoRoute
<1>7. Finish(s) /\ UNCHANGED <<watchers, referenceVars>> /\ ClearIneligible(c.arg)
  BY DEF DoRoute
<1>8. /\ assignment' \in {NoRow} \cup AssignmentRow /\ watchers' \in SUBSET Principals
      /\ explained' \in Principals \cup {Nobody} /\ OwnershipExplained'
      /\ Owner' # Nobody => Eligible(Owner', c.arg)
  <2>1. CASE Owner # Nobody /\ ~Eligible(Owner, c.arg)
    <3>1. assignment' = NoRow /\ explained' = Nobody
      BY <1>7, <2>1 DEF ClearIneligible
    <3>2. Owner' = Nobody
      BY <3>1 DEF Owner, NoRow
    <3> QED BY <1>7, <3>1, <3>2 DEF HandlingInv, HandlingTypeOK, OwnershipExplained
  <2>2. CASE ~(Owner # Nobody /\ ~Eligible(Owner, c.arg))
    <3>1. assignment' = assignment /\ explained' = explained
      BY <1>7, <2>2 DEF ClearIneligible
    <3>2. Owner' = Owner
      BY <3>1 DEF Owner
    <3> QED BY <1>7, <2>2, <3>1, <3>2
            DEF HandlingInv, HandlingTypeOK, AssignmentRow, OwnershipExplained
  <2> QED BY <2>1, <2>2
<1>9. UnitOf(request') = c.arg
  BY <1>1, <1>5, HandlingAssumption DEF UnitOf
<1>10. c.arg \in member[s]
  <2>1. c.arg \in session[s].access.units
    BY DEF DoRoute
  <2> QED BY <1>6, <2>1 DEF Authority
<1>11. HandlingInv'
  BY <1>5, <1>6, <1>7, <1>8, CommitInv
<1> QED BY <1>1, <1>8, <1>9, <1>10, <1>11

LEMMA EligibleIs ==
  ASSUME HandlingInv, NEW p, NEW unit, Eligible(p, unit)
  PROVE  p \in Principals
BY DEF HandlingInv, HandlingTypeOK, Eligible, Principals

LEMMA AssignInv ==
  ASSUME HandlingInv, NEW s \in Staff, NEW c, DoAssign(s, c)
  PROVE  HandlingInv'
<1>1. Current(s) /\ request \in Request /\ Advance(request)
  BY DEF DoAssign, HandlingInv, HandlingTypeOK
<1>2. request' \in Request /\ request'.revision = request.revision + 1
  BY <1>1, AdvanceIs
<1>3. session[s].phase = "authorized" /\ \A t \in Staff : session[t].phase # "checked"
  BY AdmittedHolds DEF DoAssign
<1>4. /\ Finish(s) /\ UNCHANGED <<watchers, referenceVars>> /\ explained' = c.arg
  BY DEF DoAssign
<1>5. /\ assignment' \in {NoRow} \cup AssignmentRow
      /\ c.arg \in Principals \cup {Nobody} /\ Owner' = c.arg
  <2>1. CASE c.arg = Nobody
    BY <2>1 DEF DoAssign, Owner, NoRow
  <2>2. CASE c.arg # Nobody
    <3>1. PICK p \in Principals : p = c.arg
      BY <2>2, EligibleIs DEF DoAssign
    <3>2. assignment' = [type |-> "owned", target |-> p, by |-> "staff"]
      BY <2>2, <3>1 DEF DoAssign
    <3> QED BY <3>1, <3>2 DEF AssignmentRow, Owner
  <2> QED BY <2>1, <2>2
<1>6. watchers' \in SUBSET Principals /\ OwnershipExplained'
  BY <1>4, <1>5 DEF HandlingInv, HandlingTypeOK, OwnershipExplained
<1> QED BY <1>2, <1>3, <1>4, <1>5, <1>6, CommitInv

LEMMA WatchInv ==
  ASSUME HandlingInv, NEW s \in Staff, NEW c, DoWatch(s, c)
  PROVE  HandlingInv'
<1>1. Current(s) /\ request \in Request /\ Advance(request)
  BY DEF DoWatch, HandlingInv, HandlingTypeOK
<1>2. request' \in Request /\ request'.revision = request.revision + 1
  BY <1>1, AdvanceIs
<1>3. session[s].phase = "authorized" /\ \A t \in Staff : session[t].phase # "checked"
  BY AdmittedHolds DEF DoWatch
<1>4. Finish(s) /\ UNCHANGED <<assignment, explained, referenceVars>>
  BY DEF DoWatch
<1>5. watchers \in SUBSET Principals
  BY DEF HandlingInv, HandlingTypeOK
<1>6. watchers' \in SUBSET Principals
  <2>1. CASE c.op \in {"remove", "unwatch"}
    BY <1>5, <2>1 DEF DoWatch
  <2>2. CASE c.op \notin {"remove", "unwatch"}
    BY <1>5, <2>2, EligibleIs DEF DoWatch
  <2> QED BY <2>1, <2>2
<1>7. /\ assignment' \in {NoRow} \cup AssignmentRow
      /\ explained' \in Principals \cup {Nobody} /\ OwnershipExplained'
  BY <1>4 DEF HandlingInv, HandlingTypeOK, AssignmentRow, OwnershipExplained, Owner
<1> QED BY <1>2, <1>3, <1>4, <1>6, <1>7, CommitInv

\* One session moves on; the request and the authority rows stay.
LEMMA SessionStepInv ==
  ASSUME HandlingInv, NEW s \in Staff, NEW row,
         session' = [session EXCEPT ![s] = row],
         UNCHANGED <<requestVars, referenceVars>>,
         row # Idle => /\ row.phase \in {"read", "authorized", "checked"}
                       /\ row.view \in View
                       /\ row.view.request.revision <= request.revision
                       /\ row.view.request.revision = request.revision => row.view = Seen,
         row.phase \in {"authorized", "checked"} => row.access = Authority(s),
         row.phase = "checked" =>
           /\ ~RowHeld
           /\ row.command.op = "legacy_assign"
           /\ row.command.arg \in Principals \cup {"department", "unassigned"}
           /\ Allows(row.access, request, "legacy_assign")
  PROVE  HandlingInv'
<1>1. /\ DOMAIN session' = Staff /\ session'[s] = row
      /\ \A t \in Staff \ {s} : session'[t] = session[t]
  BY DEF HandlingInv, HandlingTypeOK
<1>2. /\ request' = request /\ Seen' = Seen
      /\ \A t \in Staff : Authority(t)' = Authority(t)
  BY DEF requestVars, referenceVars, Seen, Owner, Authority
<1>3. HandlingTypeOK'
  BY <1>1 DEF HandlingInv, HandlingTypeOK, requestVars, referenceVars
<1>4. Trusts(s)'
  BY <1>1, <1>2 DEF Trusts, Sharing
<1>5. \A t \in Staff \ {s} : Trusts(t)'
  BY <1>1, <1>2 DEF HandlingInv, Trusts, Sharing
<1>6. \A t, u \in Staff : session'[t].phase = "checked" /\ session'[u].phase = "checked" => t = u
  BY <1>1 DEF HandlingInv, RowHeld
<1>7. OwnershipExplained'
  BY DEF HandlingInv, OwnershipExplained, Owner, requestVars
<1> QED BY <1>3, <1>4, <1>5, <1>6, <1>7 DEF HandlingInv

LEMMA SeenIsView == HandlingInv => Seen \in View /\ request.revision \in Nat /\ Seen.request = request
<1> SUFFICES ASSUME HandlingInv PROVE Seen \in View /\ request.revision \in Nat /\ Seen.request = request
  OBVIOUS
<1>1. Owner \in Principals \cup {Nobody}
  BY DEF HandlingInv, HandlingTypeOK, Owner, NoRow
<1> QED BY <1>1, HandlingAssumption DEF HandlingInv, HandlingTypeOK, Seen, View, Request

LEMMA ReadInv ==
  ASSUME HandlingInv, NEW s \in Staff, Read(s)
  PROVE  HandlingInv'
<1>1. PICK v \in View : v = Seen
  BY SeenIsView
<1>2. PICK row : row = [phase |-> "read", view |-> v]
  OBVIOUS
<1>3. session' = [session EXCEPT ![s] = row] /\ UNCHANGED <<requestVars, referenceVars>>
  BY <1>1, <1>2 DEF Read
<1>4. row.phase = "read" /\ row.view = v /\ v.request.revision <= request.revision
  BY <1>1, <1>2, SeenIsView
<1> QED BY <1>1, <1>3, <1>4, SessionStepInv

LEMMA AuthorizeInv ==
  ASSUME HandlingInv, NEW s \in Staff, Authorize(s)
  PROVE  HandlingInv'
<1>1. session[s] # Idle /\ session[s].phase = "read"
  BY DEF Authorize, Idle
<1>2. PICK v \in View : v = session[s].view
  BY <1>1 DEF HandlingInv, HandlingTypeOK
<1>3. /\ v.request.revision <= request.revision
      /\ v.request.revision = request.revision => v = Seen
  BY <1>1, <1>2 DEF HandlingInv, Trusts
<1>4. PICK row : row = [phase |-> "authorized", view |-> v, access |-> Authority(s)]
  OBVIOUS
<1>5. session' = [session EXCEPT ![s] = row] /\ UNCHANGED <<requestVars, referenceVars>>
  BY <1>2, <1>4 DEF Authorize
<1>6. row.phase = "authorized" /\ row.view = v /\ row.access = Authority(s)
  BY <1>4
<1> QED BY <1>2, <1>3, <1>5, <1>6, SessionStepInv

LEMMA LegacyCheckInv ==
  ASSUME HandlingInv, NEW s \in Staff, NEW c, LegacyCheck(s, c)
  PROVE  HandlingInv'
<1>1. /\ session[s].phase = "authorized" /\ session[s] # Idle /\ ~RowHeld
      /\ session[s].access = Authority(s) /\ Allows(Authority(s), request, "legacy_assign")
  BY AdmittedHolds DEF LegacyCheck, RowHeld
<1>2. PICK v \in View : v = session[s].view
  BY <1>1 DEF HandlingInv, HandlingTypeOK
<1>3. /\ v.request.revision <= request.revision
      /\ v.request.revision = request.revision => v = Seen
  BY <1>1, <1>2 DEF HandlingInv, Trusts
<1>4. PICK row : row = [phase |-> "checked", view |-> v, access |-> Authority(s), command |-> c]
  OBVIOUS
<1>5. session' = [session EXCEPT ![s] = row] /\ UNCHANGED <<requestVars, referenceVars>>
  BY <1>1, <1>2, <1>4 DEF LegacyCheck, HandlingInv, HandlingTypeOK
<1>6. row.phase = "checked" /\ row.view = v /\ row.access = Authority(s) /\ row.command = c
  BY <1>4
<1>7. c.op = "legacy_assign" /\ c.arg \in Principals \cup {"department", "unassigned"}
  BY DEF LegacyCheck, HandlingInv, HandlingTypeOK, Principals
<1> QED BY <1>1, <1>2, <1>3, <1>5, <1>6, <1>7, SessionStepInv

LEMMA FailInv ==
  ASSUME HandlingInv, NEW s \in Staff, FailCommand(s)
  PROVE  HandlingInv'
<1>1. PICK row : row = Idle
  OBVIOUS
<1>2. row.phase = "idle"
  BY <1>1 DEF Idle
<1>3. session' = [session EXCEPT ![s] = row] /\ UNCHANGED <<requestVars, referenceVars>>
  BY <1>1 DEF FailCommand, Finish
<1> QED BY <1>1, <1>2, <1>3, SessionStepInv

LEMMA CheckedHolds ==
  ASSUME HandlingInv, NEW s \in Staff, NEW c, LegacyAssign(s, c)
  PROVE  /\ session[s].phase = "checked" /\ session[s] # Idle
         /\ \A t \in Staff \ {s} : session[t].phase # "checked"
         /\ c.op = "legacy_assign" /\ c.arg \in Principals \cup {"department", "unassigned"}
         /\ Allows(Authority(s), request, c.op)
<1>1. session[s].phase = "checked" /\ c = session[s].command /\ Sharing(s)
  BY DEF LegacyAssign, Sharing
<1>2. session[s] # Idle
  BY <1>1 DEF Idle
<1>3. Trusts(s)
  BY DEF HandlingInv
<1> QED BY <1>1, <1>2, <1>3 DEF HandlingInv, Trusts

LEMMA LegacyAssignInv ==
  ASSUME HandlingInv, NEW s \in Staff, NEW c, LegacyAssign(s, c)
  PROVE  HandlingInv'
<1>1. Current(s) /\ request \in Request /\ Advance(request)
  BY DEF LegacyAssign, HandlingInv, HandlingTypeOK
<1>2. request' \in Request /\ request'.revision = request.revision + 1
  BY <1>1, AdvanceIs
<1>3. /\ session[s].phase = "checked" /\ \A t \in Staff \ {s} : session[t].phase # "checked"
      /\ c.arg \in Principals \cup {"department", "unassigned"}
  BY CheckedHolds
<1>4. Finish(s) /\ UNCHANGED <<watchers, explained, referenceVars>>
  BY DEF LegacyAssign
<1>5. assignment' \in AssignmentRow /\ assignment'.by = "development_staff"
  <2>1. CASE c.arg \in Principals
    BY <2>1 DEF LegacyAssign, AssignmentRow
  <2>2. CASE c.arg \notin Principals
    BY <1>3, <2>2 DEF LegacyAssign, AssignmentRow
  <2> QED BY <2>1, <2>2
<1>6. /\ watchers' \in SUBSET Principals /\ explained' \in Principals \cup {Nobody}
      /\ OwnershipExplained'
  BY <1>4, <1>5 DEF HandlingInv, HandlingTypeOK, OwnershipExplained
<1> QED BY <1>2, <1>3, <1>4, <1>5, <1>6, CommitInv

\* Authority and reference rows change only when nobody shares the access
\* state, or in what no transaction has resolved.
LEMMA ReorganizeInv ==
  ASSUME HandlingInv, Reorganize
  PROVE  HandlingInv'
<1>1. UNCHANGED <<requestVars, session>> /\ reorganizations' \in 0..MaxReorganizations
  BY HandlingAssumption DEF Reorganize, HandlingInv, HandlingTypeOK
<1>2. request' = request /\ Seen' = Seen /\ session' = session /\ OwnershipExplained'
  BY <1>1 DEF requestVars, Seen, Owner, HandlingInv, OwnershipExplained
<1>3. /\ granted' \in [Staff -> SUBSET RequestPermissions] /\ member' \in [Staff -> SUBSET Units]
      /\ employed' \in SUBSET Staff /\ groupActive' \in SUBSET Groups
      /\ unitActive' \in SUBSET Units
      /\ \A s \in Staff : Sharing(s) => Authority(s)' = Authority(s)
  <2>1. /\ granted \in [Staff -> SUBSET RequestPermissions] /\ member \in [Staff -> SUBSET Units]
        /\ employed \in SUBSET Staff /\ groupActive \in SUBSET Groups
        /\ unitActive \in SUBSET Units
    BY DEF HandlingInv, HandlingTypeOK
  <2>2. CASE ChangeReference
    <3>1. UNCHANGED <<granted, member, employed>>
      BY <2>2 DEF ChangeReference
    <3>2. groupActive' \in SUBSET Groups /\ unitActive' \in SUBSET Units
      BY <2>1, <2>2 DEF ChangeReference, Toggle
    <3> QED BY <2>1, <3>1, <3>2 DEF Authority
  <2>3. CASE ChangeAuthority
    <3>1. PICK s \in Staff :
            \/ /\ \E p \in Revocable : granted' = [granted EXCEPT ![s] = Toggle(@, p)]
               /\ UNCHANGED <<member, employed>>
            \/ /\ \E u \in Units : member' = [member EXCEPT ![s] = Toggle(@, u)]
               /\ UNCHANGED <<granted, employed>>
            \/ /\ employed' = Toggle(employed, s)
               /\ UNCHANGED <<granted, member>>
      BY <2>3 DEF ChangeAuthority
    <3>2. UNCHANGED <<groupActive, unitActive>> /\ \A t \in Staff : ~Sharing(t)
      BY <2>3 DEF ChangeAuthority, AccessStateFree
    <3>3. /\ granted' \in [Staff -> SUBSET RequestPermissions]
          /\ member' \in [Staff -> SUBSET Units] /\ employed' \in SUBSET Staff
      <4>1. \A p \in Revocable : Toggle(granted[s], p) \in SUBSET RequestPermissions
        BY <2>1, RevocableAssumption DEF Toggle
      <4>2. \A u \in Units : Toggle(member[s], u) \in SUBSET Units
        BY <2>1 DEF Toggle
      <4>3. Toggle(employed, s) \in SUBSET Staff
        BY <2>1 DEF Toggle
      <4> QED BY <2>1, <3>1, <4>1, <4>2, <4>3
    <3> QED BY <2>1, <3>2, <3>3
  <2> QED BY <2>2, <2>3 DEF Reorganize
<1>4. HandlingTypeOK'
  BY <1>1, <1>2, <1>3 DEF HandlingInv, HandlingTypeOK, requestVars
<1>5. \A s \in Staff : Trusts(s)'
  BY <1>2, <1>3 DEF HandlingInv, Trusts, Sharing
<1> QED BY <1>2, <1>4, <1>5 DEF HandlingInv

LEMMA HandlingStepInv == HandlingInv /\ [HandlingNext]_handlingVars => HandlingInv'
<1> SUFFICES ASSUME HandlingInv, [HandlingNext]_handlingVars PROVE HandlingInv'
  OBVIOUS
<1>1. ASSUME UNCHANGED handlingVars PROVE HandlingInv'
  <2>1. /\ UNCHANGED <<request, assignment, watchers, explained, session>>
        /\ UNCHANGED <<granted, member, employed, groupActive, unitActive, reorganizations>>
    BY <1>1 DEF handlingVars, requestVars, referenceVars
  <2>2. HandlingTypeOK'
    BY <2>1 DEF HandlingInv, HandlingTypeOK
  <2>3. Seen' = Seen /\ Owner' = Owner /\ \A s \in Staff : Authority(s)' = Authority(s)
    BY <2>1 DEF Seen, Owner, Authority
  <2>4. \A s \in Staff : Trusts(s)'
    BY <2>1, <2>3 DEF HandlingInv, Trusts, Sharing
  <2> QED BY <2>1, <2>2, <2>3, <2>4 DEF HandlingInv, OwnershipExplained
<1>2. ASSUME NEW s \in Staff, NEW c, Do(s, c) PROVE HandlingInv'
  BY <1>2, WorkflowInv, RouteInv, AssignInv, WatchInv, LegacyCheckInv, LegacyAssignInv DEF Do
<1> QED BY <1>1, <1>2, ReadInv, AuthorizeInv, FailInv, ReorganizeInv DEF HandlingNext

--------------------------------------------------------------------------------
(* What staff can count on.                                                 *)

\* A step that changes the request and a session is a commit of that session.
LEMMA ActsIsCommit ==
  ASSUME HandlingInv, [HandlingNext]_handlingVars, NEW s \in Staff, Acts(s)
  PROVE  \E c \in Offered(s, session[s].view) :
           DoWorkflow(s, c) \/ DoRoute(s, c) \/ DoAssign(s, c) \/ DoWatch(s, c) \/ LegacyAssign(s, c)
<1>1. request' # request /\ session'[s] # session[s] /\ DOMAIN session = Staff
  BY DEF Acts, HandlingInv, HandlingTypeOK
<1>2. PICK t \in Staff : \E c \in Offered(t, session[t].view) : Do(t, c)
  BY <1>1 DEF HandlingNext, Read, Authorize, FailCommand, Reorganize, handlingVars, requestVars
<1>3. PICK c \in Offered(t, session[t].view) : Do(t, c)
  BY <1>2
<1>4. ~LegacyCheck(t, c)
  BY <1>1 DEF LegacyCheck, requestVars
<1>5. Finish(t)
  BY <1>3, <1>4 DEF Do, DoWorkflow, DoRoute, DoAssign, DoWatch, LegacyAssign
<1>6. t = s
  BY <1>1, <1>5 DEF Finish
<1> QED BY <1>3, <1>4, <1>6 DEF Do

LEMMA CommitIsCurrent ==
  ASSUME HandlingInv, [HandlingNext]_handlingVars, NEW s \in Staff, Acts(s)
  PROVE  session[s].view = Seen
<1>1. PICK c \in Offered(s, session[s].view) :
        DoWorkflow(s, c) \/ DoRoute(s, c) \/ DoAssign(s, c) \/ DoWatch(s, c) \/ LegacyAssign(s, c)
  BY ActsIsCommit
<1>2. Current(s)
  BY <1>1 DEF DoWorkflow, DoRoute, DoAssign, DoWatch, LegacyAssign
<1>3. session[s] # Idle
  <2>1. CASE LegacyAssign(s, c)
    BY <2>1, CheckedHolds
  <2>2. CASE ~LegacyAssign(s, c)
    BY <1>1, <2>2, AdmittedHolds DEF DoWorkflow, DoRoute, DoAssign, DoWatch
  <2> QED BY <2>1, <2>2
<1> QED BY <1>2, <1>3 DEF Current, HandlingInv, Trusts

LEMMA CommandIsAllowed ==
  ASSUME HandlingInv, NEW s \in Staff, NEW c, Do(s, c)
  PROVE  Allows(Authority(s), request, c.op)
<1>1. CASE LegacyAssign(s, c)
  BY <1>1, CheckedHolds
<1>2. CASE ~LegacyAssign(s, c)
  BY <1>2, AdmittedHolds DEF Do, DoWorkflow, DoRoute, DoAssign, DoWatch, LegacyCheck
<1> QED BY <1>1, <1>2

LEMMA RouteIsEligible ==
  ASSUME HandlingInv, [HandlingNext]_handlingVars, NEW s \in Staff, Acts(s),
         request'.routed # request.routed
  PROVE  /\ Owner' # Nobody => Eligible(Owner', UnitOf(request'))
         /\ UnitOf(request') \in member[s] \cap unitActive
<1>1. PICK c \in Offered(s, session[s].view) :
        DoWorkflow(s, c) \/ DoRoute(s, c) \/ DoAssign(s, c) \/ DoWatch(s, c) \/ LegacyAssign(s, c)
  BY ActsIsCommit
<1>2. request \in Request
  BY DEF HandlingInv, HandlingTypeOK
<1>3. DoRoute(s, c)
  <2>1. Advance(request) => request'.routed = request.routed
    BY <1>2 DEF Advance, Request
  <2>2. DoWorkflow(s, c) => request'.routed = request.routed
    BY <1>2 DEF DoWorkflow, Advance, Request
  <2> QED BY <1>1, <2>1, <2>2 DEF DoAssign, DoWatch, LegacyAssign
<1> QED BY <1>3, RouteInv

\* Staff act on what they read: nobody changed status, route, owner or watchers
\* between the reading and the commit, by either assignment path
\* (staff-actions.service.ts:110, internal-request-mutations.service.ts:119).
THEOREM ActionsMatchTheReading == HandlingSpec => StaffActOnWhatTheyRead
<1>1. HandlingInit => HandlingInv
  BY HandlingInitInv
<1>2. HandlingInv /\ [HandlingNext]_handlingVars => HandlingInv'
  BY HandlingStepInv
<1>3. HandlingInv /\ [HandlingNext]_handlingVars =>
        [\A s \in Staff : Acts(s) => session[s].view = Seen]_handlingVars
  BY CommitIsCurrent
<1> QED BY <1>1, <1>2, <1>3, PTL DEF HandlingSpec, StaffActOnWhatTheyRead

\* A command commits with authority its actor has at the commit
\* (request-authorization.ts:104).
THEOREM AuthorityIsCurrent == HandlingSpec => AuthorityHoldsAtCommit
<1>1. HandlingInit => HandlingInv
  BY HandlingInitInv
<1>2. HandlingInv /\ [HandlingNext]_handlingVars => HandlingInv'
  BY HandlingStepInv
<1>3. HandlingInv /\ [HandlingNext]_handlingVars =>
        [\A s \in Staff : Acts(s) => \A c \in Offered(s, session[s].view) :
           Do(s, c) => Allows(Authority(s), request, c.op)]_handlingVars
  BY CommandIsAllowed
<1> QED BY <1>1, <1>2, <1>3, PTL DEF HandlingSpec, AuthorityHoldsAtCommit

\* The last ownership event names the owner, unless the legacy path wrote the
\* assignment; and a route leaves an owner of the new unit or none
\* (request-ownership.service.ts:63).
THEOREM OwnersFollowTheRoute == HandlingSpec => OwnerEligibleAndExplained
<1>1. HandlingInit => HandlingInv
  BY HandlingInitInv
<1>2. HandlingInv /\ [HandlingNext]_handlingVars => HandlingInv'
  BY HandlingStepInv
<1>3. HandlingInv /\ [HandlingNext]_handlingVars =>
        [/\ OwnershipExplained'
         /\ \A s \in Staff : Acts(s) /\ request'.routed # request.routed =>
              /\ Owner' # Nobody => Eligible(Owner', UnitOf(request'))
              /\ UnitOf(request') \in member[s] \cap unitActive]_handlingVars
  <2>1. HandlingInv' => OwnershipExplained'
    BY DEF HandlingInv
  <2> QED BY <2>1, HandlingStepInv, RouteIsEligible
<1> QED BY <1>1, <1>2, <1>3, PTL DEF HandlingSpec, OwnerEligibleAndExplained
================================================================================
