------------------ MODULE OrganizationAdministrationProofs ------------------
(***************************************************************************)
(* Administration of one Organization, for any number of staff, operators, *)
(* name servers and steps: access keeps a manager and saves do what was    *)
(* reviewed, a hostname serves those who proved and approved it, required  *)
(* answers fit the settings, a save replaces the content it was opened on, *)
(* residents see contacts somebody else approved, and the operators'       *)
(* records account for every change of the registry.                       *)
(***************************************************************************)
EXTENDS MCOrganizationAdministration, FiniteSetTheorems, TLAPS

--------------------------------------------------------------------------------
(* Access administration: the inductive invariant.                          *)

StateRow == [revision : 0..MaxAccessRevision, bootstrapped : BOOLEAN]

\* What an editor shows is no newer than the access state, and of an equal
\* revision it is what the owned and the other roles hold.
DetailHolds(d) ==
  /\ d \in Detail
  /\ d.revision <= state.revision
  /\ d.revision = state.revision =>
       /\ d.managed = owned["operational"][d.target]
       /\ d.outside = Locked("operational", d.target)

OpenEditor == [stage : {"editing", "review", "saving", "stale", "uncertain", "denied"},
               detail : Detail, desired : SUBSET Manageable]

EditorRow(e) == e = NoEditor \/ e \in OpenEditor

AccessInv ==
  /\ AccessTypeOK
  /\ DOMAIN editor = Principal
  /\ \A s \in Principal : EditorRow(editor[s]) /\ (editor[s] # NoEditor => DetailHolds(editor[s].detail))
  /\ \A c \in directives : /\ c.expected = c.detail.revision
                           /\ c.desired \in SUBSET Manageable
                           /\ DetailHolds(c.detail)
  /\ ManagerRetained

\* What one member of staff holds, split into one owned role and the rest.
LEMMA EffectiveSplits ==
  ASSUME NEW s, NEW kind \in Kinds
  PROVE  Effective(s) = IF s \in active THEN Locked(kind, s) \cup owned[kind][s] ELSE {}
<1>1. ASSUME NEW x
      PROVE  x \in legacy[s] \cup UNION {owned[k][s] : k \in Kinds}
               <=> x \in Locked(kind, s) \cup owned[kind][s]
  BY <1>1 DEF Locked
<1> QED BY <1>1 DEF Effective

LEMMA LockedIs ==
  ASSUME AccessInv, NEW s \in Principal, NEW kind \in Kinds
  PROVE  /\ Locked(kind, s) \in SUBSET Permissions
         /\ owned[kind][s] \in SUBSET Permissions
         /\ Effective(s) \in SUBSET Permissions
<1>1. Locked(kind, s) \in SUBSET Permissions /\ owned[kind][s] \in SUBSET Permissions
  BY DEF AccessInv, AccessTypeOK, Locked
<1> QED BY <1>1, EffectiveSplits

LEMMA NoEditorIs == NoEditor.stage = "closed" /\ NoEditor \notin OpenEditor
BY DEF NoEditor, OpenEditor

\* An editor that is open is one whose row says so.
LEMMA EditorIsOpen ==
  ASSUME AccessInv, NEW s \in Principal, editor[s].stage # "closed"
  PROVE  editor[s] # NoEditor /\ DetailHolds(editor[s].detail) /\ EditorRow(editor[s])
BY NoEditorIs DEF AccessInv

LEMMA AccessInitInv == AccessInit => AccessInv
<1> SUFFICES ASSUME AccessInit PROVE AccessInv
  OBVIOUS
<1>1. state \in StateRow /\ state.bootstrapped = FALSE
  BY AccessAssumption DEF AccessInit, StateRow
<1>2. AccessTypeOK
  BY <1>1, AccessAssumption DEF AccessInit, AccessTypeOK, Kinds, StateRow
<1> QED BY <1>1, <1>2 DEF AccessInit, AccessInv, EditorRow, ManagerRetained

\* Every step keeps the invariant that types what it writes, advances the
\* revision when it writes access, and takes details from what there were.
LEMMA AccessChangeInv ==
  ASSUME AccessInv,
         active' \in SUBSET Principal, owned' \in [Kinds -> [Principal -> SUBSET Permissions]],
         owned'["operational"] \in [Principal -> SUBSET Manageable],
         legacy' \in [Principal -> SUBSET Permissions], state' \in StateRow,
         elsewhere' \in 0..MaxElsewhere, preview' # NoDraft => preview' \in StateRow,
         state'.revision = state.revision + 1 \/ UNCHANGED <<owned, legacy, state>>,
         DOMAIN editor' = Principal,
         \A s \in Principal : EditorRow(editor'[s]) /\ (editor'[s] # NoEditor => DetailHolds(editor'[s].detail)),
         \A c \in directives' : /\ c.expected = c.detail.revision
                                /\ c.desired \in SUBSET Manageable
                                /\ DetailHolds(c.detail),
         ManagerRetained'
  PROVE  AccessInv'
<1>1. state \in StateRow /\ state.revision \in Nat /\ MaxAccessRevision \in Nat
  BY AccessAssumption DEF AccessInv, AccessTypeOK, StateRow
<1>2. ASSUME NEW d, DetailHolds(d) PROVE DetailHolds(d)'
  <2>1. d \in Detail /\ d.revision \in Nat /\ d.revision <= state.revision
    BY <1>2, AccessAssumption DEF DetailHolds, Detail
  <2>2. CASE state'.revision = state.revision + 1
    BY <1>1, <2>1, <2>2 DEF DetailHolds
  <2>3. CASE UNCHANGED <<owned, legacy, state>>
    BY <1>2, <2>3 DEF DetailHolds, Locked
  <2> QED BY <2>2, <2>3
<1>3. \A s \in Principal : editor'[s] # NoEditor =>
        /\ editor'[s].stage \in {"editing", "review", "saving", "stale", "uncertain", "denied"}
        /\ editor'[s].detail \in Detail /\ editor'[s].desired \in SUBSET Manageable
  BY DEF EditorRow, OpenEditor
<1>4. AccessTypeOK'
  BY <1>3 DEF AccessTypeOK, StateRow
<1> QED BY <1>2, <1>4 DEF AccessInv

\* Only one editor moves.
LEMMA EditorStepInv ==
  ASSUME AccessInv, NEW s \in Principal, NEW row,
         editor' = [editor EXCEPT ![s] = row], EditorRow(row),
         row # NoEditor => DetailHolds(row.detail),
         UNCHANGED <<active, owned, legacy, state, preview, elsewhere>>,
         \A c \in directives' : /\ c.expected = c.detail.revision
                                /\ c.desired \in SUBSET Manageable
                                /\ DetailHolds(c.detail)
  PROVE  AccessInv'
<1>1. /\ DOMAIN editor' = Principal
      /\ \A t \in Principal : EditorRow(editor'[t]) /\ (editor'[t] # NoEditor => DetailHolds(editor'[t].detail))
  BY DEF AccessInv
<1>2. ManagerRetained'
  BY DEF AccessInv, ManagerRetained, Managers, Effective
<1>3. /\ active' \in SUBSET Principal /\ owned' \in [Kinds -> [Principal -> SUBSET Permissions]]
      /\ owned'["operational"] \in [Principal -> SUBSET Manageable]
      /\ legacy' \in [Principal -> SUBSET Permissions] /\ state' \in StateRow
      /\ elsewhere' \in 0..MaxElsewhere /\ (preview' # NoDraft => preview' \in StateRow)
  BY DEF AccessInv, AccessTypeOK, StateRow
<1> QED BY <1>1, <1>2, <1>3, AccessChangeInv

LEMMA OpenInv ==
  ASSUME AccessInv, NEW s \in Principal, Open(s)
  PROVE  AccessInv'
<1>1. PICK t \in active \ {s} :
        editor' = [editor EXCEPT ![s] = [stage |-> "editing", detail |-> DetailOf(t),
                                         desired |-> owned["operational"][t]]]
  BY DEF Open
<1>2. t \in Principal
  BY <1>1 DEF AccessInv, AccessTypeOK
<1>3. PICK d : d = DetailOf(t)
  OBVIOUS
<1>4. DetailHolds(d)
  <2>1. PICK n \in 0..MaxAccessRevision : n = state.revision
    BY DEF AccessInv, AccessTypeOK
  <2>2. PICK m \in SUBSET Permissions, o \in SUBSET Permissions :
          m = owned["operational"][t] /\ o = Locked("operational", t)
    BY <1>2, LockedIs DEF Kinds
  <2>3. d = [target |-> t, managed |-> m, outside |-> o, revision |-> n]
    BY <1>3, <2>1, <2>2 DEF DetailOf
  <2> QED BY <1>2, <2>1, <2>2, <2>3, AccessAssumption DEF DetailHolds, Detail
<1>5. PICK w \in SUBSET Manageable : w = owned["operational"][t]
  BY <1>2 DEF AccessInv, AccessTypeOK
<1>6. PICK row : row = [stage |-> "editing", detail |-> d, desired |-> w]
  OBVIOUS
<1>7. row.stage = "editing" /\ row.detail = d /\ row.desired = w /\ row # NoEditor
  BY <1>6, NoEditorIs
<1>8. editor' = [editor EXCEPT ![s] = row]
  BY <1>1, <1>3, <1>5, <1>6
<1>9. EditorRow(row)
  BY <1>4, <1>5, <1>6 DEF EditorRow, OpenEditor, DetailHolds
<1> QED BY <1>4, <1>7, <1>8, <1>9, EditorStepInv DEF Open, AccessInv

LEMMA CloseEditorInv ==
  ASSUME AccessInv, NEW s \in Principal, CloseEditor(s)
  PROVE  AccessInv'
<1>1. EditorRow(NoEditor)
  BY DEF EditorRow
<1> QED BY <1>1, EditorStepInv DEF CloseEditor, AccessInv

\* The stage of an open editor moves, and perhaps its draft.
LEMMA StageIs ==
  ASSUME AccessInv, NEW s \in Principal, editor[s].stage # "closed",
         NEW stage \in {"editing", "review", "saving", "stale", "uncertain", "denied"}, NEW row,
         \/ row = [editor[s] EXCEPT !.stage = stage]
         \/ \E desired \in SUBSET Manageable :
              row = [[editor[s] EXCEPT !.stage = stage] EXCEPT !.desired = desired]
  PROVE  EditorRow(row) /\ row # NoEditor /\ DetailHolds(row.detail)
<1>1. PICK e \in OpenEditor : e = editor[s] /\ DetailHolds(e.detail)
  BY EditorIsOpen, NoEditorIs DEF EditorRow
<1>2. row \in OpenEditor /\ row.detail = e.detail
  <2>1. CASE row = [editor[s] EXCEPT !.stage = stage]
    BY <1>1, <2>1 DEF OpenEditor
  <2>2. ASSUME NEW desired \in SUBSET Manageable,
               row = [[editor[s] EXCEPT !.stage = stage] EXCEPT !.desired = desired]
        PROVE  row \in OpenEditor /\ row.detail = e.detail
    <3>1. PICK f : f = [e EXCEPT !.stage = stage]
      OBVIOUS
    <3>2. f \in OpenEditor /\ f.detail = e.detail
      BY <3>1 DEF OpenEditor
    <3>3. row = [f EXCEPT !.desired = desired]
      BY <1>1, <2>2, <3>1
    <3> QED BY <3>2, <3>3 DEF OpenEditor
  <2> QED BY <2>1, <2>2
<1> QED BY <1>1, <1>2, NoEditorIs DEF EditorRow

LEMMA ReviewInv ==
  ASSUME AccessInv, NEW s \in Principal, Review(s)
  PROVE  AccessInv'
<1>1. editor[s].stage # "closed"
  BY DEF Review
<1>2. PICK desired \in SUBSET Manageable :
        editor' = [editor EXCEPT ![s].stage = "review", ![s].desired = desired]
  BY DEF Review
<1>3. PICK row : row = [[editor[s] EXCEPT !.stage = "review"] EXCEPT !.desired = desired]
  OBVIOUS
<1>4. editor' = [editor EXCEPT ![s] = row]
  BY <1>2, <1>3 DEF AccessInv
<1>5. EditorRow(row) /\ DetailHolds(row.detail)
  BY <1>1, <1>3, StageIs
<1> QED BY <1>4, <1>5, EditorStepInv DEF Review, AccessInv

LEMMA SaveInv ==
  ASSUME AccessInv, NEW s \in Principal, Save(s)
  PROVE  AccessInv'
<1>1. editor[s].stage # "closed"
  BY DEF Save
<1>2. PICK e \in OpenEditor : e = editor[s] /\ DetailHolds(e.detail)
  BY <1>1, EditorIsOpen, NoEditorIs DEF EditorRow
<1>3. PICK row : row = [editor[s] EXCEPT !.stage = "saving"]
  OBVIOUS
<1>4. EditorRow(row) /\ DetailHolds(row.detail)
  BY <1>1, <1>3, StageIs
<1>5. PICK x : x = [actor |-> s, expected |-> e.detail.revision, detail |-> e.detail,
                    desired |-> e.desired]
  OBVIOUS
<1>6. x.expected = x.detail.revision /\ x.desired \in SUBSET Manageable /\ DetailHolds(x.detail)
  BY <1>2, <1>5 DEF OpenEditor
<1>7. editor' = [editor EXCEPT ![s] = row] /\ directives' = directives \cup {x}
  BY <1>2, <1>3, <1>5 DEF Save
<1> QED BY <1>4, <1>6, <1>7, EditorStepInv DEF Save, AccessInv

LEMMA LoseSaveInv ==
  ASSUME AccessInv, NEW s \in Principal, LoseSave(s)
  PROVE  AccessInv'
<1>1. PICK row : row = [editor[s] EXCEPT !.stage = "uncertain"]
  OBVIOUS
<1>2. EditorRow(row) /\ DetailHolds(row.detail)
  BY <1>1, StageIs DEF LoseSave
<1>3. editor' = [editor EXCEPT ![s] = row]
  BY <1>1 DEF LoseSave
<1> QED BY <1>2, <1>3, EditorStepInv DEF LoseSave, AccessInv

\* An answer reaches the editor that waits for it, or nobody.
LEMMA AnswerIs ==
  ASSUME AccessInv, NEW c \in directives, NEW stage \in {"closed", "denied", "stale"}, Answer(c, stage)
  PROVE  /\ directives' = directives \ {c} /\ DOMAIN editor' = Principal
         /\ \A s \in Principal : EditorRow(editor'[s]) /\ (editor'[s] # NoEditor => DetailHolds(editor'[s].detail))
<1>1. CASE editor' = editor
  BY <1>1 DEF Answer, AccessInv
<1>2. CASE editor' # editor
  <2>1. /\ editor[c.actor].stage = "saving"
        /\ editor' = [editor EXCEPT ![c.actor] = IF stage = "closed" THEN NoEditor
                                                 ELSE [@ EXCEPT !.stage = stage]]
    BY <1>2 DEF Answer
  <2>2. CASE c.actor \notin Principal
    <3>1. DOMAIN editor' = Principal /\ \A s \in Principal : editor'[s] = editor[s]
      BY <2>1, <2>2 DEF AccessInv
    <3> QED BY <3>1 DEF Answer, AccessInv
  <2>3. CASE c.actor \in Principal
    <3>1. PICK row : row = IF stage = "closed" THEN NoEditor ELSE [editor[c.actor] EXCEPT !.stage = stage]
      OBVIOUS
    <3>2. EditorRow(row) /\ (row # NoEditor => DetailHolds(row.detail))
      <4>1. CASE stage = "closed"
        BY <3>1, <4>1 DEF EditorRow
      <4>2. CASE stage # "closed"
        BY <2>1, <2>3, <3>1, <4>2, StageIs
      <4> QED BY <4>1, <4>2
    <3>3. editor' = [editor EXCEPT ![c.actor] = row]
      BY <2>1, <2>3, <3>1 DEF AccessInv
    <3> QED BY <2>3, <3>2, <3>3 DEF Answer, AccessInv
  <2> QED BY <2>2, <2>3
<1> QED BY <1>1, <1>2

LEMMA RefuseInv ==
  ASSUME AccessInv, NEW c \in directives, RefuseChangeOf(c)
  PROVE  AccessInv'
<1>1. \E stage \in {"closed", "denied", "stale"} : Answer(c, stage)
  BY DEF RefuseChangeOf
<1>2. /\ directives' = directives \ {c} /\ DOMAIN editor' = Principal
      /\ \A s \in Principal : EditorRow(editor'[s]) /\ (editor'[s] # NoEditor => DetailHolds(editor'[s].detail))
  BY <1>1, AnswerIs
<1>3. UNCHANGED <<active, owned, legacy, state, preview, elsewhere>>
  BY DEF RefuseChangeOf
<1>4. ManagerRetained'
  BY <1>3 DEF AccessInv, ManagerRetained, Managers, Effective
<1>5. /\ active' \in SUBSET Principal /\ owned' \in [Kinds -> [Principal -> SUBSET Permissions]]
      /\ owned'["operational"] \in [Principal -> SUBSET Manageable]
      /\ legacy' \in [Principal -> SUBSET Permissions] /\ state' \in StateRow
      /\ elsewhere' \in 0..MaxElsewhere /\ (preview' # NoDraft => preview' \in StateRow)
  BY <1>3 DEF AccessInv, AccessTypeOK, StateRow
<1>6. \A x \in directives' : /\ x.expected = x.detail.revision
                             /\ x.desired \in SUBSET Manageable
                             /\ DetailHolds(x.detail)
  BY <1>2 DEF AccessInv
<1> QED BY <1>2, <1>3, <1>4, <1>5, <1>6, AccessChangeInv

\* The rows an owned role is written with.
LEMMA WriteIs ==
  ASSUME AccessInv, NEW kind \in Kinds, NEW t \in Principal, NEW desired \in SUBSET Permissions,
         kind = "operational" => desired \in SUBSET Manageable, NEW operation,
         WriteChange(kind, t, desired, operation), Commits
  PROVE  /\ owned' \in [Kinds -> [Principal -> SUBSET Permissions]]
         /\ owned'["operational"] \in [Principal -> SUBSET Manageable]
         /\ state' \in StateRow /\ state'.revision = state.revision + 1
         /\ ManagerRetained'
         /\ owned'[kind][t] = desired
         /\ \A k \in Kinds, s \in Principal : k # kind \/ s # t => owned'[k][s] = owned[k][s]
<1>1. /\ owned \in [Kinds -> [Principal -> SUBSET Permissions]]
      /\ owned["operational"] \in [Principal -> SUBSET Manageable]
      /\ state \in StateRow
  BY DEF AccessInv, AccessTypeOK, StateRow
<1>2. owned' = [owned EXCEPT ![kind] = [owned[kind] EXCEPT ![t] = desired]]
  BY <1>1 DEF WriteChange
<1>3. PICK n \in 0..MaxAccessRevision, b \in BOOLEAN :
        n = state.revision + 1 /\ b = (state.bootstrapped \/ operation = "bootstrap")
  <2>1. state.revision + 1 \in 0..MaxAccessRevision
    BY <1>1, AccessAssumption DEF Commits, StateRow
  <2> QED BY <2>1
<1>4. state' = [revision |-> n, bootstrapped |-> b]
  BY <1>3, Zenon DEF WriteChange
<1>5. state' \in StateRow /\ state'.revision = state.revision + 1
  BY <1>3, <1>4 DEF StateRow
<1>6. ManagerRetained'
  BY DEF Commits, ManagerKept, ManagerRetained
<1> QED BY <1>1, <1>2, <1>5, <1>6 DEF Kinds

LEMMA ChangeInv ==
  ASSUME AccessInv, NEW c \in directives, ChangeManagedAccess(c)
  PROVE  AccessInv'
<1>1. /\ c.desired \in SUBSET Manageable /\ DetailHolds(c.detail)
      /\ "operational" \in Kinds /\ Manageable \subseteq Permissions
  BY DEF AccessInv, Kinds, Manageable, Permissions
<1>2. c.detail.target \in Principal
  BY <1>1 DEF DetailHolds, Detail
<1>3. WriteChange("operational", c.detail.target, c.desired, "update") /\ Commits /\ Answer(c, "closed")
      /\ UNCHANGED <<active, legacy, preview, elsewhere>>
  BY DEF ChangeManagedAccess
<1>4. /\ owned' \in [Kinds -> [Principal -> SUBSET Permissions]]
      /\ owned'["operational"] \in [Principal -> SUBSET Manageable]
      /\ state' \in StateRow /\ state'.revision = state.revision + 1
      /\ ManagerRetained'
  BY <1>1, <1>2, <1>3, WriteIs
<1>5. /\ directives' = directives \ {c} /\ DOMAIN editor' = Principal
      /\ \A s \in Principal : EditorRow(editor'[s]) /\ (editor'[s] # NoEditor => DetailHolds(editor'[s].detail))
  BY <1>3, AnswerIs
<1>6. \A x \in directives' : /\ x.expected = x.detail.revision
                             /\ x.desired \in SUBSET Manageable
                             /\ DetailHolds(x.detail)
  BY <1>5 DEF AccessInv
<1>7. /\ active' \in SUBSET Principal /\ legacy' \in [Principal -> SUBSET Permissions]
      /\ elsewhere' \in 0..MaxElsewhere /\ (preview' # NoDraft => preview' \in StateRow)
  BY <1>3 DEF AccessInv, AccessTypeOK, StateRow
<1> QED BY <1>4, <1>5, <1>6, <1>7, AccessChangeInv

\* Editors and directives stay.
LEMMA EditorsStay ==
  ASSUME AccessInv, UNCHANGED <<editor, directives>>
  PROVE  /\ DOMAIN editor' = Principal
         /\ \A s \in Principal : EditorRow(editor'[s]) /\ (editor'[s] # NoEditor => DetailHolds(editor'[s].detail))
         /\ \A x \in directives' : /\ x.expected = x.detail.revision
                                   /\ x.desired \in SUBSET Manageable
                                   /\ DetailHolds(x.detail)
BY DEF AccessInv

LEMMA PreviewInv ==
  ASSUME AccessInv, Preview \/ UNCHANGED accessVars
  PROVE  AccessInv'
<1>1. /\ UNCHANGED <<active, owned, legacy, state, editor, directives, elsewhere>>
      /\ preview' = state \/ preview' = preview
  BY DEF Preview, accessVars
<1>2. ManagerRetained'
  BY <1>1 DEF AccessInv, ManagerRetained, Managers, Effective
<1>3. /\ active' \in SUBSET Principal /\ owned' \in [Kinds -> [Principal -> SUBSET Permissions]]
      /\ owned'["operational"] \in [Principal -> SUBSET Manageable]
      /\ legacy' \in [Principal -> SUBSET Permissions] /\ state' \in StateRow
      /\ elsewhere' \in 0..MaxElsewhere /\ (preview' # NoDraft => preview' \in StateRow)
  BY <1>1 DEF AccessInv, AccessTypeOK, StateRow
<1> QED BY <1>1, <1>2, <1>3, EditorsStay, AccessChangeInv

LEMMA ProvisionInv ==
  ASSUME AccessInv, NEW operation \in Provisioning, NEW t \in Principal, Provision(operation, t)
  PROVE  AccessInv'
<1>1. PICK kind \in {"reader", "administrator"} : kind = KindOf(operation)
  BY DEF KindOf
<1>2. PICK desired : desired = Desired(operation, t)
  OBVIOUS
<1>3. kind \in Kinds /\ kind # "operational" /\ desired \in SUBSET Permissions
  <2>1. owned["administrator"][t] \in SUBSET Permissions
    BY DEF AccessInv, AccessTypeOK, Kinds
  <2>2. {"read"} \in SUBSET Permissions /\ Prerequisites \in SUBSET Permissions
    BY DEF Permissions, Prerequisites
  <2>3. desired \in {{"read"}, {}, owned["administrator"][t] \cup (Prerequisites \ Effective(t))}
    BY <1>2 DEF Desired
  <2> QED BY <1>1, <2>1, <2>2, <2>3 DEF Kinds
<1>4. WriteChange(kind, t, desired, operation) /\ Commits
      /\ UNCHANGED <<active, legacy, editor, directives, elsewhere>> /\ preview' = NoDraft
  BY <1>1, <1>2 DEF Provision
<1>5. /\ owned' \in [Kinds -> [Principal -> SUBSET Permissions]]
      /\ owned'["operational"] \in [Principal -> SUBSET Manageable]
      /\ state' \in StateRow /\ state'.revision = state.revision + 1
      /\ ManagerRetained'
  BY <1>3, <1>4, WriteIs
<1>6. /\ active' \in SUBSET Principal /\ legacy' \in [Principal -> SUBSET Permissions]
      /\ elsewhere' \in 0..MaxElsewhere /\ (preview' # NoDraft => preview' \in StateRow)
  BY <1>4 DEF AccessInv, AccessTypeOK
<1> QED BY <1>4, <1>5, <1>6, EditorsStay, AccessChangeInv

LEMMA ElsewhereInv ==
  ASSUME AccessInv, Elsewhere
  PROVE  AccessInv'
<1>1. /\ active \in SUBSET Principal /\ legacy \in [Principal -> SUBSET Permissions]
      /\ state \in StateRow /\ elsewhere \in 0..MaxElsewhere
  BY DEF AccessInv, AccessTypeOK, StateRow
<1>2. PICK s \in Principal :
        \/ /\ active' = IF s \in active THEN active \ {s} ELSE active \cup {s}
           /\ UNCHANGED legacy
        \/ /\ \E p \in Granted : legacy' = [legacy EXCEPT ![s] = IF p \in @ THEN @ \ {p}
                                                                     ELSE @ \cup {p}]
           /\ UNCHANGED active
  BY DEF Elsewhere
<1>3. active' \in SUBSET Principal /\ legacy' \in [Principal -> SUBSET Permissions]
  BY <1>1, <1>2, AccessAssumption
<1>4. PICK n \in 0..MaxAccessRevision : n = state.revision + 1
  BY <1>1, AccessAssumption DEF Elsewhere, Commits, StateRow
<1>5. state' = [state EXCEPT !.revision = n]
  BY <1>4 DEF Elsewhere
<1>6. state' \in StateRow /\ state'.revision = state.revision + 1
  BY <1>1, <1>4, <1>5 DEF StateRow
<1>7. elsewhere' \in 0..MaxElsewhere
  BY <1>1, AccessAssumption DEF Elsewhere
<1>8. ManagerRetained' /\ UNCHANGED <<owned, editor, directives, preview>>
  BY DEF Elsewhere, Commits, ManagerKept, ManagerRetained
<1>9. /\ owned' \in [Kinds -> [Principal -> SUBSET Permissions]]
      /\ owned'["operational"] \in [Principal -> SUBSET Manageable]
      /\ (preview' # NoDraft => preview' \in StateRow)
  BY <1>8 DEF AccessInv, AccessTypeOK, StateRow
<1> QED BY <1>3, <1>6, <1>7, <1>8, <1>9, EditorsStay, AccessChangeInv

LEMMA AccessStepInv == AccessInv /\ [AccessNext]_accessVars => AccessInv'
BY OpenInv, CloseEditorInv, ReviewInv, SaveInv, LoseSaveInv, ChangeInv, RefuseInv, PreviewInv,
   ProvisionInv, ElsewhereInv DEF AccessNext

\* A save that writes is admitted at the very revision its author reviewed.
LEMMA ReviewedIsWritten ==
  ASSUME AccessInv, [AccessNext]_accessVars, NEW c \in directives, owned' # owned, c \notin directives'
  PROVE  /\ Effective(c.detail.target) = c.detail.outside \cup c.detail.managed
         /\ Effective(c.detail.target)' = c.detail.outside \cup c.desired
         /\ Managers' = Managers
<1>1. PICK x \in directives : ChangeManagedAccess(x)
  BY DEF AccessNext, Open, CloseEditor, Review, Save, LoseSave, RefuseChangeOf, Preview, Provision,
         Elsewhere, accessVars
<1>2. x = c
  BY <1>1 DEF ChangeManagedAccess, Answer
<1>3. PICK t \in Principal : t = c.detail.target
  BY DEF AccessInv, DetailHolds, Detail
<1>4. /\ Admits(c) /\ WriteChange("operational", t, c.desired, "update") /\ Commits
      /\ UNCHANGED <<active, legacy>>
  BY <1>1, <1>2, <1>3 DEF ChangeManagedAccess
<1>5. /\ t \in active /\ c.detail.managed = owned["operational"][t]
      /\ c.detail.outside = Locked("operational", t)
      /\ c.desired \in SUBSET Manageable /\ c.desired \in SUBSET Permissions
  BY <1>3, <1>4 DEF Admits, AccessInv, DetailHolds, Manageable, Permissions
<1>6. /\ owned'["operational"][t] = c.desired
      /\ \A k \in Kinds, s \in Principal : k # "operational" \/ s # t => owned'[k][s] = owned[k][s]
  <2>1. "operational" \in Kinds
    BY DEF Kinds
  <2> QED BY <1>4, <1>5, <2>1, WriteIs
<1>7. Effective(t) = Locked("operational", t) \cup owned["operational"][t]
  BY <1>5, EffectiveSplits DEF Kinds
<1>8. Effective(t)' = Locked("operational", t) \cup c.desired
  <2>1. ASSUME NEW y
        PROVE  y \in legacy'[t] \cup UNION {owned'[k][t] : k \in Kinds}
                 <=> y \in Locked("operational", t) \cup c.desired
    BY <1>4, <1>6, <2>1 DEF Locked, Kinds
  <2> QED BY <1>4, <1>5, <2>1 DEF Effective
<1>9. \A s \in Principal \ {t} : Effective(s)' = Effective(s)
  <2> SUFFICES ASSUME NEW s \in Principal \ {t} PROVE Effective(s)' = Effective(s)
    OBVIOUS
  <2>1. \A k \in Kinds : owned'[k][s] = owned[k][s]
    BY <1>6
  <2> QED BY <1>4, <2>1 DEF Effective
<1>10. Administers(Effective(t)) = Administers(Effective(t)')
  BY <1>3, <1>4, <1>8 DEF Admits
<1>11. \A s \in Principal : Prerequisites \subseteq Effective(s) <=> Prerequisites \subseteq Effective(s)'
  BY <1>9, <1>10 DEF Administers
<1>12. Managers' = Managers
  BY <1>11 DEF Managers
<1> QED BY <1>3, <1>5, <1>7, <1>8, <1>12

\* Access administration keeps a manager, whoever takes permissions away
\* (migration 20261008:180), and its rows keep their types.
THEOREM ManagersRemain == AccessSpec => [](AccessTypeOK /\ ManagerRetained)
<1>1. AccessInit => AccessInv
  BY AccessInitInv
<1>2. AccessInv /\ [AccessNext]_accessVars => AccessInv'
  BY AccessStepInv
<1>3. AccessInv => AccessTypeOK /\ ManagerRetained
  BY DEF AccessInv
<1> QED BY <1>1, <1>2, <1>3, PTL DEF AccessSpec

\* A save does to its target exactly what its author reviewed, and makes or
\* unmakes no administrator (access-foundation.ts:340).
THEOREM SavesDoAsReviewed == AccessSpec => ReviewedEffect
<1>1. AccessInit => AccessInv
  BY AccessInitInv
<1>2. AccessInv /\ [AccessNext]_accessVars => AccessInv'
  BY AccessStepInv
<1>3. AccessInv /\ [AccessNext]_accessVars =>
        [\A c \in directives : owned' # owned /\ c \notin directives' =>
           /\ Effective(c.detail.target) = c.detail.outside \cup c.detail.managed
           /\ Effective(c.detail.target)' = c.detail.outside \cup c.desired
           /\ Managers' = Managers]_accessVars
  BY ReviewedIsWritten
<1> QED BY <1>1, <1>2, <1>3, PTL DEF AccessSpec, ReviewedEffect

--------------------------------------------------------------------------------
(* One hostname: the inductive invariant.                                   *)

LookupRow == [revision : Challenges, challenge : Challenges \ {0},
              answers : [NameServers -> Answers]]

\* A lookup of the binding as it is was started while the challenge was
\* pending, and only servers that published it have agreed.
LookupHolds(l) ==
  /\ l \in LookupRow
  /\ l.revision <= binding.revision
  /\ l.revision = binding.revision => binding.verification = "pending"
  /\ SameChallenge(l) => Agreeing(l) \subseteq published

\* An approval of the binding as it is names its challenge.
ApprovalHolds(a) ==
  /\ a \in ApprovalRow
  /\ a.revision <= binding.revision
  /\ a.revision = binding.revision => a.challenge = binding.challenge

\* A server that holds the current challenge has published it.
ServerHolds(n) ==
  /\ zone[n] <= binding.revision
  /\ zone[n] = binding.challenge /\ zone[n] # 0 => n \in published

TenantInv ==
  /\ TenantTypeOK
  /\ binding.challenge <= binding.revision
  /\ \A l \in lookups : LookupHolds(l)
  /\ \A a \in approvals : ApprovalHolds(a)
  /\ \A n \in NameServers : ServerHolds(n)
  /\ OwnershipProven
  /\ InServiceAsApproved

Enough == IF Cardinality(NameServers) >= 2 THEN 2 ELSE 1

LEMMA TenantInitInv == TenantInit => TenantInv
<1> SUFFICES ASSUME TenantInit PROVE TenantInv
  OBVIOUS
<1>1. 0 \in 0..MaxBindingRevision /\ 0 \in Challenges
  BY TenantDomainAssumption DEF Challenges
<1>2. /\ binding \in BindingRow /\ binding.verification = "unverified" /\ binding.challenge = 0
      /\ ~binding.active /\ binding.revision = 0
  BY <1>1 DEF TenantInit, BindingRow
<1>3. /\ zone \in [NameServers -> Challenges] /\ \A n \in NameServers : zone[n] = 0
      /\ approvals = {} /\ lookups = {} /\ published = {} /\ serving \in BOOLEAN
  BY <1>1 DEF TenantInit
<1>4. TenantTypeOK
  BY <1>2, <1>3 DEF TenantTypeOK
<1> QED BY <1>2, <1>3, <1>4 DEF TenantInv, ServerHolds, OwnershipProven, InServiceAsApproved

LEMMA BindingIs ==
  ASSUME TenantInv
  PROVE  /\ binding \in BindingRow /\ binding.revision \in Nat /\ binding.challenge \in Nat
         /\ binding.revision <= MaxBindingRevision /\ MaxBindingRevision \in Nat
         /\ binding.challenge <= binding.revision
         /\ \A n \in NameServers : zone[n] \in Nat
         /\ \A l \in lookups : l.revision \in Nat /\ l \in LookupRow
         /\ \A a \in approvals : a.revision \in Nat /\ a \in ApprovalRow
BY TenantDomainAssumption
   DEF TenantInv, TenantTypeOK, BindingRow, Challenges, LookupHolds, LookupRow, ApprovalHolds, ApprovalRow

\* The binding moves to its next revision: no lookup and no approval is one
\* of the new revision, and a challenge is kept, new or gone.
LEMMA MovesInv ==
  ASSUME TenantInv, NEW next \in BindingRow, Moves(next),
         next.active => next.verification = "verified",
         (next.verification = "unverified") = (next.challenge = 0),
         \/ next.challenge = binding.challenge /\ published' = published
         \/ next.challenge \in {0, binding.revision + 1} /\ published' = {},
         lookups' \subseteq lookups, zone' = zone, serving' \in BOOLEAN,
         approvals' \subseteq ApprovalRow,
         \A a \in approvals' : a.revision <= binding.revision,
         OwnershipProven', InServiceAsApproved'
  PROVE  TenantInv'
<1>1. PICK n \in 0..MaxBindingRevision : n = binding.revision + 1 /\ n > binding.revision
  BY BindingIs DEF Moves
<1>2. binding' = [next EXCEPT !.revision = n]
  BY <1>1 DEF Moves
<1>3. /\ binding' \in BindingRow /\ binding'.revision = n /\ binding'.challenge = next.challenge
      /\ binding'.verification = next.verification /\ binding'.active = next.active
  BY <1>2 DEF BindingRow
<1>4. \A l \in lookups' : l \in LookupRow /\ l.revision \in Nat /\ l.revision < n
  <2> SUFFICES ASSUME NEW l \in lookups' PROVE l \in LookupRow /\ l.revision \in Nat /\ l.revision < n
    OBVIOUS
  <2>1. l \in LookupRow /\ l.revision \in Nat /\ l.revision <= binding.revision
    BY BindingIs DEF TenantInv, LookupHolds
  <2> QED BY <1>1, <2>1, BindingIs
<1>5. \A l \in lookups' : LookupHolds(l)'
  BY <1>1, <1>3, <1>4 DEF LookupHolds, SameChallenge
<1>6. \A a \in approvals' : ApprovalHolds(a)'
  <2> SUFFICES ASSUME NEW a \in approvals' PROVE ApprovalHolds(a)'
    OBVIOUS
  <2>1. a \in ApprovalRow /\ a.revision \in Nat /\ a.revision <= binding.revision
    BY DEF ApprovalRow
  <2> QED BY <1>1, <1>3, <2>1, BindingIs DEF ApprovalHolds
<1>7. \A s \in NameServers : ServerHolds(s)'
  <2> SUFFICES ASSUME NEW s \in NameServers PROVE ServerHolds(s)'
    OBVIOUS
  <2>1. zone[s] \in Nat /\ zone[s] <= binding.revision /\ zone[s] < n
        /\ (zone[s] = binding.challenge /\ zone[s] # 0 => s \in published)
    BY <1>1, BindingIs DEF TenantInv, ServerHolds
  <2> QED BY <1>1, <1>3, <2>1, BindingIs DEF ServerHolds
<1>8. binding'.challenge <= binding'.revision
  BY <1>1, <1>3, BindingIs
<1>9. TenantTypeOK'
  <2>1. published' \in SUBSET NameServers /\ zone' \in [NameServers -> Challenges]
    BY DEF TenantInv, TenantTypeOK
  <2>2. \A l \in lookups' : /\ l.challenge \in Challenges \ {0} /\ l.revision \in Challenges
                            /\ l.answers \in [NameServers -> Answers]
    BY <1>4 DEF LookupRow
  <2> QED BY <1>3, <2>1, <2>2 DEF TenantTypeOK
<1> QED BY <1>5, <1>6, <1>7, <1>8, <1>9 DEF TenantInv

\* Leaving service, or never having entered it.
LEMMA NotActive ==
  ASSUME binding'.active = FALSE
  PROVE  InServiceAsApproved'
BY DEF InServiceAsApproved

LEMMA RegisterInv ==
  ASSUME TenantInv, Register
  PROVE  TenantInv'
<1>1. /\ Moves(binding) /\ binding.revision = 0
      /\ UNCHANGED <<serving, approvals, lookups, zone, published>>
  BY BindingIs DEF Register, Registered
<1>2. binding.active = FALSE /\ binding.verification # "verified"
  <2>1. binding.challenge = 0 /\ binding.verification = "unverified"
    BY <1>1, BindingIs DEF TenantInv, TenantTypeOK
  <2> QED BY <2>1, BindingIs DEF TenantInv, TenantTypeOK, BindingRow
<1>3. binding' = [binding EXCEPT !.revision = binding.revision + 1]
  BY <1>1 DEF Moves
<1>4. binding'.active = FALSE /\ binding'.verification # "verified"
  BY <1>2, <1>3, BindingIs DEF BindingRow
<1> QED BY <1>1, <1>4, NotActive, MovesInv, BindingIs
        DEF TenantInv, TenantTypeOK, OwnershipProven, ApprovalHolds

\* A binding with another verification and challenge.
Challenged(b, v, c) == [b EXCEPT !.verification = v, !.challenge = c, !.expired = FALSE]

LEMMA ChallengedRow ==
  ASSUME NEW b \in BindingRow, NEW v \in {"unverified", "pending"}, NEW c \in Challenges
  PROVE  /\ Challenged(b, v, c) \in BindingRow /\ Challenged(b, v, c).verification = v
         /\ Challenged(b, v, c).challenge = c
         /\ Challenged(b, v, c).active = b.active /\ Challenged(b, v, c).revision = b.revision
<1>1. PICK f : f = [b EXCEPT !.verification = v]
  OBVIOUS
<1>2. /\ f \in BindingRow /\ f.verification = v /\ f.active = b.active /\ f.revision = b.revision
  BY <1>1 DEF BindingRow
<1>3. PICK g : g = [f EXCEPT !.challenge = c]
  OBVIOUS
<1>4. /\ g \in BindingRow /\ g.verification = v /\ g.challenge = c /\ g.active = b.active
      /\ g.revision = b.revision
  BY <1>2, <1>3 DEF BindingRow
<1>5. Challenged(b, v, c) = [g EXCEPT !.expired = FALSE]
  BY <1>1, <1>3 DEF Challenged
<1> QED BY <1>4, <1>5 DEF BindingRow

LEMMA IssueChallengeInv ==
  ASSUME TenantInv, IssueChallenge
  PROVE  TenantInv'
<1>1. PICK n \in 1..MaxBindingRevision : n = binding.revision + 1
  BY BindingIs DEF IssueChallenge, Moves
<1>2. PICK next : next = [binding EXCEPT !.verification = "pending", !.challenge = n, !.expired = FALSE]
  OBVIOUS
<1>3. /\ next \in BindingRow /\ next.verification = "pending" /\ next.challenge = n
      /\ next.active = binding.active /\ next.revision = binding.revision
  <2>1. binding \in BindingRow /\ n \in Challenges /\ "pending" \in {"unverified", "pending"}
    BY <1>1, BindingIs DEF Challenges
  <2>2. next = Challenged(binding, "pending", n)
    BY <1>2 DEF Challenged
  <2> QED BY <2>1, <2>2, ChallengedRow
<1>4. Moves(next) /\ published' = {} /\ UNCHANGED <<serving, approvals, lookups, zone>>
  BY <1>1, <1>2 DEF IssueChallenge
<1>5. binding' = [next EXCEPT !.revision = n]
  BY <1>1, <1>4 DEF Moves
<1>6. binding.active = FALSE
  BY BindingIs DEF IssueChallenge, TenantInv, TenantTypeOK, BindingRow
<1>7. binding'.active = FALSE /\ binding'.verification = "pending"
  BY <1>3, <1>5, <1>6 DEF BindingRow
<1>8. /\ next.active => next.verification = "verified"
      /\ (next.verification = "unverified") = (next.challenge = 0)
      /\ next.challenge \in {0, binding.revision + 1} /\ lookups' \subseteq lookups
      /\ serving' \in BOOLEAN /\ approvals' \subseteq ApprovalRow
  BY <1>1, <1>3, <1>4, <1>6 DEF TenantInv, TenantTypeOK
<1>9. \A a \in approvals' : a.revision <= binding.revision
  BY <1>4 DEF TenantInv, ApprovalHolds
<1>10. OwnershipProven' /\ InServiceAsApproved'
  BY <1>7, NotActive DEF OwnershipProven
<1> QED BY <1>3, <1>4, <1>8, <1>9, <1>10, MovesInv

\* The binding and its servers stay: lookups and approvals come, go and learn.
LEMMA BindingStays ==
  ASSUME TenantInv, UNCHANGED <<binding, zone, published>>, serving' \in BOOLEAN,
         \A l \in lookups' : LookupHolds(l), \A a \in approvals' : ApprovalHolds(a),
         \A a \in approvals : a.spentBy # NoOperator => a \in approvals'
  PROVE  TenantInv'
<1>1. \A l \in lookups' : LookupHolds(l)'
  BY DEF LookupHolds, SameChallenge
<1>2. \A a \in approvals' : ApprovalHolds(a)'
  BY DEF ApprovalHolds
<1>3. \A n \in NameServers : ServerHolds(n)'
  BY DEF TenantInv, ServerHolds
<1>4. TenantTypeOK'
  BY DEF TenantInv, TenantTypeOK, LookupHolds, LookupRow, ApprovalHolds
<1>5. OwnershipProven' /\ InServiceAsApproved'
  BY DEF TenantInv, OwnershipProven, InServiceAsApproved
<1> QED BY <1>1, <1>2, <1>3, <1>4, <1>5 DEF TenantInv

LEMMA StartVerificationInv ==
  ASSUME TenantInv, StartVerification
  PROVE  TenantInv'
<1>1. PICK r \in Challenges, c \in Challenges \ {0} : r = binding.revision /\ c = binding.challenge
  BY BindingIs DEF StartVerification, TenantInv, TenantTypeOK, BindingRow, Challenges
<1>2. PICK w \in [NameServers -> Answers] : w = [n \in NameServers |-> "awaited"]
  BY DEF Answers
<1>3. PICK l : l = [revision |-> r, challenge |-> c, answers |-> w]
  OBVIOUS
<1>4. lookups' = lookups \cup {l} /\ binding.verification = "pending"
      /\ UNCHANGED <<binding, serving, approvals, zone, published>>
  BY <1>1, <1>2, <1>3 DEF StartVerification
<1>5. l \in LookupRow /\ l.revision = binding.revision /\ Agreeing(l) = {}
  BY <1>1, <1>2, <1>3 DEF LookupRow, Agreeing
<1>6. LookupHolds(l)
  BY <1>4, <1>5, BindingIs DEF LookupHolds
<1> QED BY <1>4, <1>6, BindingStays DEF TenantInv, TenantTypeOK

\* A server agrees only with what it holds, and of the current challenge it
\* holds only what has been published.
LEMMA ServerAnswersInv ==
  ASSUME TenantInv, NEW l \in lookups, NEW n \in NameServers, ServerAnswers(l, n)
  PROVE  TenantInv'
<1>1. PICK answer \in {"failed", IF zone[n] = l.challenge THEN "match" ELSE "other"} :
        lookups' = (lookups \ {l}) \cup {[l EXCEPT !.answers[n] = answer]}
  BY DEF ServerAnswers
<1>2. LookupHolds(l) /\ l \in LookupRow /\ l.answers \in [NameServers -> Answers]
      /\ answer \in Answers /\ (answer = "match" => zone[n] = l.challenge)
  BY <1>1 DEF TenantInv, LookupHolds, LookupRow, Answers
<1>3. PICK w \in [NameServers -> Answers] : w = [l.answers EXCEPT ![n] = answer]
  BY <1>2
<1>4. PICK m : m = [l EXCEPT !.answers = w]
  OBVIOUS
<1>5. m = [l EXCEPT !.answers[n] = answer]
  BY <1>2, <1>3, <1>4 DEF LookupRow
<1>6. m \in LookupRow /\ m.revision = l.revision /\ m.challenge = l.challenge /\ m.answers = w
  BY <1>2, <1>4 DEF LookupRow
<1>7. SameChallenge(m) => Agreeing(m) \subseteq published
  <2> SUFFICES ASSUME SameChallenge(m), NEW s \in NameServers, w[s] = "match" PROVE s \in published
    BY <1>6 DEF Agreeing
  <2>1. SameChallenge(l)
    BY <1>6 DEF SameChallenge
  <2>2. CASE s # n
    BY <1>2, <1>3, <2>1, <2>2 DEF LookupHolds, Agreeing
  <2>3. CASE s = n
    <3>1. zone[n] = l.challenge /\ l.challenge = binding.challenge /\ l.challenge # 0
      BY <1>2, <1>3, <2>1, <2>3 DEF SameChallenge, LookupRow
    <3> QED BY <2>3, <3>1 DEF TenantInv, ServerHolds
  <2> QED BY <2>2, <2>3
<1>8. LookupHolds(m)
  BY <1>2, <1>6, <1>7 DEF LookupHolds
<1> QED BY <1>1, <1>5, <1>8, BindingStays DEF ServerAnswers, TenantInv, TenantTypeOK

\* Verified is what enough servers have answered for, with what they published.
LEMMA ConcludeInv ==
  ASSUME TenantInv, NEW l \in lookups, ConcludeVerification(l)
  PROVE  TenantInv'
<1>1. lookups' = lookups \ {l} /\ UNCHANGED <<serving, approvals, zone, published>>
  BY DEF ConcludeVerification
<1>2. CASE ~(SameChallenge(l) /\ Proves(l) /\ ~binding.expired)
  BY <1>1, <1>2, BindingStays DEF ConcludeVerification, TenantInv, TenantTypeOK
<1>3. CASE SameChallenge(l) /\ Proves(l) /\ ~binding.expired
  <2>1. PICK next : next = [binding EXCEPT !.verification = "verified"]
    OBVIOUS
  <2>2. /\ next \in BindingRow /\ next.verification = "verified" /\ next.active = binding.active
        /\ next.challenge = binding.challenge
    BY <2>1, BindingIs DEF BindingRow
  <2>3. Moves(next)
    BY <1>3, <2>1 DEF ConcludeVerification
  <2>4. LookupHolds(l) /\ l \in LookupRow /\ Agreeing(l) \subseteq published
        /\ Cardinality(Agreeing(l)) >= Enough
    BY <1>3 DEF TenantInv, LookupHolds, Proves, Enough
  <2>5. binding.challenge # 0 /\ binding.verification = "pending"
    BY <1>3, <2>4 DEF SameChallenge, LookupHolds, LookupRow
  <2>6. Cardinality(published) >= Enough
    <3>1. published \subseteq NameServers /\ IsFiniteSet(NameServers)
      BY TenantDomainAssumption DEF TenantInv, TenantTypeOK
    <3>2. IsFiniteSet(published)
      BY <3>1, FS_Subset
    <3>3. IsFiniteSet(Agreeing(l)) /\ Cardinality(Agreeing(l)) <= Cardinality(published)
      BY <2>4, <3>2, FS_Subset
    <3>4. Cardinality(Agreeing(l)) \in Nat /\ Cardinality(published) \in Nat
      BY <3>2, <3>3, FS_CardinalityType
    <3>5. Enough \in Nat
      BY DEF Enough
    <3> QED BY <2>4, <3>3, <3>4, <3>5
  <2>7. OwnershipProven'
    BY <1>1, <2>6 DEF OwnershipProven, Enough
  <2>8. binding.active = FALSE
    BY <2>5, BindingIs DEF TenantInv, TenantTypeOK, BindingRow
  <2>9. binding'.active = FALSE
    <3>1. binding' = [next EXCEPT !.revision = binding.revision + 1]
      BY <2>3 DEF Moves
    <3> QED BY <2>2, <2>8, <3>1 DEF BindingRow
  <2> QED BY <1>1, <2>2, <2>3, <2>5, <2>7, <2>9, NotActive, MovesInv
          DEF TenantInv, TenantTypeOK, ApprovalHolds
<1> QED BY <1>2, <1>3

LEMMA ApproveInv ==
  ASSUME TenantInv, NEW operation \in {"activated", "verification_revoked"},
         NEW o \in Operators, NEW p \in Operators, Approve(operation, o, p)
  PROVE  TenantInv'
<1>1. PICK r \in 1..MaxBindingRevision, c \in Challenges : r = binding.revision /\ c = binding.challenge
  BY BindingIs DEF Approve, Registered, BindingRow
<1>2. PICK a : a = [operation |-> operation, revision |-> r, challenge |-> c, requester |-> o,
                    approver |-> p, spentBy |-> NoOperator]
  OBVIOUS
<1>3. a \in ApprovalRow /\ a.revision = binding.revision /\ a.challenge = binding.challenge
  BY <1>1, <1>2 DEF ApprovalRow
<1>4. ApprovalHolds(a)
  BY <1>3, BindingIs DEF ApprovalHolds
<1>5. approvals' = approvals \cup {a} /\ UNCHANGED <<binding, serving, lookups, zone, published>>
  BY <1>1, <1>2 DEF Approve
<1> QED BY <1>4, <1>5, BindingStays DEF TenantInv, TenantTypeOK

\* An approval is spent by who requested it, at the revision it was given for.
LEMMA SpendIs ==
  ASSUME TenantInv, NEW operation, NEW operator \in Operators, Spend(operation, operator)
  PROVE  /\ approvals' \subseteq ApprovalRow
         /\ \A a \in approvals' : a.revision <= binding.revision
         /\ \E a \in approvals' : /\ a.spentBy \notin {NoOperator, a.approver}
                                  /\ a.operation = operation
                                  /\ a.challenge = binding.challenge
                                  /\ a.revision = binding.revision
<1>1. PICK a \in approvals :
        /\ Authorizes(a, operation, operator)
        /\ approvals' = (approvals \ {a}) \cup {[a EXCEPT !.spentBy = operator]}
  BY DEF Spend
<1>2. a \in ApprovalRow /\ ApprovalHolds(a)
  BY BindingIs DEF TenantInv
<1>3. PICK b : b = [a EXCEPT !.spentBy = operator]
  OBVIOUS
<1>4. /\ b \in ApprovalRow /\ b.revision = a.revision /\ b.challenge = a.challenge
      /\ b.operation = a.operation /\ b.approver = a.approver /\ b.spentBy = operator
  BY <1>2, <1>3 DEF ApprovalRow
<1>5. /\ a.operation = operation /\ a.revision = binding.revision /\ a.approver # operator
      /\ a.challenge = binding.challenge
  BY <1>1, <1>2 DEF Authorizes, ApprovalHolds
<1>6. approvals' = (approvals \ {a}) \cup {b}
  BY <1>1, <1>3
<1>7. \A x \in approvals' : x \in ApprovalRow /\ x.revision <= binding.revision
  BY <1>4, <1>5, <1>6, BindingIs DEF TenantInv, ApprovalHolds
<1> QED BY <1>4, <1>5, <1>6, <1>7, TenantDomainAssumption

LEMMA ActivateInv ==
  ASSUME TenantInv, NEW operator \in Operators, Activate(operator)
  PROVE  TenantInv'
<1>1. PICK next : next = [binding EXCEPT !.active = TRUE]
  OBVIOUS
<1>2. /\ next \in BindingRow /\ next.verification = binding.verification /\ next.active = TRUE
      /\ next.challenge = binding.challenge
  BY <1>1, BindingIs DEF BindingRow
<1>3. /\ Moves(next) /\ UNCHANGED <<serving, lookups, zone, published>>
      /\ binding.verification = "verified" /\ Spend("activated", operator)
  BY <1>1 DEF Activate
<1>4. /\ binding'.challenge = binding.challenge /\ binding'.revision = binding.revision + 1
      /\ binding'.verification = binding.verification
  <2>1. PICK n \in 0..MaxBindingRevision : n = binding.revision + 1
    BY <1>3, BindingIs DEF Moves
  <2>2. binding' = [next EXCEPT !.revision = n]
    BY <1>3, <2>1 DEF Moves
  <2> QED BY <1>2, <2>1, <2>2 DEF BindingRow
<1>5. InServiceAsApproved'
  <2>1. PICK a \in approvals' : /\ a.spentBy \notin {NoOperator, a.approver}
                                /\ a.operation = "activated"
                                /\ a.challenge = binding.challenge
                                /\ a.revision = binding.revision
    BY <1>3, SpendIs
  <2> QED BY <1>4, <2>1 DEF InServiceAsApproved
<1>6. OwnershipProven'
  BY <1>3, <1>4 DEF TenantInv, OwnershipProven
<1>7. approvals' \subseteq ApprovalRow /\ \A a \in approvals' : a.revision <= binding.revision
  BY <1>3, SpendIs
<1> QED BY <1>2, <1>3, <1>5, <1>6, <1>7, MovesInv DEF TenantInv, TenantTypeOK

LEMMA DeactivateInv ==
  ASSUME TenantInv, Deactivate
  PROVE  TenantInv'
<1>1. PICK next : next = [binding EXCEPT !.active = FALSE]
  OBVIOUS
<1>2. /\ next \in BindingRow /\ next.verification = binding.verification /\ next.active = FALSE
      /\ next.challenge = binding.challenge
  BY <1>1, BindingIs DEF BindingRow
<1>3. Moves(next) /\ UNCHANGED <<serving, approvals, lookups, zone, published>>
  BY <1>1 DEF Deactivate
<1>4. binding'.active = FALSE /\ binding'.verification = binding.verification
  <2>1. binding' = [next EXCEPT !.revision = binding.revision + 1]
    BY <1>3 DEF Moves
  <2> QED BY <1>2, <2>1 DEF BindingRow
<1>5. OwnershipProven'
  BY <1>3, <1>4 DEF TenantInv, OwnershipProven
<1> QED BY <1>2, <1>3, <1>4, <1>5, NotActive, MovesInv, BindingIs
        DEF TenantInv, TenantTypeOK, ApprovalHolds

LEMMA RevokeInv ==
  ASSUME TenantInv, NEW operator \in Operators, Revoke(operator)
  PROVE  TenantInv'
<1>1. PICK next : next = [binding EXCEPT !.verification = "unverified", !.challenge = 0,
                                         !.expired = FALSE]
  OBVIOUS
<1>2. /\ next \in BindingRow /\ next.verification = "unverified" /\ next.challenge = 0
      /\ next.active = binding.active
  <2>1. binding \in BindingRow /\ 0 \in Challenges /\ "unverified" \in {"unverified", "pending"}
    BY BindingIs DEF Challenges
  <2>2. next = Challenged(binding, "unverified", 0)
    BY <1>1 DEF Challenged
  <2> QED BY <2>1, <2>2, ChallengedRow
<1>3. /\ Moves(next) /\ UNCHANGED <<serving, lookups, zone>> /\ published' = {}
      /\ ~binding.active /\ Spend("verification_revoked", operator)
  BY <1>1 DEF Revoke
<1>4. binding.active = FALSE
  BY <1>3, BindingIs DEF BindingRow
<1>5. binding'.active = FALSE /\ binding'.verification = "unverified"
  <2>1. binding' = [next EXCEPT !.revision = binding.revision + 1]
    BY <1>3 DEF Moves
  <2> QED BY <1>2, <1>4, <2>1 DEF BindingRow
<1>6. OwnershipProven'
  BY <1>5 DEF OwnershipProven
<1>7. approvals' \subseteq ApprovalRow /\ \A a \in approvals' : a.revision <= binding.revision
  BY <1>3, SpendIs
<1> QED BY <1>2, <1>3, <1>4, <1>5, <1>6, <1>7, NotActive, MovesInv DEF TenantInv, TenantTypeOK

LEMMA ExpireChallengeInv ==
  ASSUME TenantInv, ExpireChallenge
  PROVE  TenantInv'
<1>1. binding' = [binding EXCEPT !.expired = TRUE]
      /\ UNCHANGED <<serving, approvals, lookups, zone, published>>
  BY DEF ExpireChallenge
<1>2. /\ binding' \in BindingRow /\ binding'.revision = binding.revision
      /\ binding'.challenge = binding.challenge /\ binding'.active = binding.active
      /\ binding'.verification = binding.verification
  BY <1>1, BindingIs DEF BindingRow
<1>3. \A l \in lookups' : LookupHolds(l)'
  BY <1>1, <1>2 DEF TenantInv, LookupHolds, SameChallenge
<1>4. \A a \in approvals' : ApprovalHolds(a)'
  BY <1>1, <1>2 DEF TenantInv, ApprovalHolds
<1>5. \A n \in NameServers : ServerHolds(n)'
  BY <1>1, <1>2 DEF TenantInv, ServerHolds
<1>6. TenantTypeOK'
  BY <1>1, <1>2 DEF TenantInv, TenantTypeOK
<1>7. OwnershipProven' /\ InServiceAsApproved'
  BY <1>1, <1>2 DEF TenantInv, OwnershipProven, InServiceAsApproved
<1> QED BY <1>2, <1>3, <1>4, <1>5, <1>6, <1>7, BindingIs DEF TenantInv

LEMMA ExpireApprovalInv ==
  ASSUME TenantInv, NEW a \in approvals, ExpireApproval(a)
  PROVE  TenantInv'
BY BindingStays DEF ExpireApproval, TenantInv, TenantTypeOK

LEMMA ZoneChangesInv ==
  ASSUME TenantInv, NEW n \in NameServers, ZoneChanges(n)
  PROVE  TenantInv'
<1>1. /\ UNCHANGED <<binding, serving, approvals, lookups>> /\ binding.verification = "pending"
      /\ published' = IF zone'[n] = 0 THEN published ELSE published \cup {n}
  BY DEF ZoneChanges
<1>2. PICK c \in {0, binding.challenge} : zone' = [zone EXCEPT ![n] = c]
  BY DEF ZoneChanges
<1>3. /\ c \in Challenges /\ c \in Nat /\ c <= binding.revision
      /\ zone \in [NameServers -> Challenges]
  BY BindingIs DEF TenantInv, TenantTypeOK, BindingRow, Challenges
<1>4. /\ zone' \in [NameServers -> Challenges] /\ zone'[n] = c
      /\ \A s \in NameServers \ {n} : zone'[s] = zone[s]
  BY <1>2, <1>3
<1>5. published \subseteq published' /\ published' \in SUBSET NameServers /\ (c # 0 => n \in published')
  BY <1>1, <1>4 DEF TenantInv, TenantTypeOK
<1>6. \A s \in NameServers : ServerHolds(s)'
  <2> SUFFICES ASSUME NEW s \in NameServers PROVE ServerHolds(s)'
    OBVIOUS
  <2>1. CASE s = n
    BY <1>1, <1>3, <1>4, <1>5, <2>1 DEF ServerHolds
  <2>2. CASE s # n
    BY <1>1, <1>4, <1>5, <2>2 DEF TenantInv, ServerHolds
  <2> QED BY <2>1, <2>2
<1>7. \A l \in lookups' : LookupHolds(l)'
  BY <1>1, <1>5 DEF TenantInv, LookupHolds, SameChallenge
<1>8. \A a \in approvals' : ApprovalHolds(a)'
  BY <1>1 DEF TenantInv, ApprovalHolds
<1>9. TenantTypeOK'
  BY <1>1, <1>4, <1>5 DEF TenantInv, TenantTypeOK
<1>10. OwnershipProven' /\ InServiceAsApproved'
  BY <1>1 DEF TenantInv, OwnershipProven, InServiceAsApproved
<1> QED BY <1>1, <1>6, <1>7, <1>8, <1>9, <1>10 DEF TenantInv

LEMMA TenantOtherInv ==
  ASSUME TenantInv, OrganizationStatus \/ UNCHANGED tenantVars
  PROVE  TenantInv'
<1>1. UNCHANGED <<binding, approvals, lookups, zone, published>> /\ serving' \in BOOLEAN
  BY DEF OrganizationStatus, tenantVars, TenantInv, TenantTypeOK
<1> QED BY <1>1, BindingStays DEF TenantInv

\* A hostname is in service for those who proved it theirs and were approved:
\* its zone answered with the very challenge on two servers, and two operators
\* decided about the binding as it still is (tenant-domain.operations.ts:850,
\* :976, migration 20261018).
THEOREM HostnamesServeTheirOwners == TenantSpec => [](TenantTypeOK /\ ServedAsProvenAndApproved)
<1>1. TenantInit => TenantInv
  BY TenantInitInv
<1>2. TenantInv /\ [TenantNext]_tenantVars => TenantInv'
  BY RegisterInv, IssueChallengeInv, StartVerificationInv, ServerAnswersInv, ConcludeInv, ApproveInv,
     ActivateInv, DeactivateInv, RevokeInv, ExpireChallengeInv, ExpireApprovalInv, ZoneChangesInv,
     TenantOtherInv DEF TenantNext
<1>3. TenantInv => TenantTypeOK /\ ServedAsProvenAndApproved
  BY DEF TenantInv, ServedAsProvenAndApproved
<1> QED BY <1>1, <1>2, <1>3, PTL DEF TenantSpec
--------------------------------------------------------------------------------
(* Intake settings: the inductive invariant.                                *)

\* Who holds the row has read the flag as it still is, and a writer holds it
\* alone.
Running(s) == transaction[s] # NoTransaction

IntakeInv ==
  /\ IntakeTypeOK /\ DOMAIN transaction = Sessions
  /\ \A s \in Sessions : Running(s) => transaction[s].collecting = collecting
  /\ \A s, t \in Sessions : Running(s) /\ Running(t) /\ Writes(transaction[s].command) => s = t
  /\ CollectionHasArea

LEMMA IntakeInitInv == IntakeInit => IntakeInv
BY DEF IntakeInit, IntakeInv, IntakeTypeOK, Running, CollectionHasArea

LEMMA TakeRowInv ==
  ASSUME IntakeInv, NEW s \in Sessions, NEW command \in Commands, TakeRow(s, command)
  PROVE  IntakeInv'
<1>1. PICK row : row = [kind |-> "open", command |-> command, collecting |-> collecting]
  OBVIOUS
<1>2. /\ row # NoTransaction /\ row.command = command /\ row.collecting = collecting
      /\ collecting \in BOOLEAN
  <2>1. row.kind = "open" /\ NoTransaction.kind = "none"
    BY <1>1 DEF NoTransaction
  <2> QED BY <1>1, <2>1 DEF IntakeInv, IntakeTypeOK
<1>3. transaction' = [transaction EXCEPT ![s] = row] /\ UNCHANGED <<collecting, areas, recorded>>
  BY <1>1 DEF TakeRow
<1>4. /\ DOMAIN transaction' = Sessions /\ transaction'[s] = row
      /\ \A t \in Sessions \ {s} : transaction'[t] = transaction[t]
  BY <1>3 DEF IntakeInv
<1>5. \A t \in Sessions : Running(t) => ~Writes(command) /\ ~Writes(transaction[t].command)
  BY DEF TakeRow, RowGranted, Running
<1>6. \A t, u \in Sessions : Running(t)' /\ Running(u)' /\ Writes(transaction[t].command)' => t = u
  <2> SUFFICES ASSUME NEW t \in Sessions, NEW u \in Sessions, Running(t)', Running(u)',
                      Writes(transaction[t].command)'
               PROVE  t = u
    OBVIOUS
  <2>1. CASE t = s
    BY <1>2, <1>4, <1>5, <2>1 DEF Running, Writes
  <2>2. CASE t # s
    BY <1>4, <1>5, <2>2 DEF Running, Writes
  <2> QED BY <2>1, <2>2
<1>7. \A t \in Sessions : Running(t)' => transaction'[t].collecting = collecting'
  BY <1>2, <1>3, <1>4 DEF IntakeInv, Running
<1>8. IntakeTypeOK'
  BY <1>2, <1>3, <1>4 DEF IntakeInv, IntakeTypeOK
<1>9. CollectionHasArea'
  BY <1>3 DEF IntakeInv, CollectionHasArea, ActiveAreas
<1> QED BY <1>4, <1>6, <1>7, <1>8, <1>9 DEF IntakeInv

\* A transaction ends; whoever changes the flag was alone.
LEMMA EndsInv ==
  ASSUME IntakeInv, NEW s \in Sessions, Running(s), Ends(s),
         collecting' \in BOOLEAN, areas' \in [Areas -> {"absent", "active", "inactive"}],
         recorded' \in SUBSET (Areas \cup {Declined}),
         collecting' = collecting \/ Writes(transaction[s].command),
         CollectionHasArea'
  PROVE  IntakeInv'
<1>1. /\ DOMAIN transaction' = Sessions /\ transaction'[s] = NoTransaction
      /\ \A t \in Sessions \ {s} : transaction'[t] = transaction[t]
  BY DEF Ends, IntakeInv
<1>2. IntakeTypeOK'
  BY <1>1 DEF IntakeInv, IntakeTypeOK
<1>3. \A t \in Sessions : Running(t)' => t # s /\ Running(t)
  BY <1>1 DEF Running
<1>4. \A t \in Sessions : Running(t)' => transaction'[t].collecting = collecting'
  <2>1. CASE collecting' = collecting
    BY <1>1, <1>3, <2>1 DEF IntakeInv
  <2>2. CASE Writes(transaction[s].command)
    BY <1>3, <2>2 DEF IntakeInv
  <2> QED BY <2>1, <2>2
<1>5. \A t, u \in Sessions : Running(t)' /\ Running(u)' /\ Writes(transaction[t].command)' => t = u
  <2> SUFFICES ASSUME NEW t \in Sessions, NEW u \in Sessions, Running(t)', Running(u)',
                      Writes(transaction[t].command)'
               PROVE  t = u
    OBVIOUS
  <2>1. transaction'[t] = transaction[t] /\ Running(t) /\ Running(u)
    BY <1>1, <1>3
  <2> QED BY <2>1 DEF IntakeInv, Writes
<1> QED BY <1>1, <1>2, <1>4, <1>5 DEF IntakeInv

LEMMA CreateAreaInv ==
  ASSUME IntakeInv, NEW s \in Sessions, CreateArea(s)
  PROVE  IntakeInv'
<1>1. PICK a : /\ a = transaction[s].command.area /\ areas[a] = "absent"
               /\ areas' = [areas EXCEPT ![a] = "active"]
  BY DEF CreateArea
<1>2. Running(s) /\ Ends(s) /\ UNCHANGED <<collecting, recorded>>
  BY DEF CreateArea, Runs, Running
<1>3. areas \in [Areas -> {"absent", "active", "inactive"}]
  BY DEF IntakeInv, IntakeTypeOK
<1>4. areas' \in [Areas -> {"absent", "active", "inactive"}]
  BY <1>1, <1>3
<1>5. ActiveAreas \subseteq ActiveAreas'
  BY <1>1, <1>3 DEF ActiveAreas
<1>6. CollectionHasArea'
  BY <1>2, <1>5 DEF IntakeInv, CollectionHasArea
<1> QED BY <1>2, <1>4, <1>6, EndsInv DEF IntakeInv, IntakeTypeOK

\* The last active area stays while the flag is on: the flag read with the row
\* is the flag.
LEMMA ChangeAreaInv ==
  ASSUME IntakeInv, NEW s \in Sessions, ChangeArea(s)
  PROVE  IntakeInv'
<1>1. PICK a :
        \/ areas[a] = "inactive" /\ areas' = [areas EXCEPT ![a] = "active"]
        \/ /\ areas[a] = "active" /\ (transaction[s].collecting => ActiveAreas # {a})
           /\ areas' = [areas EXCEPT ![a] = "inactive"]
  BY DEF ChangeArea
<1>2. Running(s) /\ Ends(s) /\ UNCHANGED <<collecting, recorded>>
  BY DEF ChangeArea, Runs, Running
<1>3. areas \in [Areas -> {"absent", "active", "inactive"}]
  BY DEF IntakeInv, IntakeTypeOK
<1>4. areas' \in [Areas -> {"absent", "active", "inactive"}]
  BY <1>1, <1>3
<1>5. CollectionHasArea'
  <2> SUFFICES ASSUME collecting PROVE ActiveAreas' # {}
    BY <1>2 DEF CollectionHasArea
  <2>1. transaction[s].collecting /\ ActiveAreas # {}
    BY <1>2 DEF IntakeInv, CollectionHasArea
  <2>2. PICK b \in ActiveAreas : b # a \/ areas'[b] = "active"
    <3>1. CASE areas[a] = "inactive" /\ areas' = [areas EXCEPT ![a] = "active"]
      BY <1>3, <2>1, <3>1 DEF ActiveAreas
    <3>2. CASE ActiveAreas # {a}
      BY <2>1, <3>2
    <3> QED BY <1>1, <2>1, <3>1, <3>2
  <2>3. b \in Areas /\ areas[b] = "active"
    BY <2>2 DEF ActiveAreas
  <2>4. areas'[b] = "active"
    BY <1>1, <1>3, <2>2, <2>3
  <2> QED BY <2>3, <2>4 DEF ActiveAreas
<1> QED BY <1>2, <1>4, <1>5, EndsInv DEF IntakeInv, IntakeTypeOK

LEMMA SetCollectionInv ==
  ASSUME IntakeInv, NEW s \in Sessions, SetCollection(s)
  PROVE  IntakeInv'
<1>1. /\ Running(s) /\ Ends(s) /\ UNCHANGED <<areas, recorded>> /\ Writes(transaction[s].command)
      /\ \/ ActiveAreas # {} /\ collecting' = TRUE
         \/ collecting' = FALSE
  BY DEF SetCollection, Runs, Running, Writes
<1>2. CollectionHasArea'
  BY <1>1 DEF CollectionHasArea, ActiveAreas
<1> QED BY <1>1, <1>2, EndsInv DEF IntakeInv, IntakeTypeOK

LEMMA RecordInv ==
  ASSUME IntakeInv, NEW s \in Sessions, RecordParticipation(s)
  PROVE  /\ IntakeInv'
         /\ collecting /\ recorded' \ recorded \subseteq ActiveAreas \cup {Declined}
<1>1. /\ Running(s) /\ Ends(s) /\ transaction[s].collecting /\ UNCHANGED <<collecting, areas>>
      /\ \E x \in ActiveAreas \cup {Declined} : recorded' = recorded \cup {x}
  BY DEF RecordParticipation, Running
<1>2. ActiveAreas \subseteq Areas
  BY DEF ActiveAreas
<1>3. recorded' \in SUBSET (Areas \cup {Declined})
  BY <1>1, <1>2 DEF IntakeInv, IntakeTypeOK
<1>4. CollectionHasArea' /\ collecting' = collecting
  BY <1>1 DEF IntakeInv, CollectionHasArea, ActiveAreas
<1>5. collecting
  BY <1>1 DEF IntakeInv
<1> QED BY <1>1, <1>3, <1>4, <1>5, EndsInv DEF IntakeInv, IntakeTypeOK

LEMMA RollBackInv ==
  ASSUME IntakeInv, NEW s \in Sessions, RollBack(s)
  PROVE  IntakeInv'
<1>1. Running(s) /\ Ends(s) /\ UNCHANGED <<collecting, areas, recorded>>
  BY DEF RollBack, Running
<1>2. CollectionHasArea'
  BY <1>1 DEF IntakeInv, CollectionHasArea, ActiveAreas
<1> QED BY <1>1, <1>2, EndsInv DEF IntakeInv, IntakeTypeOK

LEMMA IntakeStepInv == IntakeInv /\ [IntakeNext]_intakeVars => IntakeInv'
<1>1. IntakeInv /\ UNCHANGED intakeVars => IntakeInv'
  <2> SUFFICES ASSUME IntakeInv, UNCHANGED <<collecting, areas, transaction, recorded>> PROVE IntakeInv'
    BY DEF intakeVars
  <2> QED BY DEF IntakeInv, IntakeTypeOK, Running, Writes, CollectionHasArea, ActiveAreas
<1> QED BY <1>1, TakeRowInv, CreateAreaInv, ChangeAreaInv, SetCollectionInv, RecordInv, RollBackInv
        DEF IntakeNext

\* What is asked for, what is offered and what is recorded agree, whoever
\* changes which of them meanwhile (admin-participation-area.service.ts:40,
\* participation-configuration.ts:30, participation.domain.ts:27).
THEOREM AnswersFitTheirSettings == IntakeSpec => AnswersFitSettings
<1>1. IntakeInit => IntakeInv
  BY IntakeInitInv
<1>2. IntakeInv /\ [IntakeNext]_intakeVars => IntakeInv'
  BY IntakeStepInv
<1>3. IntakeInv' => CollectionHasArea'
  BY DEF IntakeInv
<1>4. IntakeInv /\ [IntakeNext]_intakeVars =>
        [recorded' # recorded => collecting /\ recorded' \ recorded \subseteq ActiveAreas \cup {Declined}]_intakeVars
  <2> SUFFICES ASSUME IntakeInv, [IntakeNext]_intakeVars, recorded' # recorded
               PROVE  collecting /\ recorded' \ recorded \subseteq ActiveAreas \cup {Declined}
    OBVIOUS
  <2>1. PICK s \in Sessions : RecordParticipation(s)
    BY DEF IntakeNext, intakeVars, TakeRow, CreateArea, ChangeArea, SetCollection, RollBack
  <2> QED BY <2>1, RecordInv
<1> QED BY <1>1, <1>2, <1>3, <1>4, PTL DEF IntakeSpec, AnswersFitSettings, RecordedWhileAsked

--------------------------------------------------------------------------------
(* Issues: the inductive invariant.                                         *)

SaveRow == [by : Configurators, issue : Issues, read : Row, draft : Content, awaited : BOOLEAN]

\* What was read of an Issue is of no later revision in any part, and a part
\* whose revision still holds is as it was read.
ReadHolds(i, row) ==
  /\ row \in Row /\ i \in Issues /\ issue[i] \in Row
  /\ row.revisions.core <= issue[i].revisions.core
  /\ row.revisions.action <= issue[i].revisions.action
  /\ row.revisions.policy <= issue[i].revisions.policy
  /\ row.revisions.core = issue[i].revisions.core =>
       /\ row.content.form = issue[i].content.form
       /\ row.content.availability = issue[i].content.availability
       /\ row.content.active = issue[i].content.active
  /\ row.revisions.action = issue[i].revisions.action => row.content.action = issue[i].content.action
  /\ row.revisions.policy = issue[i].revisions.policy => row.content.policy = issue[i].content.policy

IssueInv ==
  /\ IssueTypeOK /\ DOMAIN screen = Configurators
  /\ \A e \in Configurators : screen[e].stage = "editing" => ReadHolds(screen[e].issue, screen[e].read)
  /\ \A s \in saves : s \in SaveRow /\ ReadHolds(s.issue, s.read)

\* Who writes a part advances its revision.
LEMMA AdvancedIs ==
  ASSUME NEW row \in Row, NEW next \in Content
  PROVE  /\ Advanced(row, next) \in Row /\ Advanced(row, next).content = next
         /\ row.revisions.core <= Advanced(row, next).revisions.core
         /\ row.revisions.action <= Advanced(row, next).revisions.action
         /\ row.revisions.policy <= Advanced(row, next).revisions.policy
         /\ row.revisions.core = Advanced(row, next).revisions.core =>
              /\ row.content.form = next.form
              /\ row.content.availability = next.availability
              /\ row.content.active = next.active
         /\ row.revisions.action = Advanced(row, next).revisions.action => row.content.action = next.action
         /\ row.revisions.policy = Advanced(row, next).revisions.policy => row.content.policy = next.policy
<1>1. PICK c \in {0, 1}, a \in {0, 1}, p \in {0, 1}, v \in {0, 1} :
        /\ c = IF \/ next.form # row.content.form
                  \/ next.availability # row.content.availability
                  \/ next.active # row.content.active THEN 1 ELSE 0
        /\ a = IF next.action # row.content.action THEN 1 ELSE 0
        /\ p = IF next.policy # row.content.policy THEN 1 ELSE 0
        /\ v = IF next.form # row.content.form THEN 1 ELSE 0
  OBVIOUS
<1>2. PICK r : r = [core |-> row.revisions.core + c, action |-> row.revisions.action + a,
                    policy |-> row.revisions.policy + p, version |-> row.revisions.version + v]
  OBVIOUS
<1>3. Advanced(row, next) = [content |-> next, revisions |-> r]
  BY <1>1, <1>2 DEF Advanced
<1>4. /\ row.revisions.core \in Nat /\ row.revisions.action \in Nat /\ row.revisions.policy \in Nat
      /\ row.revisions.version \in Nat
  BY DEF Row, Revisions
<1>5. r \in Revisions
  BY <1>1, <1>2, <1>4 DEF Revisions
<1>6. Advanced(row, next) \in Row /\ Advanced(row, next).content = next /\ Advanced(row, next).revisions = r
  BY <1>3, <1>5 DEF Row
<1> QED BY <1>1, <1>2, <1>4, <1>6

LEMMA IssueInitInv == IssueInit => IssueInv
BY DEF IssueInit, IssueInv, IssueTypeOK, At

\* What was read of an Issue stays so when its parts are written, and so does
\* what was read of others.
LEMMA WriteKeepsReads ==
  ASSUME IssueInv, NEW i \in Issues, issue[i] \in Row, NEW next \in Content,
         issue' = [issue EXCEPT ![i] = Advanced(issue[i], next)],
         NEW j, NEW row, ReadHolds(j, row)
  PROVE  ReadHolds(j, row)'
<1>1. PICK new \in Row : new = Advanced(issue[i], next)
  BY AdvancedIs
<1>2. issue'[i] = new /\ \A k \in Issues \ {i} : issue'[k] = issue[k]
  BY <1>1 DEF IssueInv, IssueTypeOK
<1>3. CASE j # i
  BY <1>2, <1>3 DEF ReadHolds
<1>4. CASE j = i
  <2>1. PICK old \in Row : old = issue[i]
    OBVIOUS
  <2>2. /\ row.revisions.core \in Nat /\ row.revisions.action \in Nat /\ row.revisions.policy \in Nat
        /\ old.revisions.core \in Nat /\ old.revisions.action \in Nat /\ old.revisions.policy \in Nat
        /\ new.revisions.core \in Nat /\ new.revisions.action \in Nat /\ new.revisions.policy \in Nat
    BY DEF ReadHolds, Row, Revisions
  <2>3. /\ new.content = next
        /\ old.revisions.core <= new.revisions.core
        /\ old.revisions.action <= new.revisions.action
        /\ old.revisions.policy <= new.revisions.policy
        /\ old.revisions.core = new.revisions.core =>
             /\ old.content.form = next.form
             /\ old.content.availability = next.availability
             /\ old.content.active = next.active
        /\ old.revisions.action = new.revisions.action => old.content.action = next.action
        /\ old.revisions.policy = new.revisions.policy => old.content.policy = next.policy
    BY <1>1, <2>1, AdvancedIs
  <2>4. /\ row \in Row
        /\ row.revisions.core <= old.revisions.core
        /\ row.revisions.action <= old.revisions.action
        /\ row.revisions.policy <= old.revisions.policy
        /\ row.revisions.core = old.revisions.core =>
             /\ row.content.form = old.content.form
             /\ row.content.availability = old.content.availability
             /\ row.content.active = old.content.active
        /\ row.revisions.action = old.revisions.action => row.content.action = old.content.action
        /\ row.revisions.policy = old.revisions.policy => row.content.policy = old.content.policy
    BY <1>4, <2>1 DEF ReadHolds
  <2>5. /\ row.revisions.core <= new.revisions.core
        /\ row.revisions.action <= new.revisions.action
        /\ row.revisions.policy <= new.revisions.policy
    BY <2>2, <2>3, <2>4
  <2>6. /\ row.revisions.core = new.revisions.core =>
             /\ row.content.form = next.form
             /\ row.content.availability = next.availability
             /\ row.content.active = next.active
        /\ row.revisions.action = new.revisions.action => row.content.action = next.action
        /\ row.revisions.policy = new.revisions.policy => row.content.policy = next.policy
    BY <2>2, <2>3, <2>4
  <2> QED BY <1>2, <1>4, <2>3, <2>4, <2>5, <2>6 DEF ReadHolds
<1> QED BY <1>3, <1>4

\* A written Issue: every reading and every save stays good.
LEMMA WriteInv ==
  ASSUME IssueInv, NEW i \in Issues, issue[i] \in Row, NEW next \in Content,
         issue' = [issue EXCEPT ![i] = Advanced(issue[i], next)],
         saves' \subseteq saves, DOMAIN screen' = Configurators,
         \A e \in Configurators : screen'[e] = screen[e] \/ screen'[e] = At("closed")
  PROVE  IssueInv'
<1>1. \A s \in saves' : s \in SaveRow /\ ReadHolds(s.issue, s.read)'
  BY WriteKeepsReads DEF IssueInv
<1>2. \A e \in Configurators : screen'[e].stage = "editing" => ReadHolds(screen[e].issue, screen[e].read)'
  <2> SUFFICES ASSUME NEW e \in Configurators, screen'[e].stage = "editing"
               PROVE  ReadHolds(screen[e].issue, screen[e].read)'
    OBVIOUS
  <2>1. screen'[e] = screen[e]
    BY DEF At
  <2>2. PICK j, row : j = screen[e].issue /\ row = screen[e].read /\ ReadHolds(j, row)
    BY <2>1 DEF IssueInv
  <2>3. ReadHolds(j, row)'
    BY <2>2, WriteKeepsReads
  <2>4. screen'[e].issue = j /\ screen'[e].read = row
    BY <2>1, <2>2
  <2> QED BY <2>3, <2>4
<1>3. IssueTypeOK'
  <2>1. issue' \in [Issues -> Row \cup {Absent}]
    BY AdvancedIs DEF IssueInv, IssueTypeOK
  <2>2. \A e \in Configurators :
          \/ screen'[e] \in {At("closed"), At("saving"), At("blocked")}
          \/ screen'[e].stage = "editing" /\ screen'[e].issue \in Issues /\ screen'[e].read \in Row
    BY DEF IssueInv, IssueTypeOK
  <2> QED BY <1>1, <2>1, <2>2 DEF IssueTypeOK, SaveRow
<1> QED BY <1>1, <1>2, <1>3 DEF IssueInv

\* Nothing is written: screens and saves hold what was read.
LEMMA IssueStays ==
  ASSUME IssueInv, UNCHANGED issue, DOMAIN screen' = Configurators,
         \A e \in Configurators :
           \/ screen'[e] = screen[e]
           \/ screen'[e] \in {At("closed"), At("saving"), At("blocked")}
           \/ screen'[e].stage = "editing" /\ ReadHolds(screen'[e].issue, screen'[e].read),
         \A s \in saves' : s \in SaveRow /\ ReadHolds(s.issue, s.read)
  PROVE  IssueInv'
<1>1. \A j, row : ReadHolds(j, row)' = ReadHolds(j, row)
  BY DEF ReadHolds
<1>2. \A e \in Configurators : screen'[e].stage = "editing" => ReadHolds(screen'[e].issue, screen'[e].read)
  <2> SUFFICES ASSUME NEW e \in Configurators, screen'[e].stage = "editing"
               PROVE  ReadHolds(screen'[e].issue, screen'[e].read)
    OBVIOUS
  <2>1. \A stage \in {"closed", "saving", "blocked"} : At(stage).stage = stage
    BY DEF At
  <2> QED BY <2>1 DEF IssueInv
<1>3. \A e \in Configurators :
        \/ screen'[e] \in {At("closed"), At("saving"), At("blocked")}
        \/ screen'[e].stage = "editing" /\ screen'[e].issue \in Issues /\ screen'[e].read \in Row
  BY DEF IssueInv, IssueTypeOK, ReadHolds
<1>4. IssueTypeOK'
  BY <1>3 DEF IssueInv, IssueTypeOK, SaveRow
<1>5. \A e \in Configurators : screen'[e].stage = "editing" => ReadHolds(screen[e].issue, screen[e].read)'
  BY <1>2 DEF ReadHolds
<1>6. \A s \in saves' : s \in SaveRow /\ ReadHolds(s.issue, s.read)'
  BY DEF ReadHolds
<1> QED BY <1>4, <1>5, <1>6 DEF IssueInv

LEMMA LoadIssueInv ==
  ASSUME IssueInv, NEW e \in Configurators, NEW i \in Issues, LoadIssue(e, i)
  PROVE  IssueInv'
<1>1. PICK row \in Row : row = issue[i]
  BY DEF LoadIssue, IssueInv, IssueTypeOK
<1>2. PICK shown : shown = Editing(i, row)
  OBVIOUS
<1>3. shown.stage = "editing" /\ shown.issue = i /\ shown.read = row
  BY <1>2 DEF Editing
<1>4. ReadHolds(i, row)
  <2>1. row.revisions.core \in Nat /\ row.revisions.action \in Nat /\ row.revisions.policy \in Nat
    BY DEF Row, Revisions
  <2> QED BY <1>1, <2>1 DEF ReadHolds
<1>5. screen' = [screen EXCEPT ![e] = shown] /\ UNCHANGED <<issue, saves>>
  BY <1>1, <1>2 DEF LoadIssue
<1> QED BY <1>3, <1>4, <1>5, IssueStays DEF IssueInv

LEMMA SendChangeInv ==
  ASSUME IssueInv, NEW e \in Configurators, SendChange(e)
  PROVE  IssueInv'
<1>1. PICK i \in Issues, row \in Row :
        i = screen[e].issue /\ row = screen[e].read /\ ReadHolds(i, row)
  BY DEF SendChange, IssueInv, ReadHolds
<1>2. PICK draft \in Content :
        saves' = saves \cup {[by |-> e, issue |-> screen[e].issue, read |-> screen[e].read,
                              draft |-> draft, awaited |-> TRUE]}
  BY DEF SendChange
<1>3. PICK s : s = [by |-> e, issue |-> i, read |-> row, draft |-> draft, awaited |-> TRUE]
  OBVIOUS
<1>4. s \in SaveRow /\ s.issue = i /\ s.read = row
  BY <1>3 DEF SaveRow
<1>5. saves' = saves \cup {s}
  BY <1>1, <1>2, <1>3
<1>6. /\ screen' = [screen EXCEPT ![e] = At("saving")] /\ UNCHANGED issue
  BY DEF SendChange
<1> QED BY <1>1, <1>4, <1>5, <1>6, IssueStays DEF IssueInv

LEMMA LoseAnswerInv ==
  ASSUME IssueInv, NEW e \in Configurators, LoseAnswer(e)
  PROVE  IssueInv'
<1>1. screen' = [screen EXCEPT ![e] = At("blocked")] /\ saves' = Abandoned(e) /\ UNCHANGED issue
  BY DEF LoseAnswer
<1>2. \A s \in saves' : s \in SaveRow /\ ReadHolds(s.issue, s.read)
  <2> SUFFICES ASSUME NEW s \in saves' PROVE s \in SaveRow /\ ReadHolds(s.issue, s.read)
    OBVIOUS
  <2>1. PICK o \in saves : s = IF o.by = e THEN [o EXCEPT !.awaited = FALSE] ELSE o
    BY <1>1 DEF Abandoned
  <2>2. o \in SaveRow /\ ReadHolds(o.issue, o.read)
    BY DEF IssueInv
  <2>3. s \in SaveRow /\ s.issue = o.issue /\ s.read = o.read
    BY <2>1, <2>2 DEF SaveRow
  <2> QED BY <2>2, <2>3
<1> QED BY <1>1, <1>2, IssueStays DEF IssueInv

LEMMA CloseIssueInv ==
  ASSUME IssueInv, NEW e \in Configurators, CloseIssue(e)
  PROVE  IssueInv'
BY IssueStays DEF CloseIssue, IssueInv

\* The Issue a save is of, and what the save makes of it.
LEMMA SaveIs ==
  ASSUME IssueInv, NEW save \in saves
  PROVE  /\ save \in SaveRow /\ save.issue \in Issues /\ issue[save.issue] \in Row
         /\ save.by \in Configurators
         /\ ReadHolds(save.issue, save.read)
         /\ Resulting(issue[save.issue], save) \in Content
<1>1. save \in SaveRow /\ ReadHolds(save.issue, save.read)
  BY DEF IssueInv
<1>2. PICK row \in Row : row = issue[save.issue]
  BY <1>1 DEF ReadHolds
<1>3. PICK draft \in Content : draft = save.draft
  BY <1>1 DEF SaveRow
<1>4. row.content \in Content /\ row.content.action \in Handlings
  BY DEF Row, Content
<1>5. [draft EXCEPT !.action = row.content.action] \in Content
  BY <1>4 DEF Content
<1>6. Resulting(row, save) \in Content
  BY <1>3, <1>5 DEF Resulting
<1> QED BY <1>1, <1>2, <1>6 DEF SaveRow, ReadHolds

LEMMA ChangeIssueInv ==
  ASSUME IssueInv, NEW save \in saves, ChangeIssue(save)
  PROVE  IssueInv'
<1>1. PICK next \in Content : next = Resulting(issue[save.issue], save)
  BY SaveIs
<1>2. saves' = saves \ {save}
  BY DEF ChangeIssue
<1>3. CASE /\ issue' = [issue EXCEPT ![save.issue] = Advanced(issue[save.issue], next)]
           /\ Answered(save, At("closed"))
  <2>1. /\ DOMAIN screen' = Configurators
        /\ \A e \in Configurators : screen'[e] = screen[e] \/ screen'[e] = At("closed")
    BY <1>3 DEF Answered, IssueInv
  <2> QED BY <1>2, <1>3, <2>1, SaveIs, WriteInv
<1>4. CASE issue' = issue /\ Answered(save, At("blocked"))
  <2>1. /\ DOMAIN screen' = Configurators
        /\ \A e \in Configurators : screen'[e] = screen[e] \/ screen'[e] = At("blocked")
    BY <1>4 DEF Answered, IssueInv
  <2> QED BY <1>2, <1>4, <2>1, IssueStays DEF IssueInv
<1>5. CASE issue' = issue /\ Answered(save, Editing(save.issue, save.read))
  <2>1. PICK shown : shown = Editing(save.issue, save.read)
    OBVIOUS
  <2>2. shown.stage = "editing" /\ shown.issue = save.issue /\ shown.read = save.read
    BY <2>1 DEF Editing
  <2>3. /\ DOMAIN screen' = Configurators
        /\ \A e \in Configurators : screen'[e] = screen[e] \/ screen'[e] = shown
    BY <1>5, <2>1 DEF Answered, IssueInv
  <2> QED BY <1>2, <1>5, <2>2, <2>3, SaveIs, IssueStays DEF IssueInv
<1> QED BY <1>1, <1>3, <1>4, <1>5 DEF ChangeIssue

LEMMA SetHandlingInv ==
  ASSUME IssueInv, NEW i \in Issues, NEW a \in Handlings, SetHandling(i, a)
  PROVE  IssueInv'
<1>1. PICK row \in Row : row = issue[i]
  BY DEF SetHandling, IssueInv, IssueTypeOK
<1>2. PICK next : next = [row.content EXCEPT !.action = a]
  OBVIOUS
<1>3. next \in Content
  BY <1>2 DEF Row, Content
<1>4. issue' = [issue EXCEPT ![i] = Advanced(issue[i], next)] /\ UNCHANGED <<screen, saves>>
  BY <1>1, <1>2 DEF SetHandling
<1> QED BY <1>1, <1>3, <1>4, WriteInv DEF IssueInv

LEMMA SetPolicyInv ==
  ASSUME IssueInv, NEW i \in Issues, NEW p \in Policies, SetPolicy(i, p)
  PROVE  IssueInv'
<1>1. PICK row \in Row : row = issue[i]
  BY DEF SetPolicy, IssueInv, IssueTypeOK
<1>2. PICK next : next = [row.content EXCEPT !.policy = p]
  OBVIOUS
<1>3. next \in Content
  BY <1>2 DEF Row, Content
<1>4. issue' = [issue EXCEPT ![i] = Advanced(issue[i], next)] /\ UNCHANGED <<screen, saves>>
  BY <1>1, <1>2 DEF SetPolicy, IssueInv, IssueTypeOK
<1> QED BY <1>1, <1>3, <1>4, WriteInv DEF IssueInv

\* A new Issue: nobody has read anything of it.
LEMMA CreateIssueInv ==
  ASSUME IssueInv, NEW e \in Configurators, NEW i \in Issues, CreateIssue(e, i)
  PROVE  IssueInv'
<1>1. PICK content \in Content : issue' = [issue EXCEPT ![i] = NewRow(content)]
  BY DEF CreateIssue
<1>2. issue[i] = Absent /\ UNCHANGED <<screen, saves>>
  BY DEF CreateIssue
<1>3. NewRow(content) \in Row
  <2>1. PICK n \in {1, 2} : n = IF content.action = "redirect" THEN 2 ELSE 1
    OBVIOUS
  <2>2. [core |-> 1, action |-> n, policy |-> 1, version |-> 1] \in Revisions
    BY DEF Revisions
  <2> QED BY <2>1, <2>2 DEF NewRow, Row
<1>4. issue' \in [Issues -> Row \cup {Absent}] /\ \A j \in Issues \ {i} : issue'[j] = issue[j]
  BY <1>1, <1>3 DEF IssueInv, IssueTypeOK
<1>5. \A j, row : ReadHolds(j, row) => ReadHolds(j, row)'
  <2> SUFFICES ASSUME NEW j, NEW row, ReadHolds(j, row) PROVE ReadHolds(j, row)'
    OBVIOUS
  <2>1. j \in Issues \ {i}
    BY <1>2, IssueAssumption DEF ReadHolds
  <2> QED BY <1>4, <2>1 DEF ReadHolds
<1>6. \A s \in saves' : s \in SaveRow /\ ReadHolds(s.issue, s.read)'
  <2> SUFFICES ASSUME NEW s \in saves PROVE s \in SaveRow /\ ReadHolds(s.issue, s.read)'
    BY <1>2
  <2>1. s \in SaveRow /\ ReadHolds(s.issue, s.read)
    BY DEF IssueInv
  <2> QED BY <1>5, <2>1
<1>7. \A c \in Configurators : screen'[c].stage = "editing" => ReadHolds(screen[c].issue, screen[c].read)'
  <2> SUFFICES ASSUME NEW c \in Configurators, screen[c].stage = "editing"
               PROVE  ReadHolds(screen[c].issue, screen[c].read)'
    BY <1>2
  <2>1. PICK j, row : j = screen[c].issue /\ row = screen[c].read /\ ReadHolds(j, row)
    BY DEF IssueInv
  <2>2. ReadHolds(j, row)'
    BY <1>5, <2>1
  <2>3. screen'[c].issue = j /\ screen'[c].read = row
    BY <1>2, <2>1
  <2> QED BY <2>2, <2>3
<1>8. IssueTypeOK'
  BY <1>2, <1>4 DEF IssueInv, IssueTypeOK
<1> QED BY <1>2, <1>6, <1>7, <1>8 DEF IssueInv

LEMMA IssueStepInv == IssueInv /\ [IssueNext]_issueVars => IssueInv'
<1>1. IssueInv /\ UNCHANGED issueVars => IssueInv'
  BY IssueStays DEF issueVars, IssueInv
<1> QED BY <1>1, LoadIssueInv, CreateIssueInv, SendChangeInv, LoseAnswerInv, CloseIssueInv,
           ChangeIssueInv, SetHandlingInv, SetPolicyInv DEF IssueNext

\* A save that writes found every part as its author read it, and leaves
\* exactly the draft.
LEMMA SaveReplacesWhatWasRead ==
  ASSUME IssueInv, [IssueNext]_issueVars, NEW save \in saves \ saves', issue' # issue
  PROVE  /\ issue[save.issue].content = save.read.content
         /\ issue'[save.issue].content = save.draft
<1>1. PICK x \in saves : ChangeIssue(x)
  BY DEF IssueNext, issueVars, LoadIssue, CreateIssue, SendChange, LoseAnswer, CloseIssue,
         SetHandling, SetPolicy
<1>2. x = save
  BY <1>1 DEF ChangeIssue
<1>3. PICK row \in Row, next \in Content :
        row = issue[save.issue] /\ next = Resulting(row, save)
  BY SaveIs
<1>4. /\ RevisionsHold(row, save)
      /\ issue' = [issue EXCEPT ![save.issue] = Advanced(row, next)]
  BY <1>1, <1>2, <1>3 DEF ChangeIssue
<1>5. save \in SaveRow /\ ReadHolds(save.issue, save.read) /\ save.issue \in Issues
  BY SaveIs
<1>6. PICK read \in Row, draft \in Content : read = save.read /\ draft = save.draft
  BY <1>5 DEF SaveRow
<1>7. /\ read.content \in Content /\ row.content \in Content
      /\ read.content.form = row.content.form /\ read.content.availability = row.content.availability
      /\ read.content.action = row.content.action /\ read.content.policy = row.content.policy
      /\ read.content.active = row.content.active
  BY <1>3, <1>4, <1>5, <1>6 DEF RevisionsHold, ReadHolds, Row
<1>8. read.content = row.content
  BY <1>7 DEF Content
<1>9. next = draft
  <2>1. CASE draft.action = read.content.action
    <3>1. next = [draft EXCEPT !.action = row.content.action]
      BY <1>3, <1>6, <2>1 DEF Resulting
    <3> QED BY <1>7, <2>1, <3>1 DEF Content
  <2>2. CASE draft.action # read.content.action
    BY <1>3, <1>6, <2>2 DEF Resulting
  <2> QED BY <2>1, <2>2
<1>10. issue'[save.issue].content = next
  BY <1>4, <1>5, AdvancedIs DEF IssueInv, IssueTypeOK
<1> QED BY <1>3, <1>6, <1>8, <1>9, <1>10

\* A save replaces only the configuration its author was looking at, whatever
\* part others write and by whichever way in (admin-issue.service.ts:640).
THEOREM SavesReplaceWhatWasOpen == IssueSpec => ChangeSavesWhatWasOpen
<1>1. IssueInit => IssueInv
  BY IssueInitInv
<1>2. IssueInv /\ [IssueNext]_issueVars => IssueInv'
  BY IssueStepInv
<1>3. IssueInv /\ [IssueNext]_issueVars =>
        [\A save \in saves \ saves' : issue' # issue =>
           issue[save.issue].content = save.read.content /\ issue'[save.issue].content = save.draft]_issueVars
  BY SaveReplacesWhatWasRead
<1> QED BY <1>1, <1>2, <1>3, PTL DEF IssueSpec, ChangeSavesWhatWasOpen

--------------------------------------------------------------------------------
(* Resident experience: the inductive invariant.                            *)

Asked == [target : 1..MaxChanges, baseline : 0..MaxChanges, purpose : Purposes,
          revision : Nat, authorization : 0..MaxChanges, decision : Decisions,
          reviewer : Editors \cup {NoReviewer}, expired : BOOLEAN]

\* The contacts of a draft are those of the last change on the way to it.
IntroducedAt(d, target) == ChangesContacts(d) /\ \A x \in d + 1 .. target : ~ChangesContacts(x)

\* A request was made against no later revision than the resource's, and at
\* the resource's revision its baseline is still what is published.
RequestsHold ==
  \A i \in DOMAIN reviews :
    /\ reviews[i].target \in DOMAIN drafts /\ reviews[i].baseline \in 0..Draft
    /\ reviews[i].revision <= ResourceRevision
    /\ reviews[i].revision = ResourceRevision => reviews[i].baseline = Published

PublicationsHold ==
  \A p \in DOMAIN publications :
    /\ publications[p].target \in DOMAIN drafts /\ publications[p].review \in DOMAIN reviews
    /\ reviews[publications[p].review].decision = "approved"

ResidentInv ==
  /\ ResidentTypeOK
  /\ \A t \in DOMAIN drafts : \E d \in 1..t : IntroducedAt(d, t)
  /\ RequestsHold /\ PublicationsHold /\ ContactsApprovedByAnother

LEMMA Replaced ==
  ASSUME NEW S, NEW s \in Seq(S), NEW i \in DOMAIN s, NEW e \in S
  PROVE  /\ [s EXCEPT ![i] = e] \in Seq(S) /\ Len([s EXCEPT ![i] = e]) = Len(s)
         /\ DOMAIN [s EXCEPT ![i] = e] = DOMAIN s /\ [s EXCEPT ![i] = e][i] = e
         /\ \A j \in DOMAIN s \ {i} : [s EXCEPT ![i] = e][j] = s[j]
OBVIOUS

LEMMA Appended ==
  ASSUME NEW S, NEW s \in Seq(S), NEW e \in S
  PROVE  /\ Append(s, e) \in Seq(S) /\ Len(s) \in Nat /\ Len(Append(s, e)) = Len(s) + 1
         /\ DOMAIN s = 1..Len(s) /\ DOMAIN Append(s, e) = 1..(Len(s) + 1)
         /\ \A i \in 1..Len(s) : Append(s, e)[i] = s[i] /\ s[i] \in S
         /\ Append(s, e)[Len(s) + 1] = e
OBVIOUS

LEMMA ResidentInitInv == ResidentInit => ResidentInv
<1> SUFFICES ASSUME ResidentInit PROVE ResidentInv
  OBVIOUS
<1>1. drafts = <<>> /\ reviews = <<>> /\ publications = <<>>
  BY DEF ResidentInit
<1>2. DOMAIN drafts = {} /\ DOMAIN reviews = {} /\ DOMAIN publications = {}
  BY <1>1
<1>3. ResidentTypeOK
  BY <1>1, ResidentAssumption DEF ResidentInit, ResidentTypeOK, Capabilities
<1> QED BY <1>2, <1>3 DEF ResidentInv, RequestsHold, PublicationsHold, ContactsApprovedByAnother

\* No draft has two places where its contacts were introduced.
LEMMA IntroducedOnce ==
  ASSUME ResidentInv, NEW t \in DOMAIN drafts, NEW d \in 1..t, IntroducedAt(d, t)
  PROVE  Introduced(t) = d
<1>1. t \in Nat
  BY Appended DEF ResidentInv, ResidentTypeOK
<1>2. \A e \in 1..t : IntroducedAt(e, t) => e = d
  <2> SUFFICES ASSUME NEW e \in 1..t, IntroducedAt(e, t) PROVE e = d
    OBVIOUS
  <2>1. CASE e < d
    BY <1>1, <2>1 DEF IntroducedAt
  <2>2. CASE d < e
    BY <1>1, <2>2 DEF IntroducedAt
  <2> QED BY <1>1, <2>1, <2>2
<1>3. Introduced(t) = CHOOSE e \in 1..t : IntroducedAt(e, t)
  BY DEF Introduced, IntroducedAt
<1> QED BY <1>2, <1>3

LEMMA ResidentWellFormed ==
  ASSUME ResidentInv
  PROVE  /\ DOMAIN drafts = 1..Len(drafts) /\ DOMAIN reviews = 1..Len(reviews)
         /\ DOMAIN publications = 1..Len(publications)
         /\ Len(drafts) \in Nat /\ Len(reviews) \in Nat /\ Len(publications) \in Nat
         /\ \A i \in DOMAIN reviews :
              reviews[i] \in Asked
         /\ \A p \in DOMAIN publications :
              publications[p] \in [target : 1..MaxChanges, review : 1..MaxReviews, publisher : Editors]
         /\ \A d \in DOMAIN drafts : drafts[d] \in [saver : Editors, contacts : Contacts]
<1>1. ASSUME NEW S, NEW s \in Seq(S)
      PROVE  DOMAIN s = 1..Len(s) /\ Len(s) \in Nat /\ \A i \in DOMAIN s : s[i] \in S
  BY <1>1
<1>2. ResidentTypeOK
  BY DEF ResidentInv
<1>3. /\ DOMAIN drafts = 1..Len(drafts) /\ Len(drafts) \in Nat
      /\ \A d \in DOMAIN drafts : drafts[d] \in [saver : Editors, contacts : Contacts]
  BY <1>1, <1>2 DEF ResidentTypeOK
<1>4. /\ DOMAIN reviews = 1..Len(reviews) /\ Len(reviews) \in Nat
      /\ \A i \in DOMAIN reviews :
           reviews[i] \in Asked
  BY <1>1, <1>2 DEF ResidentTypeOK, Asked
<1>5. /\ DOMAIN publications = 1..Len(publications) /\ Len(publications) \in Nat
      /\ \A p \in DOMAIN publications :
           publications[p] \in [target : 1..MaxChanges, review : 1..MaxReviews, publisher : Editors]
  BY <1>1, <1>2 DEF ResidentTypeOK
<1> QED BY <1>3, <1>4, <1>5

LEMMA SaveDraftInv == ASSUME ResidentInv, NEW e \in Editors, SaveDraft(e) PROVE ResidentInv'
<1>1. PICK contacts \in Contacts : drafts' = Append(drafts, [saver |-> e, contacts |-> contacts])
  BY DEF SaveDraft
<1>2. Draft + authorization < MaxChanges /\ UNCHANGED <<reviews, publications, capable, authorization>>
  BY DEF SaveDraft
<1>3. /\ Len(drafts') = Len(drafts) + 1 /\ DOMAIN drafts' = 1..(Len(drafts) + 1)
      /\ drafts' \in Seq([saver : Editors, contacts : Contacts])
      /\ \A d \in 1..Len(drafts) : drafts'[d] = drafts[d]
  <2>1. [saver |-> e, contacts |-> contacts] \in [saver : Editors, contacts : Contacts]
    OBVIOUS
  <2>2. drafts \in Seq([saver : Editors, contacts : Contacts])
    BY DEF ResidentInv, ResidentTypeOK
  <2> QED BY <1>1, <2>1, <2>2, Appended
<1>4. \A d \in 1..Len(drafts) : ChangesContacts(d)' = ChangesContacts(d)
  BY <1>3, ResidentWellFormed DEF ChangesContacts, Consequential, ContactsOf
<1>5. \A t \in DOMAIN drafts, d \in 1..Len(drafts) : d <= t => IntroducedAt(d, t)' = IntroducedAt(d, t)
  <2> SUFFICES ASSUME NEW t \in DOMAIN drafts, NEW d \in 1..Len(drafts), d <= t
               PROVE  IntroducedAt(d, t)' = IntroducedAt(d, t)
    OBVIOUS
  <2>1. t \in Nat /\ t <= Len(drafts) /\ \A x \in d + 1 .. t : x \in 1..Len(drafts)
    BY ResidentWellFormed
  <2> QED BY <1>4, <2>1 DEF IntroducedAt
<1>6. ResidentTypeOK'
  BY <1>2, <1>3, ResidentWellFormed, ResidentAssumption DEF ResidentInv, ResidentTypeOK, Draft
<1>7. \A t \in DOMAIN drafts' : \E d \in 1..t : IntroducedAt(d, t)'
  <2> TAKE t \in DOMAIN drafts'
  <2>1. CASE t \in DOMAIN drafts
    BY <1>5, <2>1, ResidentWellFormed DEF ResidentInv
  <2>2. CASE t \notin DOMAIN drafts
    <3>1. t = Len(drafts) + 1
      BY <1>3, <2>2, ResidentWellFormed
    <3>2. CASE ChangesContacts(t)'
      <4>1. IntroducedAt(t, t)'
        BY <3>1, <3>2, ResidentWellFormed DEF IntroducedAt
      <4> QED BY <3>1, <4>1, ResidentWellFormed
    <3>3. CASE ~ChangesContacts(t)'
      <4> PICK n : n = Len(drafts)
        OBVIOUS
      <4>1. n # 0 /\ n \in DOMAIN drafts /\ t = n + 1
        BY <3>1, <3>3, ResidentWellFormed DEF ChangesContacts, Consequential
      <4>2. PICK d \in 1..n : IntroducedAt(d, n)
        BY <4>1, ResidentWellFormed DEF ResidentInv
      <4>3. IntroducedAt(d, n)'
        BY <1>5, <4>1, <4>2, ResidentWellFormed
      <4>4. IntroducedAt(d, t)'
        BY <3>3, <4>1, <4>3, ResidentWellFormed DEF IntroducedAt
      <4> QED BY <4>1, <4>4, ResidentWellFormed
    <3> QED BY <3>2, <3>3
  <2> QED BY <2>1, <2>2
<1>8. RequestsHold'
  BY <1>2, <1>3, ResidentWellFormed DEF Asked, ResidentInv, RequestsHold, ResourceRevision, Draft, Published
<1>9. PublicationsHold'
  BY <1>2, <1>3, ResidentWellFormed DEF ResidentInv, PublicationsHold
<1>10. \A t \in DOMAIN drafts : Introduced(t)' = Introduced(t) /\ Introduced(t) \in DOMAIN drafts
  <2> TAKE t \in DOMAIN drafts
  <2>1. PICK d \in 1..t : IntroducedAt(d, t)
    BY DEF ResidentInv
  <2>2. Introduced(t) = d /\ d \in DOMAIN drafts
    BY <2>1, IntroducedOnce, ResidentWellFormed
  <2>3. IntroducedAt(d, t)'
    BY <1>5, <2>1, <2>2, ResidentWellFormed
  <2>4. \A c \in 1..t : IntroducedAt(c, t)' => c = d
    <3> SUFFICES ASSUME NEW c \in 1..t, IntroducedAt(c, t)' PROVE c = d
      OBVIOUS
    <3>1. CASE c < d
      BY <2>1, <2>3, <3>1, ResidentWellFormed DEF IntroducedAt
    <3>2. CASE d < c
      BY <2>1, <2>3, <3>2, ResidentWellFormed DEF IntroducedAt
    <3> QED BY <2>1, <3>1, <3>2, ResidentWellFormed
  <2>5. Introduced(t)' = CHOOSE c \in 1..t : IntroducedAt(c, t)'
    BY DEF Introduced, IntroducedAt
  <2> QED BY <2>2, <2>3, <2>4, <2>5
<1>11. ContactsApprovedByAnother'
  <2>1. ASSUME NEW p \in DOMAIN publications, NEW q \in DOMAIN publications, NEW t, NEW c,
               t = publications[p].target, c = publications[q].target
        PROVE  /\ t \in DOMAIN drafts /\ c \in DOMAIN drafts
               /\ Introduced(t)' = Introduced(t) /\ Introduced(c)' = Introduced(c)
               /\ drafts'[t] = drafts[t] /\ drafts'[Introduced(t)] = drafts[Introduced(t)]
    BY <1>3, <1>10, <2>1, ResidentWellFormed DEF ResidentInv, PublicationsHold
  <2> SUFFICES ASSUME NEW p \in DOMAIN publications
               PROVE  /\ ReviewerOf(p)' \notin {publications'[p].publisher, drafts'[publications'[p].target].saver}
                      /\ \E q \in 1..p :
                           /\ Introduced(publications[q].target)' = Introduced(publications[p].target)'
                           /\ ReviewerOf(q)' # drafts'[Introduced(publications[p].target)'].saver
    BY <1>2 DEF ContactsApprovedByAnother
  <2>2. PICK t : t = publications[p].target
    OBVIOUS
  <2>3. PICK q \in 1..p : /\ Introduced(publications[q].target) = Introduced(t)
                          /\ ReviewerOf(q) # drafts[Introduced(t)].saver
    BY <2>2 DEF ResidentInv, ContactsApprovedByAnother
  <2>4. PICK c : c = publications[q].target
    OBVIOUS
  <2>5. q \in DOMAIN publications
    BY ResidentWellFormed
  <2>6. t = publications'[p].target /\ c = publications'[q].target
    BY <1>2, <2>2, <2>4
  <2>7. ReviewerOf(p)' = ReviewerOf(p) /\ ReviewerOf(q)' = ReviewerOf(q)
    BY <1>2 DEF ReviewerOf
  <2>8. ReviewerOf(p)' \notin {publications'[p].publisher, drafts'[t].saver}
    BY <1>2, <2>1, <2>2, <2>7 DEF ResidentInv, ContactsApprovedByAnother
  <2>9. Introduced(c)' = Introduced(t)' /\ ReviewerOf(q)' # drafts'[Introduced(t)'].saver
    BY <2>1, <2>2, <2>3, <2>4, <2>5, <2>7
  <2>10. Introduced(publications[q].target)' = Introduced(c)' /\ Introduced(publications[p].target)' = Introduced(t)'
    BY <2>6 DEF Introduced
  <2> QED BY <2>6, <2>8, <2>9, <2>10
<1> QED BY <1>6, <1>7, <1>8, <1>9, <1>11 DEF ResidentInv

\* Decided approvals stay decided, so what was published stays approved.
LEMMA ReviewsAdvance ==
  ASSUME ResidentInv, UNCHANGED <<drafts, publications>>, ResidentTypeOK', RequestsHold',
         \A i \in DOMAIN reviews :
           /\ i \in DOMAIN reviews'
           /\ reviews[i].decision = "approved" => /\ reviews'[i].decision = "approved"
                                                  /\ reviews'[i].reviewer = reviews[i].reviewer
  PROVE  ResidentInv'
<1>1. \A t : Introduced(t)' = Introduced(t)
  BY DEF Introduced, ChangesContacts, Consequential, ContactsOf
<1>2. \A t \in DOMAIN drafts' : \A d : IntroducedAt(d, t)' = IntroducedAt(d, t)
  BY DEF IntroducedAt, ChangesContacts, Consequential, ContactsOf
<1>3. PublicationsHold'
  BY DEF ResidentInv, PublicationsHold
<1>4. \A p \in DOMAIN publications : ReviewerOf(p)' = ReviewerOf(p)
  BY DEF ResidentInv, PublicationsHold, ReviewerOf
<1>5. ContactsApprovedByAnother'
  <2> SUFFICES ASSUME NEW p \in DOMAIN publications
               PROVE  /\ ReviewerOf(p)' \notin {publications[p].publisher, drafts[publications[p].target].saver}
                      /\ \E q \in 1..p :
                           /\ Introduced(publications[q].target) = Introduced(publications[p].target)
                           /\ ReviewerOf(q)' # drafts[Introduced(publications[p].target)].saver
    <3>1. \A q \in DOMAIN publications :
            Introduced(publications[q].target)' = Introduced(publications[q].target)
      BY DEF Introduced, ChangesContacts, Consequential, ContactsOf
    <3>2. \A p \in DOMAIN publications : \A q \in 1..p : q \in DOMAIN publications
      BY ResidentWellFormed
    <3>3. publications' = publications /\ drafts' = drafts
      OBVIOUS
    <3> QED BY <3>1, <3>2, <3>3 DEF ContactsApprovedByAnother
  <2>1. \A q \in 1..p : ReviewerOf(q)' = ReviewerOf(q)
    BY <1>4, ResidentWellFormed
  <2> QED BY <1>4, <2>1 DEF ResidentInv, ContactsApprovedByAnother
<1> QED BY <1>2, <1>3, <1>5 DEF ResidentInv

LEMMA RequestReviewInv ==
  ASSUME ResidentInv, NEW e \in Editors, NEW target \in DOMAIN drafts, NEW purpose \in Purposes,
         RequestReview(e, target, purpose)
  PROVE  ResidentInv'
<1>1. PICK request : request =
        [target |-> target, baseline |-> Published, purpose |-> purpose,
         revision |-> ResourceRevision, authorization |-> authorization,
         decision |-> "none", reviewer |-> NoReviewer, expired |-> FALSE]
  OBVIOUS
<1>2. /\ reviews' = Append(reviews, request) /\ Len(reviews) < MaxReviews
      /\ UNCHANGED <<drafts, publications, capable, authorization>>
  BY <1>1 DEF RequestReview
<1>3. Published \in 0..Draft
  BY ResidentWellFormed DEF Published, Draft, ResidentInv, PublicationsHold
<1>4. ResourceRevision \in Nat /\ authorization \in 0..MaxChanges /\ Draft <= MaxChanges
  BY ResidentWellFormed, ResidentAssumption DEF ResourceRevision, ResidentInv, ResidentTypeOK, Draft
<1>5. /\ request \in Asked
      /\ request.target = target /\ request.baseline = Published /\ request.revision = ResourceRevision
  BY <1>1, <1>3, <1>4, ResidentWellFormed, ResidentAssumption DEF Decisions, Asked, Draft
<1>6. /\ reviews' \in Seq(Asked)
      /\ Len(reviews') = Len(reviews) + 1 /\ DOMAIN reviews' = 1..(Len(reviews) + 1)
      /\ \A i \in DOMAIN reviews : reviews'[i] = reviews[i]
      /\ reviews'[Len(reviews) + 1] = request
  <2>1. reviews \in Seq(Asked)
    BY DEF ResidentInv, ResidentTypeOK, Asked
  <2> QED BY <1>2, <1>5, <2>1, Appended
<1>7. ResidentTypeOK'
  <2>1. Len(reviews') <= MaxReviews
    BY <1>2, <1>6, ResidentWellFormed, ResidentAssumption
  <2> QED BY <1>2, <1>6, <2>1 DEF ResidentInv, ResidentTypeOK, Asked
<1>8. ResourceRevision' = ResourceRevision /\ Published' = Published /\ Draft' = Draft
  BY <1>2 DEF ResourceRevision, Published, Draft
<1>9. RequestsHold'
  <2> SUFFICES ASSUME NEW i \in DOMAIN reviews'
               PROVE  /\ reviews'[i].target \in DOMAIN drafts /\ reviews'[i].baseline \in 0..Draft
                      /\ reviews'[i].revision <= ResourceRevision
                      /\ reviews'[i].revision = ResourceRevision => reviews'[i].baseline = Published
    BY <1>2, <1>8 DEF RequestsHold
  <2>1. CASE i \in DOMAIN reviews
    BY <1>6, <2>1 DEF ResidentInv, RequestsHold
  <2>2. CASE i \notin DOMAIN reviews
    <3>1. i = Len(reviews) + 1
      BY <1>6, <2>2, ResidentWellFormed
    <3> QED BY <1>3, <1>4, <1>5, <1>6, <3>1
  <2> QED BY <2>1, <2>2
<1>10. \A i \in DOMAIN reviews : i \in DOMAIN reviews' /\ reviews'[i] = reviews[i]
  BY <1>6, ResidentWellFormed
<1> QED BY <1>2, <1>7, <1>9, <1>10, ReviewsAdvance

\* A decision or an expiry leaves what was asked for as it was.
LEMMA ReviewChanges ==
  ASSUME ResidentInv, NEW i \in DOMAIN reviews, NEW next,
         next \in Asked,
         next.target = reviews[i].target, next.baseline = reviews[i].baseline,
         next.revision = reviews[i].revision,
         reviews[i].decision = "approved" =>
           next.decision = "approved" /\ next.reviewer = reviews[i].reviewer,
         reviews' = [reviews EXCEPT ![i] = next],
         UNCHANGED <<drafts, publications, capable, authorization>>
  PROVE  ResidentInv'
<1>1. /\ DOMAIN reviews' = DOMAIN reviews /\ Len(reviews') = Len(reviews)
      /\ reviews' \in Seq(Asked)
      /\ reviews'[i] = next /\ \A j \in DOMAIN reviews \ {i} : reviews'[j] = reviews[j]
  <2>1. reviews \in Seq(Asked)
    BY DEF ResidentInv, ResidentTypeOK, Asked
  <2> QED BY <2>1, Replaced
<1>2. ResidentTypeOK'
  BY <1>1 DEF ResidentInv, ResidentTypeOK, Asked
<1>3. ResourceRevision' = ResourceRevision /\ Published' = Published /\ Draft' = Draft
  BY DEF ResourceRevision, Published, Draft
<1>4. \A j \in DOMAIN reviews : /\ reviews'[j].target = reviews[j].target
                                /\ reviews'[j].baseline = reviews[j].baseline
                                /\ reviews'[j].revision = reviews[j].revision
  BY <1>1
<1>5. RequestsHold'
  BY <1>1, <1>3, <1>4 DEF ResidentInv, RequestsHold
<1>6. \A j \in DOMAIN reviews :
        /\ j \in DOMAIN reviews'
        /\ reviews[j].decision = "approved" => /\ reviews'[j].decision = "approved"
                                               /\ reviews'[j].reviewer = reviews[j].reviewer
  BY <1>1
<1> QED BY <1>2, <1>5, <1>6, ReviewsAdvance

LEMMA DecideInv ==
  ASSUME ResidentInv, NEW e \in Editors, NEW i \in DOMAIN reviews, Decide(e, i)
  PROVE  ResidentInv'
<1>1. PICK outcome \in {"approved", "rejected"} :
        reviews' = [reviews EXCEPT ![i].decision = outcome, ![i].reviewer = e]
  BY DEF Decide
<1>2. PICK next : next = [reviews[i] EXCEPT !.decision = outcome, !.reviewer = e]
  OBVIOUS
<1>3. reviews' = [reviews EXCEPT ![i] = next]
  BY <1>1, <1>2, ResidentWellFormed
<1>4. /\ next \in Asked
      /\ next.target = reviews[i].target /\ next.baseline = reviews[i].baseline
      /\ next.revision = reviews[i].revision
  BY <1>2, ResidentWellFormed DEF Decisions, Asked
<1>5. reviews[i].decision = "none" /\ UNCHANGED <<drafts, publications, capable, authorization>>
  BY DEF Decide, Pending
<1> QED BY <1>3, <1>4, <1>5, ReviewChanges

LEMMA ApprovalExpiresInv ==
  ASSUME ResidentInv, NEW i \in DOMAIN reviews, ApprovalExpires(i)
  PROVE  ResidentInv'
<1>1. PICK next : next = [reviews[i] EXCEPT !.expired = TRUE]
  OBVIOUS
<1>2. reviews' = [reviews EXCEPT ![i] = next] /\ UNCHANGED <<drafts, publications, capable, authorization>>
  BY <1>1, ResidentWellFormed DEF ApprovalExpires
<1>3. /\ next \in Asked
      /\ next.target = reviews[i].target /\ next.baseline = reviews[i].baseline
      /\ next.revision = reviews[i].revision
      /\ next.decision = reviews[i].decision /\ next.reviewer = reviews[i].reviewer
  BY <1>1, ResidentWellFormed DEF Asked
<1> QED BY <1>2, <1>3, ReviewChanges

LEMMA ChangeCapabilityInv ==
  ASSUME ResidentInv, NEW e \in Editors, ChangeCapability(e)
  PROVE  ResidentInv'
<1>1. PICK c \in Changeable :
        capable' = [capable EXCEPT ![e] = IF c \in @ THEN @ \ {c} ELSE @ \cup {c}]
  BY DEF ChangeCapability
<1>2. /\ Draft + authorization < MaxChanges /\ authorization' = authorization + 1
      /\ UNCHANGED <<drafts, reviews, publications>>
  BY DEF ChangeCapability
<1>3. c \in Capabilities
  BY ResidentAssumption
<1>4. capable' \in [Editors -> SUBSET Capabilities]
  BY <1>1, <1>3 DEF ResidentInv, ResidentTypeOK, Asked
<1>5. ResidentTypeOK'
  BY <1>2, <1>4, ResidentWellFormed, ResidentAssumption DEF ResidentInv, ResidentTypeOK, Draft, Asked
<1>6. RequestsHold'
  BY <1>2 DEF ResidentInv, RequestsHold, ResourceRevision, Published, Draft
<1> QED BY <1>2, <1>5, <1>6, ReviewsAdvance

\* Whoever approved what is published introduced none of its contacts, or the
\* same contacts were published before and approved by another then.
LEMMA ApprovedByAnother ==
  ASSUME ResidentInv, NEW i \in DOMAIN reviews, Usable(i), NEW t, t = reviews[i].target,
         NEW d \in 1..t, IntroducedAt(d, t)
  PROVE  /\ reviews[i].reviewer # drafts[t].saver
         /\ \/ reviews[i].reviewer # drafts[d].saver
            \/ \E q \in DOMAIN publications :
                 Introduced(publications[q].target) = d /\ ReviewerOf(q) # drafts[d].saver
<1>1. PICK b : b = Published
  OBVIOUS
<1>2. /\ t \in DOMAIN drafts /\ t \in Nat /\ b \in 0..Draft /\ reviews[i].baseline = b /\ b # t
      /\ reviews[i].reviewer \notin Contributors(t, b)
      /\ reviews[i].purpose # "draft" => PublishedBefore(t)
      /\ reviews[i].purpose = "draft" => t = Draft
  BY <1>1, ResidentWellFormed DEF Usable, Fresh, Eligible, ResidentInv, RequestsHold
<1>3. reviews[i].reviewer # drafts[t].saver
  BY <1>2 DEF Contributors
<1>4. b # 0 => publications # <<>> /\ Len(publications) \in DOMAIN publications
               /\ b = publications[Len(publications)].target
  BY <1>1, ResidentWellFormed DEF Published
<1>5. ASSUME NEW p \in DOMAIN publications, Introduced(publications[p].target) = d
      PROVE  \E q \in DOMAIN publications :
               Introduced(publications[q].target) = d /\ ReviewerOf(q) # drafts[d].saver
  <2>1. PICK q \in 1..p : /\ Introduced(publications[q].target) = Introduced(publications[p].target)
                          /\ ReviewerOf(q) # drafts[Introduced(publications[p].target)].saver
    BY DEF ResidentInv, ContactsApprovedByAnother
  <2>2. q \in DOMAIN publications
    BY ResidentWellFormed
  <2> QED BY <1>5, <2>1, <2>2
<1>6. CASE b < d
  <2>1. d \in {x \in b + 1 .. t : ChangesContacts(x)} /\ t > b
    BY <1>2, <1>6 DEF IntroducedAt
  <2>2. drafts[d].saver \in Contributors(t, b)
    BY <1>2, <2>1 DEF Contributors
  <2> QED BY <1>2, <1>3, <2>2
<1>7. CASE d <= b /\ b < t
  <2>1. IntroducedAt(d, b) /\ d \in 1..b /\ b \in DOMAIN drafts /\ b # 0
    BY <1>2, <1>7, ResidentWellFormed DEF IntroducedAt
  <2>2. Introduced(b) = d
    BY <2>1, IntroducedOnce
  <2> QED BY <1>3, <1>4, <1>5, <2>1, <2>2
<1>8. CASE t < b
  <2>1. PICK p \in DOMAIN publications : publications[p].target = t
    BY <1>2, <1>8, ResidentWellFormed DEF PublishedBefore, Draft
  <2>2. Introduced(t) = d
    BY <1>2, IntroducedOnce
  <2> QED BY <1>3, <1>5, <2>1, <2>2
<1> QED BY <1>2, <1>6, <1>7, <1>8, ResidentWellFormed DEF Draft

LEMMA PublishInv ==
  ASSUME ResidentInv, NEW e \in Editors, NEW i \in DOMAIN reviews, Publish(e, i)
  PROVE  ResidentInv'
<1>1. PICK t, event, n : /\ t = reviews[i].target /\ n = Len(publications) + 1
                         /\ event = [target |-> t, review |-> i, publisher |-> e]
  OBVIOUS
<1>2. /\ publications' = Append(publications, event) /\ Usable(i) /\ reviews[i].reviewer # e
      /\ UNCHANGED <<drafts, reviews, capable, authorization>>
      /\ reviews[i].decision = "approved"
  BY <1>1 DEF Publish, Usable
<1>3. /\ t \in DOMAIN drafts
      /\ event \in [target : 1..MaxChanges, review : 1..MaxReviews, publisher : Editors]
      /\ event.target = t /\ event.review = i /\ event.publisher = e
  <2>1. t \in DOMAIN drafts
    BY <1>1 DEF ResidentInv, RequestsHold
  <2>2. t \in 1..MaxChanges
    BY <1>1, ResidentWellFormed DEF Asked
  <2>3. Len(reviews) <= MaxReviews
    BY DEF ResidentInv, ResidentTypeOK
  <2>4. i \in 1..MaxReviews
    BY <2>3, ResidentWellFormed, ResidentAssumption
  <2> QED BY <1>1, <2>1, <2>2, <2>4
<1>4. /\ publications' \in Seq([target : 1..MaxChanges, review : 1..MaxReviews, publisher : Editors])
      /\ DOMAIN publications' = 1..n /\ Len(publications') = n
      /\ DOMAIN publications = 1..(n - 1) /\ n \in Nat \ {0}
      /\ \A p \in DOMAIN publications : publications'[p] = publications[p]
      /\ publications'[n] = event
  <2>1. publications \in Seq([target : 1..MaxChanges, review : 1..MaxReviews, publisher : Editors])
    BY DEF ResidentInv, ResidentTypeOK
  <2> QED BY <1>1, <1>2, <1>3, <2>1, Appended
<1>5. ResidentTypeOK'
  BY <1>2, <1>4 DEF ResidentInv, ResidentTypeOK
<1>6. \A c \in DOMAIN drafts : \A d \in 1..c : IntroducedAt(d, c)' = IntroducedAt(d, c)
  BY <1>2 DEF IntroducedAt, ChangesContacts, Consequential, ContactsOf
<1>7. \A c : Introduced(c)' = Introduced(c)
  BY <1>2 DEF Introduced, ChangesContacts, Consequential, ContactsOf
<1>8. RequestsHold'
  <2>1. ResourceRevision' = ResourceRevision + 1 /\ ResourceRevision \in Nat
    BY <1>1, <1>2, <1>4, ResidentWellFormed DEF ResourceRevision
  <2>2. \A j \in DOMAIN reviews : /\ reviews[j].target \in DOMAIN drafts /\ reviews[j].baseline \in 0..Draft
                                  /\ reviews[j].revision <= ResourceRevision /\ reviews[j].revision \in Nat
    BY ResidentWellFormed DEF ResidentInv, RequestsHold, Asked
  <2> QED BY <1>2, <2>1, <2>2 DEF RequestsHold, Draft
<1>9. PublicationsHold'
  <2> SUFFICES ASSUME NEW p \in DOMAIN publications'
               PROVE  /\ publications'[p].target \in DOMAIN drafts /\ publications'[p].review \in DOMAIN reviews
                      /\ reviews[publications'[p].review].decision = "approved"
    BY <1>2 DEF PublicationsHold
  <2>1. CASE p = n
    BY <1>2, <1>3, <1>4, <2>1
  <2>2. CASE p \in DOMAIN publications
    BY <1>4, <2>2 DEF ResidentInv, PublicationsHold
  <2> QED BY <1>4, <2>1, <2>2
<1>10. PICK d \in 1..t : IntroducedAt(d, t)
  BY <1>3 DEF ResidentInv
<1>11. Introduced(t) = d
  BY <1>3, <1>10, IntroducedOnce
<1>12. \A p \in DOMAIN publications : ReviewerOf(p)' = ReviewerOf(p)
  BY <1>2, <1>4 DEF ReviewerOf
<1>13. ReviewerOf(n)' = reviews[i].reviewer
  BY <1>2, <1>3, <1>4 DEF ReviewerOf
<1>14. ContactsApprovedByAnother'
  <2> SUFFICES ASSUME NEW p \in DOMAIN publications'
               PROVE  /\ ReviewerOf(p)' \notin {publications'[p].publisher, drafts[publications'[p].target].saver}
                      /\ \E q \in 1..p :
                           /\ Introduced(publications'[q].target) = Introduced(publications'[p].target)
                           /\ ReviewerOf(q)' # drafts[Introduced(publications'[p].target)].saver
    <3>1. \A q \in DOMAIN publications' :
            Introduced(publications[q].target)' = Introduced(publications'[q].target)
      BY <1>2 DEF Introduced, ChangesContacts, Consequential, ContactsOf
    <3>2. \A p \in DOMAIN publications' : \A q \in 1..p : q \in DOMAIN publications'
      BY <1>4
    <3> QED BY <1>2, <3>1, <3>2 DEF ContactsApprovedByAnother
  <2>1. CASE p = n
    <3>1. /\ reviews[i].reviewer # drafts[t].saver
          /\ \/ reviews[i].reviewer # drafts[d].saver
             \/ \E q \in DOMAIN publications :
                  Introduced(publications[q].target) = d /\ ReviewerOf(q) # drafts[d].saver
      BY <1>1, <1>2, <1>10, ApprovedByAnother
    <3>2. publications'[p].target = t /\ publications'[p].publisher = e /\ p \in 1..p
      BY <1>3, <1>4, <2>1
    <3>3. CASE reviews[i].reviewer # drafts[d].saver
      BY <1>2, <1>11, <1>13, <2>1, <3>1, <3>2, <3>3
    <3>4. CASE \E q \in DOMAIN publications :
                 Introduced(publications[q].target) = d /\ ReviewerOf(q) # drafts[d].saver
      <4>1. PICK q \in DOMAIN publications :
              Introduced(publications[q].target) = d /\ ReviewerOf(q) # drafts[d].saver
        BY <3>4
      <4>2. q \in 1..p /\ publications'[q] = publications[q] /\ ReviewerOf(q)' = ReviewerOf(q)
        BY <1>4, <1>12, <2>1
      <4> QED BY <1>2, <1>11, <1>13, <2>1, <3>1, <3>2, <4>1, <4>2
    <3> QED BY <3>1, <3>3, <3>4
  <2>2. CASE p \in DOMAIN publications
    <3>1. \A q \in 1..p : q \in DOMAIN publications
      BY <1>4, <2>2
    <3>2. \A q \in 1..p : publications'[q] = publications[q] /\ ReviewerOf(q)' = ReviewerOf(q)
      BY <1>4, <1>12, <3>1
    <3>3. publications'[p] = publications[p] /\ ReviewerOf(p)' = ReviewerOf(p)
      BY <1>4, <1>12, <2>2
    <3>4. /\ ReviewerOf(p) \notin {publications[p].publisher, drafts[publications[p].target].saver}
          /\ \E q \in 1..p :
               /\ Introduced(publications[q].target) = Introduced(publications[p].target)
               /\ ReviewerOf(q) # drafts[Introduced(publications[p].target)].saver
      BY <2>2 DEF ResidentInv, ContactsApprovedByAnother
    <3>5. PICK q \in 1..p :
            /\ Introduced(publications[q].target) = Introduced(publications[p].target)
            /\ ReviewerOf(q) # drafts[Introduced(publications[p].target)].saver
      BY <3>4
    <3>6. /\ Introduced(publications'[q].target) = Introduced(publications'[p].target)
          /\ ReviewerOf(q)' # drafts[Introduced(publications'[p].target)].saver
      BY <3>2, <3>3, <3>5
    <3> QED BY <3>3, <3>4, <3>6
  <2> QED BY <1>4, <2>1, <2>2
<1> QED BY <1>2, <1>5, <1>6, <1>8, <1>9, <1>14 DEF ResidentInv

LEMMA ResidentStepInv == ResidentInv /\ [ResidentNext]_residentVars => ResidentInv'
<1> SUFFICES ASSUME ResidentInv, [ResidentNext]_residentVars PROVE ResidentInv'
  OBVIOUS
<1>1. CASE UNCHANGED residentVars
  <2>1. ResidentTypeOK' /\ RequestsHold'
    BY <1>1 DEF residentVars, ResidentInv, ResidentTypeOK, RequestsHold, ResourceRevision, Published, Draft
  <2> QED BY <1>1, <2>1, ReviewsAdvance DEF residentVars
<1>2. CASE \E e \in Editors : SaveDraft(e)
  BY <1>2, SaveDraftInv
<1>3. CASE \E e \in Editors : ChangeCapability(e)
  BY <1>3, ChangeCapabilityInv
<1>4. CASE \E e \in Editors, target \in DOMAIN drafts, purpose \in Purposes : RequestReview(e, target, purpose)
  BY <1>4, RequestReviewInv
<1>5. CASE \E e \in Editors, i \in DOMAIN reviews : Decide(e, i)
  BY <1>5, DecideInv
<1>6. CASE \E e \in Editors, i \in DOMAIN reviews : Publish(e, i)
  BY <1>6, PublishInv
<1>7. CASE \E i \in DOMAIN reviews : ApprovalExpires(i)
  BY <1>7, ApprovalExpiresInv
<1> QED BY <1>1, <1>2, <1>3, <1>4, <1>5, <1>6, <1>7 DEF ResidentNext

\* What the published event names is the latest request, still as fresh as
\* when it was made.
LEMMA PublicationSpendsApproval ==
  ASSUME ResidentInv, ResidentNext, publications' # publications
  PROVE  LET i == publications'[Len(publications')].review IN
           /\ i = Len(reviews) /\ reviews[i].baseline = Published
           /\ reviews[i].purpose = "draft" => reviews[i].target = Draft
           /\ reviews[i].revision = ResourceRevision /\ reviews[i].authorization = authorization
           /\ ~Consumed(i)
<1>1. PICK e \in Editors, i \in DOMAIN reviews : Publish(e, i)
  BY DEF ResidentNext, SaveDraft, ChangeCapability, RequestReview, Decide, ApprovalExpires
<1>2. Usable(i) /\ publications' = Append(publications, [target |-> reviews[i].target, review |-> i, publisher |-> e])
  BY <1>1 DEF Publish
<1>3. publications'[Len(publications')].review = i
  <2>1. \A x : Append(publications, x)[Len(publications) + 1] = x /\ Len(Append(publications, x)) = Len(publications) + 1
    BY DEF ResidentInv, ResidentTypeOK
  <2> QED BY <1>2, <2>1
<1> QED BY <1>2, <1>3 DEF Usable, Fresh, Eligible, ResidentInv, RequestsHold

\* Nothing reaches residents on an approval of something else, and no contact
\* details on the approval of whoever introduced them.
THEOREM ApprovalsAreSpentAsGiven == ResidentSpec => ApprovalStillHolds
<1>1. ResidentInit => ResidentInv
  BY ResidentInitInv
<1>2. ResidentInv /\ [ResidentNext]_residentVars => ResidentInv'
  BY ResidentStepInv
<1>3. ResidentInv /\ ResidentInv' /\ [ResidentNext]_residentVars =>
        [publications' # publications =>
           LET i == publications'[Len(publications')].review IN
             /\ i = Len(reviews) /\ reviews[i].baseline = Published
             /\ reviews[i].purpose = "draft" => reviews[i].target = Draft
             /\ reviews[i].revision = ResourceRevision /\ reviews[i].authorization = authorization
             /\ ~Consumed(i)
             /\ ContactsApprovedByAnother']_residentVars
  BY PublicationSpendsApproval DEF ResidentInv
<1> QED BY <1>1, <1>2, <1>3, PTL DEF ResidentSpec, ApprovalStillHolds

--------------------------------------------------------------------------------
(* Operator commands: the inductive invariant.                              *)

StartRecords ==
  [operator : Operators, permissions : Elevations, verb : Verbs, confirm : BOOLEAN,
   succeeded : BOOLEAN]

\* A record of the trail was written under a grant that allows the command.
TrailHolds ==
  /\ trail \in Seq(StartRecords)
  /\ \A i \in DOMAIN trail : /\ Permitted(trail[i].permissions, trail[i].verb)
                             /\ ExecutionPermitted(trail[i].permissions, trail[i].confirm)

\* A job has a record of its own.
JobsRecorded ==
  /\ \A j \in jobs :
       /\ j = [invocation |-> j.invocation, phase |-> j.phase, request |-> j.request,
               revision |-> j.revision]
       /\ j.invocation \in DOMAIN trail /\ j.phase \in {"ready", "looking", "done"}
  /\ \A j, k \in jobs : j.invocation = k.invocation => j = k

LeftItsChange(start) ==
  start.confirm /\ start.verb \notin {"verify", "approve"} =>
    \E c \in changes : c.operator = start.operator /\ c.verb = start.verb

\* Only a confirmed verification looks names up; an approval is of a vouched request of somebody
\* else's, at the revision it names; and what is done, or succeeded, has left its change.
JobsHold ==
  /\ \A j \in jobs :
       /\ j.phase = "looking" => Start(j).verb = "verify" /\ Start(j).confirm
       /\ Start(j).verb = "approve" => /\ j.request \in artifacts /\ j.request.revision = j.revision
                                       /\ j.request.requester # Start(j).operator
       /\ j.phase = "done" => LeftItsChange(Start(j))
  /\ \A i \in DOMAIN trail : trail[i].succeeded => LeftItsChange(trail[i])

\* Each change is of a record of its own, whose job has nothing more to do.
ExplainsChanges(f) ==
  /\ \A c \in changes : /\ trail[f[c]].operator = c.operator /\ trail[f[c]].verb = c.verb
                        /\ trail[f[c]].confirm
  /\ \A c, d \in changes : f[c] = f[d] => c = d
  /\ \A c \in changes, j \in jobs : j.invocation = f[c] => j.phase = "done"

ChangesExplained == \E f \in [changes -> DOMAIN trail] : ExplainsChanges(f)

ArtifactsPlanned == \A r \in artifacts : StartedBy(r.requester, r.verb, "request") # {}

ApprovalsGiven ==
  \A a \in approvals :
    /\ a = [operation |-> a.operation, revision |-> a.revision, challenge |-> a.challenge,
            requester |-> a.requester, approver |-> a.approver, spentBy |-> a.spentBy]
    /\ StartedBy(a.approver, "approve", "approve") # {}
    /\ \E r \in artifacts : /\ r.requester = a.requester /\ r.requester # a.approver
                            /\ Recorded(r.verb) = a.operation /\ r.revision = a.revision

OperatorInv ==
  /\ TrailHolds /\ JobsRecorded /\ JobsHold /\ ChangesExplained
  /\ ArtifactsPlanned /\ ApprovalsGiven

LEMMA OperatorInitially == OperatorInit => OperatorInv
<1> SUFFICES ASSUME OperatorInit PROVE OperatorInv
  OBVIOUS
<1>1. CASE /\ jobs = {} /\ approvals = {} /\ trail = <<>> /\ artifacts = {} /\ changes = {}
  <2>1. ChangesExplained
    <3> DEFINE f == [c \in changes |-> c]
    <3>1. f \in [changes -> DOMAIN trail] /\ ExplainsChanges(f)
      BY <1>1 DEF ExplainsChanges
    <3> QED BY <3>1 DEF ChangesExplained
  <2>2. DOMAIN trail = {}
    BY <1>1
  <2>3. TrailHolds
    BY <1>1, <2>2 DEF TrailHolds
  <2> QED BY <1>1, <2>1, <2>2, <2>3 DEF OperatorInv, JobsRecorded, JobsHold, ArtifactsPlanned, ApprovalsGiven
<1>2. ASSUME NEW one \in Operators, NEW other \in Operators, NEW grants \in Elevations,
             NEW approving \in Elevations, one # other, {"approve", "execute"} \subseteq approving,
             {"request", "execute"} \subseteq grants, jobs = {},
             approvals = {[operation |-> "activated", revision |-> 3, challenge |-> 2,
                           requester |-> one, approver |-> other, spentBy |-> one]},
             trail = <<StartRecord(one, grants, "activate", FALSE),
                       StartRecord(other, approving, "approve", TRUE),
                       StartRecord(one, grants, "activate", TRUE)>>,
             artifacts = {[requester |-> one, verb |-> "activate", revision |-> 3]},
             changes = {[operator |-> one, verb |-> "activate", revision |-> 3]}
      PROVE  OperatorInv
  <2>1. /\ StartRecord(one, grants, "activate", FALSE) \in StartRecords
        /\ StartRecord(other, approving, "approve", TRUE) \in StartRecords
        /\ StartRecord(one, grants, "activate", TRUE) \in StartRecords
    BY <1>2 DEF StartRecord, StartRecords, Verbs
  <2>2. /\ trail \in Seq(StartRecords) /\ DOMAIN trail = 1..3
        /\ trail[1] = StartRecord(one, grants, "activate", FALSE)
        /\ trail[2] = StartRecord(other, approving, "approve", TRUE)
        /\ trail[3] = StartRecord(one, grants, "activate", TRUE)
    <3>1. PICK plan \in StartRecords : plan = StartRecord(one, grants, "activate", FALSE)
      BY <2>1
    <3>2. PICK approve \in StartRecords : approve = StartRecord(other, approving, "approve", TRUE)
      BY <2>1
    <3>3. PICK activate \in StartRecords : activate = StartRecord(one, grants, "activate", TRUE)
      BY <2>1
    <3>4. trail = <<plan, approve, activate>>
      BY <1>2, <3>1, <3>2, <3>3
    <3>5. /\ trail \in Seq(StartRecords) /\ Len(trail) = 3
          /\ trail[1] = plan /\ trail[2] = approve /\ trail[3] = activate
      BY <3>4
    <3>6. DOMAIN trail = 1..3
      BY <3>5
    <3> QED BY <3>1, <3>2, <3>3, <3>5, <3>6
  <2>3. TrailHolds
    <3>1. \A i \in 1..3 : i = 1 \/ i = 2 \/ i = 3
      OBVIOUS
    <3>2. \A i \in DOMAIN trail : /\ Permitted(trail[i].permissions, trail[i].verb)
                                  /\ ExecutionPermitted(trail[i].permissions, trail[i].confirm)
      BY <1>2, <2>2, <3>1 DEF StartRecord, Permitted, ExecutionPermitted
    <3> QED BY <2>2, <3>2 DEF TrailHolds
  <2>4. JobsRecorded /\ JobsHold
    <3>1. \A i \in 1..3 : i = 1 \/ i = 2 \/ i = 3
      OBVIOUS
    <3>2. \A i \in DOMAIN trail : ~trail[i].succeeded
      BY <2>2, <3>1 DEF StartRecord
    <3> QED BY <1>2, <3>2 DEF JobsRecorded, JobsHold
  <2>5. ChangesExplained
    <3> DEFINE f == [c \in changes |-> 3]
    <3>1. f \in [changes -> DOMAIN trail]
      BY <2>2
    <3>2. ExplainsChanges(f)
      BY <1>2, <2>2 DEF ExplainsChanges, StartRecord
    <3> QED BY <3>1, <3>2 DEF ChangesExplained
  <2>6. /\ 1 \in StartedBy(one, "activate", "request")
        /\ 2 \in StartedBy(other, "approve", "approve")
    BY <1>2, <2>2 DEF StartedBy, StartRecord
  <2>7. ArtifactsPlanned
    BY <1>2, <2>6 DEF ArtifactsPlanned
  <2>8. ApprovalsGiven
    <3>1. \A a \in approvals :
            a = [operation |-> "activated", revision |-> 3, challenge |-> 2,
                 requester |-> one, approver |-> other, spentBy |-> one]
      BY <1>2
    <3> QED BY <1>2, <2>6, <3>1 DEF ApprovalsGiven, Recorded
  <2> QED BY <2>3, <2>4, <2>5, <2>7, <2>8 DEF OperatorInv
<1>3. jobs = {}
  BY DEF OperatorInit
<1>4. CASE \E one, other \in Operators, grants, approving \in Elevations :
             /\ one # other /\ {"approve", "execute"} \subseteq approving
             /\ {"request", "execute"} \subseteq grants
             /\ Verified(TRUE)
             /\ approvals = {[operation |-> "activated", revision |-> 3, challenge |-> 2,
                              requester |-> one, approver |-> other, spentBy |-> one]}
             /\ trail = <<StartRecord(one, grants, "activate", FALSE),
                          StartRecord(other, approving, "approve", TRUE),
                          StartRecord(one, grants, "activate", TRUE)>>
             /\ artifacts = {[requester |-> one, verb |-> "activate", revision |-> 3]}
             /\ changes = {[operator |-> one, verb |-> "activate", revision |-> 3]}
  <2>1. PICK one, other \in Operators, grants, approving \in Elevations :
          /\ one # other /\ {"approve", "execute"} \subseteq approving
          /\ {"request", "execute"} \subseteq grants
          /\ Verified(TRUE)
          /\ approvals = {[operation |-> "activated", revision |-> 3, challenge |-> 2,
                           requester |-> one, approver |-> other, spentBy |-> one]}
          /\ trail = <<StartRecord(one, grants, "activate", FALSE),
                       StartRecord(other, approving, "approve", TRUE),
                       StartRecord(one, grants, "activate", TRUE)>>
          /\ artifacts = {[requester |-> one, verb |-> "activate", revision |-> 3]}
          /\ changes = {[operator |-> one, verb |-> "activate", revision |-> 3]}
    BY <1>4, Zenon
  <2> QED BY <1>2, <1>3, <2>1
<1> QED BY <1>1, <1>3, <1>4, Zenon DEF OperatorInit, TenantInit

\* The trail grows, and what its records say of their command stays.
TrailKept ==
  /\ DOMAIN trail \subseteq DOMAIN trail'
  /\ \A i \in DOMAIN trail :
       /\ trail'[i].operator = trail[i].operator /\ trail'[i].verb = trail[i].verb
       /\ trail'[i].permissions = trail[i].permissions /\ trail'[i].confirm = trail[i].confirm

LEMMA StartedByKept ==
  ASSUME TrailKept, NEW operator, NEW verb, NEW permission, StartedBy(operator, verb, permission) # {}
  PROVE  StartedBy(operator, verb, permission)' # {}
BY DEF TrailKept, StartedBy

\* What is approved and planned stays so while the records do.
LEMMA RecordsKept ==
  ASSUME OperatorInv, TrailKept, artifacts \subseteq artifacts',
         \A r \in artifacts' \ artifacts : StartedBy(r.requester, r.verb, "request")' # {},
         \A a \in approvals' : \E b \in approvals :
           /\ a = [operation |-> a.operation, revision |-> a.revision, challenge |-> a.challenge,
                   requester |-> a.requester, approver |-> a.approver, spentBy |-> a.spentBy]
           /\ a.operation = b.operation /\ a.revision = b.revision
           /\ a.requester = b.requester /\ a.approver = b.approver
  PROVE  ArtifactsPlanned' /\ ApprovalsGiven'
<1>1. ASSUME NEW r \in artifacts'
      PROVE  StartedBy(r.requester, r.verb, "request")' # {}
  <2>1. CASE r \in artifacts
    <3>1. StartedBy(r.requester, r.verb, "request") # {}
      BY <2>1 DEF OperatorInv, ArtifactsPlanned
    <3> QED BY <3>1, StartedByKept
  <2> QED BY <2>1
<1>2. ASSUME NEW a \in approvals'
      PROVE  /\ a = [operation |-> a.operation, revision |-> a.revision, challenge |-> a.challenge,
                     requester |-> a.requester, approver |-> a.approver, spentBy |-> a.spentBy]
             /\ StartedBy(a.approver, "approve", "approve")' # {}
             /\ \E r \in artifacts' : /\ r.requester = a.requester /\ r.requester # a.approver
                                      /\ Recorded(r.verb) = a.operation /\ r.revision = a.revision
  <2>1. PICK b \in approvals :
          /\ a = [operation |-> a.operation, revision |-> a.revision, challenge |-> a.challenge,
                  requester |-> a.requester, approver |-> a.approver, spentBy |-> a.spentBy]
          /\ a.operation = b.operation /\ a.revision = b.revision
          /\ a.requester = b.requester /\ a.approver = b.approver
    OBVIOUS
  <2>2. StartedBy(b.approver, "approve", "approve") # {}
    BY DEF OperatorInv, ApprovalsGiven
  <2>3. StartedBy(b.approver, "approve", "approve")' # {}
    BY <2>2, StartedByKept
  <2>4. \E r \in artifacts : /\ r.requester = b.requester /\ r.requester # b.approver
                             /\ Recorded(r.verb) = b.operation /\ r.revision = b.revision
    BY DEF OperatorInv, ApprovalsGiven
  <2>5. StartedBy(a.approver, "approve", "approve")' # {}
    BY <2>1, <2>3
  <2> QED BY <2>1, <2>4, <2>5
<1> QED BY <1>1, <1>2 DEF ArtifactsPlanned, ApprovalsGiven

LEMMA ApprovalsStay ==
  ASSUME OperatorInv, UNCHANGED approvals
  PROVE  \A a \in approvals' : \E b \in approvals :
           /\ a = [operation |-> a.operation, revision |-> a.revision, challenge |-> a.challenge,
                   requester |-> a.requester, approver |-> a.approver, spentBy |-> a.spentBy]
           /\ a.operation = b.operation /\ a.revision = b.revision
           /\ a.requester = b.requester /\ a.approver = b.approver
BY DEF OperatorInv, ApprovalsGiven

\* A job starts: a record of its own, under a grant that allows the command.
LEMMA InvokeKeeps ==
  ASSUME OperatorInv, NEW operator \in Operators, NEW context \in Contexts, NEW verb \in Verbs,
         NEW confirm \in BOOLEAN, NEW request, Invoke(operator, context, verb, confirm, request),
         verb = "approve" => /\ request \in artifacts /\ request.revision = binding.revision
                             /\ request.requester # operator
  PROVE  OperatorInv'
<1>1. PICK start : start = StartRecord(operator, context.permissions, verb, confirm)
  OBVIOUS
<1>2. /\ start \in StartRecords /\ start.operator = operator /\ start.verb = verb
      /\ start.confirm = confirm /\ ~start.succeeded
      /\ Permitted(start.permissions, start.verb) /\ ExecutionPermitted(start.permissions, start.confirm)
  <2>1. context.permissions \in Elevations
    BY DEF Contexts
  <2> QED BY <1>1, <2>1 DEF StartRecord, StartRecords, Invoke
<1>3. PICK job : job = [invocation |-> Len(trail) + 1, phase |-> "ready", request |-> request,
                        revision |-> IF verb = "register" THEN 0 ELSE binding.revision]
  OBVIOUS
<1>4. /\ trail' = Append(trail, start) /\ jobs' = jobs \cup {job}
      /\ UNCHANGED <<artifacts, changes, binding, approvals>>
  BY <1>1, <1>3 DEF Invoke, tenantVars
<1>5. /\ trail \in Seq(StartRecords) /\ Len(trail) \in Nat
      /\ trail' \in Seq(StartRecords) /\ DOMAIN trail' = 1..(Len(trail) + 1)
      /\ DOMAIN trail = 1..Len(trail) /\ trail'[Len(trail) + 1] = start
      /\ \A i \in DOMAIN trail : trail'[i] = trail[i]
  BY <1>2, <1>4 DEF OperatorInv, TrailHolds
<1>6. /\ Len(trail) + 1 \in DOMAIN trail' /\ Len(trail) + 1 \notin DOMAIN trail
      /\ DOMAIN trail \subseteq DOMAIN trail'
      /\ \A i \in DOMAIN trail' : i \in DOMAIN trail \/ i = Len(trail) + 1
  BY <1>5
<1>7. TrailHolds'
  <2>1. ASSUME NEW i \in DOMAIN trail'
        PROVE  /\ Permitted(trail'[i].permissions, trail'[i].verb)
               /\ ExecutionPermitted(trail'[i].permissions, trail'[i].confirm)
    BY <1>2, <1>5, <1>6 DEF OperatorInv, TrailHolds
  <2> QED BY <1>5, <2>1 DEF TrailHolds
<1>8. JobsRecorded'
  BY <1>3, <1>4, <1>5, <1>6 DEF OperatorInv, JobsRecorded
<1>9. JobsHold'
  <2>1. ASSUME NEW j \in jobs
        PROVE  Start(j)' = Start(j) /\ j.invocation \in DOMAIN trail
    BY <1>5 DEF OperatorInv, JobsRecorded, Start
  <2>2. Start(job)' = start
    BY <1>3, <1>5 DEF Start
  <2>3. ASSUME NEW j \in jobs'
        PROVE  /\ j.phase = "looking" => Start(j)'.verb = "verify" /\ Start(j)'.confirm
               /\ Start(j)'.verb = "approve" => /\ j.request \in artifacts /\ j.request.revision = j.revision
                                                /\ j.request.requester # Start(j)'.operator
               /\ j.phase = "done" => LeftItsChange(Start(j)')
    <3>1. CASE j \in jobs
      BY <2>1, <3>1 DEF OperatorInv, JobsHold
    <3>2. CASE j = job
      BY <1>2, <1>3, <2>2, <3>2
    <3> QED BY <1>4, <3>1, <3>2
  <2>4. ASSUME NEW i \in DOMAIN trail', trail'[i].succeeded
        PROVE  LeftItsChange(trail'[i])
    BY <1>2, <1>5, <1>6, <2>4 DEF OperatorInv, JobsHold
  <2> QED BY <1>4, <2>3, <2>4 DEF JobsHold, LeftItsChange, Start
<1>10. ChangesExplained'
  <2>1. PICK f \in [changes -> DOMAIN trail] : ExplainsChanges(f)
    BY DEF OperatorInv, ChangesExplained
  <2>2. f \in [changes -> DOMAIN trail']
    BY <1>6
  <2>3. ExplainsChanges(f)'
    BY <1>3, <1>4, <1>5, <1>6, <2>1 DEF ExplainsChanges
  <2> QED BY <1>4, <2>2, <2>3 DEF ChangesExplained
<1>11. ArtifactsPlanned' /\ ApprovalsGiven'
  <2>1. TrailKept
    BY <1>5, <1>6 DEF TrailKept
  <2> QED BY <1>4, <2>1, RecordsKept, ApprovalsStay
<1> QED BY <1>7, <1>8, <1>9, <1>10, <1>11 DEF OperatorInv

\* A job that is not done moves on, and when it is, it has changed what it was started for.
LEMMA MovedKeeps ==
  ASSUME OperatorInv, NEW j \in jobs, NEW phase \in {"looking", "done"}, Moved(j, phase),
         j.phase # "done", UNCHANGED trail, artifacts \subseteq artifacts',
         \/ UNCHANGED changes
         \/ Changed(j) /\ Start(j).confirm /\ phase = "done",
         phase = "looking" => Start(j).verb = "verify" /\ Start(j).confirm,
         phase = "done" /\ Start(j).confirm /\ Start(j).verb \notin {"verify", "approve"} => Changed(j)
  PROVE  TrailHolds' /\ JobsRecorded' /\ JobsHold' /\ ChangesExplained'
<1>1. PICK next : next = [j EXCEPT !.phase = phase]
  OBVIOUS
<1>2. /\ jobs' = (jobs \ {j}) \cup {next} /\ next.invocation = j.invocation /\ next.phase = phase
      /\ next.request = j.request /\ next.revision = j.revision
      /\ next = [invocation |-> next.invocation, phase |-> next.phase, request |-> next.request,
                 revision |-> next.revision]
      /\ j.invocation \in DOMAIN trail
  BY <1>1 DEF Moved, OperatorInv, JobsRecorded
<1>3. TrailHolds'
  BY DEF OperatorInv, TrailHolds
<1>4. JobsRecorded'
  BY <1>2 DEF OperatorInv, JobsRecorded
<1>5. PICK change : change = [operator |-> Start(j).operator, verb |-> Start(j).verb, revision |-> j.revision]
  OBVIOUS
<1>6. /\ change.operator = Start(j).operator /\ change.verb = Start(j).verb
      /\ changes \subseteq changes' /\ changes' \subseteq changes \cup {change}
      /\ changes' # changes => Start(j).confirm /\ phase = "done"
      /\ phase = "done" /\ Start(j).confirm /\ Start(j).verb \notin {"verify", "approve"} => change \in changes'
  BY <1>5 DEF Changed
<1>7. JobsHold'
  <2>1. Start(next)' = Start(j) /\ \A k \in jobs : Start(k)' = Start(k)
    BY <1>2 DEF Start
  <2>2. \A start : LeftItsChange(start) => LeftItsChange(start)'
    BY <1>6 DEF LeftItsChange
  <2>3. phase = "done" => LeftItsChange(Start(j))'
    BY <1>6 DEF LeftItsChange, Start
  <2>4. ASSUME NEW k \in jobs'
        PROVE  /\ k.phase = "looking" => Start(k)'.verb = "verify" /\ Start(k)'.confirm
               /\ Start(k)'.verb = "approve" => /\ k.request \in artifacts' /\ k.request.revision = k.revision
                                                /\ k.request.requester # Start(k)'.operator
               /\ k.phase = "done" => LeftItsChange(Start(k))'
    <3>1. CASE k \in jobs
      <4>1. k.phase = "done" => LeftItsChange(Start(k))'
        BY <3>1, <2>2 DEF OperatorInv, JobsHold, Start
      <4> QED BY <2>1, <3>1, <4>1 DEF OperatorInv, JobsHold
    <3>2. CASE k = next
      <4>1. k.phase = "done" => LeftItsChange(Start(k))'
        BY <1>2, <2>3, <3>2 DEF Start
      <4> QED BY <1>2, <2>1, <3>2, <4>1 DEF OperatorInv, JobsHold
    <3> QED BY <1>2, <3>1, <3>2
  <2>5. ASSUME NEW i \in DOMAIN trail, trail[i].succeeded
        PROVE  LeftItsChange(trail[i])'
    <3>1. LeftItsChange(trail[i])
      BY <2>5 DEF OperatorInv, JobsHold
    <3> QED BY <3>1, <2>2
  <2> QED BY <2>4, <2>5 DEF JobsHold
<1>8. ChangesExplained'
  <2>1. PICK f \in [changes -> DOMAIN trail] : ExplainsChanges(f)
    BY DEF OperatorInv, ChangesExplained
  <2>2. \A c \in changes : f[c] # j.invocation
    BY <2>1 DEF ExplainsChanges
  <2> DEFINE g == [c \in changes' |-> IF c \in changes THEN f[c] ELSE j.invocation]
  <2>3. g \in [changes' -> DOMAIN trail']
    BY <1>2, <1>6
  <2>4. \A c \in changes : g[c] = f[c]
    BY <1>6
  <2>5. \A c \in changes' \ changes : c = change /\ g[c] = j.invocation
    BY <1>6
  <2>6. /\ trail[j.invocation].operator = change.operator /\ trail[j.invocation].verb = change.verb
        /\ changes' # changes => trail[j.invocation].confirm /\ phase = "done"
    BY <1>6 DEF Start
  <2>7. PICK h : h = g
    OBVIOUS
  <2>8. /\ h \in [changes' -> DOMAIN trail'] /\ \A c \in changes : h[c] = f[c]
        /\ \A c \in changes' \ changes : c = change /\ h[c] = j.invocation
    BY <2>3, <2>4, <2>5, <2>7
  <2> HIDE DEF g
  <2>9. \A c \in changes' : /\ trail'[h[c]].operator = c.operator /\ trail'[h[c]].verb = c.verb
                            /\ trail'[h[c]].confirm
    BY <2>1, <2>6, <2>8 DEF ExplainsChanges
  <2>10. \A c, d \in changes' : h[c] = h[d] => c = d
    BY <2>1, <2>2, <2>8 DEF ExplainsChanges
  <2>11. \A c \in changes', k \in jobs' : k.invocation = h[c] => k.phase = "done"
    <3>1. ASSUME NEW c \in changes', NEW k \in jobs', k.invocation = h[c]
          PROVE  k.phase = "done"
      <4>1. CASE c \in changes
        BY <1>2, <2>1, <2>2, <2>8, <3>1, <4>1 DEF ExplainsChanges
      <4>2. CASE c \notin changes
        <5>1. k.invocation = j.invocation
          BY <2>8, <3>1, <4>2
        <5>2. k = next
          BY <1>2, <5>1 DEF OperatorInv, JobsRecorded
        <5> QED BY <1>2, <2>6, <4>2, <5>2
      <4> QED BY <4>1, <4>2
    <3> QED BY <3>1
  <2>12. ExplainsChanges(h)'
    BY <2>9, <2>10, <2>11 DEF ExplainsChanges
  <2> QED BY <2>8, <2>12 DEF ChangesExplained
<1> QED BY <1>3, <1>4, <1>7, <1>8

\* A job ends: its outcome says so when it is done.
LEMMA LeavesKeeps ==
  ASSUME OperatorInv, NEW j \in jobs, Leaves(j),
         \/ UNCHANGED trail
         \/ j.phase = "done" /\ trail' = [trail EXCEPT ![j.invocation].succeeded = TRUE]
  PROVE  OperatorInv'
<1>1. /\ jobs' \subseteq jobs /\ UNCHANGED <<artifacts, changes, approvals>>
  BY DEF Leaves
<1>2. /\ trail \in Seq(StartRecords) /\ j.invocation \in DOMAIN trail
  BY DEF OperatorInv, TrailHolds, JobsRecorded
<1>3. /\ trail' \in Seq(StartRecords) /\ DOMAIN trail' = DOMAIN trail
      /\ \A i \in DOMAIN trail :
           /\ trail'[i].operator = trail[i].operator /\ trail'[i].verb = trail[i].verb
           /\ trail'[i].permissions = trail[i].permissions /\ trail'[i].confirm = trail[i].confirm
           /\ trail'[i].succeeded => trail[i].succeeded \/ (i = j.invocation /\ j.phase = "done")
  <2>1. CASE UNCHANGED trail
    BY <1>2, <2>1
  <2>2. CASE j.phase = "done" /\ trail' = [trail EXCEPT ![j.invocation].succeeded = TRUE]
    <3>1. PICK done : done = [trail[j.invocation] EXCEPT !.succeeded = TRUE]
      OBVIOUS
    <3>2. trail[j.invocation] \in StartRecords
      BY <1>2
    <3>3. /\ done \in StartRecords
          /\ done.operator = trail[j.invocation].operator /\ done.verb = trail[j.invocation].verb
          /\ done.permissions = trail[j.invocation].permissions
          /\ done.confirm = trail[j.invocation].confirm
      BY <3>1, <3>2 DEF StartRecords
    <3>4. trail' = [trail EXCEPT ![j.invocation] = done]
      BY <2>2, <3>1
    <3>5. trail' \in Seq(StartRecords) /\ DOMAIN trail' = DOMAIN trail
      BY <1>2, <3>3, <3>4
    <3>6. \A i \in DOMAIN trail : trail'[i] = IF i = j.invocation THEN done ELSE trail[i]
      BY <1>2, <3>4
    <3> QED BY <2>2, <3>3, <3>5, <3>6
  <2> QED BY <2>1, <2>2
<1>4. TrailKept
  BY <1>3 DEF TrailKept
<1>5. TrailHolds'
  BY <1>3 DEF OperatorInv, TrailHolds
<1>6. JobsRecorded'
  BY <1>1, <1>3 DEF OperatorInv, JobsRecorded
<1>7. JobsHold'
  <2>1. \A i \in DOMAIN trail : LeftItsChange(trail[i]) => LeftItsChange(trail[i])'
    BY <1>1, <1>3 DEF LeftItsChange
  <2>2. ASSUME NEW k \in jobs'
        PROVE  /\ k.phase = "looking" => Start(k)'.verb = "verify" /\ Start(k)'.confirm
               /\ Start(k)'.verb = "approve" => /\ k.request \in artifacts' /\ k.request.revision = k.revision
                                                /\ k.request.requester # Start(k)'.operator
               /\ k.phase = "done" => LeftItsChange(Start(k))'
    <3>1. k \in jobs /\ k.invocation \in DOMAIN trail
      BY <1>1 DEF OperatorInv, JobsRecorded
    <3>2. k.phase = "done" => LeftItsChange(trail[k.invocation])
      BY <3>1 DEF OperatorInv, JobsHold, Start
    <3>3. k.phase = "done" => LeftItsChange(Start(k))'
      BY <2>1, <3>1, <3>2 DEF Start
    <3> QED BY <1>1, <1>3, <3>1, <3>3 DEF OperatorInv, JobsHold, Start
  <2>3. ASSUME NEW i \in DOMAIN trail', trail'[i].succeeded
        PROVE  LeftItsChange(trail[i])'
    <3>1. LeftItsChange(trail[i])
      BY <1>3, <2>3 DEF OperatorInv, JobsHold, Start
    <3> QED BY <1>3, <2>1, <3>1
  <2> QED BY <2>2, <2>3 DEF JobsHold
<1>8. ChangesExplained'
  <2>1. PICK f \in [changes -> DOMAIN trail] : ExplainsChanges(f)
    BY DEF OperatorInv, ChangesExplained
  <2>2. f \in [changes' -> DOMAIN trail'] /\ ExplainsChanges(f)'
    BY <1>1, <1>3, <2>1 DEF ExplainsChanges
  <2> QED BY <2>2 DEF ChangesExplained
<1>9. ArtifactsPlanned' /\ ApprovalsGiven'
  BY <1>1, <1>4, RecordsKept, ApprovalsStay
<1> QED BY <1>5, <1>6, <1>7, <1>8, <1>9 DEF OperatorInv

\* What the commands do to the approvals.
LEMMA SpendKeepsApprovals ==
  ASSUME OperatorInv, NEW operation, NEW operator, Spend(operation, operator)
  PROVE  \A a \in approvals' : \E b \in approvals :
           /\ a = [operation |-> a.operation, revision |-> a.revision, challenge |-> a.challenge,
                   requester |-> a.requester, approver |-> a.approver, spentBy |-> a.spentBy]
           /\ a.operation = b.operation /\ a.revision = b.revision
           /\ a.requester = b.requester /\ a.approver = b.approver
<1>1. PICK given \in approvals :
        approvals' = (approvals \ {given}) \cup {[given EXCEPT !.spentBy = operator]}
  BY DEF Spend
<1>2. PICK spent : spent = [given EXCEPT !.spentBy = operator]
  OBVIOUS
<1>3. given = [operation |-> given.operation, revision |-> given.revision, challenge |-> given.challenge,
               requester |-> given.requester, approver |-> given.approver, spentBy |-> given.spentBy]
  BY DEF OperatorInv, ApprovalsGiven
<1>4. spent = [operation |-> given.operation, revision |-> given.revision, challenge |-> given.challenge,
               requester |-> given.requester, approver |-> given.approver, spentBy |-> operator]
  BY <1>2, <1>3
<1>5. /\ spent = [operation |-> spent.operation, revision |-> spent.revision, challenge |-> spent.challenge,
                  requester |-> spent.requester, approver |-> spent.approver, spentBy |-> spent.spentBy]
      /\ spent.operation = given.operation /\ spent.revision = given.revision
      /\ spent.requester = given.requester /\ spent.approver = given.approver
  BY <1>4
<1>6. \A a \in approvals' : a \in approvals \/ a = spent
  BY <1>1, <1>2
<1> QED BY <1>5, <1>6 DEF OperatorInv, ApprovalsGiven

LEMMA TrailStays == UNCHANGED trail => TrailKept
BY DEF TrailKept

LEMMA PlanKeeps ==
  ASSUME OperatorInv, NEW j \in jobs, Plan(j)
  PROVE  OperatorInv'
<1>1. PICK plan : plan = [requester |-> Start(j).operator, verb |-> Start(j).verb, revision |-> j.revision]
  OBVIOUS
<1>2. /\ j.phase = "ready" /\ ~Start(j).confirm /\ Start(j).verb \in Approvable
      /\ artifacts' = artifacts \cup {plan} /\ Moved(j, "done")
      /\ UNCHANGED <<trail, changes, approvals>>
  BY <1>1 DEF Plan, Ready, tenantVars
<1>3. /\ plan.requester = Start(j).operator /\ plan.verb = Start(j).verb
  BY <1>1
<1>4. j.invocation \in StartedBy(plan.requester, plan.verb, "request")
  <2>1. j.invocation \in DOMAIN trail /\ Permitted(trail[j.invocation].permissions, trail[j.invocation].verb)
    BY DEF OperatorInv, JobsRecorded, TrailHolds
  <2>2. Start(j).verb # "approve"
    BY <1>2 DEF Approvable
  <2> QED BY <1>3, <2>1, <2>2 DEF StartedBy, Start, Permitted
<1>5. StartedBy(plan.requester, plan.verb, "request")' # {}
  BY <1>2, <1>4, TrailStays, StartedByKept
<1>6. ArtifactsPlanned' /\ ApprovalsGiven'
  BY <1>2, <1>5, TrailStays, RecordsKept, ApprovalsStay
<1>7. TrailHolds' /\ JobsRecorded' /\ JobsHold' /\ ChangesExplained'
  BY <1>2, MovedKeeps
<1> QED BY <1>6, <1>7 DEF OperatorInv

LEMMA RecordApprovalKeeps ==
  ASSUME OperatorInv, NEW j \in jobs, RecordApproval(j)
  PROVE  OperatorInv'
<1>1. PICK given : given = [operation |-> Recorded(j.request.verb), revision |-> binding.revision,
                            challenge |-> binding.challenge, requester |-> j.request.requester,
                            approver |-> Start(j).operator, spentBy |-> NoOperator]
  OBVIOUS
<1>2. /\ j.phase = "ready" /\ Start(j).verb = "approve" /\ binding.revision = j.revision
      /\ j.request.requester # Start(j).operator
      /\ approvals' = approvals \cup {given} /\ Moved(j, "done")
      /\ UNCHANGED <<trail, artifacts, changes>>
  BY <1>1 DEF RecordApproval, Ready, Approve
<1>3. /\ j.request \in artifacts /\ j.request.revision = j.revision
  BY <1>2 DEF OperatorInv, JobsHold
<1>4. j.invocation \in StartedBy(Start(j).operator, "approve", "approve")
  <2>1. j.invocation \in DOMAIN trail /\ Permitted(trail[j.invocation].permissions, trail[j.invocation].verb)
    BY DEF OperatorInv, JobsRecorded, TrailHolds
  <2> QED BY <1>2, <2>1 DEF StartedBy, Start, Permitted
<1>5. /\ given = [operation |-> given.operation, revision |-> given.revision, challenge |-> given.challenge,
                  requester |-> given.requester, approver |-> given.approver, spentBy |-> given.spentBy]
      /\ given.approver = Start(j).operator /\ given.requester = j.request.requester
      /\ given.operation = Recorded(j.request.verb) /\ given.revision = j.revision
  BY <1>1, <1>2
<1>6. ArtifactsPlanned'
  BY <1>2 DEF OperatorInv, ArtifactsPlanned, StartedBy
<1>7. ApprovalsGiven'
  <2>1. ASSUME NEW a \in approvals'
        PROVE  /\ a = [operation |-> a.operation, revision |-> a.revision, challenge |-> a.challenge,
                       requester |-> a.requester, approver |-> a.approver, spentBy |-> a.spentBy]
               /\ StartedBy(a.approver, "approve", "approve") # {}
               /\ \E r \in artifacts : /\ r.requester = a.requester /\ r.requester # a.approver
                                       /\ Recorded(r.verb) = a.operation /\ r.revision = a.revision
    <3>1. CASE a \in approvals
      BY <3>1 DEF OperatorInv, ApprovalsGiven
    <3>2. CASE a = given
      BY <1>2, <1>3, <1>4, <1>5, <3>2
    <3> QED BY <1>2, <3>1, <3>2
  <2> QED BY <1>2, <2>1 DEF ApprovalsGiven, StartedBy
<1>8. TrailHolds' /\ JobsRecorded' /\ JobsHold' /\ ChangesExplained'
  BY <1>2, MovedKeeps
<1> QED BY <1>6, <1>7, <1>8 DEF OperatorInv

LEMMA ChangeKeeps ==
  ASSUME OperatorInv, NEW j \in jobs, Change(j)
  PROVE  OperatorInv'
<1>1. /\ j.phase = "ready" /\ Start(j).confirm /\ Changed(j) /\ Moved(j, "done")
      /\ UNCHANGED <<trail, artifacts>>
      /\ Register \/ IssueChallenge \/ Deactivate \/ Activate(Start(j).operator) \/ Revoke(Start(j).operator)
  BY DEF Change
<1>2. \/ UNCHANGED approvals
      \/ \E operation \in {"activated", "verification_revoked"} : Spend(operation, Start(j).operator)
  BY <1>1 DEF Register, IssueChallenge, Deactivate, Activate, Revoke
<1>3. ArtifactsPlanned' /\ ApprovalsGiven'
  BY <1>1, <1>2, TrailStays, RecordsKept, ApprovalsStay, SpendKeepsApprovals
<1>4. TrailHolds' /\ JobsRecorded' /\ JobsHold' /\ ChangesExplained'
  BY <1>1, MovedKeeps
<1> QED BY <1>3, <1>4 DEF OperatorInv

LEMMA LookingUpKeeps ==
  ASSUME OperatorInv, NEW j \in jobs, LookUp(j) \/ Verify(j)
  PROVE  OperatorInv'
<1>1. /\ UNCHANGED <<trail, artifacts, approvals>>
      /\ \/ /\ j.phase = "ready" /\ Start(j).verb = "verify" /\ Start(j).confirm
            /\ Moved(j, "looking") /\ UNCHANGED changes
         \/ j.phase = "looking" /\ Moved(j, "done") /\ (UNCHANGED changes \/ Changed(j))
  BY DEF LookUp, Verify, Ready, StartVerification, ConcludeVerification
<1>2. j.phase = "looking" => Start(j).verb = "verify" /\ Start(j).confirm
  BY DEF OperatorInv, JobsHold
<1>3. ArtifactsPlanned' /\ ApprovalsGiven'
  BY <1>1, TrailStays, RecordsKept, ApprovalsStay
<1>4. TrailHolds' /\ JobsRecorded' /\ JobsHold' /\ ChangesExplained'
  BY <1>1, <1>2, MovedKeeps
<1> QED BY <1>3, <1>4 DEF OperatorInv

\* Names are answered for, and zones change, beside the commands.
LEMMA OperatorsStay ==
  ASSUME OperatorInv, UNCHANGED <<jobs, trail, artifacts, changes, approvals>>
  PROVE  OperatorInv'
<1>1. ArtifactsPlanned' /\ ApprovalsGiven'
  BY TrailStays, RecordsKept, ApprovalsStay
<1>2. TrailHolds' /\ JobsRecorded' /\ ChangesExplained'
  BY DEF OperatorInv, TrailHolds, JobsRecorded, ChangesExplained, ExplainsChanges
<1>3. JobsHold'
  BY DEF OperatorInv, JobsHold, LeftItsChange, Start
<1> QED BY <1>1, <1>2, <1>3 DEF OperatorInv

LEMMA OperatorStep ==
  ASSUME OperatorInv, [OperatorNext]_<<operatorVars, tenantVars>>
  PROVE  OperatorInv'
<1>1. CASE UNCHANGED <<operatorVars, tenantVars>>
  BY <1>1, OperatorsStay DEF operatorVars, tenantVars
<1>2. ASSUME NEW o \in Operators, NEW context \in Contexts, Request(o, context) PROVE OperatorInv'
  <2>1. PICK verb \in Verbs \ {"approve"}, confirm \in BOOLEAN : Invoke(o, context, verb, confirm, NoRequest)
    BY <1>2 DEF Request
  <2> QED BY <2>1, InvokeKeeps
<1>3. ASSUME NEW o \in Operators, NEW context \in Contexts, RequestApproval(o, context) PROVE OperatorInv'
  <2>1. PICK file \in artifacts : /\ file.revision = binding.revision /\ file.requester # o
                                  /\ Invoke(o, context, "approve", TRUE, file)
    BY <1>3 DEF RequestApproval, Loads, Approves
  <2>2. "approve" \in Verbs
    BY DEF Verbs
  <2> QED BY <2>1, <2>2, InvokeKeeps
<1>4. ASSUME NEW j \in jobs, Plan(j) \/ RecordApproval(j) \/ Change(j) \/ LookUp(j) \/ Verify(j)
      PROVE  OperatorInv'
  BY <1>4, PlanKeeps, RecordApprovalKeeps, ChangeKeeps, LookingUpKeeps
<1>5. ASSUME NEW j \in jobs, Conclude(j) \/ Vanish(j) PROVE OperatorInv'
  BY <1>5, LeavesKeeps DEF Conclude, Vanish
<1>6. ASSUME \/ \E l \in lookups, n \in NameServers : ServerAnswers(l, n)
             \/ \E n \in NameServers : ZoneChanges(n),
             UNCHANGED operatorVars
      PROVE  OperatorInv'
  BY <1>6, OperatorsStay DEF ServerAnswers, ZoneChanges, operatorVars
<1> QED BY <1>1, <1>2, <1>3, <1>4, <1>5, <1>6 DEF OperatorNext

\* The records account for the registry.
LEMMA RecordsAccount ==
  ASSUME OperatorInv
  PROVE  EveryChangeAccounted
<1>1. ASSUME NEW c \in changes
      PROVE  Cardinality({d \in changes : d.operator = c.operator /\ d.verb = c.verb}) <=
             Cardinality({i \in StartedBy(c.operator, c.verb, "execute") : trail[i].confirm})
  <2>1. PICK f \in [changes -> DOMAIN trail] : ExplainsChanges(f)
    BY DEF OperatorInv, ChangesExplained
  <2>2. PICK alike : alike = {d \in changes : d.operator = c.operator /\ d.verb = c.verb}
    OBVIOUS
  <2>3. PICK starts : starts = {i \in StartedBy(c.operator, c.verb, "execute") : trail[i].confirm}
    OBVIOUS
  <2>4. IsFiniteSet(starts)
    <3>1. /\ trail \in Seq(StartRecords) /\ starts \in SUBSET DOMAIN trail
      BY <2>3 DEF StartedBy, OperatorInv, TrailHolds
    <3>2. DOMAIN trail = 1..Len(trail) /\ Len(trail) \in Int /\ 1 \in Int
      BY <3>1
    <3>3. IsFiniteSet(1..Len(trail))
      BY <3>2, FS_Interval
    <3> QED BY <3>1, <3>2, <3>3, FS_Subset
  <2>5. ASSUME NEW d \in alike
        PROVE  f[d] \in starts
    <3>1. /\ f[d] \in DOMAIN trail /\ trail[f[d]].operator = c.operator /\ trail[f[d]].verb = c.verb
          /\ trail[f[d]].confirm
      BY <2>1, <2>2, <2>5 DEF ExplainsChanges
    <3>2. "execute" \in trail[f[d]].permissions
      BY <3>1 DEF OperatorInv, TrailHolds, ExecutionPermitted
    <3> QED BY <2>3, <3>1, <3>2 DEF StartedBy
  <2> DEFINE g == [d \in alike |-> f[d]]
  <2>6. g \in [alike -> starts]
    BY <2>5
  <2>7. \A d, e \in alike : g[d] = g[e] => d = e
    BY <2>1, <2>2 DEF ExplainsChanges
  <2>8. g \in Injection(alike, starts)
    BY <2>6, <2>7 DEF Injection, IsInjective
  <2>9. Cardinality(alike) <= Cardinality(starts)
    BY <2>4, <2>8, FS_Injection
  <2> QED BY <2>2, <2>3, <2>9
<1>2. ASSUME NEW a \in approvals
      PROVE  /\ StartedBy(a.approver, "approve", "approve") # {}
             /\ \E r \in artifacts : /\ r.requester = a.requester /\ r.requester # a.approver
                                     /\ Recorded(r.verb) = a.operation /\ r.revision = a.revision
                                     /\ StartedBy(r.requester, r.verb, "request") # {}
  BY DEF OperatorInv, ApprovalsGiven, ArtifactsPlanned
<1>3. ASSUME NEW i \in DOMAIN trail, trail[i].succeeded, trail[i].confirm,
             trail[i].verb \notin {"verify", "approve"}
      PROVE  \E c \in changes : c.operator = trail[i].operator /\ c.verb = trail[i].verb
  BY <1>3 DEF OperatorInv, JobsHold, LeftItsChange
<1> QED BY <1>1, <1>2, <1>3 DEF EveryChangeAccounted

\* Whatever becomes of the operators' jobs, each change of the registry has a record of its own, of
\* a confirmed start under a grant to execute; an approval names who approved and who planned it; and
\* a recorded success has left its change (tenant-domain-operator-cli.ts:461).
THEOREM OperatorsAccountForChanges == OperatorSpec => []EveryChangeAccounted
<1>1. OperatorInit => OperatorInv
  BY OperatorInitially
<1>2. OperatorInv /\ [OperatorNext]_<<operatorVars, tenantVars>> => OperatorInv'
  BY OperatorStep
<1>3. OperatorInv => EveryChangeAccounted
  BY RecordsAccount
<1> QED BY <1>1, <1>2, <1>3, PTL DEF OperatorSpec

\* The same where the domain is only one of the things that are administered: a domain changed
\* through the operators' commands has its changes accounted for (tenant-domain-operator-cli.ts:461).
THEOREM CommandsAreAccounted == Spec => []CommandsAccounted
<1> DEFINE Inv == focus = "operators" => OperatorInv
<1>1. Init => Inv
  BY OperatorInitially DEF Init
<1>2. Inv /\ [Next]_AdministrationVars => Inv'
  <2> SUFFICES ASSUME Inv, [Next]_AdministrationVars, focus' = "operators" PROVE OperatorInv'
    OBVIOUS
  <2>1. focus = "operators" /\ [OperatorNext]_<<operatorVars, tenantVars>>
    BY DEF Next, AdministrationVars
  <2> QED BY <2>1, OperatorStep
<1>3. Inv => CommandsAccounted
  BY RecordsAccount DEF CommandsAccounted
<1> QED BY <1>1, <1>2, <1>3, PTL DEF Spec
================================================================================
