---------------------------- MODULE ResidentEditor ----------------------------
(***************************************************************************)
(* The screen on which the resident experience is edited, while others do  *)
(* the same elsewhere. What it shows is read in steps: the draft with its  *)
(* revision, what a review would be asked for, and the latest review.      *)
(* Saves and previews belong to the screen and are given up with it;       *)
(* asking for a review, deciding and publishing are heard whatever has     *)
(* become of it. Each names a revision it was shown, and may still arrive  *)
(* when the screen has stopped waiting. What is saved, asked and decided,  *)
(* and by whom it may be, is ResidentExperience's matter: here a draft is  *)
(* its number, there is one latest request, and anything may be refused.   *)
(***************************************************************************)
EXTENDS Naturals

CONSTANTS NotRead, NoReads, Denied,
          MaxServerRevision, MaxUses              \* bounds changes, and uses of the screen

ASSUME EditorAssumption == MaxServerRevision \in Nat /\ MaxUses \in Nat

VARIABLES
  resource,     \* the draft, the resource's revision and the latest request
  editing,      \* what is shown, Denied or NotRead
  waiting,      \* the reads that are waited for, or NoReads
  commands,     \* commands on their way to the server, or their answers on the way back
  question,     \* the dialog that is open
  uses

editorOnly == <<editing, waiting, commands, question, uses>>
editorVars == <<resource, editorOnly>>

NoReviewRequest == [id |-> 0, revision |-> 0, state |-> "none"]
NoContext == [latest |-> 0, revision |-> 0, can |-> FALSE]
ReviewStates == {"none", "pending", "approved", "rejected", "spent", "past"}
ReviewRequests ==
  [id : 0..MaxServerRevision + 1, revision : 0..MaxServerRevision, state : ReviewStates]

\* What is shown, and what is being read for it; what is not one of them says that there is none.
EditorViews ==
  [draft : Nat, revision : Nat, dirty : BOOLEAN,
   context : [latest : Nat, revision : Nat, can : BOOLEAN],
   review : [id : Nat, revision : Nat, state : ReviewStates],
   busy : BOOLEAN, publishing : BOOLEAN, reviewing : BOOLEAN, blocked : BOOLEAN]
EditorReads ==
  [kind : {"load", "save", "preview"}, step : {"put", "summary", "context", "review"},
   read : EditorViews \cup {NotRead}]

ASSUME NotAViewAssumption ==
  NotRead \notin EditorViews /\ Denied \notin EditorViews /\ NoReads \notin EditorReads

EditorTypeOK ==
  /\ resource.draft \in 0..MaxServerRevision /\ resource.revision \in 0..MaxServerRevision
  /\ resource.latest \in ReviewRequests
  /\ editing \notin {NotRead, Denied} =>
       /\ editing.draft \in 0..MaxServerRevision /\ editing.review \in ReviewRequests
       /\ {editing.dirty, editing.busy, editing.publishing, editing.reviewing, editing.blocked} \subseteq BOOLEAN
  /\ waiting # NoReads =>
       waiting.kind \in {"load", "save", "preview"}
       /\ waiting.step \in {"put", "summary", "context", "review"}
  /\ \A c \in commands : c.status \in {"sent", "done", "refused"}
  /\ question \in {"none", "publish", "approved", "rejected"} /\ uses \in 0..MaxUses

UsesEditor == uses < MaxUses /\ uses' = uses + 1
IsOpen == editing \notin {NotRead, Denied}

(* Saves are given up with the screen that made them; other commands are heard in any case. *)
GivenUp == {IF c.kind = "save" THEN [c EXCEPT !.waited = FALSE] ELSE c : c \in commands}

FirstRead == [kind |-> "load", step |-> "summary", read |-> NotRead]
StartsOver == editing' = NotRead /\ waiting' = FirstRead

EditorInit ==
  /\ \/ resource = [draft |-> 0, revision |-> 0, latest |-> NoReviewRequest]
     \/ \E state \in {"none", "pending", "approved"} :
          resource = [draft |-> 1, revision |-> 1,
                    latest |-> IF state = "none" THEN NoReviewRequest ELSE [id |-> 1, revision |-> 1, state |-> state]]
  /\ editing = NotRead /\ waiting = FirstRead
  /\ commands = {} /\ question = "none" /\ uses = 0

-----------------------------------------------------------------------------
(* Reading.                                                                *)

Summary ==
  [draft |-> resource.draft, revision |-> resource.revision, dirty |-> FALSE,
   context |-> NoContext, review |-> NoReviewRequest,
   busy |-> FALSE, publishing |-> FALSE, reviewing |-> FALSE, blocked |-> FALSE]

(* A request is good for as long as nothing was saved or published since. *)
Latest ==
  IF resource.latest.state \in {"pending", "approved"} /\ resource.latest.revision # resource.revision
  THEN [resource.latest EXCEPT !.state = "past"] ELSE resource.latest

ReviewContext ==
  [latest |-> resource.latest.id, revision |-> resource.revision,
   can |-> resource.draft # 0 /\ Latest.state \notin {"pending", "approved"}]

Displays(read) == editing' = read /\ waiting' = NoReads
ReadsOn(step, read) ==
  waiting' = [waiting EXCEPT !.step = step, !.read = read] /\ UNCHANGED editing

(* A first load shows the draft even when the review cannot be read; after a save anything that
   cannot be read again denies the screen. *)
ReadFails ==
  CASE waiting.kind = "preview" -> \/ Displays([editing EXCEPT !.busy = FALSE, !.blocked = FALSE])
                                     \/ Displays(Denied)
    [] waiting.kind = "load" /\ waiting.step # "summary" ->
         Displays([waiting.read EXCEPT !.context = NoContext, !.review = NoReviewRequest])
    [] OTHER -> Displays(Denied)

ReadStep ==
  /\ waiting # NoReads /\ waiting.step # "put"
  /\ LET read == waiting.read IN
     CASE waiting.kind = "preview" -> Displays([editing EXCEPT !.busy = FALSE])
       [] waiting.kind # "preview" /\ waiting.step = "summary" -> ReadsOn("context", Summary)
       [] waiting.step = "context" ->
            LET found == [read EXCEPT !.context = ReviewContext] IN
            IF resource.latest = NoReviewRequest THEN Displays(found) ELSE ReadsOn("review", found)
       [] OTHER -> Displays([read EXCEPT !.review = Latest])
  /\ UNCHANGED <<resource, commands, question, uses>>

ReadStepFails ==
  /\ waiting # NoReads /\ waiting.step # "put" /\ ReadFails
  /\ UNCHANGED <<resource, commands, question, uses>>

-----------------------------------------------------------------------------
(* Using the screen.                                                       *)

(* Another account signs in, at any time, or Reload is pressed. The questions stay open. *)
SignInOrReload ==
  /\ UsesEditor /\ StartsOver /\ commands' = GivenUp
  /\ UNCHANGED <<resource, question>>

EditDraft ==
  /\ IsOpen /\ UsesEditor /\ ~editing.busy /\ ~editing.dirty
  /\ editing' = [editing EXCEPT !.dirty = TRUE]
  /\ UNCHANGED <<resource, waiting, commands, question>>

\* Mutant: the revision is the one read with the review, which may be of a later draft.
RevisionOfReview == editing.context.revision

RevisionEdited == editing.revision

(* A save also says which draft it was made from, and whether it differs from it. *)
Call(kind, revision, about) ==
  [kind |-> kind, revision |-> revision, about |-> about, status |-> "sent", waited |-> TRUE,
   shown |-> IF kind = "save" THEN editing.draft ELSE 0,
   changed |-> kind = "save" /\ (editing.dirty \/ editing.draft = 0)]

SaveEdited ==
  /\ IsOpen /\ UsesEditor /\ ~editing.busy /\ ~editing.blocked
  /\ editing' = [editing EXCEPT !.busy = TRUE]
  /\ waiting' = [kind |-> "save", step |-> "put", read |-> NotRead]
  /\ commands' = commands \cup {Call("save", RevisionEdited, 0)}
  /\ UNCHANGED <<resource, question>>

PreviewSaved ==
  /\ IsOpen /\ UsesEditor /\ ~editing.busy /\ editing.draft # 0
  /\ editing' = [editing EXCEPT !.busy = TRUE]
  /\ waiting' = [kind |-> "preview", step |-> "summary", read |-> NotRead]
  /\ UNCHANGED <<resource, commands, question>>

AskForReview ==
  /\ IsOpen /\ UsesEditor /\ editing.context.can /\ ~editing.dirty /\ ~editing.busy /\ ~editing.reviewing
  /\ editing' = [editing EXCEPT !.reviewing = TRUE]
  /\ commands' = commands \cup {Call("request", editing.context.revision, editing.context.latest)}
  /\ UNCHANGED <<resource, waiting, question>>

AskToConfirm ==
  /\ IsOpen /\ UsesEditor /\ question = "none" /\ ~editing.busy
  /\ \/ editing.review.state = "approved" /\ ~editing.dirty /\ ~editing.publishing /\ question' = "publish"
     \/ editing.review.state = "pending" /\ ~editing.reviewing /\ question' \in {"approved", "rejected"}
  /\ UNCHANGED <<resource, editing, waiting, commands>>

Cancel ==
  /\ IsOpen /\ question # "none" /\ editing.review # NoReviewRequest
  /\ IF question = "publish" THEN ~editing.publishing ELSE ~editing.reviewing
  /\ question' = "none"
  /\ UNCHANGED <<resource, editing, waiting, commands, uses>>

ConfirmPublication ==
  /\ IsOpen /\ question = "publish" /\ editing.review # NoReviewRequest /\ ~editing.publishing
  /\ editing' = [editing EXCEPT !.publishing = TRUE]
  /\ commands' = commands \cup {Call("publish", editing.review.revision, editing.review.id)}
  /\ UNCHANGED <<resource, waiting, question, uses>>

ConfirmDecision ==
  /\ IsOpen /\ question \in {"approved", "rejected"} /\ editing.review # NoReviewRequest /\ ~editing.reviewing
  /\ editing' = [editing EXCEPT !.reviewing = TRUE]
  /\ commands' = commands \cup {Call(question, editing.review.revision, editing.review.id)}
  /\ UNCHANGED <<resource, waiting, question, uses>>

-----------------------------------------------------------------------------
(* The server takes a command when what it names still holds, and may refuse any. *)

SavedDraft == [resource EXCEPT !.draft = resource.revision + 1, !.revision = @ + 1]
Asked == [resource EXCEPT !.latest = [id |-> @.id + 1, revision |-> resource.revision, state |-> "pending"]]
Decided(outcome) == [resource EXCEPT !.latest.state = outcome]
PublishedIt == [resource EXCEPT !.revision = @ + 1, !.latest.state = "spent"]
Room == resource.revision < MaxServerRevision

TakesCommand(c) ==
  /\ c.revision = resource.revision
  /\ CASE c.kind = "save" -> Room /\ resource' = IF c.changed THEN SavedDraft ELSE resource
       [] c.kind = "request" -> /\ c.about = resource.latest.id /\ ReviewContext.can
                                /\ resource.latest.id <= MaxServerRevision /\ resource' = Asked
       [] c.kind = "publish" -> /\ c.about = resource.latest.id /\ Latest.state = "approved"
                                /\ Room /\ resource' = PublishedIt
       [] OTHER -> c.about = resource.latest.id /\ Latest.state = "pending" /\ resource' = Decided(c.kind)

Becomes(c, status) ==
  commands' = (commands \ {c}) \cup (IF c.waited THEN {[c EXCEPT !.status = status]} ELSE {})

ServerTakes ==
  \E c \in commands :
    /\ c.status = "sent"
    /\ \/ TakesCommand(c) /\ Becomes(c, "done")
       \/ Becomes(c, "refused") /\ UNCHANGED resource
    /\ UNCHANGED <<editing, waiting, question, uses>>

ElsewhereEdited ==
  /\ \/ Room /\ resource' = SavedDraft
     \/ ReviewContext.can /\ resource.latest.id <= MaxServerRevision /\ resource' = Asked
     \/ Latest.state = "pending" /\ \E outcome \in {"approved", "rejected"} : resource' = Decided(outcome)
     \/ Latest.state = "approved" /\ Room /\ resource' = PublishedIt
  /\ UNCHANGED editorOnly

(* An answer, or the news that there will be none: the command may still arrive then. *)
HearsOf(c, good) ==
  /\ c.waited /\ (good => c.status = "done")
  /\ commands' = ((IF good /\ c.kind # "save" THEN GivenUp ELSE commands) \ {c})
             \cup (IF ~good /\ c.status = "sent" THEN {[c EXCEPT !.waited = FALSE]} ELSE {})

SaveAnswered ==
  \E c \in commands, good \in BOOLEAN :
    /\ c.kind = "save" /\ HearsOf(c, good)
    /\ IF good THEN waiting' = [waiting EXCEPT !.step = "summary"] /\ UNCHANGED editing
       ELSE \/ Displays([editing EXCEPT !.busy = FALSE, !.blocked = TRUE])
            \/ c.status = "refused" /\ Displays([editing EXCEPT !.busy = FALSE])
            \/ c.status = "refused" /\ Displays(Denied)
    /\ UNCHANGED <<resource, question, uses>>

(* A command that succeeded restarts the screen, whoever is signed in by then; one that did not
   is reported on whatever is shown. *)
CommandAnswered ==
  \E c \in commands, good \in BOOLEAN :
    /\ c.kind # "save" /\ HearsOf(c, good)
    /\ question' = CASE c.kind = "publish" /\ question = "publish" -> "none"
                     [] c.kind \in {"approved", "rejected"} /\ question # "publish" -> "none"
                     [] OTHER -> question
    /\ IF good THEN StartsOver
       ELSE /\ editing' = CASE ~IsOpen -> editing
                           [] IsOpen /\ c.kind = "publish" -> [editing EXCEPT !.publishing = FALSE]
                           [] OTHER -> [editing EXCEPT !.reviewing = FALSE]
            /\ UNCHANGED waiting
    /\ UNCHANGED <<resource, uses>>

EditorNext ==
  \/ ReadStep \/ ReadStepFails \/ SignInOrReload \/ EditDraft \/ SaveEdited \/ PreviewSaved
  \/ AskForReview \/ AskToConfirm \/ Cancel \/ ConfirmPublication \/ ConfirmDecision
  \/ ServerTakes \/ SaveAnswered \/ CommandAnswered \/ ElsewhereEdited

EditorSpec == EditorInit /\ [][EditorNext]_editorVars

-----------------------------------------------------------------------------
(* A draft saved from the screen takes the place of the one its author had on the screen, however
   long it was under way and whatever was saved or given up meanwhile; and nothing on the screen
   waits for an answer that is not coming (ResidentExperienceEditor.jsx:202). *)
WaitsForSomething ==
  IsOpen =>
    /\ editing.busy => waiting # NoReads
    /\ waiting # NoReads /\ waiting.step = "put" => \E c \in commands : c.kind = "save" /\ c.waited
    /\ editing.publishing => \E c \in commands : c.kind = "publish" /\ c.waited
    /\ editing.reviewing => \E c \in commands : c.kind \notin {"save", "publish"} /\ c.waited

EditorOverwritesNobody ==
  [][/\ resource'.draft # resource.draft => \A c \in commands \ commands' : c.shown = resource.draft
     /\ WaitsForSomething']_editorVars
=============================================================================
