------------------------- MODULE IssueConfiguration -------------------------
(***************************************************************************)
(* What residents can report: the Issues of one Organization. An Issue is  *)
(* edited from what a screen loaded, and its parts are written by others   *)
(* too: its handling by an endpoint of its own, its requester policy by an *)
(* development command. Each part has a revision, and a save names them    *)
(* all.                                                                    *)
(*                                                                         *)
(* `form` stands for name, description and questions, `policy` for the     *)
(* requester policy and the default assignment, whose revision works the   *)
(* same way. Categories, which nothing here writes, stay in service, and   *)
(* names are kept unique by an index.                                      *)
(***************************************************************************)
EXTENDS Naturals, FiniteSetsExt

CONSTANTS Configurators,              \* members of staff who configure Issues
          Issues, Absent,             \* Absent: one not made yet
          Forms, Policies,
          MaxIssueChanges, MaxSaves,  \* bounds: writes to Issues, saves under way,
          MaxEdited                   \* and parts changed by one save

VARIABLES
  issue,       \* of each Issue: service_definition with its policy, or Absent
  screen,      \* of each configurator: the Issue loaded, as it was, and the draft of it
  saves        \* changes on their way to the server

issueVars == <<issue, screen, saves>>

Availabilities == {"external", "both"}     \* "internal" admits what "both" does here
Handlings == {"intake", "redirect"}
Content == [form : Forms, availability : Availabilities, action : Handlings, policy : Policies,
            active : BOOLEAN]
Revisions == [core : Nat, action : Nat, policy : Nat, version : Nat]
Row == [content : Content, revisions : Revisions]

ASSUME IssueAssumption == Absent \notin Row

At(stage) == [stage |-> stage]
Editing(i, row) == [stage |-> "editing", issue |-> i, read |-> row]

IssueTypeOK ==
  /\ issue \in [Issues -> Row \cup {Absent}]
  /\ \A e \in Configurators :
       \/ screen[e] \in {At("closed"), At("saving"), At("blocked")}
       \/ screen[e].stage = "editing" /\ screen[e].issue \in Issues /\ screen[e].read \in Row
  /\ \A s \in saves : s.by \in Configurators /\ s.issue \in Issues /\ s.read \in Row
                      /\ s.draft \in Content

(* A redirect leaves the site, so an Issue that staff file too cannot have one. *)
FitsAvailability(content) == content.action = "redirect" => content.availability = "external"

(* A new Issue takes requests itself; a redirect is its first change of handling. *)
NewRow(content) ==
  [content |-> content,
   revisions |-> [core |-> 1, action |-> IF content.action = "redirect" THEN 2 ELSE 1,
                  policy |-> 1, version |-> 1]]

(* Parts written so far, one for each Issue made included. *)
Parts(row) == row.revisions.core + row.revisions.action + row.revisions.policy - 2
Written == MapThenSumSet(LAMBDA i : Parts(issue[i]), {i \in Issues : issue[i] # Absent})
MayWrite == Written < MaxIssueChanges

IssueInit ==
  /\ issue = [i \in Issues |-> Absent]
  /\ screen = [e \in Configurators |-> At("closed")]
  /\ saves = {}

-----------------------------------------------------------------------------
(* Who writes a part advances its revision; the database counts the core's. *)
Advanced(row, content) ==
  LET old == row.content  new == content  by(changed) == IF changed THEN 1 ELSE 0
      published == new.form # old.form
  IN [content |-> new,
      revisions |->
        [core |-> row.revisions.core
                  + by(published \/ new.availability # old.availability \/ new.active # old.active),
         action |-> row.revisions.action + by(new.action # old.action),
         policy |-> row.revisions.policy + by(new.policy # old.policy),
         version |-> row.revisions.version + by(published)]]

(* open(): the detail is one snapshot; what an earlier save left on screen is gone. *)
LoadIssue(e, i) ==
  /\ issue[i] # Absent /\ screen[e].stage # "saving"
  /\ screen' = [screen EXCEPT ![e] = Editing(i, issue[i])]
  /\ UNCHANGED <<issue, saves>>

Edits(draft, content) == Cardinality({part \in DOMAIN content : draft[part] # content[part]})

(* save(): the whole draft and the four revisions that were loaded. *)
SendChange(e) ==
  /\ screen[e].stage = "editing" /\ Cardinality(saves) < MaxSaves
  /\ \E draft \in Content :
       /\ Edits(draft, screen[e].read.content) \in 1..MaxEdited
       /\ saves' = saves \cup {[by |-> e, issue |-> screen[e].issue, read |-> screen[e].read,
                                draft |-> draft, awaited |-> TRUE]}
  /\ screen' = [screen EXCEPT ![e] = At("saving")]
  /\ UNCHANGED issue

Abandoned(e) == {IF s.by = e THEN [s EXCEPT !.awaited = FALSE] ELSE s : s \in saves}

(* The answer is lost or an error: the screen stays blocked. The save itself may still arrive. *)
LoseAnswer(e) ==
  /\ screen[e].stage = "saving"
  /\ screen' = [screen EXCEPT ![e] = At("blocked")]
  /\ saves' = Abandoned(e)
  /\ UNCHANGED issue

CloseIssue(e) ==
  /\ screen[e].stage \in {"editing", "blocked"}
  /\ screen' = [screen EXCEPT ![e] = At("closed")]
  /\ UNCHANGED <<issue, saves>>

\* Mutant: the revision of the handling is compared only by saves that change it.
RevisionsHoldWhereChanged(row, save) ==
  /\ row.revisions.core = save.read.revisions.core
  /\ row.revisions.policy = save.read.revisions.policy
  /\ save.draft.action # save.read.content.action =>
       row.revisions.action = save.read.revisions.action

RevisionsHold(row, save) ==
  /\ row.revisions.core = save.read.revisions.core
  /\ row.revisions.action = save.read.revisions.action
  /\ row.revisions.policy = save.read.revisions.policy

(* The screen sends the handling only when it was changed; otherwise the stored one stays. *)
Resulting(row, save) ==
  IF save.draft.action = save.read.content.action
    THEN [save.draft EXCEPT !.action = row.content.action]
    ELSE save.draft

(* A screen no longer waiting for this save ignores its answer. *)
Answered(save, shown) ==
  screen' = IF save.awaited THEN [screen EXCEPT ![save.by] = shown] ELSE screen

(* change(): one transaction on the locked Issue. *)
ChangeIssue(save) ==
  LET row == issue[save.issue]  next == Resulting(row, save) IN
  /\ save \in saves /\ saves' = saves \ {save}
  /\ \/ /\ RevisionsHold(row, save) /\ FitsAvailability(next) /\ MayWrite
        /\ issue' = [issue EXCEPT ![save.issue] = Advanced(row, next)]
        /\ Answered(save, At("closed"))
     \/ /\ ~RevisionsHold(row, save) /\ issue' = issue
        /\ Answered(save, At("blocked"))
     \/ /\ RevisionsHold(row, save) /\ ~FitsAvailability(next) /\ issue' = issue
        /\ Answered(save, Editing(save.issue, save.read))

(* set(): the endpoint of the handling compares the handling's revision alone. *)
SetHandling(i, action) ==
  /\ issue[i] # Absent /\ MayWrite
  /\ LET next == [issue[i].content EXCEPT !.action = action] IN
       /\ FitsAvailability(next) /\ next # issue[i].content
       /\ issue' = [issue EXCEPT ![i] = Advanced(issue[i], next)]
  /\ UNCHANGED <<screen, saves>>

(* The development command, on an active Issue whose policy it has inspected. *)
SetPolicy(i, policy) ==
  /\ issue[i] # Absent /\ MayWrite
  /\ issue[i].content.active /\ policy # issue[i].content.policy
  /\ issue' = [issue EXCEPT ![i] = Advanced(@, [issue[i].content EXCEPT !.policy = policy])]
  /\ UNCHANGED <<screen, saves>>

CopiesTemplate(shown, content) ==
  /\ shown.stage = "editing" /\ content.form = shown.read.content.form
  /\ LET template == issue[shown.issue] IN
       /\ template.content.active /\ template.content.action = "intake"
       /\ template.revisions.version = shown.read.revisions.version

(* create(): a new Issue out of service, from nothing or with the form of an active one that
   takes requests itself, if that one still has the version its author was shown. *)
CreateIssue(e, i) ==
  /\ issue[i] = Absent /\ MayWrite
  /\ \E content \in Content :
       /\ ~content.active /\ FitsAvailability(content)
       /\ \/ screen[e].stage = "closed"
          \/ CopiesTemplate(screen[e], content)
       /\ issue' = [issue EXCEPT ![i] = NewRow(content)]
  /\ UNCHANGED <<screen, saves>>

IssueNext ==
  \/ \E e \in Configurators :
       \/ \E i \in Issues : LoadIssue(e, i) \/ CreateIssue(e, i)
       \/ SendChange(e) \/ LoseAnswer(e) \/ CloseIssue(e)
  \/ \E save \in saves : ChangeIssue(save)
  \/ \E i \in Issues : (\E a \in Handlings : SetHandling(i, a)) \/ \E p \in Policies : SetPolicy(i, p)

IssueSpec == IssueInit /\ [][IssueNext]_issueVars

-----------------------------------------------------------------------------
(* A save replaces only the configuration its author was looking at: whatever part another writer
   changed meanwhile, by whichever way in, the save is refused (admin-issue.service.ts:640). *)
ChangeSavesWhatWasOpen ==
  [][\A save \in saves \ saves' : issue' # issue =>
       issue[save.issue].content = save.read.content /\ issue'[save.issue].content = save.draft]_issueVars
=============================================================================
