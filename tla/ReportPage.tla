----------------------------- MODULE ReportPage -----------------------------
(***************************************************************************)
(* The page on which a resident reports an Issue: choosing a Category and  *)
(* an Issue while answers to earlier choices are still on their way, the   *)
(* form and its files, handing over to another service, and submitting,    *)
(* with a key that makes a retry safe.                                     *)
(*                                                                         *)
(* The page's sequence number is compared with the one a load was started  *)
(* with, so a load only says whether it is still the latest. The server is *)
(* SubmissionIdempotency's, reduced to what an answer tells the page.      *)
(***************************************************************************)
EXTENDS Naturals, Sequences, FiniteSets

CONSTANTS
  Categories, ReportIssues, CategoryOf,
  Replies,                           \* what can be filled in: answers, description, contact
  NoChoice,
  Linkable,                          \* the Issues another service may come to handle
  MaxVersion, MaxLoads, MaxBatch, MaxRuns,    \* bounds; with files, one run and no new version
  MaxOverdue                         \* bound on submissions given up at a time

ASSUME ReportAssumption ==
  /\ CategoryOf \in [ReportIssues -> Categories]
  /\ NoChoice \notin Categories \cup ReportIssues \cup Replies
  /\ MaxVersion \in Nat \ {0} /\ MaxLoads \in Nat /\ MaxBatch \in Nat /\ MaxRuns \in Nat
  /\ MaxOverdue \in Nat

VARIABLES
  catalog,     \* of each Issue, the definition now published: [version, link]
  screen,      \* step, category, items, issue, shown, answers
  loads,       \* answers awaited: [kind, category, issue, latest]
  offered,     \* whether files may be added, the policy's answer
  evidence,    \* the files of the draft: [files, claim, busy]
  preparing,   \* file preparations under way: [form, batch, aborted]
  batches,     \* sequence: the form each batch was begun for, and whether it can be finalized
  attempt,     \* the submission the page holds a key for, and the one awaiting its answer
  overdue,     \* submissions the page gave up on that may still arrive
  requests,    \* recorded: [key, content, run]
  closed,      \* keys whose retry window has closed
  meant        \* history: what was submitted last, as which of the resident's requests

reportVars == <<catalog, screen, loads, offered, evidence, preparing, batches, attempt, overdue,
                requests, closed, meant>>

submitVars == <<attempt, overdue, requests, closed, meant>>
fileVars == <<offered, evidence, preparing, batches>>

Form(i) == [issue |-> i, version |-> catalog[i].version, link |-> catalog[i].link]
NoForm == [issue |-> NoChoice, version |-> 0, link |-> FALSE]
NoFiles == [files |-> "none", claim |-> 0, busy |-> FALSE]
NoAttempt == [key |-> 0, content |-> NoChoice, sending |-> FALSE]

ReportTypeOK ==
  /\ catalog \in [ReportIssues -> [version : 1..MaxVersion, link : BOOLEAN]]
  /\ screen.step \in {"service", "handoff", "form", "review", "left", "done"}
  /\ screen.step \in {"handoff", "form", "review"} => screen.shown # NoForm
  /\ evidence \in [files : {"none", "selected", "ready"}, claim : 0..MaxBatch, busy : BOOLEAN]
  /\ Len(batches) <= MaxBatch
  /\ attempt.key \in 0..MaxRuns /\ meant.run \in 0..MaxRuns

ReportInit ==
  /\ \E links \in SUBSET Linkable :
       catalog = [i \in ReportIssues |-> [version |-> 1, link |-> i \in links]]
  /\ screen = [step |-> "service", category |-> NoChoice, items |-> NoChoice, issue |-> NoChoice,
               shown |-> NoForm, answers |-> NoChoice]
  /\ loads = {}
  /\ offered \in BOOLEAN
  /\ evidence = NoFiles /\ preparing = {} /\ batches = <<>>
  /\ attempt = NoAttempt /\ overdue = {} /\ requests = {} /\ closed = {}
  /\ meant = [content |-> NoChoice, run |-> 0, told |-> FALSE]

Publish(i) ==
  /\ ~offered /\ \A j \in ReportIssues : catalog[j].version < MaxVersion
  /\ \E link \in {FALSE, (i \in Linkable)} :
       catalog' = [catalog EXCEPT ![i] = [version |-> @.version + 1, link |-> link]]
  /\ UNCHANGED <<screen, loads, fileVars, submitVars>>

-----------------------------------------------------------------------------
(* Choosing. Every choice supersedes what was still being loaded.          *)

Superseded == {[l EXCEPT !.latest = FALSE] : l \in loads}

Starts(kind, category, issue) ==
  /\ Cardinality(Superseded) < MaxLoads
  /\ loads' = Superseded \cup
       {[kind |-> kind, category |-> category, issue |-> issue, latest |-> TRUE]}

(* The draft's effect runs anew when the form it is bound to is another: what is being prepared is
   aborted and what was staged is removed, if the request to remove it succeeds. *)
Rebinds(shown) ==
  IF shown = screen.shown THEN UNCHANGED fileVars
  ELSE /\ UNCHANGED offered
       /\ evidence' = NoFiles
       /\ preparing' = {[p EXCEPT !.aborted = TRUE] : p \in preparing}
       /\ batches' \in {batches} \cup (IF evidence.claim = 0 THEN {}
                                       ELSE {[batches EXCEPT ![evidence.claim].open = FALSE]})

ChooseCategory(c) ==
  /\ screen.step = "service" /\ screen.category # c
  /\ Starts("issues", c, NoChoice)
  /\ screen' = [screen EXCEPT !.category = c, !.items = NoChoice, !.issue = NoChoice, !.shown = NoForm,
                              !.answers = NoChoice]
  /\ Rebinds(NoForm)
  /\ UNCHANGED <<catalog, submitVars>>

Selects(i) ==
  /\ Starts("definition", screen.category, i)
  /\ screen' = [screen EXCEPT !.step = "service", !.issue = i, !.shown = NoForm,
                              !.answers = NoChoice]

(* Choosing an Issue of the list; or trying again after its form could not be loaded, for which no
   list is needed. *)
ChooseIssue(i) ==
  /\ screen.step = "service" /\ (screen.items = CategoryOf[i] \/ screen.issue = i)
  /\ screen.issue = i => ~\E l \in loads : l.latest
  /\ screen.shown.issue # i
  /\ Selects(i)
  /\ Rebinds(NoForm)
  /\ UNCHANGED <<catalog, submitVars>>

ListArrives(l) ==
  /\ l.kind = "issues" /\ loads' = loads \ {l}
  /\ screen' = IF l.latest THEN [screen EXCEPT !.items = l.category] ELSE screen
  /\ UNCHANGED <<catalog, fileVars, submitVars>>

\* Mutant: takes the form whichever Issue has been chosen since.
TakesWhatever(l) == TRUE

Takes(l) == l.latest

(* A form is shown; for an Issue that another service handles the page turns to the handoff. *)
DefinitionArrives(l) ==
  /\ l.kind = "definition" /\ loads' = loads \ {l}
  /\ IF Takes(l)
     THEN /\ screen' = [screen EXCEPT !.shown = Form(l.issue),
                          !.step = IF catalog[l.issue].link THEN "handoff" ELSE @]
          /\ Rebinds(Form(l.issue))
     ELSE UNCHANGED <<screen, fileVars>>
  /\ UNCHANGED <<catalog, submitVars>>

(* "Try again" appears when it was the latest load that failed. *)
LoadFails(l) ==
  /\ loads' = loads \ {l}
  /\ UNCHANGED <<catalog, screen, fileVars, submitVars>>

(* The list again; offered here as well to who comes back from a handoff without one. *)
RetryCategory ==
  /\ screen.step = "service" /\ screen.category # NoChoice /\ screen.items = NoChoice
  /\ screen.issue = NoChoice
  /\ ~\E l \in loads : l.latest
  /\ Starts("issues", screen.category, NoChoice)
  /\ UNCHANGED <<catalog, screen, fileVars, submitVars>>

(* The service's link is read once more before the resident leaves by it. *)
ContinueHandoff ==
  /\ screen.step = "handoff" /\ ~\E l \in loads : l.kind = "handoff"
  /\ Starts("handoff", screen.category, screen.issue)
  /\ UNCHANGED <<catalog, screen, fileVars, submitVars>>

HandoffArrives(l) ==
  LET now == Form(l.issue) IN
  /\ l.kind = "handoff" /\ loads' = loads \ {l}
  /\ IF ~l.latest THEN UNCHANGED <<screen, fileVars>>
     ELSE /\ screen' =
               IF ~now.link THEN [screen EXCEPT !.shown = now, !.answers = NoChoice,
                                                !.step = "form"]
               ELSE IF now # screen.shown THEN [screen EXCEPT !.shown = now, !.answers = NoChoice]
               ELSE [screen EXCEPT !.step = "left", !.answers = NoChoice]
          /\ Rebinds(now)
  /\ UNCHANGED <<catalog, submitVars>>

GoBack ==
  /\ screen.step = "handoff"
  /\ loads' = Superseded
  /\ screen' = [screen EXCEPT !.step = "service", !.issue = NoChoice, !.shown = NoForm,
                              !.answers = NoChoice]
  /\ Rebinds(NoForm)
  /\ UNCHANGED <<catalog, submitVars>>

-----------------------------------------------------------------------------
(* The form.                                                               *)

FilesReady == ~evidence.busy /\ evidence.files # "selected"

Answer(r) ==
  /\ screen.step = "form" /\ screen.answers # r
  /\ screen' = [screen EXCEPT !.answers = r]
  /\ UNCHANGED <<catalog, loads, fileVars, submitVars>>

Continue ==
  /\ \/ /\ screen.step = "service" /\ screen.category # NoChoice /\ screen.shown # NoForm
        /\ screen' = [screen EXCEPT !.step = IF screen.shown.link THEN "handoff" ELSE "form"]
     \/ /\ screen.step = "form" /\ FilesReady /\ screen.answers # NoChoice
        /\ screen' = [screen EXCEPT !.step = "review"]
  /\ UNCHANGED <<catalog, loads, fileVars, submitVars>>

Back ==
  /\ \/ screen.step = "form" /\ screen' = [screen EXCEPT !.step = "service"]
     \/ screen.step = "review" /\ screen' = [screen EXCEPT !.step = "form"]
  /\ UNCHANGED <<catalog, loads, fileVars, submitVars>>

SelectFiles ==
  /\ screen.step = "form" /\ offered /\ ~evidence.busy /\ evidence.files # "selected"
  /\ evidence' = [evidence EXCEPT !.files = "selected"]
  /\ UNCHANGED <<catalog, screen, loads, offered, preparing, batches, submitVars>>

(* A batch that can no longer be changed is forgotten instead (404). *)
RemoveFiles ==
  /\ screen.step = "form" /\ ~evidence.busy /\ evidence.files # "none"
  /\ evidence' = [evidence EXCEPT !.files = "none",
                    !.claim = IF @ # 0 /\ ~batches[@].open THEN 0 ELSE @]
  /\ UNCHANGED <<catalog, screen, loads, offered, preparing, batches, submitVars>>

Prepare ==
  /\ screen.step = "form" /\ ~evidence.busy /\ evidence.files = "selected"
  /\ Cardinality(preparing) < MaxBatch
  /\ evidence' = [evidence EXCEPT !.busy = TRUE]
  /\ preparing' = preparing \cup
       {[form |-> screen.shown, batch |-> evidence.claim, aborted |-> FALSE]}
  /\ UNCHANGED <<catalog, screen, loads, offered, batches, submitVars>>

\* Mutant: keeps a batch begun for the form that was shown before.
KeepsBatch(p) == TRUE

Keeps(p) == ~p.aborted

(* The batch is begun; when the draft was rebound meanwhile the page removes it again. *)
BatchBegins(p) ==
  /\ p.batch = 0 /\ Len(batches) < MaxBatch
  /\ batches' = Append(batches, [form |-> p.form, open |-> Keeps(p)])
  /\ IF Keeps(p) THEN /\ evidence' = [evidence EXCEPT !.claim = Len(batches')]
                      /\ preparing' = (preparing \ {p}) \cup {[p EXCEPT !.batch = Len(batches')]}
     ELSE UNCHANGED evidence /\ preparing' = preparing \ {p}
  /\ UNCHANGED <<catalog, screen, loads, offered, submitVars>>

(* The uploads of a batch end; "Retry files" after a failure, which forgets a batch that is gone. *)
PrepareEnds(p) ==
  /\ preparing' = preparing \ {p}
  /\ IF p.aborted THEN UNCHANGED evidence
     ELSE \/ /\ p.batch # 0 /\ batches[p.batch].open
             /\ evidence' = [evidence EXCEPT !.busy = FALSE, !.files = "ready"]
          \/ evidence' = [evidence EXCEPT !.busy = FALSE,
                            !.claim = IF @ # 0 /\ ~batches[@].open THEN 0 ELSE @]
  /\ UNCHANGED <<catalog, screen, loads, offered, batches, submitVars>>

-----------------------------------------------------------------------------
(* Submitting.                                                             *)

Filled ==
  [form |-> screen.shown, category |-> screen.category, answers |-> screen.answers,
   claim |-> IF evidence.files = "none" THEN 0 ELSE evidence.claim]

\* Mutant: a new key for every attempt.
SameSubmission(content) == FALSE

Unchanged(content) == attempt.key # 0 /\ attempt.content = content

Submit ==
  /\ screen.step = "review" /\ FilesReady /\ ~attempt.sending /\ ~screen.shown.link
  /\ LET again == meant.content = Filled /\ ~meant.told
         run == IF again THEN meant.run ELSE meant.run + 1 IN
       /\ run <= IF offered THEN 1 ELSE MaxRuns
       /\ \E key \in 1..MaxRuns :
            /\ IF Unchanged(Filled) THEN key = attempt.key
               ELSE /\ key > attempt.key
                    /\ \A m \in overdue \cup requests : key # m.key
                    /\ \A k \in 1..(key - 1) : k <= attempt.key \/ \E m \in overdue \cup requests : k = m.key
            /\ attempt' = [key |-> key, content |-> Filled, sending |-> TRUE]
       /\ meant' = [content |-> Filled, run |-> run, told |-> FALSE]
  /\ UNCHANGED <<catalog, screen, loads, fileVars, overdue, requests, closed>>

Submission == [key |-> attempt.key, content |-> attempt.content, run |-> meant.run]

KeyKnown(m) == \E r \in requests : r.key = m.key

(* What the server does with m: the receipt of a known key, a new request for the form now
   published and a batch still staged, or a refusal. *)
Verdict(m) ==
  LET c == m.content IN
  IF KeyKnown(m)
  THEN IF m.key \in closed \/ \A r \in requests : r.key = m.key => r.content # c
       THEN "key" ELSE "receipt"
  ELSE IF Form(c.form.issue) = c.form /\ (c.claim # 0 => batches[c.claim].open)
       THEN "receipt" ELSE "catalog-version"

Records(m) ==
  IF Verdict(m) = "receipt" /\ ~KeyKnown(m)
  THEN /\ requests' = requests \cup {m}
       /\ batches' = IF m.content.claim = 0 THEN batches
                     ELSE [batches EXCEPT ![m.content.claim].open = FALSE]
  ELSE UNCHANGED <<requests, batches>>

(* The receipt is shown, and nothing else from then on. *)
Answered ==
  /\ attempt.sending /\ Verdict(Submission) = "receipt"
  /\ Records(Submission)
  /\ attempt' = NoAttempt /\ evidence' = NoFiles
  /\ screen' = [screen EXCEPT !.step = "done", !.answers = NoChoice]
  /\ loads' = {} /\ preparing' = {}
  /\ UNCHANGED <<catalog, offered, overdue, closed, meant>>

(* The form has changed: files are cleared and the Issue of the submission is chosen again,
   wherever on the page the resident has gone meanwhile. *)
RefusedForm ==
  /\ attempt.sending /\ Verdict(Submission) = "catalog-version"
  /\ Selects(attempt.content.form.issue)
  /\ attempt' = [attempt EXCEPT !.sending = FALSE]
  /\ evidence' = NoFiles
  /\ preparing' = {[p EXCEPT !.aborted = TRUE] : p \in preparing}
  /\ UNCHANGED <<catalog, offered, batches, overdue, requests, closed, meant>>

(* The key was used for other content or its window has closed: the next attempt takes a new one. *)
RefusedKey ==
  /\ attempt.sending /\ Verdict(Submission) = "key"
  /\ attempt' = NoAttempt
  /\ meant' = [meant EXCEPT !.told = TRUE]
  /\ UNCHANGED <<catalog, screen, loads, fileVars, overdue, requests, closed>>

\* Mutant: any failure drops the key.
HeldAfterNothing == NoAttempt

HeldAfterFailure == [attempt EXCEPT !.sending = FALSE]

(* A timeout, a network or server error, a validation or location refusal, SUBMISSION_IN_PROGRESS:
   the key is kept. The submission may be recorded from now on, or never. *)
GetsNoReceipt ==
  /\ attempt.sending
  /\ Cardinality(overdue \ {Submission}) < MaxOverdue
  /\ attempt' = HeldAfterFailure
  /\ overdue' = overdue \cup {Submission}
  /\ UNCHANGED <<catalog, screen, loads, fileVars, requests, closed, meant>>

ArrivesLate(m) ==
  /\ overdue' = overdue \ {m}
  /\ Records(m)
  /\ UNCHANGED <<catalog, screen, loads, offered, evidence, preparing, attempt, closed, meant>>

CloseWindow ==
  /\ \E r \in requests : r.key \notin closed /\ closed' = closed \cup {r.key}
  /\ UNCHANGED <<catalog, screen, loads, fileVars, attempt, overdue, requests, meant>>

ReportNext ==
  \/ \E i \in ReportIssues : Publish(i) \/ ChooseIssue(i)
  \/ \E c \in Categories : ChooseCategory(c)
  \/ \E l \in loads : ListArrives(l) \/ DefinitionArrives(l) \/ HandoffArrives(l) \/ LoadFails(l)
  \/ RetryCategory \/ ContinueHandoff \/ GoBack
  \/ \E r \in Replies : Answer(r)
  \/ Continue \/ Back
  \/ SelectFiles \/ RemoveFiles \/ Prepare
  \/ \E p \in preparing : BatchBegins(p) \/ PrepareEnds(p)
  \/ Submit \/ Answered \/ RefusedForm \/ RefusedKey \/ GetsNoReceipt
  \/ \E m \in overdue : ArrivesLate(m)
  \/ CloseWindow

ReportSpec == ReportInit /\ [][ReportNext]_reportVars

-----------------------------------------------------------------------------
(* However often the resident submits the same report, whichever answers were lost and whatever
   arrived late, it is recorded once; only when the page was told that it can no longer be
   repeated does the next attempt make another request. Submitted as edited and then as it was
   before, it counts as another report: the page remembers one submission
   (ReportIssuePage.jsx:418). *)
RetriesReportOnce == \A e, f \in requests : e.run = f.run => e = f

(* What the page shows is what was chosen last, however late the answers to earlier choices come;
   and files are only ever sent with the form they were staged for (ReportIssuePage.jsx:223,
   Attachments.jsx:147). *)
ShowsTheChosenIssue ==
  /\ screen.shown # NoForm => screen.shown.issue = screen.issue
  /\ screen.items \in {NoChoice, screen.category}
  /\ \A m \in requests : m.content.claim # 0 => batches[m.content.claim].form = m.content.form
=============================================================================
