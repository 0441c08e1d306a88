--------------------------- MODULE WebClientProofs ---------------------------
(***************************************************************************)
(* Theorems about the screens of the web client, one after the other: the  *)
(* page an Issue is reported on, the page of one request, the list of      *)
(* requests, and the screen the resident experience is edited on; and then *)
(* about all of them, as MCWebClient runs them. For each screen the        *)
(* inductive invariant comes first, then that every action keeps it, then  *)
(* the properties that follow from it.                                     *)
(***************************************************************************)
EXTENDS MCWebClient, TLAPS

--------------------------------------------------------------------------------
(* The report page: the inductive invariant.                                *)

\* The definitions the page can be bound to, and what a submission says.
Choices == ReportIssues \cup {NoChoice}
Areas == Categories \cup {NoChoice}
IssueForms == [issue : ReportIssues, version : Nat, link : BOOLEAN]
ShownForms == IssueForms \cup {NoForm}
Contents == [form : IssueForms, category : Areas, answers : Replies \cup {NoChoice}, claim : Nat]
Messages == [key : Nat \ {0}, content : Contents, run : Nat]

ReportTyped ==
  /\ catalog \in [ReportIssues -> [version : Nat, link : BOOLEAN]]
  /\ screen \in [step : {"service", "handoff", "form", "review", "left", "done"},
                 category : Areas, items : Areas, issue : Choices, shown : ShownForms,
                 answers : Replies \cup {NoChoice}]
  /\ loads \subseteq [kind : {"issues", "definition", "handoff"}, category : Areas,
                      issue : Choices, latest : BOOLEAN]
  /\ offered \in BOOLEAN
  /\ evidence \in [files : {"none", "selected", "ready"}, claim : Nat, busy : BOOLEAN]
  /\ preparing \subseteq [form : ShownForms, batch : Nat, aborted : BOOLEAN]
  /\ batches \in Seq([form : ShownForms, open : BOOLEAN])
  /\ attempt = NoAttempt
       \/ attempt \in [key : Nat \ {0}, content : Contents, sending : BOOLEAN]
  /\ overdue \subseteq Messages /\ requests \subseteq Messages
  /\ meant \in [content : Contents \cup {NoChoice}, run : Nat, told : BOOLEAN]

\* A form is shown from the handoff to the review.
FormWhileFilled == screen.step \in {"handoff", "form", "review"} => screen.shown # NoForm

\* An answer that is still the latest is for what is chosen now; the form
\* shown is of the chosen Issue.
AnswersForTheChoice ==
  /\ \A l \in loads :
       /\ l.kind # "issues" => l.issue \in ReportIssues
       /\ l.latest => IF l.kind = "issues" THEN l.category = screen.category
                                           ELSE l.issue = screen.issue
  /\ screen.shown # NoForm => screen.shown.issue = screen.issue
  /\ screen.items \in {NoChoice, screen.category}

\* Claim n, if there is one, is of a batch begun for the form.
StagedFor(n, form) == n # 0 => n \in DOMAIN batches /\ batches[n].form = form

\* Files stay with the form they were staged for, on the page and on their way.
FilesStay ==
  /\ StagedFor(evidence.claim, screen.shown)
  /\ \A p \in preparing : StagedFor(p.batch, p.form) /\ (~p.aborted => p.form = screen.shown)
  /\ attempt.key # 0 => StagedFor(attempt.content.claim, attempt.content.form)
  /\ \A m \in overdue \cup requests : StagedFor(m.content.claim, m.content.form)

\* Nothing happens on the page after the receipt.
DoneIsDone == screen.step = "done" => loads = {} /\ attempt = NoAttempt

\* Of one request of the resident all submissions carry one key, which the page
\* holds until it is told otherwise; a key has recorded one request.
OneKeyPerRun ==
  /\ \A m \in overdue \cup requests :
       /\ m.run <= meant.run
       /\ m.run = meant.run /\ attempt.key # 0 => m.key = attempt.key
       /\ \A n \in overdue \cup requests : m.run = n.run => m.key = n.key
  /\ \A e, f \in requests : e.key = f.key => e = f

\* The page holds the key of what was meant last, unless it was told, has the
\* receipt, or nothing was submitted yet.
KeyHeld ==
  IF attempt.key # 0 THEN attempt.content = meant.content /\ ~meant.told
  ELSE meant.told \/ screen.step = "done" \/ overdue \cup requests = {}

ReportInv ==
  /\ ReportTyped /\ FormWhileFilled /\ AnswersForTheChoice /\ FilesStay
  /\ DoneIsDone /\ OneKeyPerRun /\ KeyHeld

LEMMA ReportInitially == ReportInit => ReportInv
<1> SUFFICES ASSUME ReportInit PROVE ReportInv
  OBVIOUS
<1>1. ReportTyped
  <2>1. catalog \in [ReportIssues -> [version : Nat, link : BOOLEAN]]
    BY DEF ReportInit
  <2>2. batches \in Seq([form : ShownForms, open : BOOLEAN])
    BY DEF ReportInit
  <2> QED BY <2>1, <2>2 DEF ReportInit, ReportTyped, Areas, Choices, ShownForms, NoFiles
<1>2. FormWhileFilled /\ AnswersForTheChoice /\ DoneIsDone
  BY DEF ReportInit, FormWhileFilled, AnswersForTheChoice, DoneIsDone
<1>3. FilesStay
  BY DEF ReportInit, FilesStay, StagedFor, NoFiles, NoAttempt
<1>4. OneKeyPerRun /\ KeyHeld
  BY DEF ReportInit, OneKeyPerRun, KeyHeld, NoAttempt
<1> QED BY <1>1, <1>2, <1>3, <1>4 DEF ReportInv

\* A batch that was begun keeps its form, whatever is appended or closed.
LEMMA BatchBegun ==
  ASSUME NEW S, NEW s \in Seq(S), NEW e \in S
  PROVE  /\ Append(s, e) \in Seq(S) /\ Len(Append(s, e)) = Len(s) + 1 /\ Len(s) \in Nat
         /\ DOMAIN s = 1..Len(s) /\ DOMAIN Append(s, e) = 1..(Len(s) + 1)
         /\ \A n \in 1..Len(s) : Append(s, e)[n] = s[n]
         /\ Append(s, e)[Len(s) + 1] = e
OBVIOUS

LEMMA BatchElements ==
  ASSUME NEW S, NEW s \in Seq(S)
  PROVE  DOMAIN s = 1..Len(s) /\ Len(s) \in Nat /\ \A m \in DOMAIN s : s[m] \in S
OBVIOUS

LEMMA BatchReplaced ==
  ASSUME NEW S, NEW s \in Seq(S), NEW n \in DOMAIN s, NEW e \in S
  PROVE  [s EXCEPT ![n] = e] \in Seq(S)
OBVIOUS

LEMMA BatchClosed ==
  ASSUME NEW S, NEW s \in Seq([form : S, open : BOOLEAN]), NEW n \in DOMAIN s
  PROVE  /\ [s EXCEPT ![n].open = FALSE] \in Seq([form : S, open : BOOLEAN])
         /\ DOMAIN [s EXCEPT ![n].open = FALSE] = DOMAIN s
         /\ \A m \in DOMAIN s : [s EXCEPT ![n].open = FALSE][m].form = s[m].form
<1>1. /\ DOMAIN s = 1..Len(s) /\ Len(s) \in Nat
      /\ \A m \in DOMAIN s : s[m] \in [form : S, open : BOOLEAN]
  BY BatchElements
<1>2. [s EXCEPT ![n].open = FALSE] = [s EXCEPT ![n] = [s[n] EXCEPT !.open = FALSE]]
  OBVIOUS
<1>3. [s[n] EXCEPT !.open = FALSE] \in [form : S, open : BOOLEAN]
      /\ [s[n] EXCEPT !.open = FALSE].form = s[n].form
  BY <1>1
<1>4. [s EXCEPT ![n] = [s[n] EXCEPT !.open = FALSE]] \in Seq([form : S, open : BOOLEAN])
  BY <1>3, BatchReplaced
<1> QED BY <1>1, <1>2, <1>3, <1>4

\* What a new form on the page does to the files there.
LEMMA Rebound ==
  ASSUME ReportTyped, FilesStay, NEW shown \in ShownForms, Rebinds(shown)
  PROVE  /\ offered' \in BOOLEAN
         /\ evidence' \in [files : {"none", "selected", "ready"}, claim : Nat, busy : BOOLEAN]
         /\ preparing' \subseteq [form : ShownForms, batch : Nat, aborted : BOOLEAN]
         /\ batches' \in Seq([form : ShownForms, open : BOOLEAN])
         /\ DOMAIN batches' = DOMAIN batches
         /\ \A n \in DOMAIN batches : batches'[n].form = batches[n].form
         /\ evidence'.claim # 0 => evidence' = evidence /\ shown = screen.shown
         /\ \A q \in preparing' : \E p \in preparing :
              /\ q.form = p.form /\ q.batch = p.batch
              /\ ~q.aborted => ~p.aborted /\ shown = screen.shown
<1>1. CASE shown = screen.shown
  BY <1>1 DEF Rebinds, fileVars, ReportTyped
<1>2. CASE shown # screen.shown
  <2>1. /\ UNCHANGED offered /\ evidence' = NoFiles
        /\ preparing' = {[p EXCEPT !.aborted = TRUE] : p \in preparing}
        /\ \/ batches' = batches
           \/ evidence.claim # 0 /\ batches' = [batches EXCEPT ![evidence.claim].open = FALSE]
    BY <1>2 DEF Rebinds
  <2>2. /\ batches' \in Seq([form : ShownForms, open : BOOLEAN])
        /\ DOMAIN batches' = DOMAIN batches
        /\ \A n \in DOMAIN batches : batches'[n].form = batches[n].form
    <3>1. CASE batches' = batches
      BY <3>1 DEF ReportTyped
    <3>2. CASE evidence.claim # 0 /\ batches' = [batches EXCEPT ![evidence.claim].open = FALSE]
      <4>1. evidence.claim \in DOMAIN batches
        BY <3>2 DEF FilesStay, StagedFor
      <4> QED BY <3>2, <4>1, BatchClosed DEF ReportTyped
    <3> QED BY <2>1, <3>1, <3>2
  <2>3. /\ offered' \in BOOLEAN /\ evidence'.claim = 0
        /\ evidence' \in [files : {"none", "selected", "ready"}, claim : Nat, busy : BOOLEAN]
    BY <2>1 DEF ReportTyped, NoFiles
  <2>4. ASSUME NEW q \in preparing'
        PROVE  /\ q \in [form : ShownForms, batch : Nat, aborted : BOOLEAN]
               /\ \E p \in preparing : q.form = p.form /\ q.batch = p.batch /\ q.aborted
    <3>1. PICK p \in preparing : q = [p EXCEPT !.aborted = TRUE]
      BY <2>1
    <3> QED BY <3>1 DEF ReportTyped
  <2> QED BY <2>2, <2>3, <2>4
<1> QED BY <1>1, <1>2

\* Loads are superseded as a whole, and a new one is the only latest.
LEMMA Started ==
  ASSUME ReportTyped, NEW kind \in {"issues", "definition", "handoff"}, NEW category \in Areas,
         NEW issue \in Choices, Starts(kind, category, issue),
         kind # "issues" => issue \in ReportIssues, AnswersForTheChoice
  PROVE  /\ loads' \subseteq [kind : {"issues", "definition", "handoff"}, category : Areas,
                              issue : Choices, latest : BOOLEAN]
         /\ \A l \in loads' :
              /\ l.kind # "issues" => l.issue \in ReportIssues
              /\ l.latest => l.kind = kind /\ l.category = category /\ l.issue = issue
<1> DEFINE new == [kind |-> kind, category |-> category, issue |-> issue, latest |-> TRUE]
<1>1. loads' = {[l EXCEPT !.latest = FALSE] : l \in loads} \cup {new}
  BY DEF Starts, Superseded
<1>2. ASSUME NEW l \in loads', l # new
      PROVE  /\ l \in [kind : {"issues", "definition", "handoff"}, category : Areas,
                       issue : Choices, latest : BOOLEAN]
             /\ l.kind # "issues" => l.issue \in ReportIssues
             /\ ~l.latest
  <2>1. PICK k \in loads : l = [k EXCEPT !.latest = FALSE]
    BY <1>1, <1>2
  <2> QED BY <2>1 DEF ReportTyped, AnswersForTheChoice
<1>3. new \in [kind : {"issues", "definition", "handoff"}, category : Areas,
               issue : Choices, latest : BOOLEAN]
  OBVIOUS
<1>4. ASSUME NEW l \in loads'
      PROVE  /\ l.kind # "issues" => l.issue \in ReportIssues
             /\ l.latest => l.kind = kind /\ l.category = category /\ l.issue = issue
  BY <1>2
<1> HIDE DEF new
<1> QED BY <1>2, <1>3, <1>4

\* The form that is published for an Issue.
LEMMA FormOfIssue ==
  ASSUME ReportTyped, NEW i \in ReportIssues
  PROVE  Form(i) \in IssueForms /\ Form(i).issue = i /\ Form(i) \in ShownForms /\ Form(i) # NoForm
BY ReportAssumption DEF ReportTyped, Form, IssueForms, ShownForms, NoForm

--------------------------------------------------------------------------------
(* The report page: what a step leaves alone, and each action.              *)

\* The submissions stay as they are while nothing is submitted or answered.
LEMMA SubmissionsKept ==
  ASSUME ReportInv, UNCHANGED <<attempt, overdue, requests, meant>>,
         (screen'.step = "done") <=> (screen.step = "done"),
         screen.step = "done" => loads' \subseteq loads
  PROVE  DoneIsDone' /\ OneKeyPerRun' /\ KeyHeld'
BY DEF ReportInv, DoneIsDone, OneKeyPerRun, KeyHeld

\* Files stay with their forms when neither they nor the form change.
LEMMA FilesKept ==
  ASSUME ReportInv, UNCHANGED <<fileVars, attempt, overdue, requests>>, screen'.shown = screen.shown
  PROVE  FilesStay'
BY DEF ReportInv, FilesStay, StagedFor, fileVars

\* And when the draft is bound to the form that the page turns to.
LEMMA FilesRebound ==
  ASSUME ReportInv, NEW shown \in ShownForms, Rebinds(shown), screen'.shown = shown,
         UNCHANGED <<attempt, overdue, requests>>
  PROVE  FilesStay'
<1>1. /\ DOMAIN batches' = DOMAIN batches
      /\ \A n \in DOMAIN batches : batches'[n].form = batches[n].form
      /\ evidence'.claim # 0 => evidence' = evidence /\ shown = screen.shown
      /\ \A q \in preparing' : \E p \in preparing :
           /\ q.form = p.form /\ q.batch = p.batch
           /\ ~q.aborted => ~p.aborted /\ shown = screen.shown
  BY Rebound DEF ReportInv
<1>2. ASSUME NEW n, NEW form, StagedFor(n, form)
      PROVE  StagedFor(n, form)'
  BY <1>1, <1>2 DEF StagedFor
<1>3. StagedFor(evidence.claim, screen.shown)'
  BY <1>1 DEF ReportInv, FilesStay, StagedFor
<1>4. ASSUME NEW q \in preparing'
      PROVE  StagedFor(q.batch, q.form)' /\ (~q.aborted => q.form = screen'.shown)
  <2>1. PICK p \in preparing :
          /\ q.form = p.form /\ q.batch = p.batch
          /\ ~q.aborted => ~p.aborted /\ shown = screen.shown
    BY <1>1
  <2>2. StagedFor(p.batch, p.form) /\ (~p.aborted => p.form = screen.shown)
    BY DEF ReportInv, FilesStay
  <2> QED BY <1>2, <2>1, <2>2
<1>5. attempt'.key # 0 => StagedFor(attempt.content.claim, attempt.content.form)'
  BY <1>2 DEF ReportInv, FilesStay
<1>6. \A m \in overdue' \cup requests' : StagedFor(m.content.claim, m.content.form)'
  BY <1>2 DEF ReportInv, FilesStay
<1> QED BY <1>3, <1>4, <1>5, <1>6 DEF FilesStay

\* What a step shows: the page's own types after it, from the variables it sets.
LEMMA ScreenTyped ==
  ASSUME ReportTyped, UNCHANGED <<catalog, submitVars>>,
         screen' \in [step : {"service", "handoff", "form", "review", "left", "done"},
                      category : Areas, items : Areas, issue : Choices, shown : ShownForms,
                      answers : Replies \cup {NoChoice}],
         loads' \subseteq [kind : {"issues", "definition", "handoff"}, category : Areas,
                           issue : Choices, latest : BOOLEAN],
         offered' \in BOOLEAN,
         evidence' \in [files : {"none", "selected", "ready"}, claim : Nat, busy : BOOLEAN],
         preparing' \subseteq [form : ShownForms, batch : Nat, aborted : BOOLEAN],
         batches' \in Seq([form : ShownForms, open : BOOLEAN])
  PROVE  ReportTyped'
BY DEF ReportTyped, submitVars

LEMMA ChooseCategoryKeepsInv ==
  ASSUME ReportInv, NEW c \in Categories, ChooseCategory(c)
  PROVE  ReportInv'
<1>1. /\ ReportTyped /\ AnswersForTheChoice /\ FilesStay /\ NoForm \in ShownForms
      /\ screen.step = "service" /\ Starts("issues", c, NoChoice) /\ Rebinds(NoForm)
      /\ screen' = [screen EXCEPT !.category = c, !.items = NoChoice, !.issue = NoChoice,
                                  !.shown = NoForm, !.answers = NoChoice]
      /\ UNCHANGED <<catalog, submitVars>>
  BY DEF ReportInv, ChooseCategory, ShownForms
<1>2. /\ screen'.step = "service" /\ screen'.category = c /\ screen'.shown = NoForm
      /\ screen'.items = NoChoice /\ screen'.issue = NoChoice
      /\ screen' \in [step : {"service", "handoff", "form", "review", "left", "done"},
                      category : Areas, items : Areas, issue : Choices, shown : ShownForms,
                      answers : Replies \cup {NoChoice}]
  BY <1>1 DEF ReportTyped, Areas, Choices
<1>3. /\ loads' \subseteq [kind : {"issues", "definition", "handoff"}, category : Areas,
                           issue : Choices, latest : BOOLEAN]
      /\ \A l \in loads' :
           /\ l.kind # "issues" => l.issue \in ReportIssues
           /\ l.latest => l.kind = "issues" /\ l.category = c /\ l.issue = NoChoice
  BY <1>1, Started DEF Areas, Choices
<1>4. ReportTyped'
  BY <1>1, <1>2, <1>3, Rebound, ScreenTyped
<1>5. FormWhileFilled' /\ AnswersForTheChoice'
  BY <1>2, <1>3 DEF FormWhileFilled, AnswersForTheChoice
<1>6. FilesStay'
  BY <1>1, <1>2, FilesRebound DEF submitVars
<1>7. DoneIsDone' /\ OneKeyPerRun' /\ KeyHeld'
  BY <1>1, <1>2, SubmissionsKept DEF submitVars
<1> QED BY <1>4, <1>5, <1>6, <1>7 DEF ReportInv

LEMMA ChooseIssueKeepsInv ==
  ASSUME ReportInv, NEW i \in ReportIssues, ChooseIssue(i)
  PROVE  ReportInv'
<1>1. /\ ReportTyped /\ AnswersForTheChoice /\ FilesStay /\ NoForm \in ShownForms
      /\ screen.step = "service" /\ Starts("definition", screen.category, i) /\ Rebinds(NoForm)
      /\ screen' = [screen EXCEPT !.step = "service", !.issue = i, !.shown = NoForm,
                                  !.answers = NoChoice]
      /\ UNCHANGED <<catalog, submitVars>>
  BY DEF ReportInv, ChooseIssue, Selects, ShownForms
<1>2. /\ screen'.step = "service" /\ screen'.category = screen.category /\ screen'.shown = NoForm
      /\ screen'.items = screen.items /\ screen'.issue = i
      /\ screen' \in [step : {"service", "handoff", "form", "review", "left", "done"},
                      category : Areas, items : Areas, issue : Choices, shown : ShownForms,
                      answers : Replies \cup {NoChoice}]
  BY <1>1 DEF ReportTyped, Areas, Choices
<1>3. /\ loads' \subseteq [kind : {"issues", "definition", "handoff"}, category : Areas,
                           issue : Choices, latest : BOOLEAN]
      /\ \A l \in loads' :
           /\ l.kind # "issues" => l.issue \in ReportIssues
           /\ l.latest => l.kind = "definition" /\ l.category = screen.category /\ l.issue = i
  <2>1. screen.category \in Areas /\ i \in Choices
    BY <1>1 DEF ReportTyped, Choices
  <2> QED BY <1>1, <2>1, Started
<1>4. ReportTyped'
  BY <1>1, <1>2, <1>3, Rebound, ScreenTyped
<1>5. FormWhileFilled' /\ AnswersForTheChoice'
  BY <1>1, <1>2, <1>3 DEF FormWhileFilled, AnswersForTheChoice
<1>6. FilesStay'
  BY <1>1, <1>2, FilesRebound DEF submitVars
<1>7. DoneIsDone' /\ OneKeyPerRun' /\ KeyHeld'
  BY <1>1, <1>2, SubmissionsKept DEF submitVars
<1> QED BY <1>4, <1>5, <1>6, <1>7 DEF ReportInv

LEMMA GoBackKeepsInv ==
  ASSUME ReportInv, GoBack
  PROVE  ReportInv'
<1>1. /\ ReportTyped /\ AnswersForTheChoice /\ FilesStay /\ NoForm \in ShownForms
      /\ screen.step = "handoff" /\ loads' = Superseded /\ Rebinds(NoForm)
      /\ screen' = [screen EXCEPT !.step = "service", !.issue = NoChoice, !.shown = NoForm,
                                  !.answers = NoChoice]
      /\ UNCHANGED <<catalog, submitVars>>
  BY DEF ReportInv, GoBack, ShownForms
<1>2. /\ screen'.step = "service" /\ screen'.category = screen.category /\ screen'.shown = NoForm
      /\ screen'.items = screen.items
      /\ screen' \in [step : {"service", "handoff", "form", "review", "left", "done"},
                      category : Areas, items : Areas, issue : Choices, shown : ShownForms,
                      answers : Replies \cup {NoChoice}]
  BY <1>1 DEF ReportTyped, Areas, Choices
<1>3. ASSUME NEW l \in loads'
      PROVE  /\ l \in [kind : {"issues", "definition", "handoff"}, category : Areas,
                       issue : Choices, latest : BOOLEAN]
             /\ l.kind # "issues" => l.issue \in ReportIssues
             /\ ~l.latest
  <2>1. PICK k \in loads : l = [k EXCEPT !.latest = FALSE]
    BY <1>1 DEF Superseded
  <2> QED BY <1>1, <2>1 DEF ReportTyped, AnswersForTheChoice
<1>4. ReportTyped'
  <2>1. loads' \subseteq [kind : {"issues", "definition", "handoff"}, category : Areas,
                          issue : Choices, latest : BOOLEAN]
    BY <1>3
  <2> QED BY <1>1, <1>2, <2>1, Rebound, ScreenTyped
<1>5. FormWhileFilled' /\ AnswersForTheChoice'
  BY <1>1, <1>2, <1>3 DEF FormWhileFilled, AnswersForTheChoice
<1>6. FilesStay'
  BY <1>1, <1>2, FilesRebound DEF submitVars
<1>7. DoneIsDone' /\ OneKeyPerRun' /\ KeyHeld'
  BY <1>1, <1>2, SubmissionsKept DEF submitVars
<1> QED BY <1>4, <1>5, <1>6, <1>7 DEF ReportInv

\* An answer to a load that has been superseded, or that failed, is dropped.
LEMMA LoadFailsKeepsInv ==
  ASSUME ReportInv, NEW l \in loads, LoadFails(l)
  PROVE  ReportInv'
<1>1. loads' \subseteq loads /\ UNCHANGED <<catalog, screen, fileVars, submitVars>>
  BY DEF LoadFails
<1>2. ReportTyped' /\ FormWhileFilled' /\ AnswersForTheChoice'
  BY <1>1 DEF ReportInv, ReportTyped, FormWhileFilled, AnswersForTheChoice, fileVars, submitVars
<1>3. FilesStay' /\ DoneIsDone' /\ OneKeyPerRun' /\ KeyHeld'
  BY <1>1, FilesKept, SubmissionsKept DEF submitVars
<1> QED BY <1>2, <1>3 DEF ReportInv

LEMMA ListArrivesKeepsInv ==
  ASSUME ReportInv, NEW l \in loads, ListArrives(l)
  PROVE  ReportInv'
<1>1. /\ loads' \subseteq loads /\ UNCHANGED <<catalog, fileVars, submitVars>> /\ l.kind = "issues"
      /\ screen' = IF l.latest THEN [screen EXCEPT !.items = l.category] ELSE screen
  BY DEF ListArrives
<1>2. l.category \in Areas /\ (l.latest => l.category = screen.category)
  BY <1>1 DEF ReportInv, ReportTyped, AnswersForTheChoice
<1>3. /\ screen' \in [step : {"service", "handoff", "form", "review", "left", "done"},
                      category : Areas, items : Areas, issue : Choices, shown : ShownForms,
                      answers : Replies \cup {NoChoice}]
      /\ screen'.step = screen.step /\ screen'.category = screen.category
      /\ screen'.shown = screen.shown /\ screen'.issue = screen.issue
      /\ screen'.items \in {screen.items, screen.category}
  BY <1>1, <1>2 DEF ReportInv, ReportTyped
<1>4. ReportTyped' /\ FormWhileFilled' /\ AnswersForTheChoice'
  BY <1>1, <1>3 DEF ReportInv, ReportTyped, FormWhileFilled, AnswersForTheChoice, fileVars, submitVars
<1>5. FilesStay' /\ DoneIsDone' /\ OneKeyPerRun' /\ KeyHeld'
  BY <1>1, <1>3, FilesKept, SubmissionsKept DEF submitVars
<1> QED BY <1>4, <1>5 DEF ReportInv

LEMMA DefinitionArrivesKeepsInv ==
  ASSUME ReportInv, NEW l \in loads, DefinitionArrives(l)
  PROVE  ReportInv'
<1>1. CASE ~l.latest
  BY <1>1, LoadFailsKeepsInv DEF DefinitionArrives, Takes, LoadFails
<1>2. CASE l.latest
  <2> DEFINE shown == Form(l.issue)
  <2>1. /\ ReportTyped /\ FilesStay /\ loads' \subseteq loads
        /\ UNCHANGED <<catalog, submitVars>>
        /\ l.issue \in ReportIssues /\ l.issue = screen.issue
        /\ l.kind = "definition" /\ Rebinds(shown)
        /\ screen' = [screen EXCEPT !.shown = shown,
                        !.step = IF catalog[l.issue].link THEN "handoff" ELSE @]
    BY <1>2 DEF DefinitionArrives, Takes, ReportInv, AnswersForTheChoice
  <2>2. shown \in ShownForms /\ shown.issue = l.issue /\ shown # NoForm
    BY <2>1, FormOfIssue
  <2> HIDE DEF shown
  <2>3. screen.step # "done"
    BY <2>1 DEF ReportInv, DoneIsDone
  <2>4. /\ screen' \in [step : {"service", "handoff", "form", "review", "left", "done"},
                        category : Areas, items : Areas, issue : Choices, shown : ShownForms,
                        answers : Replies \cup {NoChoice}]
        /\ screen'.step # "done" /\ screen'.category = screen.category
        /\ screen'.shown = shown /\ screen'.issue = screen.issue /\ screen'.items = screen.items
    BY <2>1, <2>2, <2>3 DEF ReportTyped
  <2>5. ReportTyped'
    <3>1. loads' \subseteq [kind : {"issues", "definition", "handoff"}, category : Areas,
                            issue : Choices, latest : BOOLEAN]
      BY <2>1 DEF ReportTyped
    <3> QED BY <2>1, <2>2, <2>4, <3>1, Rebound, ScreenTyped
  <2>6. FormWhileFilled' /\ AnswersForTheChoice'
    BY <2>1, <2>2, <2>4 DEF ReportInv, FormWhileFilled, AnswersForTheChoice
  <2>7. FilesStay'
    BY <2>1, <2>2, <2>4, FilesRebound DEF submitVars
  <2>8. DoneIsDone' /\ OneKeyPerRun' /\ KeyHeld'
    BY <2>1, <2>3, <2>4, SubmissionsKept DEF submitVars
  <2> QED BY <2>5, <2>6, <2>7, <2>8 DEF ReportInv
<1> QED BY <1>1, <1>2 DEF ReportInv, ReportTyped

LEMMA HandoffArrivesKeepsInv ==
  ASSUME ReportInv, NEW l \in loads, HandoffArrives(l)
  PROVE  ReportInv'
<1>1. CASE ~l.latest
  BY <1>1, LoadFailsKeepsInv DEF HandoffArrives, LoadFails
<1>2. CASE l.latest
  <2> DEFINE shown == Form(l.issue)
  <2>1. /\ ReportTyped /\ FilesStay /\ loads' \subseteq loads
        /\ UNCHANGED <<catalog, submitVars>>
        /\ l.issue \in ReportIssues /\ l.issue = screen.issue
        /\ l.kind = "handoff" /\ Rebinds(shown)
        /\ \/ screen' = [screen EXCEPT !.shown = shown, !.answers = NoChoice, !.step = "form"]
           \/ screen' = [screen EXCEPT !.shown = shown, !.answers = NoChoice]
           \/ shown = screen.shown /\ screen' = [screen EXCEPT !.step = "left", !.answers = NoChoice]
    BY <1>2 DEF HandoffArrives, ReportInv, AnswersForTheChoice
  <2>2. shown \in ShownForms /\ shown.issue = l.issue /\ shown # NoForm
    BY <2>1, FormOfIssue
  <2> HIDE DEF shown
  <2>3. screen.step # "done"
    BY <2>1 DEF ReportInv, DoneIsDone
  <2>4. /\ screen' \in [step : {"service", "handoff", "form", "review", "left", "done"},
                        category : Areas, items : Areas, issue : Choices, shown : ShownForms,
                        answers : Replies \cup {NoChoice}]
        /\ screen'.step # "done" /\ screen'.category = screen.category
        /\ screen'.shown = shown /\ screen'.issue = screen.issue /\ screen'.items = screen.items
    <3>1. screen \in [step : {"service", "handoff", "form", "review", "left", "done"},
                      category : Areas, items : Areas, issue : Choices, shown : ShownForms,
                      answers : Replies \cup {NoChoice}]
      BY <2>1 DEF ReportTyped
    <3>2. CASE screen' = [screen EXCEPT !.shown = shown, !.answers = NoChoice, !.step = "form"]
      BY <2>2, <3>1, <3>2
    <3>3. CASE screen' = [screen EXCEPT !.shown = shown, !.answers = NoChoice]
      BY <2>2, <2>3, <3>1, <3>3
    <3>4. CASE /\ shown = screen.shown
               /\ screen' = [screen EXCEPT !.step = "left", !.answers = NoChoice]
      BY <2>2, <3>1, <3>4
    <3> QED BY <2>1, <3>2, <3>3, <3>4
  <2>5. ReportTyped'
    <3>1. loads' \subseteq [kind : {"issues", "definition", "handoff"}, category : Areas,
                            issue : Choices, latest : BOOLEAN]
      BY <2>1 DEF ReportTyped
    <3> QED BY <2>1, <2>2, <2>4, <3>1, Rebound, ScreenTyped
  <2>6. FormWhileFilled' /\ AnswersForTheChoice'
    BY <2>1, <2>2, <2>4 DEF ReportInv, FormWhileFilled, AnswersForTheChoice
  <2>7. FilesStay'
    BY <2>1, <2>2, <2>4, FilesRebound DEF submitVars
  <2>8. DoneIsDone' /\ OneKeyPerRun' /\ KeyHeld'
    BY <2>1, <2>3, <2>4, SubmissionsKept DEF submitVars
  <2> QED BY <2>5, <2>6, <2>7, <2>8 DEF ReportInv
<1> QED BY <1>1, <1>2 DEF ReportInv, ReportTyped

\* Trying to load the list again, or asking for the link once more: only a load begins.
LEMMA ReloadKeepsInv ==
  ASSUME ReportInv, RetryCategory \/ ContinueHandoff
  PROVE  ReportInv'
<1>1. /\ UNCHANGED <<catalog, screen, fileVars, submitVars>> /\ screen.step # "done"
      /\ \/ Starts("issues", screen.category, NoChoice)
         \/ Starts("handoff", screen.category, screen.issue) /\ screen.step = "handoff"
  BY DEF RetryCategory, ContinueHandoff
<1>2. screen.category \in Areas /\ screen.issue \in Choices /\ NoChoice \in Choices
  BY DEF ReportInv, ReportTyped, Choices
<1>3. screen.step = "handoff" => screen.issue \in ReportIssues
  BY DEF ReportInv, ReportTyped, FormWhileFilled, AnswersForTheChoice, ShownForms, IssueForms
<1>4. /\ loads' \subseteq [kind : {"issues", "definition", "handoff"}, category : Areas,
                           issue : Choices, latest : BOOLEAN]
      /\ \A l \in loads' :
           /\ l.kind # "issues" => l.issue \in ReportIssues
           /\ l.latest => IF l.kind = "issues" THEN l.category = screen.category
                                               ELSE l.issue = screen.issue
  <2>1. CASE Starts("issues", screen.category, NoChoice)
    <3>1. \A l \in loads' :
            /\ l.kind # "issues" => l.issue \in ReportIssues
            /\ l.latest => l.kind = "issues" /\ l.category = screen.category
      BY <1>2, <2>1, Started DEF ReportInv
    <3>2. loads' \subseteq [kind : {"issues", "definition", "handoff"}, category : Areas,
                            issue : Choices, latest : BOOLEAN]
      BY <1>2, <2>1, Started DEF ReportInv
    <3> QED BY <3>1, <3>2
  <2>2. CASE Starts("handoff", screen.category, screen.issue) /\ screen.step = "handoff"
    <3>1. \A l \in loads' :
            /\ l.kind # "issues" => l.issue \in ReportIssues
            /\ l.latest => l.kind = "handoff" /\ l.issue = screen.issue
      BY <1>2, <1>3, <2>2, Started DEF ReportInv
    <3>2. loads' \subseteq [kind : {"issues", "definition", "handoff"}, category : Areas,
                            issue : Choices, latest : BOOLEAN]
      BY <1>2, <1>3, <2>2, Started DEF ReportInv
    <3> QED BY <3>1, <3>2
  <2> QED BY <1>1, <2>1, <2>2
<1>5. ReportTyped' /\ FormWhileFilled' /\ AnswersForTheChoice'
  BY <1>1, <1>4 DEF ReportInv, ReportTyped, FormWhileFilled, AnswersForTheChoice, fileVars, submitVars
<1>6. FilesStay' /\ DoneIsDone' /\ OneKeyPerRun' /\ KeyHeld'
  BY <1>1, FilesKept, SubmissionsKept DEF submitVars
<1> QED BY <1>5, <1>6 DEF ReportInv

\* A new definition is published, or a retry window closes: the page does not change.
LEMMA ElsewhereKeepsInv ==
  ASSUME ReportInv, CloseWindow \/ \E i \in ReportIssues : Publish(i)
  PROVE  ReportInv'
<1>1. UNCHANGED <<screen, loads, fileVars, attempt, overdue, requests, meant>>
  BY DEF CloseWindow, Publish, submitVars
<1>2. catalog' \in [ReportIssues -> [version : Nat, link : BOOLEAN]]
  <2>1. CASE CloseWindow
    BY <2>1 DEF CloseWindow, ReportInv, ReportTyped
  <2>2. ASSUME NEW i \in ReportIssues, Publish(i)
        PROVE  catalog' \in [ReportIssues -> [version : Nat, link : BOOLEAN]]
    <3>1. PICK link \in {FALSE, (i \in Linkable)} :
            catalog' = [catalog EXCEPT ![i] = [version |-> @.version + 1, link |-> link]]
      BY <2>2 DEF Publish
    <3>2. link \in BOOLEAN
      <4>1. CASE i \in Linkable
        <5>1. (i \in Linkable) = TRUE
          BY <4>1
        <5> QED BY <5>1
      <4>2. CASE i \notin Linkable
        <5>1. (i \in Linkable) = FALSE
          BY <4>2
        <5> QED BY <5>1
      <4> QED BY <4>1, <4>2
    <3>3. catalog[i].version + 1 \in Nat
      BY DEF ReportInv, ReportTyped
    <3> QED BY <3>1, <3>2, <3>3 DEF ReportInv, ReportTyped
  <2> QED BY <2>1, <2>2
<1>3. ReportTyped' /\ FormWhileFilled' /\ AnswersForTheChoice'
  BY <1>1, <1>2 DEF ReportInv, ReportTyped, FormWhileFilled, AnswersForTheChoice, fileVars
<1>4. FilesStay' /\ DoneIsDone' /\ OneKeyPerRun' /\ KeyHeld'
  BY <1>1, FilesKept, SubmissionsKept
<1> QED BY <1>3, <1>4 DEF ReportInv

\* Answering, continuing to the form or the review, and going back.
LEMMA FormStepKeepsInv ==
  ASSUME ReportInv, Continue \/ Back \/ \E r \in Replies : Answer(r)
  PROVE  ReportInv'
<1>1. /\ UNCHANGED <<catalog, loads, fileVars, submitVars>>
      /\ screen.step \in {"service", "form", "review"}
      /\ screen.step = "service" => screen.shown # NoForm
      /\ \/ \E step \in {"service", "handoff", "form", "review"} : screen' = [screen EXCEPT !.step = step]
         \/ \E r \in Replies : screen' = [screen EXCEPT !.answers = r]
  BY DEF Continue, Back, Answer
<1>2. /\ screen' \in [step : {"service", "handoff", "form", "review", "left", "done"},
                      category : Areas, items : Areas, issue : Choices, shown : ShownForms,
                      answers : Replies \cup {NoChoice}]
      /\ screen'.step # "done" /\ screen'.shown = screen.shown /\ screen'.category = screen.category
      /\ screen'.issue = screen.issue /\ screen'.items = screen.items
  BY <1>1 DEF ReportInv, ReportTyped
<1>3. screen.shown # NoForm
  BY <1>1 DEF ReportInv, FormWhileFilled
<1>4. ReportTyped' /\ FormWhileFilled' /\ AnswersForTheChoice'
  BY <1>1, <1>2, <1>3
     DEF ReportInv, ReportTyped, FormWhileFilled, AnswersForTheChoice, fileVars, submitVars
<1>5. FilesStay' /\ DoneIsDone' /\ OneKeyPerRun' /\ KeyHeld'
  BY <1>1, <1>2, FilesKept, SubmissionsKept DEF submitVars
<1> QED BY <1>4, <1>5 DEF ReportInv

\* Choosing, removing and preparing files: only the files of the draft change.
LEMMA FileStepKeepsInv ==
  ASSUME ReportInv, SelectFiles \/ RemoveFiles \/ Prepare
  PROVE  ReportInv'
<1>1. /\ UNCHANGED <<catalog, screen, loads, offered, batches, submitVars>>
      /\ evidence.claim \in Nat
      /\ \E files \in {"none", "selected", "ready"}, claim \in {0, evidence.claim}, held \in BOOLEAN :
           evidence' = [files |-> files, claim |-> claim, busy |-> held]
  <2>1. evidence \in [files : {"none", "selected", "ready"}, claim : Nat, busy : BOOLEAN]
    BY DEF ReportInv, ReportTyped
  <2> QED BY <2>1 DEF SelectFiles, RemoveFiles, Prepare
<1>2. preparing' \subseteq preparing \cup
        {[form |-> screen.shown, batch |-> evidence.claim, aborted |-> FALSE]}
  BY DEF SelectFiles, RemoveFiles, Prepare
<1>3. screen.shown \in ShownForms
  BY DEF ReportInv, ReportTyped
<1>4. ReportTyped' /\ FormWhileFilled' /\ AnswersForTheChoice'
  <2>1. evidence' \in [files : {"none", "selected", "ready"}, claim : Nat, busy : BOOLEAN]
    BY <1>1
  <2>2. preparing' \subseteq [form : ShownForms, batch : Nat, aborted : BOOLEAN]
    <3>1. [form |-> screen.shown, batch |-> evidence.claim, aborted |-> FALSE]
            \in [form : ShownForms, batch : Nat, aborted : BOOLEAN]
      BY <1>1, <1>3
    <3> QED BY <1>2, <3>1 DEF ReportInv, ReportTyped
  <2> QED BY <1>1, <2>1, <2>2
             DEF ReportInv, ReportTyped, FormWhileFilled, AnswersForTheChoice, submitVars
<1>5. FilesStay'
  BY <1>1, <1>2 DEF ReportInv, FilesStay, StagedFor, submitVars
<1>6. DoneIsDone' /\ OneKeyPerRun' /\ KeyHeld'
  BY <1>1, SubmissionsKept DEF submitVars
<1> QED BY <1>4, <1>5, <1>6 DEF ReportInv

LEMMA BatchBeginsKeepsInv ==
  ASSUME ReportInv, NEW p \in preparing, BatchBegins(p)
  PROVE  ReportInv'
<1> DEFINE S == [form : ShownForms, open : BOOLEAN]
<1>0. PICK last : last = Len(batches) + 1
  OBVIOUS
<1>1. /\ UNCHANGED <<catalog, screen, loads, offered, submitVars>>
      /\ batches' = Append(batches, [form |-> p.form, open |-> ~p.aborted])
      /\ p \in [form : ShownForms, batch : Nat, aborted : BOOLEAN]
      /\ ~p.aborted => p.form = screen.shown
      /\ batches \in Seq(S)
  BY DEF ReportInv, ReportTyped, FilesStay, BatchBegins, Keeps
<1>2. [form |-> p.form, open |-> ~p.aborted] \in S
  BY <1>1
<1> HIDE DEF S
<1>3. /\ batches' \in Seq(S) /\ Len(batches') = last /\ last \in Nat \ {0}
      /\ DOMAIN batches' = 1..last /\ DOMAIN batches = 1..Len(batches) /\ Len(batches) \in Nat
      /\ \A n \in DOMAIN batches : n \in DOMAIN batches' /\ batches'[n] = batches[n]
      /\ last \in DOMAIN batches' /\ batches'[last].form = p.form
  BY <1>0, <1>1, <1>2, BatchBegun
<1>4. \/ /\ ~p.aborted /\ evidence' = [evidence EXCEPT !.claim = last]
         /\ preparing' \subseteq preparing \cup {[p EXCEPT !.batch = last]}
      \/ UNCHANGED evidence /\ preparing' \subseteq preparing
  BY <1>3 DEF BatchBegins, Keeps
<1>5. /\ evidence' \in [files : {"none", "selected", "ready"}, claim : Nat, busy : BOOLEAN]
      /\ preparing' \subseteq [form : ShownForms, batch : Nat, aborted : BOOLEAN]
  <2>1. [p EXCEPT !.batch = last] \in [form : ShownForms, batch : Nat, aborted : BOOLEAN]
    BY <1>1, <1>3
  <2>2. evidence' \in [files : {"none", "selected", "ready"}, claim : Nat, busy : BOOLEAN]
    BY <1>3, <1>4 DEF ReportInv, ReportTyped
  <2> QED BY <1>4, <2>1, <2>2 DEF ReportInv, ReportTyped
<1>6. ReportTyped' /\ FormWhileFilled' /\ AnswersForTheChoice'
  BY <1>1, <1>3, <1>5
     DEF ReportInv, ReportTyped, FormWhileFilled, AnswersForTheChoice, submitVars, S
<1>7. FilesStay'
  <2>1. ASSUME NEW n, NEW form, StagedFor(n, form)
        PROVE  StagedFor(n, form)'
    BY <1>3, <2>1 DEF StagedFor
  <2>2. StagedFor(last, p.form)'
    BY <1>3 DEF StagedFor
  <2>3. StagedFor(evidence.claim, screen.shown)'
    <3>1. StagedFor(evidence.claim, screen.shown)' \/ evidence' # evidence
      BY <1>1, <2>1 DEF ReportInv, FilesStay
    <3>2. evidence' # evidence => evidence'.claim = last /\ p.form = screen'.shown
      BY <1>1, <1>4 DEF ReportInv, ReportTyped
    <3> QED BY <2>2, <3>1, <3>2
  <2>4. ASSUME NEW q \in preparing'
        PROVE  StagedFor(q.batch, q.form)' /\ (~q.aborted => q.form = screen'.shown)
    <3>1. CASE q \in preparing
      BY <1>1, <2>1, <3>1 DEF ReportInv, FilesStay
    <3>2. CASE ~p.aborted /\ q = [p EXCEPT !.batch = last]
      BY <1>1, <2>2, <3>2
    <3> QED BY <1>4, <3>1, <3>2
  <2>5. attempt'.key # 0 => StagedFor(attempt.content.claim, attempt.content.form)'
    BY <1>1, <2>1 DEF ReportInv, FilesStay, submitVars
  <2>6. \A m \in overdue' \cup requests' : StagedFor(m.content.claim, m.content.form)'
    BY <1>1, <2>1 DEF ReportInv, FilesStay, submitVars
  <2> QED BY <2>3, <2>4, <2>5, <2>6 DEF FilesStay
<1>8. DoneIsDone' /\ OneKeyPerRun' /\ KeyHeld'
  BY <1>1, SubmissionsKept DEF submitVars
<1> QED BY <1>6, <1>7, <1>8 DEF ReportInv

LEMMA PrepareEndsKeepsInv ==
  ASSUME ReportInv, NEW p \in preparing, PrepareEnds(p)
  PROVE  ReportInv'
<1>1. /\ UNCHANGED <<catalog, screen, loads, offered, batches, submitVars>>
      /\ preparing' \subseteq preparing /\ evidence.claim \in Nat
      /\ \E files \in {"none", "selected", "ready"}, claim \in {0, evidence.claim}, held \in BOOLEAN :
           evidence' = [files |-> files, claim |-> claim, busy |-> held]
  <2>1. evidence \in [files : {"none", "selected", "ready"}, claim : Nat, busy : BOOLEAN]
    BY DEF ReportInv, ReportTyped
  <2> QED BY <2>1 DEF PrepareEnds
<1>2. ReportTyped' /\ FormWhileFilled' /\ AnswersForTheChoice'
  BY <1>1 DEF ReportInv, ReportTyped, FormWhileFilled, AnswersForTheChoice, submitVars
<1>3. FilesStay'
  BY <1>1 DEF ReportInv, FilesStay, StagedFor, submitVars
<1>4. DoneIsDone' /\ OneKeyPerRun' /\ KeyHeld'
  BY <1>1, SubmissionsKept DEF submitVars
<1> QED BY <1>2, <1>3, <1>4 DEF ReportInv

--------------------------------------------------------------------------------
(* The report page: submissions, and what the server makes of them.         *)

LEMMA SubmitKeepsInv ==
  ASSUME ReportInv, Submit
  PROVE  ReportInv'
<1> DEFINE again == meant.content = Filled /\ ~meant.told
           run == IF again THEN meant.run ELSE meant.run + 1
<1>1. PICK key \in 1..MaxRuns :
        /\ Unchanged(Filled) => key = attempt.key
        /\ attempt' = [key |-> key, content |-> Filled, sending |-> TRUE]
  BY DEF Submit
<1>2. /\ screen.step = "review" /\ UNCHANGED <<catalog, screen, loads, fileVars, overdue, requests>>
      /\ meant' = [content |-> Filled, run |-> run, told |-> FALSE]
  BY DEF Submit
<1>3. key \in Nat \ {0} /\ meant.run \in Nat /\ run \in Nat
  BY ReportAssumption DEF ReportInv, ReportTyped
<1>4. Filled \in Contents /\ StagedFor(Filled.claim, Filled.form)
  <2>1. screen.shown \in IssueForms
    BY <1>2 DEF ReportInv, ReportTyped, FormWhileFilled, ShownForms
  <2> QED BY <2>1 DEF ReportInv, ReportTyped, FilesStay, Filled, Contents, StagedFor
<1>5. again => attempt.key = key \/ overdue \cup requests = {}
  <2>1. CASE attempt.key # 0
    BY <1>1, <2>1 DEF ReportInv, KeyHeld, Unchanged
  <2>2. CASE attempt.key = 0
    BY <1>2, <2>2 DEF ReportInv, KeyHeld
  <2> QED BY <2>1, <2>2
<1> HIDE DEF again
<1>6. ReportTyped' /\ FormWhileFilled' /\ AnswersForTheChoice'
  BY <1>1, <1>2, <1>3, <1>4
     DEF ReportInv, ReportTyped, FormWhileFilled, AnswersForTheChoice, fileVars
<1>7. FilesStay'
  BY <1>1, <1>2, <1>4 DEF ReportInv, FilesStay, StagedFor, fileVars
<1>8. DoneIsDone' /\ KeyHeld'
  BY <1>1, <1>2, <1>3 DEF ReportInv, DoneIsDone, KeyHeld
<1>9. OneKeyPerRun'
  <2>1. ASSUME NEW m \in overdue \cup requests
        PROVE  m.run <= run /\ (m.run = run => m.key = key)
    <3>1. m.run \in Nat /\ m.run <= meant.run
      BY DEF ReportInv, ReportTyped, OneKeyPerRun, Messages
    <3>2. CASE again
      <4>1. attempt.key = key /\ attempt.key # 0
        BY <1>3, <1>5, <3>2
      <4> QED BY <3>1, <3>2, <4>1 DEF ReportInv, OneKeyPerRun
    <3>3. CASE ~again
      BY <1>3, <3>1, <3>3
    <3> QED BY <3>2, <3>3
  <2> QED BY <1>1, <1>2, <2>1 DEF ReportInv, OneKeyPerRun
<1> QED BY <1>6, <1>7, <1>8, <1>9 DEF ReportInv

\* What is recorded carries a key no request had; the batch keeps its form.
LEMMA RecordedOnce ==
  ASSUME ReportInv, NEW m \in Messages, StagedFor(m.content.claim, m.content.form), Records(m)
  PROVE  /\ requests' \subseteq requests \cup {m} /\ requests' \subseteq Messages
         /\ requests \subseteq requests'
         /\ requests' # requests => \A r \in requests : r.key # m.key
         /\ batches' \in Seq([form : ShownForms, open : BOOLEAN])
         /\ \A n, form : StagedFor(n, form) => StagedFor(n, form)'
<1>1. CASE UNCHANGED <<requests, batches>>
  BY <1>1 DEF ReportInv, ReportTyped, StagedFor
<1>2. CASE /\ ~KeyKnown(m) /\ requests' = requests \cup {m}
           /\ batches' = IF m.content.claim = 0 THEN batches
                         ELSE [batches EXCEPT ![m.content.claim].open = FALSE]
  <2>1. /\ batches' \in Seq([form : ShownForms, open : BOOLEAN])
        /\ DOMAIN batches' = DOMAIN batches
        /\ \A n \in DOMAIN batches : batches'[n].form = batches[n].form
    <3>1. batches \in Seq([form : ShownForms, open : BOOLEAN])
      BY DEF ReportInv, ReportTyped
    <3>2. CASE m.content.claim = 0
      BY <1>2, <3>1, <3>2
    <3>3. CASE m.content.claim # 0
      <4>1. m.content.claim \in DOMAIN batches
        BY <3>3 DEF StagedFor
      <4> QED BY <1>2, <3>1, <3>3, <4>1, BatchClosed
    <3> QED BY <3>2, <3>3
  <2>2. \A n, form : StagedFor(n, form) => StagedFor(n, form)'
    BY <2>1 DEF StagedFor
  <2> QED BY <1>2, <2>1, <2>2 DEF KeyKnown, ReportInv, ReportTyped
<1> QED BY <1>1, <1>2 DEF Records

\* The submission under way is a message, with the key of its run.
LEMMA UnderWay ==
  ASSUME ReportInv, attempt.sending
  PROVE  /\ attempt \in [key : Nat \ {0}, content : Contents, sending : BOOLEAN]
         /\ attempt.key # 0 /\ Submission \in Messages
         /\ StagedFor(Submission.content.claim, Submission.content.form)
         /\ screen.step # "done"
         /\ \A m \in overdue \cup requests : m.run = meant.run => m.key = attempt.key
<1>1. attempt \in [key : Nat \ {0}, content : Contents, sending : BOOLEAN]
  BY DEF ReportInv, ReportTyped, NoAttempt
<1>2. attempt.key # 0 /\ Submission \in Messages
  BY <1>1 DEF ReportInv, ReportTyped, Submission, Messages
<1>3. StagedFor(Submission.content.claim, Submission.content.form)
  BY <1>2 DEF ReportInv, FilesStay, Submission
<1>4. screen.step # "done"
  BY <1>2 DEF ReportInv, DoneIsDone, NoAttempt
<1>5. \A m \in overdue \cup requests : m.run = meant.run => m.key = attempt.key
  BY <1>2 DEF ReportInv, OneKeyPerRun
<1> QED BY <1>1, <1>2, <1>3, <1>4, <1>5

LEMMA AnsweredKeepsInv ==
  ASSUME ReportInv, Answered
  PROVE  ReportInv'
<1>1. /\ attempt.sending /\ Records(Submission)
      /\ attempt' = NoAttempt /\ evidence' = NoFiles /\ loads' = {} /\ preparing' = {}
      /\ screen' = [screen EXCEPT !.step = "done", !.answers = NoChoice]
      /\ UNCHANGED <<catalog, offered, overdue, closed, meant>>
  BY DEF Answered
<1>2. /\ Submission \in Messages /\ StagedFor(Submission.content.claim, Submission.content.form)
      /\ Submission.key = attempt.key /\ Submission.run = meant.run
      /\ \A m \in overdue \cup requests : m.run = meant.run => m.key = attempt.key
  BY <1>1, UnderWay DEF Submission
<1>3. PICK sent : sent = Submission
  OBVIOUS
<1>4. /\ requests' \subseteq requests \cup {sent} /\ requests' \subseteq Messages
      /\ requests' # requests => \A r \in requests : r.key # sent.key
      /\ batches' \in Seq([form : ShownForms, open : BOOLEAN])
      /\ \A n, form : StagedFor(n, form) => StagedFor(n, form)'
  BY <1>1, <1>2, <1>3, RecordedOnce
<1>5. ReportTyped'
  BY <1>1, <1>4 DEF ReportInv, ReportTyped, NoFiles
<1>6. FormWhileFilled' /\ AnswersForTheChoice' /\ DoneIsDone' /\ KeyHeld'
  BY <1>1 DEF ReportInv, ReportTyped, FormWhileFilled, AnswersForTheChoice, DoneIsDone, KeyHeld,
              NoAttempt
<1>7. FilesStay'
  <2>1. StagedFor(evidence.claim, screen.shown)'
    BY <1>1 DEF StagedFor, NoFiles
  <2>2. ASSUME NEW m \in overdue' \cup requests'
        PROVE  StagedFor(m.content.claim, m.content.form)'
    <3>1. m = sent \/ m \in overdue \cup requests
      BY <1>1, <1>4
    <3>2. StagedFor(m.content.claim, m.content.form)
      BY <1>2, <1>3, <3>1 DEF ReportInv, FilesStay
    <3> QED BY <1>4, <3>2
  <2>3. attempt'.key = 0 /\ preparing' = {}
    BY <1>1 DEF NoAttempt
  <2> QED BY <2>1, <2>2, <2>3 DEF FilesStay
<1>8. OneKeyPerRun'
  <2>1. ASSUME NEW m \in overdue' \cup requests'
        PROVE  m.run <= meant'.run /\ (m = sent \/ m \in overdue \cup requests)
    BY <1>1, <1>2, <1>3, <1>4 DEF ReportInv, ReportTyped, OneKeyPerRun
  <2>2. attempt'.key = 0
    BY <1>1 DEF NoAttempt
  <2> QED BY <1>1, <1>2, <1>3, <1>4, <2>1, <2>2 DEF ReportInv, OneKeyPerRun
<1> QED BY <1>5, <1>6, <1>7, <1>8 DEF ReportInv

\* Whichever Issue was chosen meanwhile, the page turns to the one of the submission.
LEMMA RefusedFormKeepsInv ==
  ASSUME ReportInv, RefusedForm
  PROVE  ReportInv'
<1> DEFINE i == attempt.content.form.issue
<1>1. /\ attempt.sending /\ Starts("definition", screen.category, i)
      /\ screen' = [screen EXCEPT !.step = "service", !.issue = i, !.shown = NoForm,
                                  !.answers = NoChoice]
      /\ attempt' = [attempt EXCEPT !.sending = FALSE] /\ evidence' = NoFiles
      /\ preparing' = {[p EXCEPT !.aborted = TRUE] : p \in preparing}
      /\ UNCHANGED <<catalog, offered, batches, overdue, requests, closed, meant>>
  BY DEF RefusedForm, Selects
<1>2. /\ attempt \in [key : Nat \ {0}, content : Contents, sending : BOOLEAN]
      /\ attempt.key # 0 /\ screen.step # "done"
  BY <1>1, UnderWay
<1>3. i \in ReportIssues /\ i \in Choices /\ screen.category \in Areas
  BY <1>2 DEF ReportInv, ReportTyped, Contents, IssueForms, Choices
<1> HIDE DEF i
<1>4. /\ loads' \subseteq [kind : {"issues", "definition", "handoff"}, category : Areas,
                           issue : Choices, latest : BOOLEAN]
      /\ \A l \in loads' :
           /\ l.kind # "issues" => l.issue \in ReportIssues
           /\ l.latest => l.kind = "definition" /\ l.category = screen.category /\ l.issue = i
  BY <1>1, <1>3, Started DEF ReportInv
<1>5. /\ screen' \in [step : {"service", "handoff", "form", "review", "left", "done"},
                      category : Areas, items : Areas, issue : Choices, shown : ShownForms,
                      answers : Replies \cup {NoChoice}]
      /\ screen'.step = "service" /\ screen'.category = screen.category
      /\ screen'.shown = NoForm /\ screen'.issue = i /\ screen'.items = screen.items
  BY <1>1, <1>3 DEF ReportInv, ReportTyped, ShownForms
<1>6. attempt' \in [key : Nat \ {0}, content : Contents, sending : BOOLEAN]
      /\ attempt'.key = attempt.key /\ attempt'.content = attempt.content
  BY <1>1, <1>2
<1>7. ASSUME NEW q \in preparing'
      PROVE  /\ q \in [form : ShownForms, batch : Nat, aborted : BOOLEAN]
             /\ StagedFor(q.batch, q.form)' /\ q.aborted
  <2>1. PICK p \in preparing : q = [p EXCEPT !.aborted = TRUE]
    BY <1>1
  <2>2. p \in [form : ShownForms, batch : Nat, aborted : BOOLEAN] /\ StagedFor(p.batch, p.form)
    BY DEF ReportInv, ReportTyped, FilesStay
  <2> QED BY <1>1, <2>1, <2>2 DEF StagedFor
<1>8. ReportTyped'
  <2>1. evidence' \in [files : {"none", "selected", "ready"}, claim : Nat, busy : BOOLEAN]
    BY <1>1 DEF NoFiles
  <2>2. preparing' \subseteq [form : ShownForms, batch : Nat, aborted : BOOLEAN]
    BY <1>7
  <2> QED BY <1>1, <1>4, <1>5, <1>6, <2>1, <2>2 DEF ReportInv, ReportTyped
<1>9. FormWhileFilled' /\ AnswersForTheChoice' /\ DoneIsDone'
  BY <1>4, <1>5 DEF ReportInv, FormWhileFilled, AnswersForTheChoice, DoneIsDone
<1>10. FilesStay'
  <2>1. StagedFor(evidence.claim, screen.shown)'
    BY <1>1 DEF StagedFor, NoFiles
  <2>2. \A q \in preparing' :
          StagedFor(q.batch, q.form)' /\ (~q.aborted => q.form = screen'.shown)
    BY <1>7
  <2>3. StagedFor(attempt.content.claim, attempt.content.form)'
    BY <1>1, <1>2, <1>6 DEF ReportInv, FilesStay, StagedFor
  <2>4. \A m \in overdue' \cup requests' : StagedFor(m.content.claim, m.content.form)'
    BY <1>1 DEF ReportInv, FilesStay, StagedFor
  <2> QED BY <2>1, <2>2, <2>3, <2>4 DEF FilesStay
<1>11. OneKeyPerRun' /\ KeyHeld'
  BY <1>1, <1>2, <1>6 DEF ReportInv, OneKeyPerRun, KeyHeld
<1> QED BY <1>8, <1>9, <1>10, <1>11 DEF ReportInv

LEMMA RefusedKeyKeepsInv ==
  ASSUME ReportInv, RefusedKey
  PROVE  ReportInv'
<1>1. /\ attempt.sending /\ attempt' = NoAttempt /\ meant' = [meant EXCEPT !.told = TRUE]
      /\ UNCHANGED <<catalog, screen, loads, fileVars, overdue, requests, closed>>
  BY DEF RefusedKey
<1>2. screen.step # "done" /\ meant'.told /\ meant'.run = meant.run
  BY <1>1, UnderWay DEF ReportInv, ReportTyped
<1>3. ReportTyped' /\ FormWhileFilled' /\ AnswersForTheChoice'
  BY <1>1, <1>2 DEF ReportInv, ReportTyped, FormWhileFilled, AnswersForTheChoice, fileVars
<1>4. FilesStay' /\ DoneIsDone' /\ OneKeyPerRun' /\ KeyHeld'
  BY <1>1, <1>2 DEF ReportInv, FilesStay, StagedFor, DoneIsDone, OneKeyPerRun, KeyHeld, NoAttempt,
                    fileVars
<1> QED BY <1>3, <1>4 DEF ReportInv

LEMMA GetsNoReceiptKeepsInv ==
  ASSUME ReportInv, GetsNoReceipt
  PROVE  ReportInv'
<1>1. /\ attempt.sending /\ attempt' = [attempt EXCEPT !.sending = FALSE]
      /\ overdue' = overdue \cup {Submission}
      /\ UNCHANGED <<catalog, screen, loads, fileVars, requests, closed, meant>>
  BY DEF GetsNoReceipt, HeldAfterFailure
<1>2. /\ attempt \in [key : Nat \ {0}, content : Contents, sending : BOOLEAN]
      /\ attempt.key # 0 /\ Submission \in Messages /\ screen.step # "done"
      /\ StagedFor(Submission.content.claim, Submission.content.form)
      /\ Submission.key = attempt.key /\ Submission.run = meant.run
      /\ \A m \in overdue \cup requests : m.run = meant.run => m.key = attempt.key
  BY <1>1, UnderWay DEF Submission
<1>3. PICK sent : sent = Submission
  OBVIOUS
<1>4. attempt' \in [key : Nat \ {0}, content : Contents, sending : BOOLEAN]
      /\ attempt'.key = attempt.key /\ attempt'.content = attempt.content
  BY <1>1, <1>2
<1>5. ReportTyped' /\ FormWhileFilled' /\ AnswersForTheChoice' /\ DoneIsDone'
  BY <1>1, <1>2, <1>4
     DEF ReportInv, ReportTyped, FormWhileFilled, AnswersForTheChoice, DoneIsDone, fileVars
<1>6. FilesStay'
  BY <1>1, <1>2, <1>3, <1>4 DEF ReportInv, FilesStay, StagedFor, fileVars
<1>7. OneKeyPerRun'
  <2>1. ASSUME NEW m \in overdue' \cup requests'
        PROVE  m = sent \/ m \in overdue \cup requests
    BY <1>1, <1>3
  <2>2. meant.run \in Nat
    BY DEF ReportInv, ReportTyped
  <2> QED BY <1>1, <1>2, <1>3, <1>4, <2>1, <2>2 DEF ReportInv, OneKeyPerRun
<1>8. KeyHeld'
  BY <1>1, <1>2, <1>4 DEF ReportInv, KeyHeld
<1> QED BY <1>5, <1>6, <1>7, <1>8 DEF ReportInv

LEMMA ArrivesLateKeepsInv ==
  ASSUME ReportInv, NEW m \in overdue, ArrivesLate(m)
  PROVE  ReportInv'
<1>1. /\ overdue' \subseteq overdue /\ Records(m)
      /\ UNCHANGED <<catalog, screen, loads, offered, evidence, preparing, attempt, closed, meant>>
  BY DEF ArrivesLate
<1>2. m \in Messages /\ StagedFor(m.content.claim, m.content.form)
  BY DEF ReportInv, ReportTyped, FilesStay
<1>3. /\ requests' \subseteq requests \cup {m} /\ requests' \subseteq Messages
      /\ requests' # requests => \A r \in requests : r.key # m.key
      /\ batches' \in Seq([form : ShownForms, open : BOOLEAN])
      /\ \A n, form : StagedFor(n, form) => StagedFor(n, form)'
  BY <1>1, <1>2, RecordedOnce
<1>4. overdue' \cup requests' \subseteq overdue \cup requests
  BY <1>1, <1>3
<1>5. ReportTyped' /\ FormWhileFilled' /\ AnswersForTheChoice' /\ DoneIsDone'
  BY <1>1, <1>3 DEF ReportInv, ReportTyped, FormWhileFilled, AnswersForTheChoice, DoneIsDone
<1>6. FilesStay'
  BY <1>1, <1>3, <1>4 DEF ReportInv, FilesStay
<1>7. OneKeyPerRun' /\ KeyHeld'
  BY <1>1, <1>3, <1>4 DEF ReportInv, OneKeyPerRun, KeyHeld
<1> QED BY <1>5, <1>6, <1>7 DEF ReportInv

LEMMA ReportStep ==
  ASSUME ReportInv, [ReportNext]_reportVars
  PROVE  ReportInv'
<1>1. CASE UNCHANGED reportVars
  BY <1>1 DEF ReportInv, ReportTyped, FormWhileFilled, AnswersForTheChoice, FilesStay, StagedFor,
              DoneIsDone, OneKeyPerRun, KeyHeld, reportVars
<1>2. ASSUME NEW i \in ReportIssues, Publish(i) \/ ChooseIssue(i) PROVE ReportInv'
  BY <1>2, ElsewhereKeepsInv, ChooseIssueKeepsInv
<1>3. ASSUME NEW c \in Categories, ChooseCategory(c) PROVE ReportInv'
  BY <1>3, ChooseCategoryKeepsInv
<1>4. ASSUME NEW l \in loads,
             ListArrives(l) \/ DefinitionArrives(l) \/ HandoffArrives(l) \/ LoadFails(l)
      PROVE  ReportInv'
  BY <1>4, ListArrivesKeepsInv, DefinitionArrivesKeepsInv, HandoffArrivesKeepsInv,
     LoadFailsKeepsInv
<1>5. CASE RetryCategory \/ ContinueHandoff
  BY <1>5, ReloadKeepsInv
<1>6. CASE GoBack
  BY <1>6, GoBackKeepsInv
<1>7. CASE Continue \/ Back \/ \E r \in Replies : Answer(r)
  BY <1>7, FormStepKeepsInv
<1>8. CASE SelectFiles \/ RemoveFiles \/ Prepare
  BY <1>8, FileStepKeepsInv
<1>9. ASSUME NEW p \in preparing, BatchBegins(p) \/ PrepareEnds(p) PROVE ReportInv'
  BY <1>9, BatchBeginsKeepsInv, PrepareEndsKeepsInv
<1>10. CASE Submit \/ Answered \/ RefusedForm \/ RefusedKey \/ GetsNoReceipt
  BY <1>10, SubmitKeepsInv, AnsweredKeepsInv, RefusedFormKeepsInv, RefusedKeyKeepsInv,
     GetsNoReceiptKeepsInv
<1>11. ASSUME NEW m \in overdue, ArrivesLate(m) PROVE ReportInv'
  BY <1>11, ArrivesLateKeepsInv
<1>12. CASE CloseWindow
  BY <1>12, ElsewhereKeepsInv
<1> QED BY <1>1, <1>2, <1>3, <1>4, <1>5, <1>6, <1>7, <1>8, <1>9, <1>10, <1>11, <1>12
           DEF ReportNext

\* The report page keeps to the Issue chosen, to the files staged for it and to the key of its
\* submission, however late its loads and the answers to its submissions come
\* (ReportIssuePage.jsx:152).
THEOREM ReportInvariant == ReportSpec => []ReportInv
<1>1. ReportInit => ReportInv
  BY ReportInitially
<1>2. ReportInv /\ [ReportNext]_reportVars => ReportInv'
  BY ReportStep
<1> QED BY <1>1, <1>2, PTL DEF ReportSpec

\* However often a resident submits the same report, whichever answers are lost and
\* whatever arrives late, it is recorded once, unless the page was told that the key
\* holds no longer (ReportIssuePage.jsx:418).
THEOREM ReportRetriedOnce == ReportSpec => []RetriesReportOnce
<1>1. ReportInv => RetriesReportOnce
  BY DEF ReportInv, OneKeyPerRun, RetriesReportOnce
<1> QED BY <1>1, ReportInvariant, PTL

\* The form on the page is of the Issue chosen last and the list of its Category,
\* however late the answers to earlier choices come; files are recorded with the form
\* they were staged for (ReportIssuePage.jsx:223, Attachments.jsx:147).
THEOREM ReportShowsTheChoice == ReportSpec => []ShowsTheChosenIssue
<1>1. ReportInv => ShowsTheChosenIssue
  BY DEF ReportInv, AnswersForTheChoice, FilesStay, StagedFor, ShowsTheChosenIssue
<1> QED BY <1>1, ReportInvariant, PTL

--------------------------------------------------------------------------------
(* The request page: the inductive invariant.                               *)

PageAnswers == [kind : {"none", "asked", "data", "gone", "forbidden", "failed"}, revision : Nat,
                contact : BOOLEAN]
PageCommands == [phase : {"none", "sent", "answered", "reading"},
                 kind : {"none", "routine", "narrative", "routing", "manage"},
                 expected : Nat, picked : Nat, refused : BOOLEAN,
                 result : {"none", "ok", "unknown", "forbidden", "gone", "stale", "conflict"}]
Panels == [kind : {"none", "narrative", "routing", "manage", "contact"}, picked : Nat,
           refused : BOOLEAN]
Destinations == [on : Nat, chosen : BOOLEAN, refused : BOOLEAN]

PageTyped ==
  /\ stored \in [revision : Nat, access : {"all", "parent", "none"}]
  /\ view \in [kind : {"loading", "failed", "data"}, revision : Nat, contact : BOOLEAN]
  /\ reads \in [Reads -> PageAnswers]
  /\ panel \in Panels /\ destination \in Destinations
  /\ contact \in {"none", "loading", "shown", "protected", "error"}
  /\ command \in PageCommands /\ strays \subseteq PageCommands /\ busy \in BOOLEAN

\* The details and what was asked about them belong to the open dialog, and
\* those that may still be shown to a request whose details may be read.
ContactAsked ==
  /\ contact # "none" => Shown /\ panel.kind = "contact"
  /\ \A r \in {"contact", "protected"} :
       reads[r].kind # "none" => Shown /\ panel.kind = "contact"
  /\ contact = "shown" \/ reads["contact"].kind # "none" => view.contact

\* A target is picked on the revision that is shown.
PickCurrent == panel.kind = "manage" => panel.picked \in {0, view.revision}

ScreenInv == PageTyped /\ ContactAsked /\ PickCurrent

\* Nothing the page knows is ahead of the request; what was refused as stale is behind it.
PageBehind ==
  /\ \A r \in Reads : reads[r].revision <= stored.revision
  /\ view.revision <= stored.revision /\ command.expected <= stored.revision
  /\ command.result = "stale" => command.expected < stored.revision

\* The buttons are disabled while there is a command, and the reads after a command are for its result.
OneCommand ==
  /\ command.phase # "none" => busy
  /\ reads["done"].kind # "none" => command.phase = "reading" /\ command.result = "ok"
  /\ reads["conflict"].kind # "none" =>
       command.phase = "reading" /\ command.result \in {"stale", "conflict"}
  /\ reads["denied"].kind # "none" => command.phase = "reading" /\ command.result = "forbidden"

\* While a command is out, a target that is still picked is the one it names.
PickedAsSent ==
  command.phase \in {"sent", "answered"} /\ panel.kind = "manage" /\ panel.picked # 0 =>
    panel.picked = command.expected

\* A choice that was refused is left only until the page has been read again.
RefusedUntilRead ==
  /\ panel.refused => /\ panel.kind = "manage" /\ view.revision < stored.revision
                      /\ command.phase = "reading" /\ command.result = "stale"
                      /\ reads["conflict"].kind = "data" => reads["conflict"].revision > view.revision
  /\ destination.refused /\ Shown => command.phase = "reading" /\ command.result = "stale"

ChoiceInv ==
  /\ PageBehind /\ OneCommand /\ PickedAsSent /\ RefusedUntilRead
  /\ TargetsNameTheirPick /\ RefusedChoicesEnd

PageInv == ScreenInv /\ ChoiceInv

LEMMA RequestPageInitially == RequestPageInit => PageInv
<1> SUFFICES ASSUME RequestPageInit PROVE PageInv
  OBVIOUS
<1>1. /\ reads \in [Reads -> PageAnswers] /\ \A r \in Reads : reads[r].revision = 0
      /\ \A r \in Reads \ {"load"} : reads[r].kind = "none"
  BY DEF RequestPageInit, Bare, PageAnswers
<1>2. {"contact", "protected", "done", "conflict", "denied"} \subseteq Reads \ {"load"}
  BY DEF Reads
<1>3. PageTyped
  BY <1>1 DEF RequestPageInit, PageTyped, Bare, NoPanel, NoCommand, PageCommands, Panels, AsRead, Destinations
<1>4. ContactAsked /\ PickCurrent
  BY <1>1, <1>2 DEF RequestPageInit, ContactAsked, PickCurrent, Bare, NoPanel
<1>5. PageBehind
  BY <1>1 DEF RequestPageInit, PageBehind, Bare, NoCommand
<1>6. OneCommand /\ PickedAsSent /\ RefusedUntilRead /\ TargetsNameTheirPick /\ RefusedChoicesEnd
  BY <1>1, <1>2 DEF RequestPageInit, OneCommand, PickedAsSent, RefusedUntilRead, TargetsNameTheirPick,
                    RefusedChoicesEnd, Bare, NoPanel, AsRead, NoCommand
<1> QED BY <1>3, <1>4, <1>5, <1>6 DEF PageInv, ScreenInv, ChoiceInv

\* Asking for a read, having done with it, forgetting those of the details.
LEMMA ReadsSet ==
  ASSUME NEW rs \in [Reads -> PageAnswers], NEW r \in Reads
  PROVE  /\ Ask(rs, r) \in [Reads -> PageAnswers] /\ Done(rs, r) \in [Reads -> PageAnswers]
         /\ \A q \in Reads \ {r} : Ask(rs, r)[q] = rs[q] /\ Done(rs, r)[q] = rs[q]
         /\ Ask(rs, r)[r].kind = "asked" /\ Done(rs, r)[r].kind = "none"
BY DEF Ask, Done, Bare, PageAnswers

LEMMA Forgotten ==
  ASSUME NEW rs \in [Reads -> PageAnswers]
  PROVE  /\ ForgetsContact(rs) \in [Reads -> PageAnswers]
         /\ ForgetsContact(rs)["contact"].kind = "none"
         /\ ForgetsContact(rs)["protected"].kind = "none"
BY DEF ForgetsContact, Bare, PageAnswers, Reads

\* What the page shows, and what is open on it.
OnPage ==
  /\ view \in [kind : {"loading", "failed", "data"}, revision : Nat, contact : BOOLEAN]
  /\ reads \in [Reads -> PageAnswers]
  /\ panel \in Panels /\ destination \in Destinations
  /\ contact \in {"none", "loading", "shown", "protected", "error"}
  /\ ContactAsked /\ PickCurrent

\* Nothing in rs is asked about the details that was not asked before.
AsksNoMore(rs) ==
  /\ rs \in [Reads -> PageAnswers]
  /\ \A r \in {"contact", "protected"} : rs[r].kind # "none" => reads[r].kind # "none"

LEMMA AnswerAsksNoMore ==
  ASSUME ScreenInv, NEW r \in Reads
  PROVE  /\ AsksNoMore(reads) /\ AsksNoMore(Done(reads, r))
         /\ r \notin {"contact", "protected"} => AsksNoMore(Ask(reads, r))
<1>1. reads \in [Reads -> PageAnswers] /\ {"contact", "protected"} \subseteq Reads
  BY DEF ScreenInv, PageTyped, Reads
<1>2. AsksNoMore(reads)
  BY <1>1 DEF AsksNoMore
<1>3. Done(reads, r) \in [Reads -> PageAnswers] /\ Ask(reads, r) \in [Reads -> PageAnswers]
  BY <1>1, ReadsSet
<1>4. ASSUME NEW q \in {"contact", "protected"}
      PROVE  /\ Done(reads, r)[q].kind # "none" => reads[q].kind # "none"
             /\ q # r => Ask(reads, r)[q] = reads[q]
  <2>1. q \in Reads
    BY <1>1
  <2>2. CASE q = r
    BY <1>1, <2>2, ReadsSet
  <2>3. CASE q # r
    BY <1>1, <2>1, <2>3, ReadsSet
  <2> QED BY <2>2, <2>3
<1> QED BY <1>2, <1>3, <1>4 DEF AsksNoMore

LEMMA ShowsOnPage ==
  ASSUME ScreenInv, NEW data \in PageAnswers, data.kind = "data", NEW rs, AsksNoMore(rs),
         ShowRequest(data, rs), destination' \in Destinations
  PROVE  OnPage'
<1>1. /\ view' = data /\ panel' = PanelFor(data.revision)
      /\ view'.kind = "data" /\ view'.revision = data.revision /\ data.revision \in Nat
      /\ view' \in [kind : {"loading", "failed", "data"}, revision : Nat, contact : BOOLEAN]
  BY DEF ShowRequest, PageAnswers
<1>2. /\ panel' \in Panels /\ panel'.kind = panel.kind
      /\ panel'.kind = "manage" => panel'.picked \in {0, view'.revision}
  BY <1>1 DEF ScreenInv, PageTyped, PickCurrent, PanelFor, Panels
<1>3. CASE data.contact
  <2>1. contact' = contact /\ reads' = rs /\ view'.contact
    BY <1>1, <1>3 DEF ShowRequest
  <2> QED BY <1>1, <1>2, <2>1
             DEF OnPage, ScreenInv, PageTyped, ContactAsked, PickCurrent, AsksNoMore, Shown
<1>4. CASE ~data.contact
  <2>1. contact' = "none" /\ reads' = ForgetsContact(rs)
    BY <1>4 DEF ShowRequest
  <2>2. /\ reads' \in [Reads -> PageAnswers]
        /\ reads'["contact"].kind = "none" /\ reads'["protected"].kind = "none"
    BY <2>1, Forgotten DEF AsksNoMore
  <2> QED BY <1>1, <1>2, <2>1, <2>2 DEF OnPage, ContactAsked, PickCurrent
<1> QED BY <1>3, <1>4

\* read() fills the routing form as well.
LEMMA ReadShowsOnPage ==
  ASSUME ScreenInv, NEW data \in PageAnswers, data.kind = "data", NEW rs, AsksNoMore(rs),
         ShowRead(data, rs)
  PROVE  OnPage'
<1>1. destination' \in Destinations /\ ShowRequest(data, rs)
  BY DEF ShowRead, AsRead, Destinations, PageAnswers
<1> QED BY <1>1, ShowsOnPage

LEMMA HidesOnPage ==
  ASSUME ScreenInv, NEW rs \in [Reads -> PageAnswers], Hide(rs)
  PROVE  OnPage'
<1>1. /\ reads' \in [Reads -> PageAnswers]
      /\ reads'["contact"].kind = "none" /\ reads'["protected"].kind = "none"
  BY Forgotten DEF Hide
<1> QED BY <1>1 DEF OnPage, Hide, Bare, NoPanel, AsRead, Panels, Destinations, ContactAsked, PickCurrent

\* The request as such, and the commands.
Commanded ==
  /\ stored \in [revision : Nat, access : {"all", "parent", "none"}]
  /\ command \in PageCommands /\ strays \subseteq PageCommands /\ busy \in BOOLEAN

LEMMA PageParts ==
  ASSUME OnPage', Commanded'
  PROVE  ScreenInv'
BY DEF ScreenInv, PageTyped, OnPage, Commanded

LEMMA OnPageKept ==
  ASSUME ScreenInv, UNCHANGED <<view, panel, destination, contact>>, AsksNoMore(reads')
  PROVE  OnPage'
BY DEF ScreenInv, PageTyped, ContactAsked, PickCurrent, OnPage, AsksNoMore, Shown

LEMMA NoCommandTyped == NoCommand \in PageCommands
BY DEF NoCommand, PageCommands

LEMMA CommandedKept ==
  ASSUME ScreenInv, UNCHANGED <<stored, strays>>, UNCHANGED <<command, busy>> \/ Ends
  PROVE  Commanded'
BY NoCommandTyped DEF ScreenInv, PageTyped, Commanded, Ends

--------------------------------------------------------------------------------
(* The request page: each action keeps the invariant.                       *)

\* What others do, and what the server answers.
LEMMA ElsewhereKeepsScreen ==
  ASSUME ScreenInv, Elsewhere
  PROVE  ScreenInv'
BY DEF Elsewhere, ScreenInv, PageTyped, ContactAsked, PickCurrent, Shown

LEMMA ServeReadKeepsScreen ==
  ASSUME ScreenInv, NEW r \in Reads, ServeRead(r)
  PROVE  ScreenInv'
<1>1. PICK answer :
        /\ answer = Bare("failed") \/ answer = Bare("gone") \/ answer = Bare("forbidden")
             \/ answer = Snapshot
        /\ reads' = [reads EXCEPT ![r] = answer]
  BY DEF ServeRead
<1>2. answer \in PageAnswers
  <2>1. /\ Bare("failed") \in PageAnswers /\ Bare("gone") \in PageAnswers
        /\ Bare("forbidden") \in PageAnswers
    BY DEF Bare, PageAnswers
  <2>2. Snapshot \in PageAnswers
    BY DEF ScreenInv, PageTyped, Snapshot, PageAnswers
  <2> QED BY <1>1, <2>1, <2>2
<1>3. /\ reads[r].kind = "asked" /\ reads \in [Reads -> PageAnswers]
      /\ UNCHANGED <<stored, view, panel, destination, contact, command, busy, strays>>
  BY DEF ServeRead, ScreenInv, PageTyped
<1>4. AsksNoMore(reads')
  BY <1>1, <1>2, <1>3 DEF AsksNoMore, Reads
<1>5. OnPage' /\ Commanded'
  BY <1>3, <1>4, OnPageKept, CommandedKept
<1> QED BY <1>5, PageParts

LEMMA LoadArrivesKeepsScreen ==
  ASSUME ScreenInv, LoadArrives
  PROVE  ScreenInv'
<1>1. "load" \in Reads /\ reads["load"] \in PageAnswers
  BY DEF ScreenInv, PageTyped, Reads
<1>2. AsksNoMore(Done(reads, "load")) /\ Done(reads, "load") \in [Reads -> PageAnswers]
  BY <1>1, AnswerAsksNoMore DEF AsksNoMore
<1>3. OnPage'
  BY <1>1, <1>2, ReadShowsOnPage, HidesOnPage DEF LoadArrives
<1>4. Commanded'
  BY CommandedKept DEF LoadArrives
<1> QED BY <1>3, <1>4, PageParts

LEMMA RereadArrivesKeepsScreen ==
  ASSUME ScreenInv, NEW r \in Reads, RereadArrives(r)
  PROVE  ScreenInv'
<1>1. reads[r] \in PageAnswers
  BY DEF ScreenInv, PageTyped
<1>2. AsksNoMore(Done(reads, r)) /\ Done(reads, r) \in [Reads -> PageAnswers]
  BY AnswerAsksNoMore DEF AsksNoMore
<1>3. OnPage'
  BY <1>1, <1>2, ReadShowsOnPage, HidesOnPage DEF RereadArrives
<1>4. Commanded'
  BY CommandedKept DEF RereadArrives
<1> QED BY <1>3, <1>4, PageParts

LEMMA RecheckArrivesKeepsScreen ==
  ASSUME ScreenInv, NEW r \in Reads, RecheckArrives(r)
  PROVE  ScreenInv'
<1>1. reads[r] \in PageAnswers
  BY DEF ScreenInv, PageTyped
<1>2. AsksNoMore(Done(reads, r)) /\ Done(reads, r) \in [Reads -> PageAnswers]
  BY AnswerAsksNoMore DEF AsksNoMore
<1>3. CASE reads[r].kind # "data"
  BY <1>2, <1>3, HidesOnPage, CommandedKept, PageParts DEF RecheckArrives
<1>4. CASE reads[r].kind = "data" /\ Shown
  BY <1>1, <1>2, <1>4, ShowsOnPage, CommandedKept, PageParts DEF RecheckArrives, ScreenInv, PageTyped
<1>5. CASE reads[r].kind = "data" /\ ~Shown
  BY <1>2, <1>5, OnPageKept, CommandedKept, PageParts DEF RecheckArrives
<1> QED BY <1>3, <1>4, <1>5

LEMMA PartRefusedKeepsScreen ==
  ASSUME ScreenInv, PartRefused
  PROVE  ScreenInv'
<1>1. "recheck" \in Reads /\ reads \in [Reads -> PageAnswers] /\ AsksNoMore(Ask(reads, "recheck"))
  BY AnswerAsksNoMore DEF ScreenInv, PageTyped, Reads
<1>2. OnPage'
  BY <1>1, OnPageKept, HidesOnPage DEF PartRefused
<1>3. Commanded'
  BY CommandedKept DEF PartRefused
<1> QED BY <1>2, <1>3, PageParts

\* The request for the details is all that is asked beyond what was.
LEMMA ContactIsAsked ==
  ASSUME NEW rs \in [Reads -> PageAnswers]
  PROVE  /\ Ask(rs, "contact") \in [Reads -> PageAnswers]
         /\ Ask(rs, "protected") \in [Reads -> PageAnswers]
         /\ Ask(rs, "protected")["contact"] = rs["contact"]
BY ReadsSet DEF Reads

LEMMA OpenPanelKeepsScreen ==
  ASSUME ScreenInv, NEW kind \in {"narrative", "routing", "manage", "contact"}, OpenPanel(kind)
  PROVE  ScreenInv'
<1>1. /\ Shown /\ panel.kind \in {"none", "routing"} /\ panel'.kind = kind
      /\ UNCHANGED <<stored, view, destination, command, busy, strays>>
  BY DEF OpenPanel, Opens, NoPanel
<1>0. panel' \in Panels /\ (kind # "narrative" => panel'.picked = 0)
  BY DEF OpenPanel, NoPanel, Panels, ScreenInv, PageTyped
<1>2. /\ contact = "none" /\ reads["contact"].kind = "none" /\ reads["protected"].kind = "none"
      /\ reads \in [Reads -> PageAnswers]
  BY <1>1 DEF ScreenInv, PageTyped, ContactAsked
<1>3. CASE kind = "contact" /\ view.contact
  <2>1. contact' = "loading" /\ reads' = Ask(reads, "contact")
    BY <1>3 DEF OpenPanel
  <2>2. OnPage'
    BY <1>0, <1>1, <1>2, <1>3, <2>1, ContactIsAsked
       DEF OnPage, ScreenInv, PageTyped, ContactAsked, PickCurrent, Shown
  <2> QED BY <1>1, <2>2, CommandedKept, PageParts
<1>4. CASE ~(kind = "contact" /\ view.contact)
  <2>1. OnPage'
    BY <1>0, <1>1, <1>2, <1>4 DEF OpenPanel, OnPage, ScreenInv, PageTyped, ContactAsked, PickCurrent, Shown
  <2> QED BY <1>1, <2>1, CommandedKept, PageParts
<1> QED BY <1>3, <1>4

LEMMA ReloadContactKeepsScreen ==
  ASSUME ScreenInv, ReloadContact
  PROVE  ScreenInv'
<1>1. /\ Shown /\ panel.kind = "contact" /\ view.contact
      /\ contact' = "loading" /\ reads' = Ask(reads, "contact")
      /\ UNCHANGED <<stored, view, panel, destination, command, busy, strays>>
  BY DEF ReloadContact, MayLoadContact
<1>2. OnPage'
  BY <1>1, ContactIsAsked DEF OnPage, ScreenInv, PageTyped, ContactAsked, PickCurrent, Shown
<1> QED BY <1>1, <1>2, CommandedKept, PageParts

LEMMA ClosePanelKeepsScreen ==
  ASSUME ScreenInv, ClosePanel
  PROVE  ScreenInv'
<1>1. panel' = NoPanel /\ UNCHANGED <<stored, view, destination, command, busy, strays>>
  BY DEF ClosePanel
<1>2. CASE panel.kind = "contact"
  <2>1. contact' = "none" /\ reads' = ForgetsContact(reads)
    BY <1>2 DEF ClosePanel
  <2>2. OnPage'
    BY <1>1, <2>1, Forgotten DEF OnPage, ScreenInv, PageTyped, ContactAsked, PickCurrent, NoPanel, Panels
  <2> QED BY <1>1, <2>2, CommandedKept, PageParts
<1>3. CASE panel.kind # "contact"
  <2>1. UNCHANGED <<contact, reads>>
    BY <1>3 DEF ClosePanel
  <2>2. OnPage'
    BY <1>1, <1>3, <2>1 DEF OnPage, ScreenInv, PageTyped, ContactAsked, PickCurrent, NoPanel, Panels
  <2> QED BY <1>1, <2>2, CommandedKept, PageParts
<1> QED BY <1>2, <1>3

LEMMA PickKeepsScreen ==
  ASSUME ScreenInv, Pick
  PROVE  ScreenInv'
<1>1. OnPage'
  BY DEF Pick, OnPage, ScreenInv, PageTyped, ContactAsked, PickCurrent, Shown, Panels
<1> QED BY <1>1, CommandedKept, PageParts DEF Pick

LEMMA ChooseDestinationKeepsScreen ==
  ASSUME ScreenInv, ChooseDestination
  PROVE  ScreenInv'
<1>1. OnPage'
  BY DEF ChooseDestination, OnPage, ScreenInv, PageTyped, ContactAsked, PickCurrent, Shown, Destinations
<1> QED BY <1>1, CommandedKept, PageParts DEF ChooseDestination

LEMMA ContactArrivesKeepsScreen ==
  ASSUME ScreenInv, ContactArrives
  PROVE  ScreenInv'
<1> DEFINE rest == Done(reads, "contact")
<1>1. "contact" \in Reads /\ "protected" \in Reads /\ reads \in [Reads -> PageAnswers]
  BY DEF ScreenInv, PageTyped, Reads
<1>2. /\ rest \in [Reads -> PageAnswers] /\ rest["contact"].kind = "none"
      /\ rest["protected"] = reads["protected"]
  BY <1>1, ReadsSet
<1>3. /\ Shown /\ panel.kind = "contact" /\ view.contact
      /\ UNCHANGED <<stored, command, busy, strays>>
  BY DEF ContactArrives, ScreenInv, ContactAsked
<1>4. Commanded'
  BY <1>3, CommandedKept
<1>5. CASE reads["contact"].kind \in {"data", "failed"}
  <2>1. contact' \in {"shown", "error"} /\ reads' = rest /\ UNCHANGED <<view, panel, destination>>
    BY <1>5 DEF ContactArrives
  <2>2. OnPage'
    BY <1>2, <1>3, <2>1 DEF OnPage, ScreenInv, PageTyped, ContactAsked, PickCurrent, Shown
  <2> QED BY <1>4, <2>2, PageParts
<1>6. CASE reads["contact"].kind = "forbidden"
  <2>1. contact' = "protected" /\ reads' = Ask(rest, "protected") /\ UNCHANGED <<view, panel, destination>>
    BY <1>6 DEF ContactArrives
  <2>2. reads' \in [Reads -> PageAnswers] /\ reads'["contact"].kind = "none"
    BY <1>2, <2>1, ContactIsAsked
  <2>3. OnPage'
    BY <1>3, <2>1, <2>2 DEF OnPage, ScreenInv, PageTyped, ContactAsked, PickCurrent, Shown
  <2> QED BY <1>4, <2>3, PageParts
<1>7. CASE reads["contact"].kind = "gone"
  <2>1. OnPage'
    BY <1>2, <1>7, HidesOnPage DEF ContactArrives
  <2> QED BY <1>4, <2>1, PageParts
<1> QED BY <1>1, <1>5, <1>6, <1>7 DEF ContactArrives, PageAnswers

LEMMA ProtectedArrivesKeepsScreen ==
  ASSUME ScreenInv, NEW r \in Reads, ProtectedArrives(r)
  PROVE  ScreenInv'
<1>1. reads[r] \in PageAnswers
  BY DEF ScreenInv, PageTyped
<1>2. AsksNoMore(Done(reads, r)) /\ Done(reads, r) \in [Reads -> PageAnswers]
  BY AnswerAsksNoMore DEF AsksNoMore
<1>3. Commanded'
  BY CommandedKept DEF ProtectedArrives
<1>4. OnPage'
  <2>1. CASE reads[r].kind = "data"
    BY <1>1, <1>2, <2>1, ReadShowsOnPage DEF ProtectedArrives
  <2>2. CASE r = "protected" /\ reads[r].kind # "data"
    BY <1>2, <2>2, HidesOnPage DEF ProtectedArrives
  <2>3. CASE r # "protected" /\ reads[r].kind # "data"
    BY <1>2, <2>3, OnPageKept DEF ProtectedArrives
  <2> QED BY <2>1, <2>2, <2>3
<1> QED BY <1>3, <1>4, PageParts

--------------------------------------------------------------------------------
(* The request page: commands.                                              *)

LEMMA SendCommandKeepsScreen ==
  ASSUME ScreenInv, NEW kind \in {"routine", "narrative", "routing", "manage"}, SendCommand(kind)
  PROVE  ScreenInv'
<1>1. /\ command' = [phase |-> "sent", kind |-> kind, expected |-> view.revision, result |-> "none",
                     picked |-> Choice(kind).on, refused |-> Choice(kind).refused]
      /\ busy' = TRUE /\ UNCHANGED <<stored, view, reads, panel, destination, contact, strays>>
  BY DEF SendCommand
<1>2. command' \in PageCommands
  <2>1. Choice(kind).on \in Nat /\ Choice(kind).refused \in BOOLEAN /\ view.revision \in Nat
    BY DEF Choice, ScreenInv, PageTyped, Panels, Destinations
  <2> QED BY <1>1, <2>1 DEF PageCommands
<1>3. Commanded'
  BY <1>1, <1>2 DEF Commanded, ScreenInv, PageTyped
<1>4. OnPage'
  BY <1>1 DEF OnPage, ScreenInv, PageTyped, ContactAsked, PickCurrent, Shown
<1> QED BY <1>3, <1>4, PageParts

LEMMA ServeCommandKeepsScreen ==
  ASSUME ScreenInv, ServeCommand
  PROVE  ScreenInv'
<1>1. PICK result : command' = [command EXCEPT !.phase = "answered", !.result = result]
                      /\ result \in {"ok", "unknown", "forbidden", "gone", "stale", "conflict"}
  BY DEF ServeCommand, Refusals
<1>2. command' \in PageCommands
  BY <1>1 DEF ScreenInv, PageTyped, PageCommands
<1>3. stored' \in [revision : Nat, access : {"all", "parent", "none"}]
  <2>1. stored \in [revision : Nat, access : {"all", "parent", "none"}]
    BY DEF ScreenInv, PageTyped
  <2>2. stored' = stored \/ stored' = [stored EXCEPT !.revision = @ + 1]
    BY DEF ServeCommand
  <2> QED BY <2>1, <2>2
<1>4. UNCHANGED <<view, reads, panel, destination, contact, busy, strays>>
  BY DEF ServeCommand
<1>5. Commanded'
  BY <1>2, <1>3, <1>4 DEF Commanded, ScreenInv, PageTyped
<1>6. OnPage'
  BY <1>4 DEF OnPage, ScreenInv, PageTyped, ContactAsked, PickCurrent, Shown
<1> QED BY <1>5, <1>6, PageParts

LEMMA ServeStrayKeepsScreen ==
  ASSUME ScreenInv, ServeStray
  PROVE  ScreenInv'
<1>1. /\ stored' \in [revision : Nat, access : {"all", "parent", "none"}]
      /\ strays' \subseteq strays /\ UNCHANGED <<view, reads, panel, destination, contact, command, busy>>
  BY DEF ServeStray, ScreenInv, PageTyped
<1>2. Commanded'
  BY <1>1 DEF Commanded, ScreenInv, PageTyped
<1>3. OnPage'
  BY <1>1 DEF OnPage, ScreenInv, PageTyped, ContactAsked, PickCurrent, Shown
<1> QED BY <1>2, <1>3, PageParts

LEMMA CommandArrivesKeepsScreen ==
  ASSUME ScreenInv, CommandArrives
  PROVE  ScreenInv'
<1>1. /\ {"done", "conflict", "denied"} \subseteq Reads
      /\ reads \in [Reads -> PageAnswers] /\ UNCHANGED <<stored, strays>>
      /\ \A r \in {"done", "conflict", "denied"} : AsksNoMore(Ask(reads, r))
  <2>1. {"done", "conflict", "denied"} \subseteq Reads
    BY DEF Reads
  <2>2. \A r \in {"done", "conflict", "denied"} : AsksNoMore(Ask(reads, r))
    BY <2>1, AnswerAsksNoMore
  <2> QED BY <2>1, <2>2 DEF CommandArrives, ScreenInv, PageTyped
<1>2. Commanded'
  <2>1. CASE command' = [command EXCEPT !.phase = "reading"] /\ UNCHANGED busy
    <3>1. command' \in PageCommands
      BY <2>1 DEF ScreenInv, PageTyped, PageCommands
    <3> QED BY <1>1, <2>1, <3>1 DEF Commanded, ScreenInv, PageTyped
  <2>2. CASE Ends
    BY <1>1, <2>2, CommandedKept
  <2> QED BY <2>1, <2>2 DEF CommandArrives
<1>3. OnPage'
  <2>1. CASE /\ FormsClose /\ reads' = Ask(reads, IF command.result = "ok" THEN "done" ELSE "conflict")
             /\ destination' = IF command.kind # "routing" THEN destination
                               ELSE [destination EXCEPT !.refused = command.result = "stale"]
             /\ UNCHANGED <<view, contact>>
    <3>1. AsksNoMore(reads')
      BY <1>1, <2>1
    <3>2. /\ panel' \in Panels /\ panel'.kind \in {"none", panel.kind}
          /\ panel.kind \in {"contact", "manage"} => panel'.kind = panel.kind /\ panel'.picked = panel.picked
      BY <2>1 DEF FormsClose, NoPanel, Panels, ScreenInv, PageTyped
    <3>3. destination' \in Destinations
      BY <2>1 DEF Destinations, ScreenInv, PageTyped
    <3> QED BY <2>1, <3>1, <3>2, <3>3
               DEF OnPage, ScreenInv, PageTyped, ContactAsked, PickCurrent, Shown, AsksNoMore
  <2>2. CASE reads' = Ask(reads, "denied") /\ UNCHANGED <<view, panel, destination, contact>>
    BY <1>1, <2>2, OnPageKept
  <2>3. CASE UNCHANGED <<view, reads, panel, destination, contact>>
    BY <2>3 DEF OnPage, ScreenInv, PageTyped, ContactAsked, PickCurrent, Shown
  <2>4. CASE Hide(reads)
    BY <1>1, <2>4, HidesOnPage
  <2> QED BY <2>1, <2>2, <2>3, <2>4 DEF CommandArrives
<1> QED BY <1>2, <1>3, PageParts

\* Trying again, and leaving the page and opening it again.
LEMMA ReopenKeepsScreen ==
  ASSUME ScreenInv, Retry \/ Reopen
  PROVE  ScreenInv'
<1>1. /\ \E kind \in {"failed", "loading"} : view' = Bare(kind)
      /\ OnlyLoad /\ panel' = NoPanel /\ contact' = "none" /\ command' = NoCommand /\ Abandons
      /\ UNCHANGED stored /\ busy' \in BOOLEAN /\ destination' \in Destinations
  <2>1. destination' \in {destination, AsRead(0)} /\ AsRead(0) \in Destinations
    BY DEF Retry, Reopen, AsRead, Destinations
  <2>2. CASE Retry
    BY <2>1, <2>2 DEF Retry, ScreenInv, PageTyped
  <2>3. CASE Reopen
    BY <2>1, <2>3 DEF Reopen, Ends, ScreenInv, PageTyped
  <2> QED BY <2>2, <2>3
<1>2. /\ reads' \in [Reads -> PageAnswers]
      /\ reads'["contact"].kind = "none" /\ reads'["protected"].kind = "none"
  BY <1>1 DEF OnlyLoad, Bare, PageAnswers, Reads
<1>3. OnPage'
  BY <1>1, <1>2 DEF OnPage, Bare, NoPanel, Panels, ContactAsked, PickCurrent
<1>4. Commanded'
  BY <1>1, NoCommandTyped DEF Commanded, Abandons, ScreenInv, PageTyped
<1> QED BY <1>3, <1>4, PageParts

LEMMA ScreenStep ==
  ASSUME ScreenInv, [RequestPageNext]_pageVars
  PROVE  ScreenInv'
<1>1. CASE UNCHANGED pageVars
  BY <1>1 DEF pageVars, ScreenInv, PageTyped, ContactAsked, PickCurrent, Shown
<1>2. CASE Elsewhere \/ LoadArrives \/ PartRefused \/ ReloadContact \/ ClosePanel
           \/ Pick \/ ChooseDestination
  BY <1>2, ElsewhereKeepsScreen, LoadArrivesKeepsScreen, PartRefusedKeepsScreen, ReloadContactKeepsScreen,
     ClosePanelKeepsScreen, PickKeepsScreen, ChooseDestinationKeepsScreen
<1>3. CASE ContactArrives \/ ServeCommand \/ ServeStray \/ CommandArrives \/ Retry \/ Reopen
  BY <1>3, ContactArrivesKeepsScreen, ServeCommandKeepsScreen, ServeStrayKeepsScreen,
     CommandArrivesKeepsScreen, ReopenKeepsScreen
<1>4. ASSUME NEW r \in Reads,
             ServeRead(r) \/ RereadArrives(r) \/ RecheckArrives(r) \/ ProtectedArrives(r)
      PROVE  ScreenInv'
  BY <1>4, ServeReadKeepsScreen, RereadArrivesKeepsScreen, RecheckArrivesKeepsScreen,
     ProtectedArrivesKeepsScreen
<1>5. ASSUME NEW kind \in {"narrative", "routing", "manage", "contact"}, OpenPanel(kind)
      PROVE  ScreenInv'
  BY <1>5, OpenPanelKeepsScreen
<1>6. ASSUME NEW kind \in {"routine", "narrative", "routing", "manage"}, SendCommand(kind)
      PROVE  ScreenInv'
  BY <1>6, SendCommandKeepsScreen
<1> QED BY <1>1, <1>2, <1>3, <1>4, <1>5, <1>6 DEF RequestPageNext

--------------------------------------------------------------------------------
(* The request page: each action keeps what holds of its choices.           *)

CommandReads == {"done", "conflict", "denied"}

\* Reads rs of the request as it is, with none for a command that was not there.
ReadsHold(rs) ==
  /\ rs \in [Reads -> PageAnswers] /\ \A r \in Reads : rs[r].revision <= stored.revision
  /\ \A r \in CommandReads : rs[r] = reads[r] \/ rs[r].kind = "none"

\* No choice is refused that was not, and none is made while a command is out.
ChoicesKept ==
  /\ view'.revision <= stored.revision
  /\ panel'.refused => panel.refused /\ panel'.kind = panel.kind /\ view'.revision = view.revision
  /\ panel'.kind = "manage" /\ panel'.picked # 0 =>
       command.phase = "none" \/ (panel.kind = "manage" /\ panel'.picked = panel.picked)
  /\ destination'.refused /\ Shown' => destination.refused /\ Shown

LEMMA ReadsHeld ==
  ASSUME PageInv
  PROVE  /\ ReadsHold(reads)
         /\ \A rs : ReadsHold(rs) => ReadsHold(ForgetsContact(rs))
         /\ \A rs : \A r \in Reads : ReadsHold(rs) => ReadsHold(Done(rs, r))
         /\ \A rs : \A r \in Reads \ CommandReads : ReadsHold(rs) => ReadsHold(Ask(rs, r))
<1>1. /\ stored.revision \in Nat /\ reads \in [Reads -> PageAnswers]
      /\ \A r \in Reads : reads[r].revision <= stored.revision /\ 0 <= stored.revision
  BY DEF PageInv, ScreenInv, PageTyped, ChoiceInv, PageBehind
<1>2. ReadsHold(reads)
  BY <1>1 DEF ReadsHold
<1>3. ASSUME NEW rs, ReadsHold(rs)
      PROVE  ReadsHold(ForgetsContact(rs))
  <2>1. ForgetsContact(rs) \in [Reads -> PageAnswers]
    BY <1>3, Forgotten DEF ReadsHold
  <2>2. \A r \in Reads : ForgetsContact(rs)[r] \in {rs[r], rs["protected"], Bare("none")}
    BY <1>3 DEF ForgetsContact, ReadsHold, Reads
  <2>3. \A r \in CommandReads : ForgetsContact(rs)[r] = rs[r]
    BY <1>3 DEF ForgetsContact, ReadsHold, Reads, CommandReads
  <2>4. "protected" \in Reads /\ Bare("none").revision = 0
    BY DEF Reads, Bare
  <2>5. \A r \in Reads : ForgetsContact(rs)[r].revision <= stored.revision
    BY <1>1, <1>3, <2>2, <2>4 DEF ReadsHold
  <2> QED BY <1>3, <2>1, <2>3, <2>5 DEF ReadsHold
<1>4. ASSUME NEW rs, NEW r \in Reads, ReadsHold(rs)
      PROVE  /\ ReadsHold(Done(rs, r))
             /\ r \notin CommandReads => ReadsHold(Ask(rs, r))
  <2>1. Done(rs, r) \in [Reads -> PageAnswers] /\ Ask(rs, r) \in [Reads -> PageAnswers]
    BY <1>4, ReadsSet DEF ReadsHold
  <2>2. \A q \in Reads : /\ Done(rs, r)[q] = IF q = r THEN Bare("none") ELSE rs[q]
                         /\ Ask(rs, r)[q] = IF q = r THEN Bare("asked") ELSE rs[q]
    BY <1>4 DEF Done, Ask, ReadsHold
  <2>3. Bare("none").revision = 0 /\ Bare("asked").revision = 0 /\ Bare("none").kind = "none"
    BY DEF Bare
  <2>4. CommandReads \subseteq Reads
    BY DEF CommandReads, Reads
  <2> QED BY <1>1, <1>4, <2>1, <2>2, <2>3, <2>4 DEF ReadsHold
<1> QED BY <1>2, <1>3, <1>4

\* The command goes on.
LEMMA CommandGoesOn ==
  ASSUME PageInv, UNCHANGED <<stored, command, busy, strays>>, ReadsHold(reads'), ChoicesKept
  PROVE  ChoiceInv'
<1>1. PageBehind' /\ OneCommand'
  BY DEF PageInv, ChoiceInv, PageBehind, OneCommand, ReadsHold, ChoicesKept, CommandReads
<1>2. PickedAsSent'
  BY DEF PageInv, ChoiceInv, PickedAsSent, ChoicesKept
<1>3. RefusedUntilRead'
  <2>1. reads'["conflict"] = reads["conflict"] \/ reads'["conflict"].kind = "none"
    BY DEF ReadsHold, CommandReads
  <2>2. ASSUME panel'.refused
        PROVE  /\ panel'.kind = "manage" /\ view'.revision < stored'.revision
               /\ command'.phase = "reading" /\ command'.result = "stale"
               /\ reads'["conflict"].kind = "data" => reads'["conflict"].revision > view'.revision
    BY <2>1, <2>2 DEF PageInv, ChoiceInv, RefusedUntilRead, ChoicesKept
  <2>3. destination'.refused /\ Shown' => command'.phase = "reading" /\ command'.result = "stale"
    BY DEF PageInv, ChoiceInv, RefusedUntilRead, ChoicesKept
  <2> QED BY <2>2, <2>3 DEF RefusedUntilRead
<1>4. TargetsNameTheirPick' /\ RefusedChoicesEnd'
  BY DEF PageInv, ChoiceInv, TargetsNameTheirPick, RefusedChoicesEnd
<1> QED BY <1>1, <1>2, <1>3, <1>4 DEF ChoiceInv

\* The command is over: nothing is read for it, and nothing it was refused for is left.
LEMMA CommandIsOver ==
  ASSUME PageInv, command' = NoCommand, UNCHANGED stored, strays' \subseteq strays \cup {command},
         ReadsHold(reads'), \A r \in CommandReads : reads'[r].kind = "none",
         view'.revision <= stored.revision, ~panel'.refused, ~(destination'.refused /\ Shown')
  PROVE  ChoiceInv'
<1>1. PageBehind'
  BY DEF PageInv, ScreenInv, PageTyped, PageBehind, ReadsHold, NoCommand
<1>2. OneCommand' /\ PickedAsSent' /\ RefusedUntilRead'
  BY DEF OneCommand, PickedAsSent, RefusedUntilRead, CommandReads, NoCommand
<1>3. TargetsNameTheirPick' /\ RefusedChoicesEnd'
  BY DEF PageInv, ChoiceInv, TargetsNameTheirPick, RefusedChoicesEnd, NoCommand
<1> QED BY <1>1, <1>2, <1>3 DEF ChoiceInv

\* A page shown anew keeps what was picked only at the revision it was picked on.
LEMMA ShownChoices ==
  ASSUME PageInv, NEW data \in PageAnswers, data.kind = "data", data.revision <= stored.revision,
         NEW rs, ReadsHold(rs), ShowRequest(data, rs)
  PROVE  /\ ReadsHold(reads') /\ view' = data
         /\ panel'.refused => panel.refused /\ panel'.kind = panel.kind /\ data.revision = view.revision
         /\ panel'.kind = "manage" /\ panel'.picked # 0 =>
              panel.kind = "manage" /\ panel'.picked = panel.picked
<1>1. ReadsHold(reads') /\ view' = data /\ panel' = PanelFor(data.revision)
  BY ReadsHeld DEF ShowRequest
<1>2. panel \in Panels /\ (panel.refused => panel.kind = "manage")
  BY DEF PageInv, ScreenInv, PageTyped, ChoiceInv, RefusedUntilRead
<1> QED BY <1>1, <1>2 DEF PanelFor, Panels

\* A page that is read: nothing in the routing form is refused.
LEMMA ReadChoices ==
  ASSUME PageInv, NEW r \in Reads, reads[r].kind = "data", ShowRead(reads[r], Done(reads, r))
  PROVE  /\ ReadsHold(reads') /\ ChoicesKept /\ ~destination'.refused
         /\ view'.revision = reads[r].revision
<1>1. /\ reads[r] \in PageAnswers /\ reads[r].revision <= stored.revision
      /\ ReadsHold(Done(reads, r))
  BY ReadsHeld DEF PageInv, ScreenInv, PageTyped, ChoiceInv, PageBehind
<1>2. ShowRequest(reads[r], Done(reads, r)) /\ ~destination'.refused
  BY DEF ShowRead, AsRead
<1> QED BY <1>1, <1>2, ShownChoices DEF ChoicesKept

\* A page without the request on it.
LEMMA HiddenChoices ==
  ASSUME PageInv, NEW rs, ReadsHold(rs), Hide(rs)
  PROVE  ReadsHold(reads') /\ ChoicesKept /\ ~Shown' /\ ~panel'.refused
<1>1. ReadsHold(reads')
  BY ReadsHeld DEF Hide
<1>2. stored.revision \in Nat
  BY DEF PageInv, ScreenInv, PageTyped
<1> QED BY <1>1, <1>2 DEF Hide, ChoicesKept, Bare, NoPanel, AsRead, Shown

\* The request advances, and the page is as it was.
LEMMA RequestAdvances ==
  ASSUME PageInv, ScreenInv', stored'.revision >= stored.revision, strays' \subseteq strays,
         UNCHANGED <<view, reads, panel, destination, command, busy>>
  PROVE  ChoiceInv'
<1>1. /\ stored.revision \in Nat /\ stored'.revision \in Nat /\ view.revision \in Nat
      /\ command.expected \in Nat /\ \A r \in Reads : reads[r].revision \in Nat
  BY DEF PageInv, ScreenInv, PageTyped, PageAnswers, PageCommands
<1>2. PageBehind'
  BY <1>1 DEF PageInv, ChoiceInv, PageBehind
<1>3. OneCommand' /\ PickedAsSent' /\ RefusedUntilRead'
  BY <1>1 DEF PageInv, ChoiceInv, OneCommand, PickedAsSent, RefusedUntilRead, Shown
<1>4. TargetsNameTheirPick' /\ RefusedChoicesEnd'
  BY DEF PageInv, ChoiceInv, TargetsNameTheirPick, RefusedChoicesEnd
<1> QED BY <1>2, <1>3, <1>4 DEF ChoiceInv

LEMMA OthersKeepChoices ==
  ASSUME PageInv, ScreenInv', Elsewhere \/ ServeStray
  PROVE  ChoiceInv'
<1>1. stored \in [revision : Nat, access : {"all", "parent", "none"}]
  BY DEF PageInv, ScreenInv, PageTyped
<1>2. stored'.revision >= stored.revision
  BY <1>1 DEF Elsewhere, ServeStray
<1>3. strays' \subseteq strays /\ UNCHANGED <<view, reads, panel, destination, command, busy>>
  BY DEF Elsewhere, ServeStray
<1> QED BY <1>2, <1>3, RequestAdvances

\* An answer is of the request as it is now, and so ahead of whatever was refused.
LEMMA ServeReadKeepsChoices ==
  ASSUME PageInv, NEW r \in Reads, ServeRead(r)
  PROVE  ChoiceInv'
<1>1. PICK answer :
        /\ answer = Bare("failed") \/ answer = Bare("gone") \/ answer = Bare("forbidden")
             \/ answer = Snapshot
        /\ reads' = [reads EXCEPT ![r] = answer]
  BY DEF ServeRead
<1>2. /\ answer.kind # "none" /\ answer.revision <= stored.revision
      /\ answer.kind = "data" => answer.revision = stored.revision
  BY <1>1 DEF Bare, Snapshot, PageInv, ScreenInv, PageTyped
<1>3. /\ reads[r].kind = "asked" /\ reads \in [Reads -> PageAnswers]
      /\ UNCHANGED <<stored, view, panel, destination, command, busy, strays>>
  BY DEF ServeRead, PageInv, ScreenInv, PageTyped
<1>4. /\ \A q \in Reads : reads'[q] = IF q = r THEN answer ELSE reads[q]
      /\ {"done", "conflict", "denied"} \subseteq Reads
  BY <1>1, <1>3 DEF Reads
<1>5. PageBehind'
  BY <1>2, <1>3, <1>4 DEF PageInv, ChoiceInv, PageBehind
<1>6. OneCommand'
  BY <1>2, <1>3, <1>4 DEF PageInv, ChoiceInv, OneCommand
<1>7. RefusedUntilRead'
  BY <1>2, <1>3, <1>4 DEF PageInv, ChoiceInv, RefusedUntilRead, Shown
<1>8. PickedAsSent' /\ TargetsNameTheirPick' /\ RefusedChoicesEnd'
  BY <1>3 DEF PageInv, ChoiceInv, PickedAsSent, TargetsNameTheirPick, RefusedChoicesEnd
<1> QED BY <1>5, <1>6, <1>7, <1>8 DEF ChoiceInv

LEMMA LoadArrivesKeepsChoices ==
  ASSUME PageInv, LoadArrives
  PROVE  ChoiceInv'
<1>1. "load" \in Reads /\ ReadsHold(Done(reads, "load"))
  BY ReadsHeld DEF Reads
<1>2. ReadsHold(reads') /\ ChoicesKept
  BY <1>1, ReadChoices, HiddenChoices DEF LoadArrives
<1> QED BY <1>2, CommandGoesOn DEF LoadArrives

\* The read after a command is the only one for it.
LEMMA RereadArrivesKeepsChoices ==
  ASSUME PageInv, NEW r \in Reads, RereadArrives(r)
  PROVE  ChoiceInv'
<1>1. /\ r \in {"done", "conflict"} /\ reads[r].kind # "none" /\ command.phase = "reading"
      /\ r = "done" => command.result = "ok"
      /\ r = "conflict" => command.result \in {"stale", "conflict"}
  BY DEF RereadArrives, PageInv, ChoiceInv, OneCommand
<1>2. \A q \in CommandReads \ {r} : reads[q].kind = "none"
  BY <1>1 DEF CommandReads, PageInv, ChoiceInv, OneCommand
<1>3. Done(reads, r)[r].kind = "none" /\ ReadsHold(Done(reads, r))
  BY ReadsSet, ReadsHeld DEF PageInv, ScreenInv, PageTyped
<1>4. \A q \in CommandReads \ {r} : Done(reads, r)[q].kind = "none"
  BY <1>2, <1>3 DEF ReadsHold
<1>5. \A q \in CommandReads : reads'[q].kind = "none"
  <2>1. reads' = Done(reads, r) \/ reads' = ForgetsContact(Done(reads, r))
    BY DEF RereadArrives, ShowRead, ShowRequest, Hide
  <2>2. \A q \in CommandReads : ForgetsContact(Done(reads, r))[q] = Done(reads, r)[q]
    BY <1>3 DEF ForgetsContact, ReadsHold, CommandReads, Reads
  <2> QED BY <1>3, <1>4, <2>1, <2>2
<1>6. /\ ReadsHold(reads') /\ view'.revision <= stored.revision
      /\ ~panel'.refused /\ ~(destination'.refused /\ Shown')
  <2>1. CASE reads[r].kind = "data"
    <3>1. /\ ReadsHold(reads') /\ ChoicesKept /\ ~destination'.refused
          /\ view'.revision = reads[r].revision
      BY <2>1, ReadChoices DEF RereadArrives
    <3>2. ~panel'.refused
      <4>1. ASSUME panel'.refused PROVE FALSE
        <5>1. panel.refused /\ view'.revision = view.revision
          BY <3>1, <4>1 DEF ChoicesKept
        <5>2. r = "conflict" /\ reads[r].revision > view.revision
          BY <1>1, <2>1, <5>1 DEF PageInv, ChoiceInv, RefusedUntilRead
        <5>3. view.revision \in Nat /\ reads[r].revision \in Nat
          BY DEF PageInv, ScreenInv, PageTyped, PageAnswers
        <5> QED BY <3>1, <5>1, <5>2, <5>3
      <4> QED BY <4>1
    <3> QED BY <3>1, <3>2 DEF ChoicesKept
  <2>2. CASE reads[r].kind # "data"
    BY <1>3, <2>2, HiddenChoices DEF RereadArrives, ChoicesKept
  <2> QED BY <2>1, <2>2
<1> QED BY <1>5, <1>6, CommandIsOver DEF RereadArrives, Ends

\* The parent read again: shown as it is, with the choices it leaves.
LEMMA RecheckArrivesKeepsChoices ==
  ASSUME PageInv, NEW r \in Reads, RecheckArrives(r)
  PROVE  ChoiceInv'
<1>1. /\ r \in {"recheck", "denied"} /\ reads[r].kind \notin {"none", "asked"}
      /\ UNCHANGED <<stored, strays>>
      /\ reads[r] \in PageAnswers /\ reads[r].revision <= stored.revision
      /\ ReadsHold(Done(reads, r))
  BY ReadsHeld DEF RecheckArrives, PageInv, ScreenInv, PageTyped, ChoiceInv, PageBehind
<1>2. ReadsHold(reads') /\ ChoicesKept
  <2>1. CASE reads[r].kind # "data"
    BY <1>1, <2>1, HiddenChoices DEF RecheckArrives
  <2>2. CASE reads[r].kind = "data" /\ Shown
    <3>1. /\ ShowRequest(reads[r], Done(reads, r)) /\ UNCHANGED destination
      BY <2>2 DEF RecheckArrives
    <3> QED BY <1>1, <2>2, <3>1, ShownChoices DEF ChoicesKept
  <2>3. CASE reads[r].kind = "data" /\ ~Shown
    <3>1. reads' = Done(reads, r) /\ UNCHANGED <<view, panel, destination, contact>>
      BY <2>3 DEF RecheckArrives
    <3> QED BY <1>1, <3>1 DEF ChoicesKept, PageInv, ChoiceInv, PageBehind, Shown
  <2> QED BY <2>1, <2>2, <2>3
<1>3. CASE r # "denied"
  BY <1>2, <1>3, CommandGoesOn DEF RecheckArrives
<1>4. CASE r = "denied"
  <2>1. command.phase = "reading" /\ command.result = "forbidden"
    BY <1>1, <1>4 DEF PageInv, ChoiceInv, OneCommand
  <2>2. reads["done"].kind = "none" /\ reads["conflict"].kind = "none"
    BY <2>1 DEF PageInv, ChoiceInv, OneCommand
  <2>3. \A q \in CommandReads : reads'[q].kind = "none"
    <3>1. Done(reads, r)["denied"].kind = "none"
      BY <1>4, ReadsSet DEF PageInv, ScreenInv, PageTyped
    <3>2. reads' = Done(reads, r) \/ reads' = ForgetsContact(Done(reads, r))
      BY DEF RecheckArrives, ShowRequest, Hide
    <3>3. ForgetsContact(Done(reads, r))["denied"] = Done(reads, r)["denied"]
      BY <1>1 DEF ForgetsContact, ReadsHold, Reads
    <3> QED BY <1>2, <2>2, <3>1, <3>2, <3>3 DEF ReadsHold, CommandReads
  <2>4. ~panel'.refused /\ ~(destination'.refused /\ Shown')
    BY <1>2, <2>1 DEF ChoicesKept, PageInv, ChoiceInv, RefusedUntilRead
  <2> QED BY <1>1, <1>2, <1>4, <2>3, <2>4, CommandIsOver DEF RecheckArrives, Ends, ChoicesKept
<1> QED BY <1>3, <1>4

LEMMA PartRefusedKeepsChoices ==
  ASSUME PageInv, PartRefused
  PROVE  ChoiceInv'
<1>1. "recheck" \in Reads \ CommandReads
  BY DEF Reads, CommandReads
<1>2. ReadsHold(reads) /\ ReadsHold(Ask(reads, "recheck"))
  BY <1>1, ReadsHeld
<1>3. ReadsHold(reads') /\ ChoicesKept
  <2>1. CASE reads' = Ask(reads, "recheck") /\ UNCHANGED <<view, panel, destination, contact>>
    BY <1>2, <2>1 DEF ChoicesKept, PageInv, ChoiceInv, PageBehind, Shown
  <2>2. CASE Hide(reads)
    BY <1>2, <2>2, HiddenChoices
  <2> QED BY <2>1, <2>2 DEF PartRefused
<1> QED BY <1>3, CommandGoesOn DEF PartRefused

\* What can be done while the buttons are enabled: no command is out.
LEMMA FormsKeepChoices ==
  ASSUME PageInv,
         (\E kind \in {"narrative", "routing", "manage", "contact"} : OpenPanel(kind))
           \/ ReloadContact \/ ClosePanel \/ Pick \/ ChooseDestination
  PROVE  ChoiceInv'
<1>1. "contact" \in Reads \ CommandReads
  BY DEF Reads, CommandReads
<1>2. ReadsHold(reads) /\ ReadsHold(Ask(reads, "contact")) /\ ReadsHold(ForgetsContact(reads))
  BY <1>1, ReadsHeld
<1>3. ReadsHold(reads') /\ UNCHANGED <<stored, view, command, busy, strays>>
  BY <1>2 DEF OpenPanel, ReloadContact, ClosePanel, Pick, ChooseDestination
<1>4. /\ ~busy => command.phase = "none" /\ (Shown => ~panel.refused /\ ~destination.refused)
      /\ view.revision <= stored.revision
  BY DEF PageInv, ChoiceInv, OneCommand, RefusedUntilRead, PageBehind
<1>5. ChoicesKept
  <2>1. ASSUME NEW kind \in {"narrative", "routing", "manage", "contact"}, OpenPanel(kind)
        PROVE  ChoicesKept
    BY <1>3, <1>4, <2>1 DEF OpenPanel, Opens, NoPanel, ChoicesKept, Shown
  <2>2. CASE ReloadContact
    BY <1>3, <1>4, <2>2 DEF ReloadContact, ChoicesKept, Shown
  <2>3. CASE ClosePanel
    BY <1>3, <1>4, <2>3 DEF ClosePanel, NoPanel, ChoicesKept, Shown
  <2>4. CASE Pick
    <3>1. ~panel'.refused /\ command.phase = "none"
      BY <1>4, <2>4 DEF Pick, PageInv, ScreenInv, PageTyped, Panels
    <3> QED BY <1>3, <1>4, <2>4, <3>1 DEF Pick, ChoicesKept, Shown
  <2>5. CASE ChooseDestination
    BY <1>3, <1>4, <2>5 DEF ChooseDestination, ChoicesKept, Shown
  <2> QED BY <2>1, <2>2, <2>3, <2>4, <2>5
<1> QED BY <1>3, <1>5, CommandGoesOn

LEMMA ContactArrivesKeepsChoices ==
  ASSUME PageInv, ContactArrives
  PROVE  ChoiceInv'
<1> DEFINE rest == Done(reads, "contact")
<1>1. {"contact", "protected"} \subseteq Reads \ CommandReads
  BY DEF Reads, CommandReads
<1>2. ReadsHold(rest)
  BY <1>1, ReadsHeld
<1>3. reads["contact"] \in PageAnswers /\ rest \in [Reads -> PageAnswers]
  BY <1>1, <1>2 DEF PageInv, ScreenInv, PageTyped, ReadsHold
<1>4. ReadsHold(Ask(rest, "protected"))
  BY <1>1, <1>2, ReadsHeld
<1>5. ReadsHold(reads') /\ ChoicesKept
  <2>1. CASE reads["contact"].kind = "gone"
    BY <1>2, <2>1, HiddenChoices DEF ContactArrives
  <2>2. CASE reads["contact"].kind # "gone"
    <3>1. /\ reads' = rest \/ reads' = Ask(rest, "protected")
          /\ UNCHANGED <<view, panel, destination>>
      BY <1>3, <2>2 DEF ContactArrives, PageAnswers
    <3> QED BY <1>2, <1>4, <3>1 DEF ContactArrives, ChoicesKept, PageInv, ChoiceInv, PageBehind, Shown
  <2> QED BY <2>1, <2>2
<1> QED BY <1>5, CommandGoesOn DEF ContactArrives

LEMMA ProtectedArrivesKeepsChoices ==
  ASSUME PageInv, NEW r \in Reads, ProtectedArrives(r)
  PROVE  ChoiceInv'
<1>1. ReadsHold(Done(reads, r))
  BY ReadsHeld
<1>2. ReadsHold(reads') /\ ChoicesKept
  <2>1. CASE reads[r].kind = "data"
    BY <2>1, ReadChoices DEF ProtectedArrives
  <2>2. CASE r = "protected" /\ reads[r].kind # "data"
    BY <1>1, <2>2, HiddenChoices DEF ProtectedArrives
  <2>3. CASE r # "protected" /\ reads[r].kind # "data"
    BY <1>1, <2>3 DEF ProtectedArrives, ChoicesKept, PageInv, ChoiceInv, PageBehind, Shown
  <2> QED BY <2>1, <2>2, <2>3
<1> QED BY <1>2, CommandGoesOn DEF ProtectedArrives

--------------------------------------------------------------------------------
(* The request page: what commands carry.                                   *)

\* A command is sent with what was chosen, and nothing chosen is known to be refused.
LEMMA SendCommandKeepsChoices ==
  ASSUME PageInv, NEW kind \in {"routine", "narrative", "routing", "manage"}, SendCommand(kind)
  PROVE  ChoiceInv'
<1>1. /\ Shown /\ command.phase = "none" /\ (kind = "manage" => panel.kind = "manage")
      /\ command' = [phase |-> "sent", kind |-> kind, expected |-> view.revision, result |-> "none",
                     picked |-> Choice(kind).on, refused |-> Choice(kind).refused]
      /\ busy' = TRUE /\ UNCHANGED <<stored, view, reads, panel, destination, contact, strays>>
  BY DEF SendCommand, NoCommand
<1>2. ~panel.refused /\ ~destination.refused
  BY <1>1 DEF PageInv, ChoiceInv, RefusedUntilRead
<1>3. panel.kind = "manage" => panel.picked \in {0, view.revision}
  BY DEF PageInv, ScreenInv, PickCurrent
<1>4. /\ command'.kind = kind /\ command'.expected = view.revision /\ command'.phase = "sent"
      /\ command'.result = "none" /\ ~command'.refused
      /\ kind = "manage" => command'.picked = view.revision
  BY <1>1, <1>2, <1>3 DEF Choice
<1>5. PageBehind' /\ OneCommand'
  BY <1>1, <1>4 DEF PageInv, ChoiceInv, PageBehind, OneCommand
<1>6. PickedAsSent' /\ RefusedUntilRead'
  BY <1>1, <1>2, <1>3, <1>4 DEF PickedAsSent, RefusedUntilRead, Shown
<1>7. TargetsNameTheirPick' /\ RefusedChoicesEnd'
  BY <1>1, <1>4 DEF PageInv, ChoiceInv, TargetsNameTheirPick, RefusedChoicesEnd
<1> QED BY <1>5, <1>6, <1>7 DEF ChoiceInv

\* A command refused as stale names a revision behind the request.
LEMMA ServeCommandKeepsChoices ==
  ASSUME PageInv, ServeCommand
  PROVE  ChoiceInv'
<1>1. PICK result :
        /\ command' = [command EXCEPT !.phase = "answered", !.result = result]
        /\ result = "stale" => command.expected # stored.revision
  BY DEF ServeCommand, Refusals
<1>2. /\ command.phase = "sent" /\ UNCHANGED <<view, reads, panel, destination, busy, strays>>
      /\ command \in PageCommands /\ view.revision \in Nat
      /\ stored \in [revision : Nat, access : {"all", "parent", "none"}]
      /\ \A r \in Reads : reads[r].revision \in Nat
  BY DEF ServeCommand, PageInv, ScreenInv, PageTyped, PageAnswers
<1>3. stored'.revision \in Nat /\ stored'.revision >= stored.revision
  <2>1. stored' = stored \/ stored' = [stored EXCEPT !.revision = @ + 1]
    BY DEF ServeCommand
  <2> QED BY <1>2, <2>1
<1>4. /\ command'.kind = command.kind /\ command'.picked = command.picked
      /\ command'.expected = command.expected /\ command'.refused = command.refused
      /\ command'.phase = "answered" /\ command'.result = result /\ command.expected \in Nat
  BY <1>1, <1>2 DEF PageCommands
<1>5. /\ command.expected <= stored.revision /\ view.revision <= stored.revision
      /\ \A r \in Reads : reads[r].revision <= stored.revision
  BY DEF PageInv, ChoiceInv, PageBehind
<1>6. PageBehind'
  <2>1. result = "stale" => command.expected < stored'.revision
    BY <1>1, <1>2, <1>3, <1>4, <1>5
  <2>2. /\ command.expected <= stored'.revision /\ view.revision <= stored'.revision
        /\ \A r \in Reads : reads[r].revision <= stored'.revision
    BY <1>2, <1>3, <1>4, <1>5
  <2> QED BY <1>2, <1>4, <2>1, <2>2 DEF PageBehind
<1>7. OneCommand' /\ PickedAsSent' /\ RefusedUntilRead'
  BY <1>2, <1>4 DEF PageInv, ChoiceInv, OneCommand, PickedAsSent, RefusedUntilRead, Shown
<1>8. TargetsNameTheirPick' /\ RefusedChoicesEnd'
  BY <1>2, <1>4 DEF PageInv, ChoiceInv, TargetsNameTheirPick, RefusedChoicesEnd
<1> QED BY <1>6, <1>7, <1>8 DEF ChoiceInv

\* The answer to a command that is followed by a read.
LEMMA ReadsOnKeepsChoices ==
  ASSUME PageInv, NEW r \in CommandReads, command.phase = "answered",
         r = "done" => command.result = "ok", r = "denied" => command.result = "forbidden",
         r = "conflict" => command.result \in {"stale", "conflict"},
         reads' = Ask(reads, r), command' = [command EXCEPT !.phase = "reading"],
         UNCHANGED <<stored, view, busy, strays>>,
         panel'.refused => /\ panel'.kind = "manage" /\ command.result = "stale"
                           /\ view.revision < stored.revision,
         destination'.refused => command.result = "stale" \/ destination.refused
  PROVE  ChoiceInv'
<1>1. CommandReads = {"done", "conflict", "denied"} /\ CommandReads \subseteq Reads
  BY DEF CommandReads, Reads
<1>2. /\ command \in PageCommands /\ reads \in [Reads -> PageAnswers] /\ stored.revision \in Nat
  BY DEF PageInv, ScreenInv, PageTyped
<1>3. /\ \A q \in Reads \ {r} : reads'[q] = reads[q]
      /\ reads'[r].kind = "asked" /\ reads'[r].revision = 0
  BY <1>1, <1>2 DEF Ask, Bare
<1>4. /\ command'.kind = command.kind /\ command'.picked = command.picked
      /\ command'.expected = command.expected /\ command'.refused = command.refused
      /\ command'.phase = "reading" /\ command'.result = command.result
  BY <1>2 DEF PageCommands
<1>5. \A q \in CommandReads : reads[q].kind = "none"
  BY <1>1 DEF PageInv, ChoiceInv, OneCommand
<1>6. PageBehind'
  BY <1>1, <1>2, <1>3, <1>4 DEF PageInv, ChoiceInv, PageBehind
<1>7. OneCommand'
  BY <1>1, <1>3, <1>4, <1>5 DEF PageInv, ChoiceInv, OneCommand
<1>8. PickedAsSent'
  BY <1>4 DEF PickedAsSent
<1>9. RefusedUntilRead'
  <2>1. ~(destination.refused /\ Shown)
    BY DEF PageInv, ChoiceInv, RefusedUntilRead
  <2>2. reads'["conflict"].kind # "data"
    BY <1>1, <1>3, <1>5
  <2> QED BY <1>4, <2>1, <2>2 DEF RefusedUntilRead, Shown
<1>10. TargetsNameTheirPick' /\ RefusedChoicesEnd'
  <2>1. /\ \A c \in strays \cup {command} : ~c.refused /\ (c.kind = "manage" => c.picked = c.expected)
        /\ strays' = strays
    BY DEF PageInv, ChoiceInv, TargetsNameTheirPick, RefusedChoicesEnd
  <2>2. ~command'.refused /\ (command'.kind = "manage" => command'.picked = command'.expected)
    BY <1>4, <2>1
  <2> QED BY <2>1, <2>2 DEF TargetsNameTheirPick, RefusedChoicesEnd
<1> QED BY <1>6, <1>7, <1>8, <1>9, <1>10 DEF ChoiceInv

LEMMA CommandArrivesKeepsChoices ==
  ASSUME PageInv, CommandArrives
  PROVE  ChoiceInv'
<1>1. /\ command.phase = "answered" /\ UNCHANGED <<stored, strays>>
      /\ \A q \in CommandReads : reads[q].kind = "none"
      /\ ~panel.refused /\ ~(destination.refused /\ Shown)
      /\ panel \in Panels /\ destination \in Destinations /\ ReadsHold(reads)
  BY ReadsHeld DEF CommandArrives, PageInv, ScreenInv, PageTyped, ChoiceInv, OneCommand, RefusedUntilRead,
                   CommandReads
<1>2. CASE /\ command.result \in {"ok", "stale", "conflict"} /\ FormsClose
           /\ destination' = IF command.kind # "routing" THEN destination
                             ELSE [destination EXCEPT !.refused = command.result = "stale"]
           /\ reads' = Ask(reads, IF command.result = "ok" THEN "done" ELSE "conflict")
           /\ command' = [command EXCEPT !.phase = "reading"] /\ UNCHANGED <<view, contact, busy>>
  <2>1. panel'.refused => /\ panel'.kind = "manage" /\ command.result = "stale"
                          /\ view.revision < stored.revision
    <3>1. panel'.refused => /\ panel'.kind = "manage" /\ command.result = "stale"
                            /\ panel.kind = "manage" /\ panel.picked # 0
      BY <1>1, <1>2 DEF FormsClose, NoPanel, Panels
    <3>2. command.result = "stale" => command.expected < stored.revision
      BY DEF PageInv, ChoiceInv, PageBehind
    <3>3. panel.kind = "manage" /\ panel.picked # 0 =>
            panel.picked = view.revision /\ panel.picked = command.expected
      BY <1>1 DEF PageInv, ScreenInv, PickCurrent, ChoiceInv, PickedAsSent
    <3> QED BY <3>1, <3>2, <3>3
  <2>2. destination'.refused => command.result = "stale" \/ destination.refused
    BY <1>1, <1>2 DEF Destinations
  <2>3. CASE command.result = "ok"
    <3>1. "done" \in CommandReads /\ reads' = Ask(reads, "done")
      BY <1>2, <2>3 DEF CommandReads
    <3> QED BY <1>1, <1>2, <2>1, <2>2, <2>3, <3>1, ReadsOnKeepsChoices
  <2>4. CASE command.result # "ok"
    <3>1. "conflict" \in CommandReads /\ reads' = Ask(reads, "conflict")
      BY <1>2, <2>4 DEF CommandReads
    <3> QED BY <1>1, <1>2, <2>1, <2>2, <2>4, <3>1, ReadsOnKeepsChoices
  <2> QED BY <2>3, <2>4
<1>3. CASE /\ command.result = "forbidden" /\ reads' = Ask(reads, "denied")
           /\ command' = [command EXCEPT !.phase = "reading"]
           /\ UNCHANGED <<view, panel, destination, contact, busy>>
  BY <1>1, <1>3, ReadsOnKeepsChoices DEF CommandReads
<1>4. CASE Ends /\ UNCHANGED <<view, reads, panel, destination, contact>>
  <2>1. view.revision <= stored.revision
    BY DEF PageInv, ChoiceInv, PageBehind
  <2> QED BY <1>1, <1>4, <2>1, CommandIsOver DEF Ends, Shown
<1>5. CASE Hide(reads) /\ Ends
  <2>1. ReadsHold(reads') /\ ChoicesKept /\ ~Shown' /\ ~panel'.refused
    BY <1>1, <1>5, HiddenChoices
  <2>2. \A q \in CommandReads : reads'[q].kind = "none"
    BY <1>1, <2>1 DEF ReadsHold
  <2> QED BY <1>1, <1>5, <2>1, <2>2, CommandIsOver DEF Ends, ChoicesKept
<1> QED BY <1>2, <1>3, <1>4, <1>5 DEF CommandArrives

\* What is begun again begins without a command.
LEMMA ReopenKeepsChoices ==
  ASSUME PageInv, Retry \/ Reopen
  PROVE  ChoiceInv'
<1>1. /\ command' = NoCommand /\ UNCHANGED stored /\ OnlyLoad /\ panel' = NoPanel /\ Abandons
      /\ \E kind \in {"failed", "loading"} : view' = Bare(kind)
  BY DEF Retry, Reopen, Ends
<1>2. /\ strays' \subseteq strays \cup {command} /\ ~panel'.refused
      /\ view'.revision = 0 /\ ~Shown' /\ stored.revision \in Nat
  BY <1>1 DEF Abandons, NoPanel, Bare, Shown, PageInv, ScreenInv, PageTyped
<1>3. /\ reads' \in [Reads -> PageAnswers] /\ \A r \in Reads : reads'[r].revision = 0
      /\ \A r \in CommandReads : reads'[r].kind = "none"
  BY <1>1 DEF OnlyLoad, Bare, PageAnswers, Reads, CommandReads
<1>4. ReadsHold(reads')
  BY <1>2, <1>3 DEF ReadsHold
<1> QED BY <1>1, <1>2, <1>3, <1>4, CommandIsOver

LEMMA ChoiceStep ==
  ASSUME PageInv, ScreenInv', [RequestPageNext]_pageVars
  PROVE  ChoiceInv'
<1>1. CASE UNCHANGED pageVars
  BY <1>1 DEF pageVars, PageInv, ChoiceInv, PageBehind, OneCommand, PickedAsSent, RefusedUntilRead, Shown,
              TargetsNameTheirPick, RefusedChoicesEnd
<1>2. CASE Elsewhere \/ ServeStray \/ LoadArrives \/ PartRefused
  BY <1>2, OthersKeepChoices, LoadArrivesKeepsChoices, PartRefusedKeepsChoices
<1>3. CASE \/ ReloadContact \/ ClosePanel \/ Pick \/ ChooseDestination
           \/ \E kind \in {"narrative", "routing", "manage", "contact"} : OpenPanel(kind)
  BY <1>3, FormsKeepChoices
<1>4. CASE ContactArrives \/ ServeCommand \/ CommandArrives \/ Retry \/ Reopen
  BY <1>4, ContactArrivesKeepsChoices, ServeCommandKeepsChoices, CommandArrivesKeepsChoices,
     ReopenKeepsChoices
<1>5. ASSUME NEW r \in Reads,
             ServeRead(r) \/ RereadArrives(r) \/ RecheckArrives(r) \/ ProtectedArrives(r)
      PROVE  ChoiceInv'
  BY <1>5, ServeReadKeepsChoices, RereadArrivesKeepsChoices, RecheckArrivesKeepsChoices,
     ProtectedArrivesKeepsChoices
<1>6. ASSUME NEW kind \in {"routine", "narrative", "routing", "manage"}, SendCommand(kind)
      PROVE  ChoiceInv'
  BY <1>6, SendCommandKeepsChoices
<1> QED BY <1>1, <1>2, <1>3, <1>4, <1>5, <1>6 DEF RequestPageNext

LEMMA RequestPageStep ==
  ASSUME PageInv, [RequestPageNext]_pageVars
  PROVE  PageInv'
BY ScreenStep, ChoiceStep DEF PageInv

\* Contact details are on the page only in the dialog that asked for them and while what the page
\* shows says that they may be read; a target picked as assignee or watcher is sent under the
\* revision it was picked on; and what the page was told is stale is not sent again without being
\* chosen again (InternalRequestWorkspace.jsx:583-610, 666-706, RequestOwnership.jsx:192). The Unit
\* of a routing command may have been chosen, or read, on an earlier revision than the command
\* names: of that nothing is claimed.
THEOREM RequestPageHolds == RequestPageSpec => []PageHoldsToItsRequest
<1>1. RequestPageInit => PageInv
  BY RequestPageInitially
<1>2. PageInv /\ [RequestPageNext]_pageVars => PageInv'
  BY RequestPageStep
<1>3. PageInv => PageHoldsToItsRequest
  BY DEF PageInv, ScreenInv, ContactAsked, ChoiceInv, PageHoldsToItsRequest, ContactWhileReadable
<1> QED BY <1>1, <1>2, <1>3, PTL DEF RequestPageSpec

--------------------------------------------------------------------------------
(* The list of requests: the inductive invariant.                           *)

\* There always is an address; a read that is waited for began with what the
\* view was by then.
ListTyped ==
  /\ addresses \in Seq(Address) /\ addresses # <<>>
  /\ typed \in Texts \cup {TooShort, Empty, Untouched} /\ formed \in Filters
  /\ reading \in Reading \cup {NoRead} /\ overtaken \subseteq Reading
  /\ matching \in [pages : Nat, changes : 0..MaxArrivals]
  /\ reading # NoRead => reading.since <= matching.changes

\* What was read is no older than the press that asked for it, and an empty
\* list is one of a first page.
ListedAsAsked ==
  listed # NoRead => /\ listed.at >= listed.since
                     /\ listed.outcome = "none" => listed.of.page = 1

RequestListInv == ListTyped /\ ListedAsAsked

\* The current address; a history that is put on it, and one taken back.
LEMMA Last ==
  ASSUME NEW S, NEW s \in Seq(S), s # <<>>
  PROVE  s[Len(s)] \in S /\ Len(s) \in Nat \ {0}
OBVIOUS

LEMMA Put ==
  ASSUME NEW S, NEW s \in Seq(S), NEW e \in S
  PROVE  /\ Append(s, e) \in Seq(S) /\ Append(s, e) # <<>>
         /\ Append(s, e)[Len(Append(s, e))] = e
OBVIOUS

LEMMA TakenBack ==
  ASSUME NEW S, NEW s \in Seq(S), s # <<>>
  PROVE  /\ SubSeq(s, 1, Len(s) - 1) \in Seq(S)
         /\ Len(s) > 1 => SubSeq(s, 1, Len(s) - 1) # <<>>
<1>1. PICK n \in Nat : n = Len(s) - 1
  OBVIOUS
<1>2. \A i \in 1..n : s[i] \in S
  BY <1>1
<1>3. SubSeq(s, 1, n) \in Seq(S)
  BY <1>2
<1>4. Len(SubSeq(s, 1, n)) = n
  BY <1>2
<1> QED BY <1>1, <1>3, <1>4

LEMMA HereTyped ==
  ASSUME ListTyped
  PROVE  /\ Here \in Address /\ Here.page \in Nat /\ Here.page >= 1
         /\ Searched \in Texts \cup {TooShort, Empty}
<1>1. Here \in Address
  BY Last DEF ListTyped, Here
<1>2. Here.page \in Nat /\ Here.page >= 1
  BY <1>1, ListAssumption DEF Address, Pages
<1>3. Searched \in Texts \cup {TooShort, Empty}
  BY <1>1 DEF ListTyped, Searched, Address, Untouched
<1> QED BY <1>1, <1>2, <1>3

LEMMA ReadBegins ==
  ASSUME ListTyped, NEW address \in Address
  PROVE  /\ ReadOf(address) \in Reading /\ ReadOf(address).since <= matching.changes
         /\ Overtaken \subseteq Reading
BY ListAssumption DEF ListTyped, ReadOf, Reading, Overtaken

\* The effect that reads waits for a read that begins now, or for none.
LEMMA ReadsAgainKeeps ==
  ASSUME RequestListInv, NEW address \in Address, NEW search, ReadsAgain(address, search),
         UNCHANGED matching
  PROVE  /\ reading' \in Reading \cup {NoRead} /\ overtaken' \subseteq Reading
         /\ reading' # NoRead => reading'.since <= matching'.changes
         /\ ListedAsAsked'
<1>1. overtaken' \subseteq Reading
  BY ReadBegins DEF ReadsAgain, RequestListInv
<1>2. CASE reading' = ReadOf(address) /\ listed' = NoRead
  BY <1>1, <1>2, ReadBegins DEF RequestListInv, ListedAsAsked
<1>3. CASE reading' = NoRead /\ UNCHANGED listed
  BY <1>1, <1>3 DEF RequestListInv, ListedAsAsked
<1> QED BY <1>2, <1>3 DEF ReadsAgain

LEMMA AddressFilter ==
  ASSUME NEW address \in Address
  PROVE  address.filter \in Filters
BY DEF Address

LEMMA GoToKeeps ==
  ASSUME RequestListInv, NEW address \in Address, NEW stack \in Seq(Address),
         GoTo(address, stack), UNCHANGED matching,
         typed' \in Texts \cup {TooShort, Empty, Untouched}
  PROVE  RequestListInv'
<1>1. CASE address = Here
  BY <1>1 DEF GoTo, RequestListInv, ListTyped, ListedAsAsked
<1>2. CASE address # Here
  <2>1. /\ addresses' = Append(stack, address) /\ formed' = address.filter
        /\ ReadsAgain(address, address.text)
    BY <1>2 DEF GoTo
  <2>2. addresses' \in Seq(Address) /\ addresses' # <<>>
    BY <2>1, Put
  <2> QED BY <2>1, <2>2, ReadsAgainKeeps, AddressFilter DEF RequestListInv, ListTyped
<1> QED BY <1>1, <1>2

LEMMA OpenKeeps ==
  ASSUME RequestListInv, NEW stack \in Seq(Address), stack # <<>>, Open(stack)
  PROVE  RequestListInv'
<1> DEFINE address == stack[Len(stack)]
<1>1. address \in Address
  BY Last
<1> HIDE DEF address
<1>2. addresses' = stack /\ typed' = Untouched /\ UNCHANGED matching
  BY DEF Open
<1>3. CASE reading' = NoRead /\ overtaken' = Overtaken /\ listed' = NoRead /\ UNCHANGED formed
  BY <1>1, <1>2, <1>3, ReadBegins DEF RequestListInv, ListTyped, ListedAsAsked
<1>4. CASE ReadsAgain(address, address.text) /\ formed' = address.filter
  BY <1>1, <1>2, <1>4, ReadsAgainKeeps, AddressFilter DEF RequestListInv, ListTyped
<1> QED BY <1>3, <1>4 DEF Open, address

\* One of the list's addresses: the text typed, a filter of the form, a page.
LEMMA ListAddress ==
  ASSUME ListTyped, NEW filter \in Filters, NEW page \in Pages
  PROVE  [text |-> Searched, filter |-> filter, page |-> page, row |-> FALSE] \in Address
BY HereTyped DEF Address

LEMMA FirstPage == 1 \in Pages /\ Front \in Address
BY ListAssumption DEF Pages, Front, Address

LEMMA ApplyKeepsList ==
  ASSUME RequestListInv, NEW filter \in Filters, NEW page \in Pages, Apply(filter, page)
  PROVE  RequestListInv'
<1> DEFINE address == [text |-> Searched, filter |-> filter, page |-> page, row |-> FALSE]
<1>1. address \in Address /\ addresses \in Seq(Address)
  BY ListAddress DEF RequestListInv, ListTyped
<1>2. GoTo(address, addresses) /\ typed' = Untouched /\ UNCHANGED matching
  BY DEF Apply
<1> HIDE DEF address
<1> QED BY <1>1, <1>2, GoToKeeps

LEMMA PressKeepsList ==
  ASSUME RequestListInv,
         \/ \E filter \in Filters : Choose(filter)
         \/ \E text \in Texts \cup {TooShort, Empty} : Type(text)
         \/ Refresh
  PROVE  RequestListInv'
<1>1. Here \in Address
  BY HereTyped DEF RequestListInv
<1>2. ASSUME NEW filter \in Filters, Choose(filter)
      PROVE  RequestListInv'
  BY <1>2 DEF Choose, RequestListInv, ListTyped, ListedAsAsked
<1>3. ASSUME NEW text \in Texts \cup {TooShort, Empty}, Type(text)
      PROVE  RequestListInv'
  <2>1. typed' = text /\ UNCHANGED <<addresses, formed, matching>>
    BY <1>3 DEF Type
  <2>2. CASE ReadsAgain(Here, text)
    BY <1>1, <2>1, <2>2, ReadsAgainKeeps DEF RequestListInv, ListTyped
  <2>3. CASE UNCHANGED <<reading, overtaken, listed>>
    BY <2>1, <2>3 DEF RequestListInv, ListTyped, ListedAsAsked
  <2> QED BY <1>3, <2>2, <2>3 DEF Type
<1>4. CASE Refresh
  BY <1>1, <1>4, ReadsAgainKeeps DEF Refresh, RequestListInv, ListTyped
<1> QED BY <1>2, <1>3, <1>4

LEMMA PauseKeepsList ==
  ASSUME RequestListInv, Pause
  PROVE  RequestListInv'
<1> DEFINE address == [text |-> Searched, filter |-> Here.filter, page |-> 1, row |-> FALSE]
<1>1. address \in Address /\ addresses \in Seq(Address)
  BY HereTyped, AddressFilter, FirstPage, ListAddress DEF RequestListInv, ListTyped
<1>2. GoTo(address, addresses) /\ typed' = Untouched /\ UNCHANGED matching
  BY DEF Pause
<1> HIDE DEF address
<1> QED BY <1>1, <1>2, GoToKeeps

LEMMA ClearKeepsList ==
  ASSUME RequestListInv, Clear
  PROVE  RequestListInv'
<1>1. Here \in Address /\ addresses \in Seq(Address)
  BY HereTyped DEF RequestListInv, ListTyped
<1>2. PICK address \in {Front, [Here EXCEPT !.text = Empty, !.page = 1]} :
        IF address = Here
        THEN /\ IF Pending THEN ReadsAgain(Here, Here.text) ELSE UNCHANGED <<reading, overtaken, listed>>
             /\ UNCHANGED <<addresses, formed>>
        ELSE GoTo(address, addresses)
  BY DEF Clear
<1>3. typed' = Untouched /\ UNCHANGED matching
  BY DEF Clear
<1>4. address \in Address
  <2>1. [Here EXCEPT !.text = Empty, !.page = 1] \in Address
    BY <1>1, FirstPage DEF Address
  <2> QED BY <1>2, <2>1, FirstPage
<1>5. CASE address = Here /\ ReadsAgain(Here, Here.text) /\ UNCHANGED <<addresses, formed>>
  BY <1>1, <1>3, <1>5, ReadsAgainKeeps DEF RequestListInv, ListTyped
<1>6. CASE UNCHANGED <<reading, overtaken, listed, addresses, formed>>
  BY <1>3, <1>6 DEF RequestListInv, ListTyped, ListedAsAsked
<1>7. CASE GoTo(address, addresses)
  BY <1>1, <1>3, <1>4, <1>7, GoToKeeps
<1> QED BY <1>2, <1>5, <1>6, <1>7

LEMMA BrowseKeepsList ==
  ASSUME RequestListInv, BrowserBack \/ OpenRow \/ BackToList
  PROVE  RequestListInv'
<1>1. Here \in Address /\ addresses \in Seq(Address) /\ addresses # <<>>
  BY HereTyped DEF RequestListInv, ListTyped
<1>2. CASE BrowserBack
  BY <1>1, <1>2, TakenBack, OpenKeeps DEF BrowserBack
<1>3. ASSUME NEW open \in BOOLEAN, Open(Append(addresses, [Here EXCEPT !.row = open]))
      PROVE  RequestListInv'
  <2>1. [Here EXCEPT !.row = open] \in Address
    BY <1>1 DEF Address
  <2> QED BY <1>1, <1>3, <2>1, Put, OpenKeeps
<1> QED BY <1>2, <1>3 DEF OpenRow, BackToList

\* An answer that is heard is one snapshot for the read that is waited for; a
\* later page that came out empty is left for the first.
LEMMA AnswersKeep ==
  ASSUME RequestListInv, NEW read \in Reading, NEW answer, answer.of = read.of,
         answer.at >= answer.since, Answers(read, answer), UNCHANGED <<typed, matching>>
  PROVE  RequestListInv'
<1>1. /\ read.of \in Address /\ read.of.page \in Nat /\ read.of.page >= 1
      /\ [read.of EXCEPT !.page = 1] \in Address
  BY ListAssumption DEF Reading, Address, Pages
<1>2. addresses \in Seq(Address) /\ addresses # <<>>
  BY DEF RequestListInv, ListTyped
<1>3. CASE UNCHANGED <<addresses, formed, reading, overtaken, listed>>
  BY <1>3 DEF RequestListInv, ListTyped, ListedAsAsked
<1>4. CASE GoTo([read.of EXCEPT !.page = 1], SubSeq(addresses, 1, Len(addresses) - 1))
  <2>1. typed' \in Texts \cup {TooShort, Empty, Untouched}
    BY DEF RequestListInv, ListTyped
  <2> QED BY <1>1, <1>2, <1>4, <2>1, TakenBack, GoToKeeps
<1>5. CASE /\ ~(answer.outcome = "none" /\ read.of.page > 1)
           /\ listed' = answer /\ reading' = NoRead /\ UNCHANGED <<addresses, formed, overtaken>>
  <2>1. ListedAsAsked'
    BY <1>1, <1>5 DEF ListedAsAsked
  <2> QED BY <1>5, <2>1 DEF RequestListInv, ListTyped
<1> QED BY <1>3, <1>4, <1>5 DEF Answers

LEMMA ListAnsweredKeepsList ==
  ASSUME RequestListInv, ListAnswered
  PROVE  RequestListInv'
<1>1. UNCHANGED <<typed, matching>> /\ matching.changes \in Nat
  BY ListAssumption DEF ListAnswered, RequestListInv, ListTyped
<1>2. CASE reading # NoRead /\ Answers(reading, ListSnapshot(reading))
  <2>1. reading \in Reading /\ reading.since <= matching.changes /\ reading.since \in Nat
    BY <1>2, ListAssumption DEF RequestListInv, ListTyped, Reading
  <2>2. ListSnapshot(reading).of = reading.of /\ ListSnapshot(reading).at >= ListSnapshot(reading).since
    BY <1>1, <2>1 DEF ListSnapshot
  <2> QED BY <1>1, <1>2, <2>1, <2>2, AnswersKeep
<1>3. ASSUME NEW read \in overtaken, Answers(read, [ListSnapshot(read) EXCEPT !.at = read.since])
      PROVE  RequestListInv'
  <2> DEFINE answer == [ListSnapshot(read) EXCEPT !.at = read.since]
  <2>1. read \in Reading /\ read.since \in Nat
    BY ListAssumption DEF RequestListInv, ListTyped, Reading
  <2>2. answer.of = read.of /\ answer.at >= answer.since
    BY <2>1 DEF ListSnapshot
  <2> QED BY <1>1, <1>3, <2>1, <2>2, AnswersKeep
<1> QED BY <1>2, <1>3 DEF ListAnswered

LEMMA ElsewhereKeepsList ==
  ASSUME RequestListInv, ListFailed \/ RequestsChange
  PROVE  RequestListInv'
<1>1. CASE ListFailed
  <2>1. reading \in Reading /\ reading.since \in Nat
    BY <1>1, ListAssumption DEF ListFailed, RequestListInv, ListTyped, Reading
  <2> QED BY <1>1, <2>1 DEF ListFailed, RequestListInv, ListTyped, ListedAsAsked
<1>2. CASE RequestsChange
  <2>1. PICK pages \in 0..MaxListed :
          matching' = [pages |-> pages, changes |-> matching.changes + 1]
    BY <1>2 DEF RequestsChange
  <2>2. matching' \in [pages : Nat, changes : 0..MaxArrivals] /\ matching'.changes >= matching.changes
    BY <1>2, <2>1, ListAssumption DEF RequestsChange, RequestListInv, ListTyped
  <2>3. reading # NoRead => reading.since \in Nat /\ matching.changes \in Nat
    BY ListAssumption DEF RequestListInv, ListTyped, Reading
  <2>4. reading' # NoRead => reading'.since <= matching'.changes
    BY <1>2, <2>1, <2>3 DEF RequestsChange, RequestListInv, ListTyped
  <2> QED BY <1>2, <2>2, <2>4 DEF RequestsChange, RequestListInv, ListTyped, ListedAsAsked
<1> QED BY <1>1, <1>2

LEMMA RequestListInitially == ListInit => RequestListInv
<1> SUFFICES ASSUME ListInit PROVE RequestListInv
  OBVIOUS
<1>1. addresses \in Seq(Address) /\ addresses # <<>>
  BY FirstPage DEF ListInit
<1>2. ReadOf(Front) \in Reading /\ ReadOf(Front).since <= matching.changes
  BY FirstPage, ListAssumption DEF ListInit, ReadOf, Reading
<1>3. matching \in [pages : Nat, changes : 0..MaxArrivals]
  BY ListAssumption DEF ListInit
<1> QED BY <1>1, <1>2, <1>3, ListAssumption DEF ListInit, RequestListInv, ListTyped, ListedAsAsked

LEMMA RequestListStep ==
  ASSUME RequestListInv, [ListNext]_listVars
  PROVE  RequestListInv'
<1>1. CASE UNCHANGED listVars
  BY <1>1 DEF listVars, RequestListInv, ListTyped, ListedAsAsked
<1>2. CASE \/ \E filter \in Filters : Choose(filter)
           \/ \E text \in Texts \cup {TooShort, Empty} : Type(text)
           \/ Refresh
  BY <1>2, PressKeepsList
<1>3. CASE Apply(formed, 1)
  BY <1>3, FirstPage, ApplyKeepsList DEF RequestListInv, ListTyped
<1>4. CASE Turn
  <2>1. PICK page \in Pages : Apply(Here.filter, page)
    BY <1>4 DEF Turn
  <2>2. Here.filter \in Filters
    BY HereTyped, AddressFilter DEF RequestListInv
  <2> QED BY <2>1, <2>2, ApplyKeepsList
<1>5. CASE Pause \/ Clear
  BY <1>5, PauseKeepsList, ClearKeepsList
<1>6. CASE BrowserBack \/ OpenRow \/ BackToList
  BY <1>6, BrowseKeepsList
<1>7. CASE ListAnswered \/ ListFailed \/ RequestsChange
  BY <1>7, ListAnsweredKeepsList, ElsewhereKeepsList
<1> QED BY <1>1, <1>2, <1>3, <1>4, <1>5, <1>6, <1>7 DEF ListNext

\* The rows shown are those of the address and of the text in the search box, at least
\* as recent as the press that asked for them, and a later page that came out empty is
\* never among them (InternalRequestWorkspace.jsx:178).
LEMMA ListedShown ==
  ASSUME RequestListInv
  PROVE  ListAnswersItsAddress
<1> SUFFICES ASSUME Rows # NoRead
             PROVE  /\ Rows.of.text = Searched /\ Rows.of = Here
                    /\ Rows.at >= Rows.since
                    /\ Rows.outcome = "none" => Here.page = 1
  BY DEF ListAnswersItsAddress
<1>1. Rows = listed /\ listed # NoRead /\ listed.of = Here /\ Searched = Here.text
  BY DEF Rows, Pending
<1> QED BY <1>1 DEF RequestListInv, ListedAsAsked

\* Whatever addresses the list goes through, by links, forms and the browser's own buttons, and in
\* whatever order its reads are answered, what it lists answers the address it is at
\* (InternalRequestWorkspace.jsx:197).
THEOREM RequestListAnswers == ListSpec => []ListAnswersItsAddress
<1>1. ListInit => RequestListInv
  BY RequestListInitially
<1>2. RequestListInv /\ [ListNext]_listVars => RequestListInv'
  BY RequestListStep
<1>3. RequestListInv => ListAnswersItsAddress
  BY ListedShown
<1> QED BY <1>1, <1>2, <1>3, PTL DEF ListSpec

--------------------------------------------------------------------------------
(* The editor: the inductive invariant.                                     *)

Reviews == [id : Nat, revision : Nat, state : ReviewStates]
EditorResources == [draft : Nat, revision : Nat, latest : Reviews]
EditorCommands ==
  [kind : {"save", "request", "publish", "approved", "rejected"}, revision : Nat, about : Nat,
   status : {"sent", "done", "refused"}, waited : BOOLEAN, shown : Nat, changed : BOOLEAN]

\* A draft and a revision that were read together: while the resource has that
\* revision, it has that draft.
ReadTogether(draft, revision) ==
  revision <= resource.revision /\ (revision = resource.revision => draft = resource.draft)

EditorTyped ==
  /\ resource \in EditorResources
  /\ IsOpen => editing \in EditorViews
  /\ waiting \in EditorReads \cup {NoReads}
  /\ commands \subseteq EditorCommands
  /\ question \in {"none", "publish", "approved", "rejected"}

\* What is shown and what is being read hold together, and so does what a save
\* that may still arrive names.
HoldsTogether ==
  /\ IsOpen => ReadTogether(editing.draft, editing.revision)
  /\ waiting # NoReads /\ waiting.kind # "preview" /\ waiting.step \in {"context", "review"} =>
       /\ waiting.read \in EditorViews /\ ReadTogether(waiting.read.draft, waiting.read.revision)
       /\ ~waiting.read.busy /\ ~waiting.read.publishing /\ ~waiting.read.reviewing
  /\ \A c \in commands : c.kind = "save" /\ c.status = "sent" => ReadTogether(c.shown, c.revision)

\* A save is waited for while its answer is, and there is one at most. A first
\* load has nothing to show; whatever else is read keeps the screen busy.
SaveIsWaitedFor ==
  /\ \A c \in commands : c.kind = "save" /\ c.waited =>
       /\ waiting # NoReads /\ waiting.kind = "save" /\ waiting.step = "put"
       /\ \A d \in commands : d.kind = "save" /\ d.waited => c = d
  /\ waiting # NoReads /\ waiting.kind = "load" => waiting.step # "put" /\ editing = NotRead
  /\ waiting # NoReads /\ waiting.kind # "load" => IsOpen /\ editing.busy
  /\ waiting # NoReads /\ waiting.kind = "preview" => waiting.step = "summary"

EditorInv == EditorTyped /\ HoldsTogether /\ SaveIsWaitedFor /\ WaitsForSomething

LEMMA EditorInitially == EditorInit => EditorInv
<1> SUFFICES ASSUME EditorInit PROVE EditorInv
  OBVIOUS
<1>1. resource \in EditorResources
  BY DEF EditorInit, NoReviewRequest, EditorResources, Reviews, ReviewStates
<1>2. /\ waiting \in EditorReads /\ waiting # NoReads /\ waiting.kind = "load"
      /\ waiting.step = "summary" /\ ~IsOpen
  BY NotAViewAssumption DEF EditorInit, FirstRead, EditorReads, IsOpen
<1> QED BY <1>1, <1>2 DEF EditorInit, EditorInv, EditorTyped, HoldsTogether, SaveIsWaitedFor,
                          WaitsForSomething

\* What the steps are made of. A view stays one, and open, with a flag changed.
LEMMA ViewsAreOpen ==
  ASSUME NEW read \in EditorViews
  PROVE  read \notin {NotRead, Denied}
BY NotAViewAssumption

LEMMA ReadsAreAwaited ==
  ASSUME NEW read \in EditorReads
  PROVE  read # NoReads
BY NotAViewAssumption

LEMMA SummaryTyped ==
  ASSUME EditorTyped
  PROVE  /\ Summary \in EditorViews /\ ReadTogether(Summary.draft, Summary.revision)
         /\ ~Summary.busy /\ ~Summary.publishing /\ ~Summary.reviewing
         /\ Latest \in Reviews
         /\ ReviewContext \in [latest : Nat, revision : Nat, can : BOOLEAN]
<1>1. /\ resource \in EditorResources
      /\ resource.draft \in Nat /\ resource.revision \in Nat
  BY DEF EditorTyped, EditorResources
<1>2. /\ Summary \in EditorViews /\ ReadTogether(Summary.draft, Summary.revision)
      /\ ~Summary.busy /\ ~Summary.publishing /\ ~Summary.reviewing
  BY <1>1 DEF EditorResources, Summary, EditorViews, ReviewStates, NoContext, NoReviewRequest,
              ReadTogether
<1>3. Latest \in Reviews
  BY <1>1 DEF Latest, EditorResources, Reviews, ReviewStates
<1>4. ReviewContext \in [latest : Nat, revision : Nat, can : BOOLEAN]
  BY <1>1 DEF ReviewContext, EditorResources, Reviews
<1> QED BY <1>2, <1>3, <1>4

\* What happens to the resource: it keeps its draft, or gets a new revision.
EditorMoves ==
  /\ resource' \in EditorResources
  /\ \/ resource'.revision = resource.revision /\ resource'.draft = resource.draft
     \/ resource'.revision = resource.revision + 1

LEMMA ResourceSteps ==
  ASSUME EditorTyped, \/ resource' \in {resource, SavedDraft, Asked, PublishedIt}
                      \/ \E outcome \in {"approved", "rejected"} : resource' = Decided(outcome)
  PROVE  EditorMoves
<1>1. resource \in EditorResources /\ resource.latest \in Reviews
  BY DEF EditorTyped, EditorResources
<1>2. \A state \in ReviewStates : [resource.latest EXCEPT !.state = state] \in Reviews
  BY <1>1 DEF Reviews
<1>3. CASE resource' = resource
  BY <1>1, <1>3 DEF EditorMoves
<1>4. CASE resource' = SavedDraft
  <2>1. resource' = [draft |-> resource.revision + 1, revision |-> resource.revision + 1,
                     latest |-> resource.latest]
    BY <1>1, <1>4 DEF SavedDraft, EditorResources
  <2> QED BY <1>1, <2>1 DEF EditorMoves, EditorResources
<1>5. CASE resource' = Asked
  <2>1. [id |-> resource.latest.id + 1, revision |-> resource.revision, state |-> "pending"] \in Reviews
    BY <1>1 DEF EditorResources, Reviews, ReviewStates
  <2> QED BY <1>1, <1>5, <2>1 DEF EditorMoves, Asked, EditorResources
<1>6. CASE resource' = PublishedIt
  <2>1. resource' = [draft |-> resource.draft, revision |-> resource.revision + 1,
                     latest |-> [resource.latest EXCEPT !.state = "spent"]]
    BY <1>1, <1>6 DEF PublishedIt, EditorResources
  <2> QED BY <1>1, <1>2, <2>1 DEF EditorMoves, EditorResources, ReviewStates
<1>7. ASSUME NEW outcome \in {"approved", "rejected"}, resource' = Decided(outcome)
      PROVE  EditorMoves
  <2>1. resource' = [draft |-> resource.draft, revision |-> resource.revision,
                     latest |-> [resource.latest EXCEPT !.state = outcome]]
    BY <1>1, <1>7 DEF Decided, EditorResources
  <2> QED BY <1>1, <1>2, <2>1 DEF EditorMoves, EditorResources, ReviewStates
<1> QED BY <1>3, <1>4, <1>5, <1>6, <1>7

\* Whatever happens to the resource, what was read together still holds together.
LEMMA StillTogether ==
  ASSUME EditorTyped, EditorMoves, NEW draft \in Nat, NEW revision \in Nat, ReadTogether(draft, revision)
  PROVE  ReadTogether(draft, revision)'
BY DEF EditorTyped, EditorResources, EditorMoves, ReadTogether

\* The screen as such does not change when the resource does.
LEMMA ScreenTogether ==
  ASSUME EditorInv, EditorMoves, UNCHANGED <<editing, waiting>>
  PROVE  /\ IsOpen' => ReadTogether(editing.draft, editing.revision)'
         /\ waiting' # NoReads /\ waiting'.kind # "preview" /\ waiting'.step \in {"context", "review"} =>
              /\ waiting'.read \in EditorViews
              /\ ReadTogether(waiting.read.draft, waiting.read.revision)'
              /\ ~waiting'.read.busy /\ ~waiting'.read.publishing /\ ~waiting'.read.reviewing
<1>1. ASSUME IsOpen'
      PROVE  ReadTogether(editing.draft, editing.revision)'
  <2>1. IsOpen /\ editing.draft \in Nat /\ editing.revision \in Nat
    BY <1>1 DEF IsOpen, EditorInv, EditorTyped, EditorViews
  <2>2. ReadTogether(editing.draft, editing.revision)
    BY <2>1 DEF EditorInv, HoldsTogether
  <2> QED BY <2>1, <2>2 DEF EditorInv, EditorTyped, EditorResources, EditorMoves, ReadTogether
<1>2. ASSUME waiting' # NoReads, waiting'.kind # "preview", waiting'.step \in {"context", "review"}
      PROVE  /\ waiting'.read \in EditorViews
             /\ ReadTogether(waiting.read.draft, waiting.read.revision)'
             /\ ~waiting'.read.busy /\ ~waiting'.read.publishing /\ ~waiting'.read.reviewing
  <2>1. /\ waiting.read \in EditorViews /\ ReadTogether(waiting.read.draft, waiting.read.revision)
        /\ ~waiting.read.busy /\ ~waiting.read.publishing /\ ~waiting.read.reviewing
    BY <1>2 DEF EditorInv, HoldsTogether
  <2>2. waiting.read.draft \in Nat /\ waiting.read.revision \in Nat
    BY <2>1 DEF EditorViews
  <2> QED BY <2>1, <2>2 DEF EditorInv, EditorTyped, EditorResources, EditorMoves, ReadTogether
<1> QED BY <1>1, <1>2

--------------------------------------------------------------------------------
(* The editor: each action keeps the invariant.                             *)

\* A view with a flag changed is one, of the same draft and revision.
LEMMA FlagSet ==
  ASSUME NEW page \in EditorViews, NEW b \in BOOLEAN
  PROVE  /\ [page EXCEPT !.busy = b] \in EditorViews
         /\ [page EXCEPT !.dirty = b] \in EditorViews
         /\ [page EXCEPT !.publishing = b] \in EditorViews
         /\ [page EXCEPT !.reviewing = b] \in EditorViews
         /\ [page EXCEPT !.busy = FALSE, !.blocked = b] \in EditorViews
         /\ page.draft \in Nat /\ page.revision \in Nat
BY DEF EditorViews

LEMMA FlagLeaves ==
  ASSUME NEW page \in EditorViews
  PROVE  \A other \in {[page EXCEPT !.dirty = TRUE], [page EXCEPT !.busy = TRUE],
                       [page EXCEPT !.publishing = TRUE], [page EXCEPT !.reviewing = TRUE]} :
           /\ other \in EditorViews /\ other \notin {NotRead, Denied}
           /\ other.draft = page.draft /\ other.revision = page.revision
<1>1. ASSUME NEW other, \/ other = [page EXCEPT !.dirty = TRUE] \/ other = [page EXCEPT !.busy = TRUE]
                        \/ other = [page EXCEPT !.publishing = TRUE]
                        \/ other = [page EXCEPT !.reviewing = TRUE]
      PROVE  other \in EditorViews /\ other.draft = page.draft /\ other.revision = page.revision
  BY <1>1 DEF EditorViews
<1> QED BY <1>1, ViewsAreOpen

LEMMA OpenView ==
  ASSUME EditorTyped, IsOpen
  PROVE  editing \in EditorViews /\ editing # NotRead
BY DEF EditorTyped, IsOpen

\* Nothing is read while the screen is open and not busy, and no save is waited for.
LEMMA IdleScreen ==
  ASSUME EditorInv, IsOpen, ~editing.busy
  PROVE  waiting = NoReads /\ \A c \in commands : ~(c.kind = "save" /\ c.waited)
BY DEF EditorInv, SaveIsWaitedFor, IsOpen

\* A command that is sent joins the others.
LEMMA Sent ==
  ASSUME EditorTyped, NEW kind \in {"save", "request", "publish", "approved", "rejected"},
         NEW revision \in Nat, NEW about \in Nat, IsOpen
  PROVE  /\ Call(kind, revision, about) \in EditorCommands
         /\ Call(kind, revision, about).kind = kind /\ Call(kind, revision, about).waited
         /\ Call(kind, revision, about).revision = revision
         /\ kind = "save" => Call(kind, revision, about).shown = editing.draft
<1>1. editing.draft \in Nat /\ editing.dirty \in BOOLEAN
  BY OpenView DEF EditorViews
<1> QED BY <1>1 DEF Call, EditorCommands

\* The screen starts over, and the saves it waited for are given up.
LEMMA StartsOverKeeps ==
  ASSUME EditorInv, StartsOver, UNCHANGED resource,
         \A c \in commands' : c \in GivenUp,
         question' \in {"none", "publish", "approved", "rejected"}
  PROVE  EditorInv'
<1>1. /\ waiting' \in EditorReads /\ waiting' # NoReads /\ waiting'.kind = "load"
      /\ waiting'.step = "summary" /\ editing' = NotRead /\ ~IsOpen'
  BY ReadsAreAwaited DEF StartsOver, FirstRead, EditorReads, IsOpen
<1>2. ASSUME NEW c \in commands'
      PROVE  /\ c \in EditorCommands /\ ~(c.kind = "save" /\ c.waited)
             /\ c.kind = "save" /\ c.status = "sent" => ReadTogether(c.shown, c.revision)'
  <2>1. PICK d \in commands : c = IF d.kind = "save" THEN [d EXCEPT !.waited = FALSE] ELSE d
    BY DEF GivenUp
  <2>2. d \in EditorCommands /\ (d.kind = "save" /\ d.status = "sent" => ReadTogether(d.shown, d.revision))
    BY DEF EditorInv, EditorTyped, HoldsTogether
  <2> QED BY <2>1, <2>2 DEF EditorCommands, ReadTogether
<1> QED BY <1>1, <1>2 DEF EditorInv, EditorTyped, HoldsTogether, SaveIsWaitedFor, WaitsForSomething

LEMMA SignInOrReloadKeeps ==
  ASSUME EditorInv, SignInOrReload
  PROVE  EditorInv'
BY StartsOverKeeps DEF SignInOrReload, EditorInv, EditorTyped

\* What was read is shown, and nothing is read any more.
LEMMA DisplaysKeeps ==
  ASSUME EditorInv, NEW page \in EditorViews, Displays(page), ~page.busy,
         ReadTogether(page.draft, page.revision),
         \A c \in commands' : c.kind = "save" => ~c.waited,
         \A c \in commands' : c.kind = "save" /\ c.status = "sent" => ReadTogether(c.shown, c.revision),
         commands' \subseteq EditorCommands,
         page.publishing => \E c \in commands' : c.kind = "publish" /\ c.waited,
         page.reviewing => \E c \in commands' : c.kind \notin {"save", "publish"} /\ c.waited,
         UNCHANGED <<resource, question>>
  PROVE  EditorInv'
<1>1. editing' = page /\ waiting' = NoReads
  BY DEF Displays
<1>2. ReadTogether(page.draft, page.revision)'
      /\ \A c \in commands' : c.kind = "save" /\ c.status = "sent" => ReadTogether(c.shown, c.revision)'
  BY DEF ReadTogether
<1> QED BY <1>1, <1>2 DEF EditorInv, EditorTyped, HoldsTogether, SaveIsWaitedFor, WaitsForSomething, IsOpen

LEMMA DeniedKeeps ==
  ASSUME EditorInv, Displays(Denied),
         \A c \in commands' : c.kind = "save" => ~c.waited,
         \A c \in commands' : c.kind = "save" /\ c.status = "sent" => ReadTogether(c.shown, c.revision),
         commands' \subseteq EditorCommands, UNCHANGED <<resource, question>>
  PROVE  EditorInv'
<1>1. editing' = Denied /\ waiting' = NoReads /\ ~IsOpen'
  BY DEF Displays, IsOpen
<1>2. \A c \in commands' : c.kind = "save" /\ c.status = "sent" => ReadTogether(c.shown, c.revision)'
  BY DEF ReadTogether
<1> QED BY <1>1, <1>2 DEF EditorInv, EditorTyped, HoldsTogether, SaveIsWaitedFor, WaitsForSomething

\* While a read is under way that is not a save's own answer, no save is waited for.
LEMMA NoSaveWhileReading ==
  ASSUME EditorInv, waiting # NoReads, waiting.step # "put"
  PROVE  /\ waiting \in EditorReads
         /\ \A c \in commands : c.kind = "save" => ~c.waited
         /\ \A c \in commands : c.kind = "save" /\ c.status = "sent" => ReadTogether(c.shown, c.revision)
         /\ commands \subseteq EditorCommands
BY DEF EditorInv, EditorTyped, HoldsTogether, SaveIsWaitedFor

\* The next step of a read, on what has been read so far.
LEMMA ReadsOnKeeps ==
  ASSUME EditorInv, waiting # NoReads, waiting.step # "put", waiting.kind # "preview",
         NEW step \in {"context", "review"}, NEW page \in EditorViews,
         ReadTogether(page.draft, page.revision), ~page.busy, ~page.publishing, ~page.reviewing,
         ReadsOn(step, page), UNCHANGED <<resource, commands, question>>
  PROVE  EditorInv'
<1>1. /\ waiting \in EditorReads
      /\ \A c \in commands : c.kind = "save" => ~c.waited
      /\ \A c \in commands : c.kind = "save" /\ c.status = "sent" => ReadTogether(c.shown, c.revision)
  BY NoSaveWhileReading
<1>2. /\ waiting' = [waiting EXCEPT !.step = step, !.read = page] /\ UNCHANGED editing
      /\ waiting' \in EditorReads /\ waiting'.kind = waiting.kind
      /\ waiting'.step = step /\ waiting'.read = page
  BY <1>1 DEF ReadsOn, EditorReads
<1>3. waiting' # NoReads
  BY <1>2, ReadsAreAwaited
<1>4. EditorTyped' /\ SaveIsWaitedFor'
  BY <1>1, <1>2, <1>3 DEF EditorInv, EditorTyped, SaveIsWaitedFor, IsOpen
<1>5. HoldsTogether'
  BY <1>1, <1>2, <1>3 DEF EditorInv, HoldsTogether, ReadTogether, IsOpen
<1>6. WaitsForSomething'
  BY <1>2, <1>3 DEF EditorInv, WaitsForSomething, IsOpen
<1> QED BY <1>4, <1>5, <1>6 DEF EditorInv

\* What a preview was shown on.
LEMMA PreviewShown ==
  ASSUME EditorInv, waiting # NoReads, waiting.kind # "load"
  PROVE  /\ IsOpen /\ editing \in EditorViews /\ ReadTogether(editing.draft, editing.revision)
         /\ editing.publishing => \E c \in commands : c.kind = "publish" /\ c.waited
         /\ editing.reviewing => \E c \in commands : c.kind \notin {"save", "publish"} /\ c.waited
BY DEF EditorInv, EditorTyped, HoldsTogether, SaveIsWaitedFor, WaitsForSomething

\* A view that was made from another keeps its draft, and what is open on it.
LEMMA SameDraft ==
  ASSUME NEW page \in EditorViews, NEW b \in BOOLEAN
  PROVE  /\ [page EXCEPT !.busy = FALSE].draft = page.draft
         /\ [page EXCEPT !.busy = FALSE].revision = page.revision
         /\ [page EXCEPT !.busy = FALSE].publishing = page.publishing
         /\ [page EXCEPT !.busy = FALSE].reviewing = page.reviewing
         /\ ~[page EXCEPT !.busy = FALSE].busy
         /\ [page EXCEPT !.busy = FALSE, !.blocked = b].draft = page.draft
         /\ [page EXCEPT !.busy = FALSE, !.blocked = b].revision = page.revision
         /\ [page EXCEPT !.busy = FALSE, !.blocked = b].publishing = page.publishing
         /\ [page EXCEPT !.busy = FALSE, !.blocked = b].reviewing = page.reviewing
         /\ ~[page EXCEPT !.busy = FALSE, !.blocked = b].busy
BY DEF EditorViews

LEMMA ReadStepKeeps ==
  ASSUME EditorInv, ReadStep
  PROVE  EditorInv'
<1>1. /\ waiting # NoReads /\ waiting.step # "put" /\ EditorTyped
      /\ UNCHANGED <<resource, commands, question, uses>>
  BY DEF ReadStep, EditorInv
<1>2. /\ waiting \in EditorReads
      /\ \A c \in commands' : c.kind = "save" => ~c.waited
      /\ \A c \in commands' : c.kind = "save" /\ c.status = "sent" => ReadTogether(c.shown, c.revision)
      /\ commands' \subseteq EditorCommands
  BY <1>1, NoSaveWhileReading
<1>3. CASE waiting.kind = "preview"
  <2>1. Displays([editing EXCEPT !.busy = FALSE])
    BY <1>1, <1>3 DEF ReadStep, EditorInv, SaveIsWaitedFor
  <2>2. /\ editing \in EditorViews /\ ReadTogether(editing.draft, editing.revision)
        /\ editing.publishing => \E c \in commands : c.kind = "publish" /\ c.waited
        /\ editing.reviewing => \E c \in commands : c.kind \notin {"save", "publish"} /\ c.waited
    BY <1>1, <1>3, PreviewShown
  <2>3. PICK page : page = [editing EXCEPT !.busy = FALSE]
    OBVIOUS
  <2>4. /\ page \in EditorViews /\ ~page.busy /\ page.draft = editing.draft
        /\ page.revision = editing.revision /\ page.publishing = editing.publishing
        /\ page.reviewing = editing.reviewing
    BY <2>2, <2>3, FlagSet, SameDraft
  <2> QED BY <1>1, <1>2, <2>1, <2>2, <2>3, <2>4, DisplaysKeeps
<1>4. CASE waiting.kind # "preview" /\ waiting.step = "summary"
  BY <1>1, <1>4, SummaryTyped, ReadsOnKeeps DEF ReadStep
<1>5. CASE waiting.kind # "preview" /\ waiting.step # "summary"
  <2>1. /\ waiting.step \in {"context", "review"}
        /\ waiting.read \in EditorViews /\ ReadTogether(waiting.read.draft, waiting.read.revision)
        /\ ~waiting.read.busy /\ ~waiting.read.publishing /\ ~waiting.read.reviewing
    BY <1>1, <1>2, <1>5 DEF EditorInv, HoldsTogether, EditorReads
  <2>2. PICK found : found = [waiting.read EXCEPT !.context = ReviewContext]
    OBVIOUS
  <2>3. /\ found \in EditorViews /\ ReadTogether(found.draft, found.revision)
        /\ ~found.busy /\ ~found.publishing /\ ~found.reviewing
    BY <1>1, <2>1, <2>2, SummaryTyped DEF EditorViews
  <2>4. PICK page : page = [waiting.read EXCEPT !.review = Latest]
    OBVIOUS
  <2>5. /\ page \in EditorViews /\ ReadTogether(page.draft, page.revision)
        /\ ~page.busy /\ ~page.publishing /\ ~page.reviewing
    BY <1>1, <2>1, <2>4, SummaryTyped DEF EditorViews, Reviews
  <2>6. \/ Displays(found) \/ ReadsOn("review", found) \/ Displays(page)
    BY <1>5, <2>1, <2>2, <2>4 DEF ReadStep
  <2>7. CASE Displays(found)
    BY <1>1, <1>2, <2>3, <2>7, DisplaysKeeps
  <2>8. CASE ReadsOn("review", found)
    BY <1>1, <1>5, <2>3, <2>8, ReadsOnKeeps
  <2>9. CASE Displays(page)
    BY <1>1, <1>2, <2>5, <2>9, DisplaysKeeps
  <2> QED BY <2>6, <2>7, <2>8, <2>9
<1> QED BY <1>3, <1>4, <1>5

LEMMA ReadStepFailsKeeps ==
  ASSUME EditorInv, ReadStepFails
  PROVE  EditorInv'
<1>1. /\ waiting # NoReads /\ waiting.step # "put" /\ EditorTyped
      /\ UNCHANGED <<resource, commands, question, uses>>
  BY DEF ReadStepFails, EditorInv
<1>2. /\ waiting \in EditorReads
      /\ \A c \in commands' : c.kind = "save" => ~c.waited
      /\ \A c \in commands' : c.kind = "save" /\ c.status = "sent" => ReadTogether(c.shown, c.revision)
      /\ commands' \subseteq EditorCommands
  BY <1>1, NoSaveWhileReading
<1>3. CASE Displays(Denied)
  BY <1>1, <1>2, <1>3, DeniedKeeps
<1>4. CASE waiting.kind = "preview" /\ Displays([editing EXCEPT !.busy = FALSE, !.blocked = FALSE])
  <2>1. /\ editing \in EditorViews /\ ReadTogether(editing.draft, editing.revision)
        /\ editing.publishing => \E c \in commands : c.kind = "publish" /\ c.waited
        /\ editing.reviewing => \E c \in commands : c.kind \notin {"save", "publish"} /\ c.waited
    BY <1>1, <1>4, PreviewShown
  <2>2. PICK page : page = [editing EXCEPT !.busy = FALSE, !.blocked = FALSE]
    OBVIOUS
  <2>3. /\ page \in EditorViews /\ ~page.busy /\ page.draft = editing.draft
        /\ page.revision = editing.revision /\ page.publishing = editing.publishing
        /\ page.reviewing = editing.reviewing
    BY <2>1, <2>2, FlagSet, SameDraft
  <2> QED BY <1>1, <1>2, <1>4, <2>1, <2>2, <2>3, DisplaysKeeps
<1>5. CASE /\ waiting.kind = "load" /\ waiting.step # "summary"
           /\ Displays([waiting.read EXCEPT !.context = NoContext, !.review = NoReviewRequest])
  <2>1. /\ waiting.read \in EditorViews /\ ReadTogether(waiting.read.draft, waiting.read.revision)
        /\ ~waiting.read.busy /\ ~waiting.read.publishing /\ ~waiting.read.reviewing
    BY <1>1, <1>2, <1>5 DEF EditorInv, HoldsTogether, EditorReads
  <2>2. PICK page : page = [waiting.read EXCEPT !.context = NoContext, !.review = NoReviewRequest]
    OBVIOUS
  <2>3. /\ NoContext \in [latest : Nat, revision : Nat, can : BOOLEAN]
        /\ NoReviewRequest \in [id : Nat, revision : Nat, state : ReviewStates]
    BY DEF NoContext, NoReviewRequest, ReviewStates
  <2>4. /\ page \in EditorViews /\ ReadTogether(page.draft, page.revision)
        /\ ~page.busy /\ ~page.publishing /\ ~page.reviewing
    BY <2>1, <2>2, <2>3 DEF EditorViews
  <2> QED BY <1>1, <1>2, <1>5, <2>2, <2>4, DisplaysKeeps
<1> QED BY <1>3, <1>4, <1>5 DEF ReadStepFails, ReadFails

\* Editing, asking to confirm, and changing one's mind.
LEMMA UsingKeeps ==
  ASSUME EditorInv, EditDraft \/ AskToConfirm \/ Cancel
  PROVE  EditorInv'
<1>1. CASE EditDraft
  <2>1. /\ editing' = [editing EXCEPT !.dirty = TRUE] /\ IsOpen
        /\ UNCHANGED <<resource, waiting, commands, question>>
    BY <1>1 DEF EditDraft
  <2>2. /\ editing \in EditorViews /\ editing' \in EditorViews /\ editing' # NotRead
        /\ editing'.draft = editing.draft /\ editing'.revision = editing.revision
        /\ editing'.busy = editing.busy /\ editing'.publishing = editing.publishing
        /\ editing'.reviewing = editing.reviewing /\ IsOpen'
    <3>1. editing \in EditorViews
      BY <2>1, OpenView DEF EditorInv
    <3>2. /\ editing' \in EditorViews /\ editing' \notin {NotRead, Denied}
          /\ editing'.draft = editing.draft /\ editing'.revision = editing.revision
      BY <2>1, <3>1, FlagLeaves
    <3>3. /\ editing'.busy = editing.busy /\ editing'.publishing = editing.publishing
          /\ editing'.reviewing = editing.reviewing
      BY <2>1, <3>1 DEF EditorViews
    <3> QED BY <3>1, <3>2, <3>3 DEF IsOpen
  <2> QED BY <2>1, <2>2 DEF EditorInv, EditorTyped, HoldsTogether, ReadTogether, SaveIsWaitedFor,
                            WaitsForSomething, IsOpen
<1>2. CASE AskToConfirm \/ Cancel
  <2>1. UNCHANGED <<resource, editing, waiting, commands>>
        /\ question' \in {"none", "publish", "approved", "rejected"}
    BY <1>2 DEF AskToConfirm, Cancel
  <2> QED BY <2>1 DEF EditorInv, EditorTyped, HoldsTogether, ReadTogether, SaveIsWaitedFor,
                      WaitsForSomething, IsOpen
<1> QED BY <1>1, <1>2

\* A save goes out, and the screen is busy with it.
LEMMA SaveEditedKeeps ==
  ASSUME EditorInv, SaveEdited
  PROVE  EditorInv'
<1> DEFINE call == Call("save", RevisionEdited, 0)
<1>1. /\ IsOpen /\ ~editing.busy /\ editing' = [editing EXCEPT !.busy = TRUE]
      /\ waiting' = [kind |-> "save", step |-> "put", read |-> NotRead]
      /\ commands' = commands \cup {call} /\ UNCHANGED <<resource, question>> /\ EditorTyped
  BY DEF SaveEdited, EditorInv
<1>2. /\ editing \in EditorViews /\ editing.revision \in Nat
      /\ ReadTogether(editing.draft, editing.revision)
  BY <1>1, OpenView DEF EditorInv, HoldsTogether, EditorViews
<1>3. /\ call \in EditorCommands /\ call.kind = "save" /\ call.waited
      /\ call.revision = editing.revision /\ call.shown = editing.draft
  BY <1>1, <1>2, Sent DEF RevisionEdited
<1> HIDE DEF call
<1>4. /\ editing' \in EditorViews /\ IsOpen' /\ editing'.busy
      /\ editing'.draft = editing.draft /\ editing'.revision = editing.revision
      /\ editing'.publishing = editing.publishing /\ editing'.reviewing = editing.reviewing
  <2>1. /\ editing' \in EditorViews /\ editing' \notin {NotRead, Denied}
        /\ editing'.draft = editing.draft /\ editing'.revision = editing.revision
    BY <1>1, <1>2, FlagLeaves
  <2>2. /\ editing'.busy /\ editing'.publishing = editing.publishing
        /\ editing'.reviewing = editing.reviewing
    BY <1>1, <1>2 DEF EditorViews
  <2> QED BY <2>1, <2>2 DEF IsOpen
<1>5. /\ waiting' \in EditorReads /\ waiting' # NoReads
      /\ waiting'.kind = "save" /\ waiting'.step = "put"
  BY <1>1, ReadsAreAwaited DEF EditorReads
<1>6. \A c \in commands : ~(c.kind = "save" /\ c.waited)
  BY <1>1, IdleScreen
<1>7. EditorTyped'
  BY <1>1, <1>3, <1>4, <1>5 DEF EditorTyped
<1>8. HoldsTogether'
  BY <1>1, <1>2, <1>3, <1>4, <1>5 DEF EditorInv, HoldsTogether, ReadTogether
<1>9. SaveIsWaitedFor'
  BY <1>1, <1>3, <1>4, <1>5, <1>6 DEF SaveIsWaitedFor
<1>10. WaitsForSomething'
  BY <1>1, <1>3, <1>4, <1>5 DEF EditorInv, WaitsForSomething
<1> QED BY <1>7, <1>8, <1>9, <1>10 DEF EditorInv

LEMMA PreviewSavedKeeps ==
  ASSUME EditorInv, PreviewSaved
  PROVE  EditorInv'
<1>1. /\ IsOpen /\ ~editing.busy /\ editing' = [editing EXCEPT !.busy = TRUE]
      /\ waiting' = [kind |-> "preview", step |-> "summary", read |-> NotRead]
      /\ UNCHANGED <<resource, commands, question>> /\ EditorTyped
  BY DEF PreviewSaved, EditorInv
<1>2. /\ editing \in EditorViews /\ editing' \in EditorViews /\ IsOpen' /\ editing'.busy
      /\ editing'.draft = editing.draft /\ editing'.revision = editing.revision
      /\ editing'.publishing = editing.publishing /\ editing'.reviewing = editing.reviewing
  <2>1. editing \in EditorViews
    BY <1>1, OpenView
  <2>2. /\ editing' \in EditorViews /\ editing' \notin {NotRead, Denied}
        /\ editing'.draft = editing.draft /\ editing'.revision = editing.revision
    BY <1>1, <2>1, FlagLeaves
  <2>3. /\ editing'.busy /\ editing'.publishing = editing.publishing
        /\ editing'.reviewing = editing.reviewing
    BY <1>1, <2>1 DEF EditorViews
  <2> QED BY <2>1, <2>2, <2>3 DEF IsOpen
<1>3. /\ waiting' \in EditorReads /\ waiting' # NoReads
      /\ waiting'.kind = "preview" /\ waiting'.step = "summary"
  BY <1>1, ReadsAreAwaited DEF EditorReads
<1>4. \A c \in commands : ~(c.kind = "save" /\ c.waited)
  BY <1>1, IdleScreen
<1>5. EditorTyped' /\ HoldsTogether' /\ SaveIsWaitedFor'
  BY <1>1, <1>2, <1>3, <1>4 DEF EditorInv, EditorTyped, HoldsTogether, ReadTogether, SaveIsWaitedFor
<1>6. WaitsForSomething'
  BY <1>1, <1>2, <1>3 DEF EditorInv, WaitsForSomething
<1> QED BY <1>5, <1>6 DEF EditorInv

\* The other commands are heard whatever the screen does: it only notes that one is out.
LEMMA AskingKeeps ==
  ASSUME EditorInv, AskForReview \/ ConfirmPublication \/ ConfirmDecision
  PROVE  EditorInv'
<1>1. PICK kind \in {"request", "publish", "approved", "rejected"}, revision \in Nat, about \in Nat :
        /\ commands' = commands \cup {Call(kind, revision, about)}
        /\ editing' = IF kind = "publish" THEN [editing EXCEPT !.publishing = TRUE]
                      ELSE [editing EXCEPT !.reviewing = TRUE]
  <2>1. /\ editing.context \in [latest : Nat, revision : Nat, can : BOOLEAN]
        /\ editing.review \in [id : Nat, revision : Nat, state : ReviewStates]
    BY OpenView DEF AskForReview, ConfirmPublication, ConfirmDecision, EditorInv, EditorViews
  <2>2. CASE AskForReview
    BY <2>1, <2>2 DEF AskForReview
  <2>3. CASE ConfirmPublication
    BY <2>1, <2>3 DEF ConfirmPublication
  <2>4. CASE ConfirmDecision
    BY <2>1, <2>4 DEF ConfirmDecision
  <2> QED BY <2>2, <2>3, <2>4
<1>2. IsOpen /\ UNCHANGED <<resource, waiting, question>> /\ EditorTyped
  BY DEF AskForReview, ConfirmPublication, ConfirmDecision, EditorInv
<1>3. PICK call : call = Call(kind, revision, about)
  OBVIOUS
<1>4. call \in EditorCommands /\ call.kind = kind /\ call.waited
  BY <1>2, <1>3, Sent
<1>5. /\ editing \in EditorViews /\ editing' \in EditorViews /\ IsOpen' /\ editing' # NotRead
      /\ editing'.draft = editing.draft /\ editing'.revision = editing.revision
      /\ editing'.busy = editing.busy
      /\ editing'.publishing => editing.publishing \/ kind = "publish"
      /\ editing'.reviewing => editing.reviewing \/ kind # "publish"
  <2>1. editing \in EditorViews
    BY <1>2, OpenView
  <2>2. /\ editing' \in EditorViews /\ editing' \notin {NotRead, Denied}
        /\ editing'.draft = editing.draft /\ editing'.revision = editing.revision
    BY <1>1, <2>1, FlagLeaves
  <2>3. CASE kind = "publish"
    <3>1. /\ editing'.busy = editing.busy /\ editing'.reviewing = editing.reviewing
      BY <1>1, <2>1, <2>3 DEF EditorViews
    <3> QED BY <2>1, <2>2, <2>3, <3>1 DEF IsOpen
  <2>4. CASE kind # "publish"
    <3>1. /\ editing'.busy = editing.busy /\ editing'.publishing = editing.publishing
      BY <1>1, <2>1, <2>4 DEF EditorViews
    <3> QED BY <2>1, <2>2, <2>4, <3>1 DEF IsOpen
  <2> QED BY <2>3, <2>4
<1>6. commands' = commands \cup {call} /\ call.kind # "save"
  BY <1>1, <1>3, <1>4
<1>7. EditorTyped' /\ HoldsTogether' /\ SaveIsWaitedFor'
  BY <1>2, <1>4, <1>5, <1>6
     DEF EditorInv, EditorTyped, HoldsTogether, ReadTogether, SaveIsWaitedFor, IsOpen
<1>8. WaitsForSomething'
  BY <1>2, <1>4, <1>5, <1>6 DEF EditorInv, WaitsForSomething, IsOpen
<1> QED BY <1>7, <1>8 DEF EditorInv

--------------------------------------------------------------------------------
(* The editor: what the server does, and its answers.                       *)

LEMMA ElsewhereEditedKeeps ==
  ASSUME EditorInv, ElsewhereEdited
  PROVE  EditorInv'
<1>1. EditorMoves /\ UNCHANGED editorOnly
  BY ResourceSteps DEF ElsewhereEdited, EditorInv
<1>2. UNCHANGED <<editing, waiting, commands, question>>
  BY <1>1 DEF editorOnly
<1>3. ASSUME NEW c \in commands, c.kind = "save", c.status = "sent"
      PROVE  ReadTogether(c.shown, c.revision)'
  BY <1>1, <1>3, StillTogether DEF EditorInv, EditorTyped, HoldsTogether, EditorCommands
<1>4. HoldsTogether'
  BY <1>1, <1>2, <1>3, ScreenTogether DEF HoldsTogether
<1>5. EditorTyped' /\ SaveIsWaitedFor' /\ WaitsForSomething'
  BY <1>1, <1>2 DEF EditorInv, EditorTyped, EditorMoves, SaveIsWaitedFor, WaitsForSomething, IsOpen
<1> QED BY <1>4, <1>5 DEF EditorInv

\* The server takes a command or refuses it. Only a save changes the draft, and
\* then the one its author had on the screen.
LEMMA TakenOrRefused ==
  ASSUME EditorInv, NEW c \in commands, c.status = "sent",
         \/ TakesCommand(c) /\ Becomes(c, "done")
         \/ Becomes(c, "refused") /\ UNCHANGED resource
  PROVE  /\ EditorMoves
         /\ resource'.draft # resource.draft => c.shown = resource.draft
         /\ commands \ commands' \subseteq {c}
         /\ \A e \in commands' : \/ e \in commands
                                 \/ /\ e \in EditorCommands /\ e.kind = c.kind /\ c.waited /\ e.waited
                                    /\ e.status \in {"done", "refused"}
         /\ c.waited => \E e \in commands' : e.kind = c.kind /\ e.waited
         /\ \A d \in commands : d # c => d \in commands'
<1>1. c \in EditorCommands /\ EditorTyped
  BY DEF EditorInv, EditorTyped
<1>2. PICK status \in {"done", "refused"} : Becomes(c, status)
  OBVIOUS
<1>3. PICK e : e = [c EXCEPT !.status = status]
  OBVIOUS
<1>4. /\ e \in EditorCommands /\ e.kind = c.kind /\ e.waited = c.waited /\ e.status = status
  BY <1>1, <1>3 DEF EditorCommands
<1>5. commands' = (commands \ {c}) \cup (IF c.waited THEN {e} ELSE {})
  BY <1>2, <1>3 DEF Becomes
<1>6. /\ EditorMoves
      /\ resource'.draft # resource.draft => c.shown = resource.draft
  <2>1. CASE UNCHANGED resource
    BY <1>1, <2>1, ResourceSteps
  <2>2. CASE TakesCommand(c)
    <3>1. /\ c.revision = resource.revision
          /\ c.kind = "save" => resource' \in {resource, SavedDraft}
          /\ c.kind = "request" => resource' = Asked
          /\ c.kind = "publish" => resource' = PublishedIt
          /\ c.kind \in {"approved", "rejected"} => resource' = Decided(c.kind)
      BY <2>2 DEF TakesCommand
    <3>2. c.kind \in {"save", "request", "publish", "approved", "rejected"}
      BY <1>1 DEF EditorCommands
    <3>3. EditorMoves
      BY <1>1, <3>1, <3>2, ResourceSteps
    <3>4. resource'.draft # resource.draft => c.kind = "save"
      BY <1>1, <3>1, <3>2 DEF EditorTyped, EditorResources, Reviews, Asked, PublishedIt, Decided
    <3>5. c.kind = "save" => c.shown = resource.draft
      BY <3>1 DEF EditorInv, HoldsTogether, ReadTogether
    <3> QED BY <3>3, <3>4, <3>5
  <2> QED BY <2>1, <2>2
<1> QED BY <1>4, <1>5, <1>6

LEMMA ServerTakesKeeps ==
  ASSUME EditorInv, ServerTakes
  PROVE  EditorInv'
<1>1. PICK c \in commands :
        /\ c.status = "sent"
        /\ \/ TakesCommand(c) /\ Becomes(c, "done")
           \/ Becomes(c, "refused") /\ UNCHANGED resource
        /\ UNCHANGED <<editing, waiting, question, uses>>
  BY DEF ServerTakes
<1>2. /\ EditorMoves
      /\ \A e \in commands' : \/ e \in commands
                              \/ /\ e \in EditorCommands /\ e.kind = c.kind /\ c.waited /\ e.waited
                                 /\ e.status \in {"done", "refused"}
      /\ c.waited => \E e \in commands' : e.kind = c.kind /\ e.waited
      /\ \A d \in commands : d # c => d \in commands'
  BY <1>1, TakenOrRefused
<1>3. EditorTyped'
  BY <1>1, <1>2 DEF EditorInv, EditorTyped, EditorMoves, IsOpen
<1>4. HoldsTogether'
  <2>1. ASSUME NEW e \in commands', e.kind = "save", e.status = "sent"
        PROVE  ReadTogether(e.shown, e.revision)'
    <3>1. e \in commands
      BY <1>2, <2>1
    <3> QED BY <1>2, <2>1, <3>1, StillTogether
               DEF EditorInv, EditorTyped, HoldsTogether, EditorCommands
  <2> QED BY <1>1, <1>2, <2>1, ScreenTogether DEF HoldsTogether
<1>5. SaveIsWaitedFor'
  <2>1. ASSUME NEW e \in commands', e.kind = "save", e.waited,
               NEW d \in commands', d.kind = "save", d.waited
        PROVE  /\ waiting # NoReads /\ waiting.kind = "save" /\ waiting.step = "put"
               /\ e = d
    <3>1. PICK status : commands' = (commands \ {c}) \cup (IF c.waited THEN {[c EXCEPT !.status = status]} ELSE {})
      BY <1>1 DEF Becomes
    <3>2. PICK after : after = [c EXCEPT !.status = status]
      OBVIOUS
    <3>3. after.kind = c.kind /\ after.waited = c.waited
      BY <3>2 DEF EditorInv, EditorTyped, EditorCommands
    <3>4. ASSUME NEW g \in commands', g.kind = "save", g.waited
          PROVE  \/ g \in commands /\ g # c
                 \/ g = after /\ c.kind = "save" /\ c.waited
      BY <3>1, <3>2, <3>3, <3>4
    <3>5. /\ waiting # NoReads /\ waiting.kind = "save" /\ waiting.step = "put"
          /\ \A g, h \in commands : g.kind = "save" /\ g.waited /\ h.kind = "save" /\ h.waited => g = h
      <4>1. PICK f \in commands : f.kind = "save" /\ f.waited
        BY <2>1, <3>4
      <4> QED BY <4>1 DEF EditorInv, SaveIsWaitedFor
    <3>6. e = d
      BY <2>1, <3>4, <3>5
    <3> QED BY <3>5, <3>6
  <2> QED BY <1>1, <2>1 DEF EditorInv, SaveIsWaitedFor, IsOpen
<1>6. WaitsForSomething'
  <2> SUFFICES ASSUME IsOpen'
               PROVE  /\ editing'.busy => waiting' # NoReads
                      /\ waiting' # NoReads /\ waiting'.step = "put" =>
                           \E e \in commands' : e.kind = "save" /\ e.waited
                      /\ editing'.publishing => \E e \in commands' : e.kind = "publish" /\ e.waited
                      /\ editing'.reviewing =>
                           \E e \in commands' : e.kind \notin {"save", "publish"} /\ e.waited
    BY DEF WaitsForSomething
  <2>1. IsOpen
    BY <1>1 DEF IsOpen
  <2>2. ASSUME NEW d \in commands, d.waited
        PROVE  \E e \in commands' : e.kind = d.kind /\ e.waited
    BY <1>2, <2>2
  <2> QED BY <1>1, <2>1, <2>2 DEF EditorInv, WaitsForSomething
<1> QED BY <1>3, <1>4, <1>5, <1>6 DEF EditorInv

\* A save is answered: the screen reads on, or says what went wrong.
LEMMA SaveAnsweredKeeps ==
  ASSUME EditorInv, SaveAnswered
  PROVE  EditorInv'
<1>1. PICK c \in commands, good \in BOOLEAN :
        /\ c.kind = "save" /\ HearsOf(c, good)
        /\ IF good THEN waiting' = [waiting EXCEPT !.step = "summary"] /\ UNCHANGED editing
           ELSE \/ Displays([editing EXCEPT !.busy = FALSE, !.blocked = TRUE])
                \/ c.status = "refused" /\ Displays([editing EXCEPT !.busy = FALSE])
                \/ c.status = "refused" /\ Displays(Denied)
        /\ UNCHANGED <<resource, question, uses>>
  BY DEF SaveAnswered
<1>2. /\ c \in EditorCommands /\ c.waited /\ c.kind = "save"
      /\ waiting \in EditorReads /\ waiting # NoReads /\ waiting.kind = "save" /\ waiting.step = "put"
      /\ \A d \in commands : d.kind = "save" /\ d.waited => d = c
      /\ \A d \in commands : d.kind = "save" /\ d.status = "sent" => ReadTogether(d.shown, d.revision)
      /\ commands \subseteq EditorCommands /\ EditorTyped
  BY <1>1 DEF EditorInv, EditorTyped, HoldsTogether, SaveIsWaitedFor, HearsOf
<1>3. PICK late : late = [c EXCEPT !.waited = FALSE]
  OBVIOUS
<1>4. /\ late \in EditorCommands /\ late.kind = "save" /\ ~late.waited
      /\ late.status = c.status /\ late.shown = c.shown /\ late.revision = c.revision
  BY <1>2, <1>3 DEF EditorCommands
<1>5. commands' = (commands \ {c}) \cup (IF ~good /\ c.status = "sent" THEN {late} ELSE {})
  BY <1>1, <1>3 DEF HearsOf
<1>6. /\ \A d \in commands' : d.kind = "save" => ~d.waited
      /\ \A d \in commands' : d.kind = "save" /\ d.status = "sent" => ReadTogether(d.shown, d.revision)
      /\ commands' \subseteq EditorCommands
  BY <1>2, <1>4, <1>5
<1>7. \A d \in commands : d.kind # "save" => d \in commands'
  BY <1>2, <1>5
<1>8. /\ IsOpen /\ editing \in EditorViews /\ ReadTogether(editing.draft, editing.revision)
      /\ editing.publishing => \E d \in commands' : d.kind = "publish" /\ d.waited
      /\ editing.reviewing => \E d \in commands' : d.kind \notin {"save", "publish"} /\ d.waited
  BY <1>2, <1>7, PreviewShown
<1>9. CASE good
  <2>1. /\ waiting' = [waiting EXCEPT !.step = "summary"] /\ UNCHANGED <<editing, resource, question>>
    BY <1>1, <1>9
  <2>2. waiting' \in EditorReads /\ waiting'.kind = "save" /\ waiting'.step = "summary"
    BY <1>2, <2>1 DEF EditorReads
  <2>3. waiting' # NoReads
    BY <2>2, ReadsAreAwaited
  <2>4. EditorTyped' /\ SaveIsWaitedFor'
    BY <1>2, <1>6, <1>8, <2>1, <2>2, <2>3 DEF EditorInv, EditorTyped, SaveIsWaitedFor, IsOpen
  <2>5. HoldsTogether'
    BY <1>6, <1>8, <2>1, <2>2 DEF HoldsTogether, ReadTogether, IsOpen
  <2>6. WaitsForSomething'
    BY <1>8, <2>1, <2>2, <2>3 DEF WaitsForSomething, IsOpen
  <2> QED BY <2>4, <2>5, <2>6 DEF EditorInv
<1>10. CASE Displays(Denied)
  BY <1>1, <1>6, <1>10, DeniedKeeps
<1>11. ASSUME NEW page \in EditorViews, Displays(page), ~page.busy,
              page.draft = editing.draft, page.revision = editing.revision,
              page.publishing = editing.publishing, page.reviewing = editing.reviewing
       PROVE  EditorInv'
  BY <1>1, <1>6, <1>8, <1>11, DisplaysKeeps
<1>12. CASE Displays([editing EXCEPT !.busy = FALSE, !.blocked = TRUE])
  <2>1. PICK page : page = [editing EXCEPT !.busy = FALSE, !.blocked = TRUE]
    OBVIOUS
  <2>2. /\ page \in EditorViews /\ ~page.busy /\ page.draft = editing.draft
        /\ page.revision = editing.revision /\ page.publishing = editing.publishing
        /\ page.reviewing = editing.reviewing
    BY <1>8, <2>1, FlagSet, SameDraft
  <2> QED BY <1>11, <1>12, <2>1, <2>2
<1>13. CASE Displays([editing EXCEPT !.busy = FALSE])
  <2>1. PICK page : page = [editing EXCEPT !.busy = FALSE]
    OBVIOUS
  <2>2. /\ page \in EditorViews /\ ~page.busy /\ page.draft = editing.draft
        /\ page.revision = editing.revision /\ page.publishing = editing.publishing
        /\ page.reviewing = editing.reviewing
    BY <1>8, <2>1, FlagSet, SameDraft
  <2> QED BY <1>11, <1>13, <2>1, <2>2
<1> QED BY <1>1, <1>9, <1>10, <1>12, <1>13

\* Another command is answered: the screen starts over, or stops waiting for it.
LEMMA CommandAnsweredKeeps ==
  ASSUME EditorInv, CommandAnswered
  PROVE  EditorInv'
<1>1. PICK c \in commands, good \in BOOLEAN :
        /\ c.kind # "save" /\ HearsOf(c, good)
        /\ IF good THEN StartsOver
           ELSE /\ editing' = CASE ~IsOpen -> editing
                                [] IsOpen /\ c.kind = "publish" -> [editing EXCEPT !.publishing = FALSE]
                                [] OTHER -> [editing EXCEPT !.reviewing = FALSE]
                /\ UNCHANGED waiting
        /\ UNCHANGED <<resource, uses>>
  BY DEF CommandAnswered
<1>2. question' \in {"none", "publish", "approved", "rejected"}
  BY DEF CommandAnswered, EditorInv, EditorTyped
<1>3. CASE good
  <2>1. commands' \subseteq GivenUp
    BY <1>1, <1>3 DEF HearsOf
  <2> QED BY <1>1, <1>2, <1>3, <2>1, StartsOverKeeps
<1>4. CASE ~good
  <2>1. PICK late : late = [c EXCEPT !.waited = FALSE]
    OBVIOUS
  <2>2. /\ c \in EditorCommands /\ late \in EditorCommands /\ late.kind = c.kind /\ EditorTyped
    BY <2>1 DEF EditorInv, EditorTyped, EditorCommands
  <2>3. commands' = (commands \ {c}) \cup (IF c.status = "sent" THEN {late} ELSE {})
    BY <1>1, <1>4, <2>1 DEF HearsOf
  <2>4. /\ commands' \subseteq EditorCommands
        /\ \A d \in commands : d # c => d \in commands'
        /\ \A d \in commands' : d \in commands \/ d.kind # "save"
        /\ \A d \in commands : d.kind = "save" => d \in commands'
    BY <1>1, <2>2, <2>3 DEF EditorInv, EditorTyped
  <2>5. /\ UNCHANGED <<waiting, resource>>
        /\ editing' = CASE ~IsOpen -> editing
                        [] IsOpen /\ c.kind = "publish" -> [editing EXCEPT !.publishing = FALSE]
                        [] OTHER -> [editing EXCEPT !.reviewing = FALSE]
    BY <1>1, <1>4
  <2>6. /\ ~IsOpen => UNCHANGED editing
        /\ IsOpen => /\ editing \in EditorViews /\ editing' \in EditorViews
                     /\ editing'.draft = editing.draft /\ editing'.revision = editing.revision
                     /\ editing'.busy = editing.busy
                     /\ editing'.publishing => editing.publishing /\ c.kind # "publish"
                     /\ editing'.reviewing => editing.reviewing /\ c.kind = "publish"
    <3>1. ASSUME IsOpen
          PROVE  /\ editing \in EditorViews /\ editing' \in EditorViews
                 /\ editing'.draft = editing.draft /\ editing'.revision = editing.revision
                 /\ editing'.busy = editing.busy
                 /\ editing'.publishing => editing.publishing /\ c.kind # "publish"
                 /\ editing'.reviewing => editing.reviewing /\ c.kind = "publish"
      <4>1. editing \in EditorViews
        BY <2>2, <3>1, OpenView
      <4>2. CASE c.kind = "publish"
        <5>1. editing' = [editing EXCEPT !.publishing = FALSE]
          BY <2>5, <3>1, <4>2
        <5> QED BY <4>1, <4>2, <5>1 DEF EditorViews
      <4>3. CASE c.kind # "publish"
        <5>1. editing' = [editing EXCEPT !.reviewing = FALSE]
          BY <2>5, <3>1, <4>3
        <5> QED BY <4>1, <4>3, <5>1 DEF EditorViews
      <4> QED BY <4>2, <4>3
    <3> QED BY <2>5, <3>1
  <2>7. IsOpen' <=> IsOpen
    BY <2>6, ViewsAreOpen DEF IsOpen
  <2>8. ~IsOpen => UNCHANGED editing
    BY <2>6
  <2>9. EditorTyped'
    BY <1>2, <2>4, <2>5, <2>6, <2>7 DEF EditorInv, EditorTyped
  <2>10. HoldsTogether'
    <3>1. /\ IsOpen' => ReadTogether(editing.draft, editing.revision)'
      BY <2>5, <2>6, <2>7 DEF EditorInv, HoldsTogether, ReadTogether
    <3>2. ASSUME NEW d \in commands', d.kind = "save", d.status = "sent"
          PROVE  ReadTogether(d.shown, d.revision)'
      BY <2>4, <2>5, <3>2 DEF EditorInv, HoldsTogether, ReadTogether
    <3> QED BY <2>5, <3>1, <3>2 DEF EditorInv, HoldsTogether, ReadTogether
  <2>11. SaveIsWaitedFor'
    <3>1. editing = NotRead => editing' = NotRead
      BY <2>6 DEF IsOpen
    <3> QED BY <2>4, <2>5, <2>6, <2>7, <3>1 DEF EditorInv, SaveIsWaitedFor
  <2>12. WaitsForSomething'
    <3> SUFFICES ASSUME IsOpen
                 PROVE  /\ editing'.busy => waiting' # NoReads
                        /\ waiting' # NoReads /\ waiting'.step = "put" =>
                             \E e \in commands' : e.kind = "save" /\ e.waited
                        /\ editing'.publishing => \E e \in commands' : e.kind = "publish" /\ e.waited
                        /\ editing'.reviewing =>
                             \E e \in commands' : e.kind \notin {"save", "publish"} /\ e.waited
      BY <2>7 DEF WaitsForSomething
    <3> QED BY <2>4, <2>5, <2>6 DEF EditorInv, WaitsForSomething
  <2> QED BY <2>9, <2>10, <2>11, <2>12 DEF EditorInv
<1> QED BY <1>3, <1>4

LEMMA EditorStep ==
  ASSUME EditorInv, [EditorNext]_editorVars
  PROVE  EditorInv'
<1>1. CASE UNCHANGED editorVars
  BY <1>1 DEF editorVars, editorOnly, EditorInv, EditorTyped, HoldsTogether, ReadTogether,
              SaveIsWaitedFor, WaitsForSomething, IsOpen
<1>2. CASE ReadStep
  BY <1>2, ReadStepKeeps
<1>3. CASE ReadStepFails
  BY <1>3, ReadStepFailsKeeps
<1>4. CASE SignInOrReload
  BY <1>4, SignInOrReloadKeeps
<1>5. CASE EditDraft \/ AskToConfirm \/ Cancel
  BY <1>5, UsingKeeps
<1>6. CASE SaveEdited
  BY <1>6, SaveEditedKeeps
<1>7. CASE PreviewSaved
  BY <1>7, PreviewSavedKeeps
<1>8. CASE AskForReview \/ ConfirmPublication \/ ConfirmDecision
  BY <1>8, AskingKeeps
<1>9. CASE ServerTakes
  BY <1>9, ServerTakesKeeps
<1>10. CASE SaveAnswered
  BY <1>10, SaveAnsweredKeeps
<1>11. CASE CommandAnswered
  BY <1>11, CommandAnsweredKeeps
<1>12. CASE ElsewhereEdited
  BY <1>12, ElsewhereEditedKeeps
<1> QED BY <1>1, <1>2, <1>3, <1>4, <1>5, <1>6, <1>7, <1>8, <1>9, <1>10, <1>11, <1>12 DEF EditorNext

\* Nothing but the server's taking a command both changes the draft and takes commands away, and
\* it takes a save's away whose author had the draft it replaces on the screen.
LEMMA DraftReplaced ==
  ASSUME EditorInv, [EditorNext]_editorVars, resource'.draft # resource.draft,
         NEW c \in commands \ commands'
  PROVE  c.shown = resource.draft
<1>1. CASE ServerTakes
  <2>1. PICK d \in commands :
          /\ d.status = "sent"
          /\ \/ TakesCommand(d) /\ Becomes(d, "done")
             \/ Becomes(d, "refused") /\ UNCHANGED resource
    BY <1>1 DEF ServerTakes
  <2>2. d.shown = resource.draft /\ commands \ commands' \subseteq {d}
    BY <2>1, TakenOrRefused
  <2> QED BY <2>2
<1>2. CASE ElsewhereEdited
  BY <1>2 DEF ElsewhereEdited, editorOnly
<1>3. CASE ~ServerTakes /\ ~ElsewhereEdited
  <2>1. UNCHANGED resource
    BY <1>3 DEF EditorNext, editorVars, editorOnly, ReadStep, ReadStepFails, SignInOrReload, EditDraft,
                SaveEdited, PreviewSaved, AskForReview, AskToConfirm, Cancel, ConfirmPublication,
                ConfirmDecision, SaveAnswered, CommandAnswered
  <2> QED BY <2>1
<1> QED BY <1>1, <1>2, <1>3

\* A draft saved from the screen takes the place of the one its author had on the screen, whatever
\* was saved elsewhere or given up meanwhile, and nothing on the screen waits for an answer that is
\* not coming (ResidentExperienceEditor.jsx:202).
THEOREM EditorOverwrites == EditorSpec => EditorOverwritesNobody
<1>1. EditorInv /\ [EditorNext]_editorVars
        => [/\ resource'.draft # resource.draft => \A c \in commands \ commands' : c.shown = resource.draft
            /\ WaitsForSomething']_editorVars
  BY EditorStep, DraftReplaced DEF EditorInv
<1>2. EditorInit => EditorInv
  BY EditorInitially
<1>3. EditorInv /\ [EditorNext]_editorVars => EditorInv'
  BY EditorStep
<1> QED BY <1>1, <1>2, <1>3, PTL DEF EditorSpec, EditorOverwritesNobody

--------------------------------------------------------------------------------
(* The web client: one screen acts, and the others keep what they show.     *)

ClientInv == ReportInv /\ PageInv /\ RequestListInv /\ EditorInv

LEMMA ClientStep ==
  ASSUME ClientInv, [ClientNext]_ClientVars
  PROVE  ClientInv'
<1>1. /\ [ReportNext]_reportVars /\ [RequestPageNext]_pageVars
      /\ [ListNext]_listVars /\ [EditorNext]_editorVars
  BY DEF ClientNext, ClientVars
<1>2. ReportInv'
  BY <1>1, ReportStep DEF ClientInv
<1>3. PageInv'
  BY <1>1, RequestPageStep DEF ClientInv
<1>4. RequestListInv'
  BY <1>1, RequestListStep DEF ClientInv
<1>5. EditorInv'
  BY <1>1, EditorStep DEF ClientInv
<1> QED BY <1>2, <1>3, <1>4, <1>5 DEF ClientInv

\* Whichever screen is used, every one of them keeps its invariant (app/router.jsx:36).
THEOREM ClientInvariant == ClientSpec => []ClientInv
<1>1. ClientInit => ClientInv
  BY ReportInitially, RequestPageInitially, RequestListInitially, EditorInitially
     DEF ClientInit, ClientInv
<1>2. ClientInv /\ [ClientNext]_ClientVars => ClientInv'
  BY ClientStep
<1> QED BY <1>1, <1>2, PTL DEF ClientSpec

\* With every screen in use, the page of a request shows protected details with what allows them,
\* sends a picked target under the revision it was picked on, and lets what was refused as stale end
\* (InternalRequestWorkspace.jsx:583-610, 666-706), though a Unit in the routing form may outlive its
\* revision; and the list answers its address (:197).
THEOREM ClientScreens == ClientSpec => []ScreensHoldToWhatWasAsked
<1>1. ClientInv => ScreensHoldToWhatWasAsked
  <2>1. ClientInv => ListAnswersItsAddress
    BY ListedShown DEF ClientInv
  <2>2. ClientInv => PageHoldsToItsRequest
    BY DEF ClientInv, PageInv, ScreenInv, ContactAsked, ChoiceInv, PageHoldsToItsRequest,
           ContactWhileReadable
  <2> QED BY <2>1, <2>2 DEF ScreensHoldToWhatWasAsked
<1> QED BY <1>1, ClientInvariant, PTL

\* Run with the other screens, the report page retries its submission under one key
\* (ReportIssuePage.jsx:418) and shows the form of the Issue chosen last (:223).
THEOREM ClientReports == ClientSpec => [](RetriesReportOnce /\ ShowsTheChosenIssue)
<1>1. ClientInv => RetriesReportOnce /\ ShowsTheChosenIssue
  BY DEF ClientInv, ReportInv, OneKeyPerRun, RetriesReportOnce, AnswersForTheChoice, FilesStay,
         StagedFor, ShowsTheChosenIssue
<1> QED BY <1>1, ClientInvariant, PTL
================================================================================
