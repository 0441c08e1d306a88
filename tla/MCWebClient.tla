----------------------------- MODULE MCWebClient -----------------------------
(***************************************************************************)
(* The web client and the files residents add there: the page on which an  *)
(* Issue is reported, the admission of its files, the list of requests and *)
(* the page of one for staff, and the screen the resident experience is    *)
(* edited on. They share no variable, so one run checks them one at a      *)
(* time: `focus` says which of them acts. The unit of time is half an hour.*)
(***************************************************************************)
EXTENDS AttachmentStaging, ReportPage, RequestPage, RequestList, ResidentEditor, TLC

CONSTANTS s1, s2, c1, c2, x1, x2, b1, b2, b3

VARIABLE focus

ClientVars == <<vars, reportVars, pageVars, listVars, editorVars, focus>>

CategoryOfDef == [i \in ReportIssues |-> IF i = x1 THEN c1 ELSE c2]
\* Two of the three batches: a larger group costs more than it saves, as the screens have no batches.
Symmetry == Permutations({s1, s2}) \cup Permutations({b1, b2})

ClientInit ==
  /\ focus \in {"files", "report", "page", "list", "editor"}
  /\ Init /\ ReportInit /\ RequestPageInit /\ ListInit /\ EditorInit
  /\ focus # "report" => ~offered /\ ~\E i \in ReportIssues : catalog[i].link
  /\ focus # "editor" => resource.draft = 0

ClientNext ==
  /\ UNCHANGED focus
  /\ \/ focus = "files" /\ Next /\ UNCHANGED <<reportVars, pageVars, listVars, editorVars>>
     \/ focus = "report" /\ ReportNext /\ UNCHANGED <<vars, pageVars, listVars, editorVars>>
     \/ focus = "page" /\ RequestPageNext /\ UNCHANGED <<vars, reportVars, listVars, editorVars>>
     \/ focus = "list" /\ ListNext /\ UNCHANGED <<vars, reportVars, pageVars, editorVars>>
     \/ focus = "editor" /\ EditorNext /\ UNCHANGED <<vars, reportVars, pageVars, listVars>>

ClientSpec == ClientInit /\ [][ClientNext]_ClientVars
-----------------------------------------------------------------------------
(* The request page shows protected details with what allows them, sends a picked target under the
   revision it was picked on and lets what was refused as stale end (InternalRequestWorkspace.jsx:583-610,
   666-706); the list answers its address (:197). *)
ScreensHoldToWhatWasAsked == PageHoldsToItsRequest /\ ListAnswersItsAddress
=============================================================================
