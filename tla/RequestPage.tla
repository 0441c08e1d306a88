---------------------------- MODULE RequestPage ----------------------------
(***************************************************************************)
(* The page on which a member of staff works on one request: what it shows *)
(* of the request, the reads that are under way and may answer out of      *)
(* order, the form or dialog that is open and what was chosen in it, the   *)
(* requester's contact details behind their own permission, and the        *)
(* command in flight.                                                      *)
(*                                                                         *)
(* An abortable read that was aborted changes nothing and is forgotten; an *)
(* aborted command may still arrive. `refused` only remembers that a       *)
(* choice was sent and found stale; nothing depends on it. The server is   *)
(* RequestHandling's, reduced to a revision and to what this member may    *)
(* read.                                                                   *)
(***************************************************************************)
EXTENDS Naturals, FiniteSets

CONSTANTS MaxStored, MaxAsked     \* bounds: revisions, reads under way at once

ASSUME RequestPageAssumption == MaxStored \in Nat \ {0} /\ MaxAsked \in Nat \ {0}

VARIABLES
  stored,    \* the request: its revision, and what this member may read: "all", "parent", "none"
  view,      \* what the page shows of it
  reads,     \* of each read, its progress: none, asked, or the server's answer
  panel,     \* the open form or dialog, and the revision its choice was made on
  destination,  \* the Unit in the routing form, and the revision it was read or chosen on
  contact,   \* the contact details: "none", "loading", "shown", "protected", "error"
  command,   \* the command in flight
  busy,      \* whether the page's buttons are disabled
  strays     \* commands the page gave up on that may still arrive

pageVars == <<stored, view, reads, panel, destination, contact, command, busy, strays>>

(* "load": the page; "done" and "conflict": the page again after a command; "denied" and "recheck":
   the parent, after a command or a part of the page was forbidden; "contact": the details;
   "protected": the page again after they were forbidden; "orphan": such a read whose dialog has
   closed. *)
Reads == {"load", "done", "conflict", "denied", "recheck", "contact", "protected", "orphan"}
Bare(kind) == [kind |-> kind, revision |-> 0, contact |-> FALSE]
Snapshot == [kind |-> "data", revision |-> stored.revision, contact |-> stored.access = "all"]
Underway == {r \in Reads : reads[r].kind # "none"}
NoPanel == [kind |-> "none", picked |-> 0, refused |-> FALSE]
AsRead(revision) == [on |-> revision, chosen |-> FALSE, refused |-> FALSE]
NoCommand == [phase |-> "none", kind |-> "none", expected |-> 0, picked |-> 0, refused |-> FALSE,
              result |-> "none"]
Shown == view.kind = "data"

RequestPageTypeOK ==
  /\ stored \in [revision : 1..MaxStored, access : {"all", "parent", "none"}]
  /\ view \in [kind : {"loading", "failed", "data"}, revision : 0..MaxStored, contact : BOOLEAN]
  /\ reads \in [Reads -> [kind : {"none", "asked", "data", "gone", "forbidden", "failed"},
                          revision : 0..MaxStored, contact : BOOLEAN]]
  /\ panel \in [kind : {"none", "narrative", "routing", "manage", "contact"}, picked : 0..MaxStored,
                refused : BOOLEAN]
  /\ destination \in [on : 0..MaxStored, chosen : BOOLEAN, refused : BOOLEAN]
  /\ contact \in {"none", "loading", "shown", "protected", "error"}
  /\ command.phase \in {"none", "sent", "answered", "reading"} /\ busy \in BOOLEAN

RequestPageInit ==
  /\ stored = [revision |-> 1, access |-> "all"]
  /\ view = Bare("loading")
  /\ reads = [r \in Reads |-> Bare(IF r = "load" THEN "asked" ELSE "none")]
  /\ panel = NoPanel /\ destination = AsRead(0) /\ contact = "none"
  /\ command = NoCommand /\ busy = FALSE /\ strays = {}

-----------------------------------------------------------------------------
(* Others change the request, or what this member may read of it. *)
Elsewhere ==
  /\ \/ stored.revision < MaxStored /\ stored' = [stored EXCEPT !.revision = @ + 1]
     \/ stored.access = "all" /\ stored' = [stored EXCEPT !.access = "parent"]
     \/ stored.access # "none" /\ stored' = [stored EXCEPT !.access = "none"]
  /\ UNCHANGED <<view, reads, panel, destination, contact, command, busy, strays>>

(* The server answers a read, or the connection fails; only for the details does the page tell a
   request that is gone from a failure. *)
ServeRead(r) ==
  /\ reads[r].kind = "asked"
  /\ \E answer \in {Bare("failed")} \cup
                   (CASE stored.access = "none" -> IF r = "contact" THEN {Bare("gone")} ELSE {}
                      [] r = "contact" /\ stored.access = "parent" -> {Bare("forbidden")}
                      [] OTHER -> {Snapshot}) :
       reads' = [reads EXCEPT ![r] = answer]
  /\ UNCHANGED <<stored, view, panel, destination, contact, command, busy, strays>>

Ask(rs, r) == [rs EXCEPT ![r] = Bare("asked")]
Done(rs, r) == [rs EXCEPT ![r] = Bare("none")]

-----------------------------------------------------------------------------
\* Mutant: the details asked for are still awaited.
ForgetsShownContact(rs) == rs

(* clearContact(): the details go, and so does the request for them. *)
ForgetsContact(rs) ==
  [rs EXCEPT !["contact"] = Bare("none"), !["protected"] = Bare("none"),
             !["orphan"] = IF rs["protected"].kind # "none" THEN rs["protected"] ELSE @]

(* A picker closes when the request shown has another revision; other forms keep their choice. *)
PanelFor(revision) ==
  IF panel.kind = "manage" /\ revision # view.revision
  THEN [panel EXCEPT !.picked = 0, !.refused = FALSE] ELSE panel

(* What was read is shown, and contact details only while they may be. *)
ShowRequest(data, rs) ==
  /\ view' = data /\ panel' = PanelFor(data.revision)
  /\ IF data.contact THEN contact' = contact /\ reads' = rs
     ELSE contact' = "none" /\ reads' = ForgetsContact(rs)

(* read(): the request is shown, and the routing form filled, as they were read. *)
ShowRead(data, rs) == ShowRequest(data, rs) /\ destination' = AsRead(data.revision)

(* The request is taken off the page; what the routing form says is not seen again, as only a read()
   shows the request anew. *)
Hide(rs) ==
  /\ view' = Bare("failed") /\ panel' = NoPanel /\ destination' = AsRead(0) /\ contact' = "none"
  /\ reads' = ForgetsContact(rs)

Ends == command' = NoCommand /\ busy' = FALSE

(* The first read, or the one after a retry. *)
LoadArrives ==
  /\ reads["load"].kind \notin {"none", "asked"}
  /\ IF reads["load"].kind = "data" THEN ShowRead(reads["load"], Done(reads, "load"))
     ELSE Hide(Done(reads, "load"))
  /\ UNCHANGED <<stored, command, busy, strays>>

(* The read that follows a command, or its conflict, ends it. *)
RereadArrives(r) ==
  /\ r \in {"done", "conflict"} /\ reads[r].kind \notin {"none", "asked"}
  /\ IF reads[r].kind = "data" THEN ShowRead(reads[r], Done(reads, r)) ELSE Hide(Done(reads, r))
  /\ Ends /\ UNCHANGED <<stored, strays>>

(* protectedContentAccessFailure(): the parent is read again, and shown if it still was; nothing is
   chosen anew, so the routing form keeps what was chosen, or read, before. *)
RecheckArrives(r) ==
  /\ r \in {"recheck", "denied"} /\ reads[r].kind \notin {"none", "asked"}
  /\ CASE reads[r].kind # "data" -> Hide(Done(reads, r))
       [] reads[r].kind = "data" /\ Shown ->
            ShowRequest(reads[r], Done(reads, r)) /\ UNCHANGED destination
       [] OTHER -> /\ reads' = Done(reads, r) /\ UNCHANGED <<view, panel, destination, contact>>
  /\ IF r = "denied" THEN Ends ELSE UNCHANGED <<command, busy>>
  /\ UNCHANGED <<stored, strays>>

(* A part of the page is refused: by its own permission, or with the request. *)
PartRefused ==
  /\ Shown
  /\ \/ /\ reads["recheck"].kind = "none" /\ Cardinality(Underway) < MaxAsked
        /\ reads' = Ask(reads, "recheck") /\ UNCHANGED <<view, panel, destination, contact>>
     \/ stored.access = "none" /\ Hide(reads)
  /\ UNCHANGED <<stored, command, busy, strays>>

-----------------------------------------------------------------------------
Opens(kind) ==
  /\ Shown /\ ~busy
  /\ IF kind = "narrative" THEN panel.kind \in {"none", "routing"} ELSE panel.kind = "none"

(* loadContact(): one request at a time, while the page says they may be read. *)
MayLoadContact ==
  /\ view.contact /\ Cardinality(Underway) < MaxAsked
  /\ \A r \in {"contact", "protected", "orphan"} : reads[r].kind = "none"

(* A reason or a resolution is asked for an action on the request as shown. *)
OpenPanel(kind) ==
  /\ Opens(kind)
  /\ panel' = [NoPanel EXCEPT !.kind = kind,
                              !.picked = IF kind = "narrative" THEN view.revision ELSE 0]
  /\ IF kind = "contact" /\ view.contact
     THEN MayLoadContact /\ contact' = "loading" /\ reads' = Ask(reads, "contact")
     ELSE UNCHANGED <<contact, reads>>
  /\ UNCHANGED <<stored, view, destination, command, busy, strays>>

ReloadContact ==
  /\ Shown /\ panel.kind = "contact" /\ MayLoadContact
  /\ contact' = "loading" /\ reads' = Ask(reads, "contact")
  /\ UNCHANGED <<stored, view, panel, destination, command, busy, strays>>

ClosePanel ==
  /\ panel.kind # "none" /\ ~busy
  /\ panel' = NoPanel
  /\ IF panel.kind = "contact" THEN contact' = "none" /\ reads' = ForgetsContact(reads)
     ELSE UNCHANGED <<contact, reads>>
  /\ UNCHANGED <<stored, view, destination, command, busy, strays>>

(* A target is picked for an assignment or as a watcher. *)
Pick ==
  /\ Shown /\ panel.kind = "manage" /\ ~busy
  /\ panel' = [panel EXCEPT !.picked = view.revision, !.refused = FALSE]
  /\ UNCHANGED <<stored, view, reads, destination, contact, command, busy, strays>>

(* A Department, and perhaps a Division of it, is chosen in the routing form. *)
ChooseDestination ==
  /\ Shown /\ panel.kind = "routing" /\ ~busy
  /\ destination' = [on |-> view.revision, chosen |-> TRUE, refused |-> FALSE]
  /\ UNCHANGED <<stored, view, reads, panel, contact, command, busy, strays>>

(* The details arrive; forbidden, the page is read again; gone, the request goes with them. *)
ContactArrives ==
  /\ reads["contact"].kind \notin {"none", "asked"}
  /\ LET rest == Done(reads, "contact") IN
       CASE reads["contact"].kind = "data" ->
              contact' = "shown" /\ reads' = rest /\ UNCHANGED <<view, panel, destination>>
         [] reads["contact"].kind = "forbidden" ->
              /\ contact' = "protected" /\ reads' = Ask(rest, "protected")
              /\ UNCHANGED <<view, panel, destination>>
         [] reads["contact"].kind = "gone" -> Hide(rest)
         [] reads["contact"].kind = "failed" ->
              contact' = "error" /\ reads' = rest /\ UNCHANGED <<view, panel, destination>>
  /\ UNCHANGED <<stored, command, busy, strays>>

ProtectedArrives(r) ==
  /\ r \in {"protected", "orphan"} /\ reads[r].kind \notin {"none", "asked"}
  /\ CASE reads[r].kind = "data" -> ShowRead(reads[r], Done(reads, r))
       [] r = "protected" /\ reads[r].kind # "data" -> Hide(Done(reads, r))
       [] OTHER -> reads' = Done(reads, r) /\ UNCHANGED <<view, panel, destination, contact>>
  /\ UNCHANGED <<stored, command, busy, strays>>

-----------------------------------------------------------------------------
(* Routing can be confirmed while the form says other than the request shown. *)
MayConfirmRouting == destination.chosen \/ destination.on # view.revision

(* What a command carries was chosen on some revision, or just now; and it may have been refused. *)
Choice(kind) ==
  IF kind = "routing" THEN [on |-> destination.on, refused |-> destination.refused]
  ELSE [on |-> IF panel.picked # 0 THEN panel.picked ELSE view.revision, refused |-> panel.refused]

(* mutate(): whatever was chosen, the command names the revision shown. *)
SendCommand(kind) ==
  /\ Shown /\ ~busy /\ command = NoCommand
  /\ \/ kind = "routine" /\ panel.kind \in {"none", "routing"}
     \/ kind \in {"narrative", "manage"} /\ panel.kind = kind
     \/ kind = "routing" /\ panel.kind = kind /\ MayConfirmRouting
  /\ command' = [phase |-> "sent", kind |-> kind, expected |-> view.revision, result |-> "none",
                 picked |-> Choice(kind).on, refused |-> Choice(kind).refused]
  /\ busy' = TRUE
  /\ UNCHANGED <<stored, view, reads, panel, destination, contact, strays>>

(* The server takes a command for the revision it names, or refuses it: at another revision, or for
   what the request is; the answer may get lost. *)
Accepts(c) == stored.access # "none" /\ c.expected = stored.revision /\ stored.revision < MaxStored
Refusals(c) ==
  {"unknown", "forbidden"} \cup (IF stored.access = "none" THEN {"gone"} ELSE {})
  \cup (IF stored.access = "none" THEN {}
        ELSE IF c.expected # stored.revision THEN {"stale"} ELSE {"conflict"})

ServeCommand ==
  /\ command.phase = "sent"
  /\ \/ /\ Accepts(command) /\ stored' = [stored EXCEPT !.revision = @ + 1]
        /\ \E result \in {"ok", "unknown"} :
             command' = [command EXCEPT !.phase = "answered", !.result = result]
     \/ /\ \E result \in Refusals(command) :
             command' = [command EXCEPT !.phase = "answered", !.result = result]
        /\ UNCHANGED stored
  /\ UNCHANGED <<view, reads, panel, destination, contact, busy, strays>>

ServeStray ==
  \E c \in strays :
    /\ strays' = strays \ {c}
    /\ \/ Accepts(c) /\ stored' = [stored EXCEPT !.revision = @ + 1]
       \/ UNCHANGED stored
    /\ UNCHANGED <<view, reads, panel, destination, contact, command, busy>>

FormsClose ==
  panel' = IF panel.kind \in {"narrative", "routing"} THEN NoPanel
           ELSE [panel EXCEPT !.refused = command.result = "stale" /\ panel.kind = "manage"
                                                                  /\ panel.picked # 0]

(* Accepted or in conflict, the page is read again; what is not known to have failed keeps its form
   for another try, and anything else takes the request off the page. *)
CommandArrives ==
  /\ command.phase = "answered"
  /\ \/ /\ command.result \in {"ok", "stale", "conflict"} /\ FormsClose
        /\ destination' = IF command.kind # "routing" THEN destination
                          ELSE [destination EXCEPT !.refused = command.result = "stale"]
        /\ reads' = Ask(reads, IF command.result = "ok" THEN "done" ELSE "conflict")
        /\ command' = [command EXCEPT !.phase = "reading"]
        /\ UNCHANGED <<view, contact, busy>>
     \/ /\ command.result = "forbidden" /\ command.kind = "manage"
        /\ reads' = Ask(reads, "denied") /\ command' = [command EXCEPT !.phase = "reading"]
        /\ UNCHANGED <<view, panel, destination, contact, busy>>
     \/ /\ command.result = "unknown" /\ command.kind \in {"narrative", "manage"}
        /\ Ends /\ UNCHANGED <<view, reads, panel, destination, contact>>
     \/ /\ \/ command.result = "gone"
           \/ command.result = "forbidden" /\ command.kind # "manage"
           \/ command.result = "unknown" /\ command.kind \in {"routine", "routing"}
        /\ Hide(reads) /\ Ends
  /\ UNCHANGED <<stored, strays>>

-----------------------------------------------------------------------------
Abandons == strays' = IF command.phase = "sent" THEN strays \cup {command} ELSE strays
OnlyLoad == reads' = [r \in Reads |-> Bare(IF r = "load" THEN "asked" ELSE "none")]

(* "Try again": what is under way is aborted. An aborted recheck reports its abort as a failure of
   the load that replaces it, and an aborted command leaves the buttons disabled. *)
Retry ==
  /\ view.kind = "failed"
  /\ view' = Bare(IF {"recheck", "denied"} \cap Underway # {} THEN "failed" ELSE "loading")
  /\ OnlyLoad /\ panel' = NoPanel /\ contact' = "none"
  /\ command' = NoCommand /\ Abandons
  /\ UNCHANGED <<stored, destination, busy>>

(* The page is left and opened again. *)
Reopen ==
  /\ strays = {}
  /\ view' = Bare("loading") /\ OnlyLoad /\ panel' = NoPanel /\ contact' = "none"
  /\ destination' = AsRead(0) /\ Ends /\ Abandons
  /\ UNCHANGED stored

RequestPageNext ==
  \/ Elsewhere \/ LoadArrives \/ PartRefused \/ ReloadContact \/ ClosePanel \/ Pick
  \/ ChooseDestination
  \/ ContactArrives \/ ServeCommand \/ ServeStray \/ CommandArrives \/ Retry \/ Reopen
  \/ \E r \in Reads : \/ ServeRead(r) \/ RereadArrives(r) \/ RecheckArrives(r)
                      \/ ProtectedArrives(r)
  \/ \E kind \in {"narrative", "routing", "manage", "contact"} : OpenPanel(kind)
  \/ \E kind \in {"routine", "narrative", "routing", "manage"} : SendCommand(kind)

RequestPageSpec == RequestPageInit /\ [][RequestPageNext]_pageVars

-----------------------------------------------------------------------------
(* Contact details are on the page only in the dialog that asked for them, and while what the page
   shows of the request says that they may be read, in whatever order its reads are answered
   (InternalRequestWorkspace.jsx:605, RequestManagement.jsx:52). *)
ContactWhileReadable ==
  /\ contact # "none" => Shown /\ panel.kind = "contact"
  /\ contact = "shown" => view.contact

(* A target picked as assignee or watcher is sent under the revision it was picked on, so the server
   refuses it once the request has changed (RequestOwnership.jsx:192). Not so a Unit in the routing
   form or a reason in a workflow form: they outlive a recheck that shows another revision. *)
TargetsNameTheirPick ==
  \A c \in strays \cup {command} : c.kind = "manage" => c.picked = c.expected

(* What the page was told is refused because the request had changed is not sent again unless it is
   chosen again on what is shown by then: "Conflict discards the form, refreshes state, and requires
   deliberate review/retry" (F035-service-request-activity-operational-history.md:84). *)
RefusedChoicesEnd ==
  \A c \in strays \cup {command} : ~c.refused

(* Whatever order reads and commands are answered in, protected details are shown with what allows
   them, a picked target is sent for what it was picked on, and what was refused as stale ends. *)
PageHoldsToItsRequest == ContactWhileReadable /\ TargetsNameTheirPick /\ RefusedChoicesEnd
=============================================================================
