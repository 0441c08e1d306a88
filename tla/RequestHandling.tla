-------------------------- MODULE RequestHandling --------------------------
(***************************************************************************)
(* Members of staff work on one request: workflow, routing, assignment and *)
(* watchers, under the request's revision.                                 *)
(*                                                                         *)
(* A command goes through its transaction in two steps, because other      *)
(* processes act in between: `Authorize` shares the Organization and its   *)
(* access state, which whoever changes authority has to lock, and resolves *)
(* the actor's authority; the command then waits for the request's row,    *)
(* and everything after is one step. The legacy assignment checks its      *)
(* target without a lock and so has a step more, with the row held.        *)
(*                                                                         *)
(* A unit is a department, or a department with a division: what a request *)
(* is routed to, a member of staff belongs to and a group serves.          *)
(***************************************************************************)
EXTENDS Naturals, FiniteSets

CONSTANTS
  Staff, Groups,          \* whom a request may be assigned to or watched by
  Units, CategoryUnit,    \* units, and that of the request's category
  Serves,                 \* Serves[g]: the units group or role g may own requests of
  Revocable,              \* permissions that are taken and returned meanwhile
  MaxRevision, MaxWatchers, MaxReorganizations,  \* bounds
  Nobody, NoUnit

ASSUME HandlingAssumption ==
  /\ CategoryUnit \in Units /\ NoUnit \notin Units
  /\ Nobody \notin Staff \cup Groups /\ Staff \cap Groups = {}
  /\ Serves \in [Groups -> SUBSET Units]
  /\ MaxRevision \in Nat \ {0} /\ MaxWatchers \in Nat /\ MaxReorganizations \in Nat

Principals == Staff \cup Groups

Workflow == [start_work |-> [open |-> "in_progress"],
             hold |-> [in_progress |-> "on_hold"],
             resume |-> [on_hold |-> "in_progress"],
             close |-> [open |-> "closed", in_progress |-> "closed", on_hold |-> "closed"],
             reopen |-> [closed |-> "open"]]
Actions == DOMAIN Workflow
Statuses == {"open", "in_progress", "on_hold", "closed"}
Audiences == {"public", "internal"}

ReadPermission == [public |-> "view", internal |-> "internal.read"]

(* self_watch needs no permission beyond reading; the INTERNAL audience has one for all. *)
OperationPermissions(audience, op) ==
  CASE op \in {"watch", "unwatch"} -> {}
    [] audience = "internal" -> {"internal.update"}
    [] op \in {"assign", "unassign", "legacy_assign"} -> {"assign"}
    [] op \in {"add", "remove"} -> {"watchers"}
    [] OTHER -> {op}

RequestPermissions ==
  {"view", "internal.read", "internal.update", "route", "assign", "watchers"} \cup Actions

ASSUME RevocableAssumption == Revocable \subseteq RequestPermissions

VARIABLES
  request,      \* the row: [audience, status, routed, revision]
  assignment,   \* the open assignment row, or NoRow: [type, target, by]
  watchers,
  explained,    \* the owner after the last ownership event of the operational activity
  granted, member, employed, groupActive, unitActive,  \* authority and reference rows
  session,      \* what each member of staff has read and is doing
  reorganizations

requestVars == <<request, assignment, watchers, explained>>
referenceVars == <<granted, member, employed, groupActive, unitActive, reorganizations>>
handlingVars == <<requestVars, referenceVars, session>>

NoRow == [type |-> "none", target |-> Nobody, by |-> "none"]
Request == [audience : Audiences, status : Statuses, routed : Units \cup {NoUnit},
            revision : 1..MaxRevision]
View == [request : Request, owner : Principals \cup {Nobody}, watchers : SUBSET Principals]
Idle == [phase |-> "idle"]

HandlingTypeOK ==
  /\ request \in Request
  /\ assignment \in {NoRow} \cup
       [type : {"owned", "department", "unassigned"}, target : Principals \cup {Nobody},
        by : {"staff", "system", "development_staff"}]
  /\ watchers \in SUBSET Principals
  /\ explained \in Principals \cup {Nobody}
  /\ granted \in [Staff -> SUBSET RequestPermissions] /\ member \in [Staff -> SUBSET Units]
  /\ employed \in SUBSET Staff /\ groupActive \in SUBSET Groups /\ unitActive \in SUBSET Units
  /\ reorganizations \in 0..MaxReorganizations
  /\ DOMAIN session = Staff
  /\ \A s \in Staff : session[s] # Idle =>
       /\ session[s].phase \in {"read", "authorized", "checked"}
       /\ session[s].view \in View

HandlingInit ==
  /\ request \in [audience : Audiences, status : {"open"}, routed : {NoUnit}, revision : {1}]
  /\ \E p \in Principals \cup {Nobody} :   \* the Issue's default assignment, if it has one
       /\ assignment = IF p = Nobody THEN NoRow
                       ELSE [type |-> "owned", target |-> p, by |-> "system"]
       /\ explained = p
  /\ watchers = {}
  /\ granted = [s \in Staff |-> RequestPermissions] /\ member = [s \in Staff |-> Units]
  /\ employed = Staff /\ groupActive = Groups /\ unitActive = Units
  /\ session = [s \in Staff |-> Idle]
  /\ reorganizations = 0

-----------------------------------------------------------------------------
(* What the queries compute.                                               *)

UnitOf(r) == IF r.routed = NoUnit THEN CategoryUnit ELSE r.routed
Owner == IF assignment.type = "owned" THEN assignment.target ELSE Nobody
Seen == [request |-> request, owner |-> Owner, watchers |-> watchers]
Authority(s) == [permissions |-> IF s \in employed THEN granted[s] ELSE {},
                 units |-> IF s \in employed THEN member[s] ELSE {}]

(* INTERNAL commands ask for internal.update alone; only watching oneself asks to read. *)
Allows(access, r, op) ==
  /\ OperationPermissions(r.audience, op) \subseteq access.permissions
  /\ \/ r.audience = "internal" /\ op \notin {"watch", "unwatch"}
     \/ ReadPermission[r.audience] \in access.permissions
  /\ UnitOf(r) \in access.units

Eligible(p, unit) ==
  /\ unit \in unitActive
  /\ IF p \in Staff
     THEN p \in employed /\ unit \in member[p] /\ ReadPermission[request.audience] \in granted[p]
     ELSE p \in groupActive /\ unit \in Serves[p]

(* The commands the workspace offers for what was read. *)
Offered(s, v) ==
  [op : {a \in Actions : v.request.status \in DOMAIN Workflow[a]}, arg : {Nobody}]
    \cup [op : {"route"}, arg : Units]
    \cup [op : {"assign", "add"}, arg : Principals]
    \cup [op : {"unassign"}, arg : {Nobody}]
    \cup [op : {"remove"}, arg : v.watchers]
    \cup [op : IF s \in v.watchers THEN {"unwatch"} ELSE {"watch"}, arg : {s}]
    \cup [op : IF v.request.audience = "public" THEN {"legacy_assign"} ELSE {},
          arg : Principals \cup {"department", "unassigned"}]

-----------------------------------------------------------------------------
(* The members of staff and their transactions.                            *)

Read(s) ==
  /\ session[s] = Idle \/ (session[s].phase = "read" /\ session[s].view # Seen)
  /\ ReadPermission[request.audience] \in Authority(s).permissions
  /\ UnitOf(request) \in Authority(s).units
  /\ session' = [session EXCEPT ![s] = [phase |-> "read", view |-> Seen]]
  /\ UNCHANGED <<requestVars, referenceVars>>

(* From here to the end the Organization and the access state are shared. Which command the
   transaction brings is told apart only where it takes the row. *)
Authorize(s) ==
  /\ session[s].phase = "read"
  /\ session' = [session EXCEPT ![s] =
       [phase |-> "authorized", view |-> session[s].view, access |-> Authority(s)]]
  /\ UNCHANGED <<requestVars, referenceVars>>

Sharing(s) == session[s].phase \in {"authorized", "checked"}
RowHeld == \E s \in Staff : session[s].phase = "checked"

(* The row is locked, in the actor's scope, and still the one the command was given for. *)
Admitted(s, op) ==
  /\ session[s].phase = "authorized" /\ ~RowHeld
  /\ Allows(session[s].access, request, op)
Current(s) ==
  /\ request.revision = session[s].view.request.revision
  /\ request.revision < MaxRevision

Finish(s) == session' = [session EXCEPT ![s] = Idle]

\* Mutant: an owner or a watcher is no new revision.
AdvanceWhenRowChanges(changed) ==
  request' = [changed EXCEPT !.revision = @ + IF changed = request THEN 0 ELSE 1]

Advance(changed) == request' = [changed EXCEPT !.revision = request.revision + 1]

DoWorkflow(s, c) ==
  /\ c.op \in Actions /\ Admitted(s, c.op) /\ Current(s)
  /\ request.status \in DOMAIN Workflow[c.op]
  /\ Advance([request EXCEPT !.status = Workflow[c.op][request.status]])
  /\ Finish(s)
  /\ UNCHANGED <<assignment, watchers, explained, referenceVars>>

\* Mutants: the end of an assignment is not recorded; a route leaves the owner alone.
ClearSilently(unit) ==
  /\ assignment' = IF Owner # Nobody /\ ~Eligible(Owner, unit) THEN NoRow ELSE assignment
  /\ UNCHANGED explained
ClearNothing(unit) == UNCHANGED <<assignment, explained>>

(* The route, and the end of an assignment its new unit does not admit, in one revision. *)
ClearIneligible(unit) ==
  IF Owner # Nobody /\ ~Eligible(Owner, unit)
  THEN assignment' = NoRow /\ explained' = Nobody
  ELSE UNCHANGED <<assignment, explained>>

DoRoute(s, c) ==
  /\ c.op = "route" /\ Admitted(s, c.op) /\ Current(s)
  /\ c.arg \in session[s].access.units /\ c.arg \in unitActive /\ c.arg # UnitOf(request)
  /\ Advance([request EXCEPT !.routed = c.arg])
  /\ ClearIneligible(c.arg)
  /\ Finish(s)
  /\ UNCHANGED <<watchers, referenceVars>>

DoAssign(s, c) ==
  /\ c.op \in {"assign", "unassign"} /\ Admitted(s, c.op) /\ Current(s)
  /\ c.arg # Owner
  /\ c.arg # Nobody => Eligible(c.arg, UnitOf(request))
  /\ assignment' = IF c.arg = Nobody THEN NoRow
                   ELSE [type |-> "owned", target |-> c.arg, by |-> "staff"]
  /\ explained' = c.arg
  /\ Advance(request)
  /\ Finish(s)
  /\ UNCHANGED <<watchers, referenceVars>>

DoWatch(s, c) ==
  /\ c.op \in {"add", "remove", "watch", "unwatch"} /\ Admitted(s, c.op) /\ Current(s)
  /\ IF c.op \in {"remove", "unwatch"}
     THEN c.arg \in watchers /\ watchers' = watchers \ {c.arg}
     ELSE /\ Eligible(c.arg, UnitOf(request))
          /\ c.arg \notin watchers /\ Cardinality(watchers) < MaxWatchers
          /\ watchers' = watchers \cup {c.arg}
  /\ Advance(request)
  /\ Finish(s)
  /\ UNCHANGED <<assignment, explained, referenceVars>>

(* The legacy assignment: any active target, checked without a lock on it. *)
LegacyCheck(s, c) ==
  /\ c.op = "legacy_assign" /\ Admitted(s, c.op)
  /\ c.arg \in employed \cup groupActive \cup {"unassigned"}
               \cup (IF unitActive = {} THEN {} ELSE {"department"})
  /\ session' = [session EXCEPT ![s] =
       [phase |-> "checked", view |-> @.view, access |-> @.access, command |-> c]]
  /\ UNCHANGED <<requestVars, referenceVars>>

(* It writes an audit row and no operational activity. *)
LegacyAssign(s, c) ==
  /\ session[s].phase = "checked" /\ c = session[s].command /\ Current(s)
  /\ Advance(request)
  /\ assignment' = IF c.arg \in Principals
                   THEN [type |-> "owned", target |-> c.arg, by |-> "development_staff"]
                   ELSE [type |-> c.arg, target |-> Nobody, by |-> "development_staff"]
  /\ Finish(s)
  /\ UNCHANGED <<watchers, explained, referenceVars>>

Do(s, c) == \/ DoWorkflow(s, c) \/ DoRoute(s, c) \/ DoAssign(s, c) \/ DoWatch(s, c)
            \/ LegacyCheck(s, c) \/ LegacyAssign(s, c)

(* Refused, timed out or died: the transaction rolls back and the workspace reads anew. *)
FailCommand(s) ==
  /\ Sharing(s)
  /\ Finish(s)
  /\ UNCHANGED <<requestVars, referenceVars>>

-----------------------------------------------------------------------------
(* Around them. A change of authority locks the access state to advance it. *)

Toggle(S, x) == IF x \in S THEN S \ {x} ELSE S \cup {x}

\* Mutant: only the holder of the row is waited for.
AccessStateFreeOfRowHolders == ~RowHeld

AccessStateFree == \A s \in Staff : ~Sharing(s)

ChangeAuthority ==
  /\ AccessStateFree
  /\ \E s \in Staff :
       \/ /\ \E p \in Revocable : granted' = [granted EXCEPT ![s] = Toggle(@, p)]
          /\ UNCHANGED <<member, employed>>
       \/ /\ \E u \in Units : member' = [member EXCEPT ![s] = Toggle(@, u)]
          /\ UNCHANGED <<granted, employed>>
       \/ /\ employed' = Toggle(employed, s)
          /\ UNCHANGED <<granted, member>>
  /\ UNCHANGED <<groupActive, unitActive>>

ChangeReference ==
  /\ \/ /\ \E g \in Groups : groupActive' = Toggle(groupActive, g)
        /\ UNCHANGED unitActive
     \/ /\ \E u \in Units : unitActive' = Toggle(unitActive, u)
        /\ UNCHANGED groupActive
  /\ UNCHANGED <<granted, member, employed>>

Reorganize ==
  /\ reorganizations < MaxReorganizations /\ reorganizations' = reorganizations + 1
  /\ ChangeAuthority \/ ChangeReference
  /\ UNCHANGED <<requestVars, session>>

HandlingNext ==
  \/ \E s \in Staff :
       \/ Read(s) \/ Authorize(s)
       \/ Sharing(s) /\ \E c \in Offered(s, session[s].view) : Do(s, c)
       \/ FailCommand(s)
  \/ Reorganize

HandlingSpec == HandlingInit /\ [][HandlingNext]_handlingVars

-----------------------------------------------------------------------------
(* A step of s that changes the request, whichever command it ran. *)
Acts(s) == request' # request /\ session'[s] # session[s]

(* The revision a command carries stands for everything its author had on the screen: status,
   route, owner and watchers. Whatever a command changes, nobody changed any of them between the
   author's reading and the commit, by either assignment path (staff-actions.service.ts:110,
   internal-request-mutations.service.ts:119). *)
StaffActOnWhatTheyRead ==
  [][\A s \in Staff : Acts(s) => session[s].view = Seen]_handlingVars

(* A command commits only while its actor may still give it: permissions, employment and
   membership in the unit the request is routed to are those of the commit, however long the
   command waited for the row (request-authorization.ts:104). *)
AuthorityHoldsAtCommit ==
  [][\A s \in Staff : Acts(s) => \A c \in Offered(s, session[s].view) :
       Do(s, c) => Allows(Authority(s), request, c.op)]_handlingVars

(* The operational activity explains the owner: unless the legacy path wrote the open row, the
   last ownership event names exactly the owner the workspace shows, through routing that ends
   assignments as well. After a route that owner may own requests of the new unit, or there is
   none; and the actor still has the request in scope (request-ownership.service.ts:63). *)
OwnershipExplained == assignment.by # "development_staff" => explained = Owner

OwnerEligibleAndExplained ==
  [][/\ OwnershipExplained'
     /\ \A s \in Staff : Acts(s) /\ request'.routed # request.routed =>
          /\ Owner' # Nobody => Eligible(Owner', UnitOf(request'))
          /\ UnitOf(request') \in member[s] \cap unitActive]_handlingVars
===========================================================================
