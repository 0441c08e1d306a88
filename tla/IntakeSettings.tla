--------------------------- MODULE IntakeSettings ---------------------------
(***************************************************************************)
(* Whether an Organization asks requesters for a Participation Area, and   *)
(* which areas it offers. Settings, areas and submissions are transactions *)
(* of several statements each: they first take the Organization's row, for *)
(* update to change something, for share to record an answer, and then     *)
(* read and write the areas.                                               *)
(*                                                                         *)
(* Names, order and the revisions saves compare are left out: a save whose *)
(* revision is stale is refused and changes nothing.                       *)
(***************************************************************************)
EXTENDS Naturals, FiniteSets

CONSTANTS Sessions,      \* database sessions at work for staff and residents
          Areas

VARIABLES
  collecting,        \* service_participation_collection_enabled
  areas,             \* of each area: "absent", "active" or "inactive"
  transaction,       \* of each session: its command and the flag it read with the row
  recorded           \* the areas given by accepted requests, and whether one was declined

intakeVars == <<collecting, areas, transaction, recorded>>

Commands == [kind : {"create", "activate", "deactivate", "provide"}, area : Areas]
            \cup [kind : {"enable", "disable", "decline"}]
NoTransaction == [kind |-> "none"]
Declined == "declined"
Writes(command) == command.kind \notin {"provide", "decline"}
ActiveAreas == {a \in Areas : areas[a] = "active"}

IntakeTypeOK ==
  /\ collecting \in BOOLEAN
  /\ areas \in [Areas -> {"absent", "active", "inactive"}]
  /\ \A s \in Sessions : transaction[s] # NoTransaction =>
       transaction[s].command \in Commands /\ transaction[s].collecting \in BOOLEAN
  /\ recorded \in SUBSET (Areas \cup {Declined})

IntakeInit ==
  /\ collecting = FALSE
  /\ areas = [a \in Areas |-> "absent"]
  /\ transaction = [s \in Sessions |-> NoTransaction]
  /\ recorded = {}

-----------------------------------------------------------------------------
\* Mutant: writers take the row for share.
RowGrantedShared(command) == TRUE

(* FOR UPDATE waits for every other holder of the row, FOR SHARE for a writer. *)
RowGranted(command) ==
  \A s \in Sessions : transaction[s] # NoTransaction =>
    ~Writes(command) /\ ~Writes(transaction[s].command)

(* The first statement: the Organization's row, and the flag in it. *)
TakeRow(s, command) ==
  /\ transaction[s] = NoTransaction /\ RowGranted(command)
  /\ transaction' = [transaction EXCEPT ![s] = [kind |-> "open", command |-> command,
                                               collecting |-> collecting]]
  /\ UNCHANGED <<collecting, areas, recorded>>

Ends(s) == transaction' = [transaction EXCEPT ![s] = NoTransaction]
Runs(s, kind) == transaction[s] # NoTransaction /\ transaction[s].command.kind = kind

CreateArea(s) ==
  /\ Runs(s, "create") /\ Ends(s)
  /\ LET a == transaction[s].command.area IN
       areas[a] = "absent" /\ areas' = [areas EXCEPT ![a] = "active"]
  /\ UNCHANGED <<collecting, recorded>>

(* change(): the last active area stays active while the flag, as it was read, is on. *)
ChangeArea(s) ==
  /\ Ends(s)
  /\ LET a == transaction[s].command.area IN
       \/ /\ Runs(s, "activate") /\ areas[a] = "inactive"
          /\ areas' = [areas EXCEPT ![a] = "active"]
       \/ /\ Runs(s, "deactivate") /\ areas[a] = "active"
          /\ transaction[s].collecting => ActiveAreas # {a}
          /\ areas' = [areas EXCEPT ![a] = "inactive"]
  /\ UNCHANGED <<collecting, recorded>>

(* change() of the collection: turning it on requires an active area. *)
SetCollection(s) ==
  /\ Ends(s)
  /\ \/ /\ Runs(s, "enable") /\ ~transaction[s].collecting /\ ActiveAreas # {}
        /\ collecting' = TRUE
     \/ /\ Runs(s, "disable") /\ transaction[s].collecting
        /\ collecting' = FALSE
  /\ UNCHANGED <<areas, recorded>>

(* validateParticipationArea, in the transaction that creates the request. *)
RecordParticipation(s) ==
  /\ Ends(s) /\ transaction[s] # NoTransaction /\ transaction[s].collecting
  /\ \/ /\ Runs(s, "provide") /\ transaction[s].command.area \in ActiveAreas
        /\ recorded' = recorded \cup {transaction[s].command.area}
     \/ /\ Runs(s, "decline") /\ ActiveAreas # {}
        /\ recorded' = recorded \cup {Declined}
  /\ UNCHANGED <<collecting, areas>>

(* Refused, unchanged, failed or disconnected: nothing of it stays. *)
RollBack(s) ==
  /\ transaction[s] # NoTransaction /\ Ends(s)
  /\ UNCHANGED <<collecting, areas, recorded>>

IntakeNext ==
  \E s \in Sessions :
    \/ \E command \in Commands : TakeRow(s, command)
    \/ CreateArea(s) \/ ChangeArea(s) \/ SetCollection(s) \/ RecordParticipation(s) \/ RollBack(s)

IntakeSpec == IntakeInit /\ [][IntakeNext]_intakeVars

-----------------------------------------------------------------------------
(* An Organization that asks for an area has one to offer, also when one member of staff turns the
   collection on while another puts its only area out of use
   (admin-participation-area.service.ts:40, participation-configuration.ts:30). *)
CollectionHasArea == collecting => ActiveAreas # {}

(* An answer is recorded only while it is asked for, and never an area just put out of use
   (participation.domain.ts:27). *)
RecordedWhileAsked ==
  [][recorded' # recorded => collecting /\ recorded' \ recorded \subseteq ActiveAreas \cup {Declined}]_intakeVars

(* Together: what is asked for, what is offered and what is recorded agree. *)
AnswersFitSettings == [][CollectionHasArea']_intakeVars /\ RecordedWhileAsked
=============================================================================
