-------------------------- MODULE DevelopmentTools --------------------------
(***************************************************************************)
(* The commands that prepare a development database: the permissions and   *)
(* memberships of one's own staff record, with what is needed to take them *)
(* back; operational teams; the permission to read maps; a second source   *)
(* of Jordan's permission, added only as its dry run reported; the seed.   *)
(*                                                                         *)
(* Each command is one transaction that locks what every writer of access  *)
(* locks, so a command is one step. People write to the database by hand   *)
(* as well. A unit is a department or one of its divisions. A dry run that *)
(* only prints changes nothing and is left out.                            *)
(***************************************************************************)
EXTENDS Naturals, FiniteSets

CONSTANTS
  Units, DepartmentOf,             \* DepartmentOf[u]: u itself, or the department of a division
  HomeUnit,                        \* the department the seed gives Jordan
  Grantable, Services,
  MaxToolRevision, MaxHandEdits,   \* bounds
  NoRole, NoReport

ASSUME ToolsAssumption ==
  /\ DepartmentOf \in [Units -> Units] /\ HomeUnit \in Units
  /\ MaxToolRevision \in Nat /\ MaxHandEdits \in Nat

Membership == {"missing", "inactive", "active"}

VARIABLES
  principal,      \* one's own staff record: "missing", "inactive" or "active"
  membership,     \* of that record, in each unit
  before,         \* what each membership would be without the tool
  disputed,       \* units whose membership others changed while the tool answered for it
  staffRole,      \* the tool's role for that record, or NoRole
  team,           \* in each unit: the operational role, the group and one's memberships in them
  geo,            \* the role that reads maps
  jordan,         \* Jordan's own permission, the fixture's role, and departments
  report,         \* what the last dry run of the fixture reported, or NoReport
  catalog,        \* the current version of each seeded Issue
  toolRevision,   \* the Organization's authorization revision
  handEdits

staffVars == <<principal, membership, before, disputed, staffRole>>
toolVars == <<staffVars, team, geo, jordan, report, catalog, toolRevision, handEdits>>

(* The role's description carries `permissions` and `restores`, its own record of what it gave. *)
StaffRole == [active : BOOLEAN, grants : SUBSET Grantable, shared : BOOLEAN,
              assigned : Membership \ {"missing"}, permissions : SUBSET Grantable,
              restores : SUBSET (Units \X {"missing", "inactive"})]
ASSUME NoRoleIsNone == NoRole \notin StaffRole

Team == [role : Membership, roleMember : Membership, group : Membership, groupMember : Membership]

(* What the database derives anybody's authority from. *)
Access == <<principal, membership,
            IF staffRole = NoRole THEN NoRole
            ELSE <<staffRole.active, staffRole.grants, staffRole.shared, staffRole.assigned>>,
            geo, jordan.managed, jordan.fixture, jordan.units>>

ToolsTypeOK ==
  /\ principal \in Membership
  /\ membership \in [Units -> Membership] /\ before \in [Units -> Membership]
  /\ disputed \in SUBSET Units
  /\ staffRole \in StaffRole \cup {NoRole}
  /\ team \in [Units -> Team]
  /\ geo \in [role : Membership, other : BOOLEAN, assigned : Membership]
  /\ jordan \in [managed : BOOLEAN, fixture : {"absent", "own", "altered"}, units : SUBSET Units]
  /\ catalog \in [Services -> {"absent", "seeded", "other"}]
  /\ toolRevision \in 0..MaxToolRevision /\ handEdits \in 0..MaxHandEdits

ToolsInit ==
  /\ principal \in {"missing", "active"}
  /\ membership \in [Units -> {"missing", IF principal = "missing" THEN "missing" ELSE "inactive"}]
  /\ before = membership /\ disputed = {}
  /\ staffRole = NoRole
  /\ team = [u \in Units |-> [role |-> "missing", roleMember |-> "missing",
                              group |-> "missing", groupMember |-> "missing"]]
  /\ geo = [role |-> "missing", other |-> FALSE, assigned |-> "missing"]
  /\ jordan = [managed |-> FALSE, fixture |-> "absent", units |-> {}]
  /\ report = NoReport
  /\ catalog = [s \in Services |-> "absent"]
  /\ toolRevision = 0 /\ handEdits = 0

(* The triggers advance the revision once in a transaction that changes authority. *)
Advances ==
  /\ toolRevision' = toolRevision + IF Access' = Access THEN 0 ELSE 1
  /\ toolRevision' <= MaxToolRevision

-----------------------------------------------------------------------------
(* One's own permissions.                                                  *)

(* The role is only touched while it is exactly what its record says. *)
AsRecorded(role) == role.active /\ ~role.shared /\ role.grants = role.permissions

NewRole == [active |-> TRUE, grants |-> {}, shared |-> FALSE, assigned |-> "inactive",
            permissions |-> {}, restores |-> {}]

Recognized ==
  /\ principal = "active"
  /\ staffRole # NoRole => AsRecorded(staffRole)

Given(units) == {u \in units \cup {DepartmentOf[u] : u \in units} : membership[u] # "active"}

\* Mutant: whatever was there before is recorded as missing.
FoundMissing(units) == {<<u, "missing">> : u \in Given(units)}

(* Only memberships that are not active already are given, and recorded with what they were. *)
Found(units) == {<<u, membership[u]>> : u \in Given(units)}

ProvisionStaff(units, permissions) ==
  /\ Recognized
  /\ LET role == IF staffRole = NoRole THEN NewRole ELSE staffRole
     IN staffRole' = [role EXCEPT !.grants = @ \cup permissions, !.assigned = "active",
                                  !.permissions = @ \cup permissions,
                                  !.restores = @ \cup Found(units)]
  /\ membership' = [u \in Units |-> IF u \in Given(units) THEN "active" ELSE membership[u]]
  /\ UNCHANGED <<principal, before, disputed, team, geo, jordan, report, catalog, handEdits>>
  /\ Advances

(* A membership that was missing is deleted, whoever has changed it since. *)
Restored(restores) ==
  [u \in Units |->
     IF <<u, "missing">> \in restores THEN "missing"
     ELSE IF <<u, "inactive">> \in restores /\ membership[u] # "missing" THEN "inactive"
     ELSE membership[u]]

(* The memberships go with the last permission. *)
DeprovisionStaff(permissions) ==
  /\ Recognized /\ staffRole # NoRole
  /\ LET left == staffRole.permissions \ permissions
         role == [staffRole EXCEPT !.grants = left, !.permissions = left]
     IN IF left # {}
        THEN staffRole' = role /\ UNCHANGED <<membership, before, disputed>>
        ELSE /\ staffRole' = [role EXCEPT !.restores = {}, !.assigned = "inactive"]
             /\ membership' = Restored(staffRole.restores)
             /\ before' = [u \in Units |-> IF u \in disputed THEN membership'[u] ELSE before[u]]
             /\ disputed' = {}
  /\ UNCHANGED <<principal, team, geo, jordan, report, catalog, handEdits>>
  /\ Advances

(* A fictional role and team for a unit one belongs to, and oneself in both; a group of the whole
   department will do for a division. What was deactivated is not activated again. *)
SetUpTargets(u) ==
  /\ principal = "active"
  /\ membership[DepartmentOf[u]] = "active" /\ membership[u] = "active"
  /\ team[u].role # "inactive" /\ team[u].roleMember # "inactive"
  /\ LET groups == {g \in {u, DepartmentOf[u]} : team[g].group = "active"}
         joined == [team EXCEPT ![u].role = "active", ![u].roleMember = "active"]
     IN \/ /\ groups = {} /\ team[u].group = "missing"
           /\ team' = [joined EXCEPT ![u].group = "active", ![u].groupMember = "active"]
        \/ \E g \in groups : /\ team[g].groupMember # "inactive"
                             /\ team' = [joined EXCEPT ![g].groupMember = "active"]
  /\ UNCHANGED <<staffVars, geo, jordan, report, catalog, toolRevision, handEdits>>

-----------------------------------------------------------------------------
(* Reading maps. One's own record is made here.                            *)

ProvisionMaps(grant) ==
  /\ principal # "inactive" /\ principal' = "active"
  /\ IF grant
     THEN /\ geo.role = "missing" \/ (geo.role = "active" /\ ~geo.other)
          /\ geo' = [geo EXCEPT !.role = "active", !.assigned = "active"]
     ELSE UNCHANGED geo
  /\ UNCHANGED <<membership, before, disputed, staffRole, team, jordan, report, catalog, handEdits>>
  /\ Advances

(* The role itself may be inactive. *)
RevokeMaps ==
  /\ principal = "active" /\ geo.role # "missing" /\ ~geo.other /\ geo.assigned # "missing"
  /\ geo' = [geo EXCEPT !.assigned = "inactive"]
  /\ UNCHANGED <<staffVars, team, jordan, report, catalog, handEdits>>
  /\ Advances

-----------------------------------------------------------------------------
(* Jordan's second source.                                                 *)

WouldChange(operation) ==
  IF operation = "add" THEN jordan.fixture = "absent" /\ jordan.managed
                       ELSE jordan.fixture = "own"

(* A dry run is given the revision too; with another it is refused. Jordan is there from the first
   seed on. *)
DryRunFixture(operation) ==
  /\ principal = "active" /\ jordan.units # {} /\ jordan.fixture # "altered"
  /\ report' = [operation |-> operation, revision |-> toolRevision, access |-> Access]
  /\ UNCHANGED <<staffVars, team, geo, jordan, catalog, toolRevision, handEdits>>

\* Mutant: a confirmed command does not look at the revision.
AnyRevision(revision) == revision \in 0..MaxToolRevision

SameRevision(revision) == revision = toolRevision

ConfirmFixture ==
  /\ report # NoReport /\ SameRevision(report.revision)
  /\ principal = "active" /\ jordan.fixture # "altered" /\ WouldChange(report.operation)
  /\ jordan' = [jordan EXCEPT !.fixture = IF report.operation = "add" THEN "own" ELSE "absent"]
  /\ UNCHANGED <<staffVars, team, geo, report, catalog, handEdits>>
  /\ Advances

-----------------------------------------------------------------------------
(* The seed. Rows that are there stay as they are, but for Jordan's other departments; an Issue's
   current version is set where it has none. *)
SeedPeople == jordan' = [jordan EXCEPT !.units = {HomeUnit}]
SeedCatalog == catalog' = [s \in Services |-> IF catalog[s] = "absent" THEN "seeded" ELSE catalog[s]]

Seed ==
  /\ SeedPeople /\ SeedCatalog
  /\ UNCHANGED <<staffVars, team, geo, report, handEdits>>
  /\ Advances

-----------------------------------------------------------------------------
(* By hand, or through the application: anything, under the same lock.     *)

EditMembership ==
  /\ principal # "missing"
  /\ \E u \in Units, to \in Membership :
       /\ membership[u] # to
       /\ membership' = [membership EXCEPT ![u] = to]
       /\ IF staffRole # NoRole /\ \E found \in staffRole.restores : found[1] = u
          THEN disputed' = disputed \cup {u} /\ UNCHANGED before
          ELSE before' = [before EXCEPT ![u] = to] /\ UNCHANGED disputed
  /\ UNCHANGED <<principal, staffRole, team, geo, jordan, catalog>>

EditRoles ==
  /\ \/ /\ staffRole # NoRole
        /\ \/ \E p \in Grantable : staffRole' = [staffRole EXCEPT !.grants = @ \ {p}]
           \/ staffRole' = [staffRole EXCEPT !.shared = ~@]
           \/ staffRole' = [staffRole EXCEPT !.active = ~@]
        /\ UNCHANGED geo
     \/ /\ geo.role # "missing"
        /\ \/ geo' = [geo EXCEPT !.other = ~@]
           \/ geo' = [geo EXCEPT !.role = IF @ = "active" THEN "inactive" ELSE "active"]
        /\ UNCHANGED staffRole
  /\ UNCHANGED <<principal, membership, before, disputed, team, jordan, catalog>>

EditPeople ==
  /\ \/ /\ principal # "missing" /\ principal' = IF principal = "active" THEN "inactive" ELSE "active"
        /\ UNCHANGED jordan
     \/ /\ UNCHANGED principal /\ jordan.units # {}
        /\ \/ jordan' = [jordan EXCEPT !.managed = ~@]
           \/ /\ jordan.fixture # "absent"
              /\ jordan' = [jordan EXCEPT !.fixture = IF @ = "own" THEN "altered" ELSE "own"]
           \/ \E u \in Units \ jordan.units : jordan' = [jordan EXCEPT !.units = @ \cup {u}]
  /\ UNCHANGED <<membership, before, disputed, staffRole, team, geo, catalog>>

EditSetup ==
  /\ \/ /\ \E u \in Units, field \in {"role", "roleMember", "group", "groupMember"} :
             /\ team[u][field] = "active"
             /\ team' = [team EXCEPT ![u][field] = "inactive"]
        /\ UNCHANGED catalog
     \/ /\ \E s \in Services : catalog[s] = "seeded" /\ catalog' = [catalog EXCEPT ![s] = "other"]
        /\ UNCHANGED team
  /\ UNCHANGED <<staffVars, geo, jordan>>

ByHand ==
  /\ handEdits < MaxHandEdits /\ handEdits' = handEdits + 1
  /\ EditMembership \/ EditRoles \/ EditPeople \/ EditSetup
  /\ UNCHANGED report
  /\ Advances

ToolsNext ==
  \/ \E permissions \in SUBSET Grantable \ {{}} :
       \/ \E units \in SUBSET Units \ {{}} : ProvisionStaff(units, permissions)
       \/ DeprovisionStaff(permissions)
  \/ \E u \in Units : SetUpTargets(u)
  \/ \E grant \in BOOLEAN : ProvisionMaps(grant)
  \/ RevokeMaps
  \/ \E operation \in {"add", "cleanup"} : DryRunFixture(operation)
  \/ ConfirmFixture
  \/ Seed
  \/ ByHand

ToolsSpec == ToolsInit /\ [][ToolsNext]_toolVars

-----------------------------------------------------------------------------
(* What one belongs to only because of the tool is recorded with what it was before, so that the
   last permission takes it along and leaves what was found; unless others changed that very
   membership meanwhile (development-staff-grants.ts:214). *)
GivenIsRecorded ==
  \A u \in Units : membership[u] # before[u] =>
    u \in disputed \/ (staffRole # NoRole /\ <<u, before[u]>> \in staffRole.restores)

(* Jordan's second source comes and goes only as the dry run reported it: nothing anybody's
   authority depends on has changed in between, even if it changed back
   (mixed-access-uat.ts:121). *)
FixtureAsReported ==
  [][{jordan.fixture, jordan'.fixture} = {"absent", "own"} =>
       /\ report # NoReport /\ report.access = Access
       /\ report.operation = (IF jordan.fixture = "absent" THEN "add" ELSE "cleanup")]_toolVars

(* What a person set up by hand since the seed stays: another current version of an Issue, and a
   membership in a team that was ended (seed-development.ts:575, development-operational-targets.ts:144). *)
SetUpStays ==
  [][handEdits' = handEdits =>
       /\ \A s \in Services : catalog[s] = "other" => catalog'[s] = "other"
       /\ \A u \in Units : /\ team[u].roleMember = "inactive" => team'[u] = team[u]
                           /\ team[u].groupMember = "inactive" => team'[u].groupMember = "inactive"]_toolVars

(* The three together: the commands add, report and take back what is theirs, and only that. *)
ToolsKeepToTheirOwn == [][GivenIsRecorded']_toolVars /\ FixtureAsReported /\ SetUpStays
=============================================================================
