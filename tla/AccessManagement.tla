-------------------------- MODULE AccessManagement --------------------------
(***************************************************************************)
(* Who may do what in one Organization: access administrators change the   *)
(* managed permissions of other staff in an editor, operators provision    *)
(* readers and administrators from a preview, and staff records and roles  *)
(* made elsewhere change besides. Every writer locks the Organization's    *)
(* access state and advances its revision once.                            *)
(*                                                                         *)
(* A member of staff has at most one owned role of each kind; permissions  *)
(* from all other roles are `legacy`. `issues` stands for the operational  *)
(* permissions, with `config` as what they require.                        *)
(***************************************************************************)
EXTENDS Naturals, FiniteSets

CONSTANTS Principal, NoDraft,
          Granted,                            \* permissions that come and go in other roles
          MaxAccessRevision, MaxElsewhere, MaxDirectives    \* bounds

Permissions == {"config", "read", "manage", "issues"}

ASSUME AccessAssumption ==
  MaxAccessRevision \in Nat /\ MaxElsewhere \in Nat /\ MaxDirectives \in Nat
  /\ Granted \subseteq Permissions

Prerequisites == {"config", "read", "manage"}
Manageable == {"config", "issues"}
Requires(p) == IF p = "issues" THEN {"config"} ELSE {}
Kinds == {"operational", "reader", "administrator"}
Provisioning == {"grant-reader", "remove-reader", "bootstrap", "add-manager", "remove-manager"}
KindOf(operation) ==
  IF operation \in {"grant-reader", "remove-reader"} THEN "reader" ELSE "administrator"

VARIABLES
  active, owned, legacy,     \* staff records, owned roles' and other roles' permissions
  state,                     \* the access state: [revision, bootstrapped]
  editor,                    \* of each member of staff: the editor of another's access
  directives,                \* saves on their way to the server
  preview,                   \* the access state the operator's dry run reported, or NoDraft
  elsewhere                  \* how often others wrote

accessVars == <<active, owned, legacy, state, editor, directives, preview, elsewhere>>

(* What the projection of one member of staff shows, with the revision it was read at. *)
Detail == [target : Principal, managed : SUBSET Permissions, outside : SUBSET Permissions,
           revision : 0..MaxAccessRevision]
NoEditor == [stage |-> "closed"]

AccessTypeOK ==
  /\ active \in SUBSET Principal
  /\ owned \in [Kinds -> [Principal -> SUBSET Permissions]]
  /\ owned["operational"] \in [Principal -> SUBSET Manageable]
  /\ legacy \in [Principal -> SUBSET Permissions]
  /\ state \in [revision : 0..MaxAccessRevision, bootstrapped : BOOLEAN]
  /\ elsewhere \in 0..MaxElsewhere
  /\ \A s \in Principal : editor[s] # NoEditor =>
       /\ editor[s].stage \in {"editing", "review", "saving", "stale", "uncertain", "denied"}
       /\ editor[s].detail \in Detail /\ editor[s].desired \in SUBSET Manageable
  /\ preview # NoDraft => preview \in [revision : 0..MaxAccessRevision, bootstrapped : BOOLEAN]

AccessInit ==
  /\ active = Principal
  /\ owned = [k \in Kinds |-> [s \in Principal |-> {}]]
  /\ legacy = [s \in Principal |-> {}]
  /\ state = [revision |-> 0, bootstrapped |-> FALSE]
  /\ editor = [s \in Principal |-> NoEditor]
  /\ directives = {}
  /\ preview = NoDraft
  /\ elsewhere = 0

-----------------------------------------------------------------------------
(* contributions(): the owned role of a kind, and everything else.         *)

Locked(kind, s) == legacy[s] \cup UNION {owned[k][s] : k \in Kinds \ {kind}}
Effective(s) == IF s \in active THEN legacy[s] \cup UNION {owned[k][s] : k \in Kinds} ELSE {}
Managers == {s \in Principal : Prerequisites \subseteq Effective(s)}
MayRead(s) == {"config", "read"} \subseteq Effective(s)

DependenciesMet(keys) == \A p \in keys \cap Manageable : Requires(p) \subseteq keys
Administers(keys) == Prerequisites \subseteq keys

\* Mutant: counts staff who have left.
ManagerKeptAmongAll ==
  state'.bootstrapped =>
    \E s \in Principal : Prerequisites \subseteq legacy'[s] \cup UNION {owned'[k][s] : k \in Kinds}

(* Every write advances the revision once, and at commit the deferred trigger keeps a manager. *)
ManagerKept == state'.bootstrapped => Managers' # {}
Commits == state.revision < MaxAccessRevision /\ ManagerKept

(* writeChange: the owned role becomes what was desired. *)
WriteChange(kind, target, desired, operation) ==
  /\ owned' = [owned EXCEPT ![kind][target] = desired]
  /\ state' = [revision |-> state.revision + 1,
               bootstrapped |-> state.bootstrapped \/ operation = "bootstrap"]

-----------------------------------------------------------------------------
(* The editor.                                                             *)

DetailOf(t) == [target |-> t, managed |-> owned["operational"][t],
                outside |-> Locked("operational", t), revision |-> state.revision]

(* Opens, or after a refusal or an uncertain save reads again, dropping the draft. *)
Open(s) ==
  /\ MayRead(s)
  /\ \E t \in active \ {s} :
       /\ \/ editor[s].stage = "closed"
          \/ editor[s].stage \in {"stale", "uncertain", "denied"} /\ editor[s].detail.target = t
       /\ "manage" \in Effective(s)
       /\ editor' = [editor EXCEPT ![s] = [stage |-> "editing", detail |-> DetailOf(t),
                                           desired |-> owned["operational"][t]]]
  /\ UNCHANGED <<active, owned, legacy, state, directives, preview, elsewhere>>

CloseEditor(s) ==
  /\ editor[s].stage \notin {"closed", "saving"}
  /\ editor' = [editor EXCEPT ![s] = NoEditor]
  /\ UNCHANGED <<active, owned, legacy, state, directives, preview, elsewhere>>

(* Review lists the effect of the draft, against what the editor shows. *)
Reviewable(d, desired) ==
  /\ desired # d.managed
  /\ DependenciesMet(d.outside \cup desired)
  /\ Administers(d.outside \cup d.managed) = Administers(d.outside \cup desired)

Review(s) ==
  /\ editor[s].stage = "editing"
  /\ \E desired \in SUBSET Manageable :
       /\ Reviewable(editor[s].detail, desired)
       /\ editor' = [editor EXCEPT ![s].stage = "review", ![s].desired = desired]
  /\ UNCHANGED <<active, owned, legacy, state, directives, preview, elsewhere>>

Save(s) ==
  /\ editor[s].stage = "review" /\ Cardinality(directives) < MaxDirectives
  /\ editor' = [editor EXCEPT ![s].stage = "saving"]
  /\ directives' = directives \cup
       {[actor |-> s, expected |-> editor[s].detail.revision, detail |-> editor[s].detail,
         desired |-> editor[s].desired]}
  /\ UNCHANGED <<active, owned, legacy, state, preview, elsewhere>>

(* "We couldn't confirm whether the access change was saved." *)
LoseSave(s) ==
  /\ editor[s].stage = "saving"
  /\ editor' = [editor EXCEPT ![s].stage = "uncertain"]
  /\ UNCHANGED <<active, owned, legacy, state, directives, preview, elsewhere>>

\* Mutant: the revision is not compared.
AdmitsWhatever(c) ==
  LET t == c.detail.target
      final == Locked("operational", t) \cup c.desired IN
  /\ Prerequisites \subseteq Effective(c.actor) /\ t # c.actor /\ t \in active
  /\ DependenciesMet(final)
  /\ (c.desired \ owned["operational"][t]) \cap Locked("operational", t) = {}
  /\ Administers(Effective(t)) = Administers(final)

(* changeManagedAccess: nothing of what the editor checked is taken on trust. *)
Admits(c) ==
  LET t == c.detail.target
      locked == Locked("operational", t)
      final == locked \cup c.desired IN
  /\ Prerequisites \subseteq Effective(c.actor) /\ t # c.actor
  /\ c.expected = state.revision
  /\ t \in active
  /\ DependenciesMet(final)
  /\ (c.desired \ owned["operational"][t]) \cap locked = {}
  /\ Administers(Effective(t)) = Administers(final)

Answer(c, stage) ==
  /\ directives' = directives \ {c}
  /\ editor' = IF editor[c.actor].stage = "saving" /\ editor[c.actor].detail = c.detail
               THEN [editor EXCEPT ![c.actor] = IF stage = "closed" THEN NoEditor
                                                ELSE [@ EXCEPT !.stage = stage]]
               ELSE editor

ChangeManagedAccess(c) ==
  /\ Admits(c) /\ c.desired # owned["operational"][c.detail.target]
  /\ WriteChange("operational", c.detail.target, c.desired, "update")
  /\ Answer(c, "closed")
  /\ UNCHANGED <<active, legacy, preview, elsewhere>>
  /\ Commits

RefuseChangeOf(c) ==
  /\ ~Admits(c)
  /\ \/ ~Administers(Effective(c.actor)) /\ Answer(c, "denied")
     \/ Administers(Effective(c.actor)) /\ Answer(c, "stale")
  /\ UNCHANGED <<active, owned, legacy, state, preview, elsewhere>>

-----------------------------------------------------------------------------
(* The operator: a dry run, then the same command with what it reported.   *)

Preview ==
  /\ preview # state /\ preview' = state
  /\ UNCHANGED <<active, owned, legacy, state, editor, directives, elsewhere>>

Desired(operation, t) ==
  CASE operation = "grant-reader" -> {"read"}
    [] operation \in {"remove-reader", "remove-manager"} -> {}
    [] OTHER -> owned["administrator"][t] \cup (Prerequisites \ Effective(t))

(* A repeated bootstrap is refused or changes nothing; managers need one first. *)
Provision(operation, t) ==
  LET kind == KindOf(operation)
      desired == Desired(operation, t)
      final == Locked(kind, t) \cup desired IN
  /\ preview = state
  /\ t \in active
  /\ kind = "administrator" => (state.bootstrapped <=> operation # "bootstrap")
  /\ operation = "bootstrap" \/ desired # owned[kind][t]
  /\ state.bootstrapped /\ Administers(Effective(t)) /\ ~Administers(final) => Managers # {t}
  /\ WriteChange(kind, t, desired, operation)
  /\ preview' = NoDraft
  /\ UNCHANGED <<active, legacy, editor, directives, elsewhere>>
  /\ Commits

-----------------------------------------------------------------------------
(* Writers elsewhere: triggers advance the revision they do not know of.   *)

Elsewhere ==
  /\ elsewhere < MaxElsewhere /\ elsewhere' = elsewhere + 1
  /\ \E s \in Principal :
       \/ /\ active' = IF s \in active THEN active \ {s} ELSE active \cup {s}
          /\ UNCHANGED legacy
       \/ /\ \E p \in Granted : legacy' = [legacy EXCEPT ![s] = IF p \in @ THEN @ \ {p}
                                                                    ELSE @ \cup {p}]
          /\ UNCHANGED active
  /\ state' = [state EXCEPT !.revision = @ + 1]
  /\ UNCHANGED <<owned, editor, directives, preview>>
  /\ Commits

AccessNext ==
  \/ \E s \in Principal : \/ Open(s) \/ CloseEditor(s) \/ Review(s) \/ Save(s) \/ LoseSave(s)
  \/ \E c \in directives : ChangeManagedAccess(c) \/ RefuseChangeOf(c)
  \/ Preview
  \/ \E operation \in Provisioning, t \in Principal : Provision(operation, t)
  \/ Elsewhere

AccessSpec == AccessInit /\ [][AccessNext]_accessVars

-----------------------------------------------------------------------------
(* Once access administration is established the Organization keeps an active member of staff with
   all its prerequisites, whichever of the paths takes permissions away: the editor, either
   provisioning, a deactivation or a role changed elsewhere (migration 20261008:180). *)
ManagerRetained == state.bootstrapped => Managers # {}

(* A save does to its target exactly what its author reviewed, and makes or unmakes no access
   administrator, however long it was on its way (access-foundation.ts:340). *)
ReviewedEffect ==
  [][\A c \in directives : owned' # owned /\ c \notin directives' =>
       /\ Effective(c.detail.target) = c.detail.outside \cup c.detail.managed
       /\ Effective(c.detail.target)' = c.detail.outside \cup c.desired
       /\ Managers' = Managers]_accessVars
=============================================================================
