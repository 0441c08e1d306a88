-------------------------- MODULE OperatorCommands --------------------------
(***************************************************************************)
(* The commands by which operators of the platform act on a hostname of    *)
(* TenantDomains in a serving deployment. Each is a job of its own: it     *)
(* takes its actor and its grants from the platform and its intent from a  *)
(* person, writes a start record, connects, acts in one transaction, and   *)
(* writes an outcome. Jobs overlap and die anywhere.                       *)
(*                                                                         *)
(* A person names the revision just read; a job that names another one is  *)
(* refused when it acts. An approval's identifier is the one that          *)
(* authorizes, or the job is refused. A context that is incomplete, stale  *)
(* or of another deployment is refused and leaves nothing, and the dry     *)
(* runs that are transactions rolled back leave no more than their start:  *)
(* both are left out, as are the passing of time and the Organization's    *)
(* status, which TenantNext has.                                           *)
(***************************************************************************)
EXTENDS TenantDomains, Sequences

CONSTANTS Elevations,        \* the sets of permissions an elevation may grant
          MaxInvocations     \* bound on the jobs of one behaviour

ASSUME OperatorCommandAssumption ==
  /\ Elevations \subseteq SUBSET {"request", "approve", "execute"}
  /\ MaxInvocations \in Nat

VARIABLES
  jobs,        \* what the jobs that run are about to do
  trail,       \* the infrastructure's records: a start, and what its outcome says
  artifacts,   \* the requests whose digests the platform vouches for
  changes,     \* tenant_domain_audit: who changed the binding, and at which revision
  left         \* how many jobs the model may still start

operatorVars == <<jobs, trail, artifacts, changes, left>>

Verbs == {"register", "issue-challenge", "verify", "activate", "deactivate", "revoke", "approve"}
Approvable == {"activate", "revoke"}
Recorded(verb) == IF verb = "activate" THEN "activated" ELSE "verification_revoked"
Requests == [requester : Operators, verb : Approvable, revision : 1..MaxBindingRevision]
BindingRevisions == 0..MaxBindingRevision
Contexts == [permissions : Elevations, profile : {"dns-verification", "restricted"}]
NoRequest == [verb |-> "none"]

OperatorTypeOK ==
  /\ \A j \in jobs : /\ j.invocation \in DOMAIN trail /\ j.revision \in BindingRevisions
                     /\ j.phase \in {"ready", "looking", "done"}
                     /\ j.request \in Requests \cup {NoRequest}
  /\ \A i \in DOMAIN trail :
       /\ trail[i].operator \in Operators /\ trail[i].verb \in Verbs
       /\ trail[i].permissions \in Elevations /\ trail[i].confirm \in BOOLEAN
       /\ trail[i].succeeded \in BOOLEAN
  /\ artifacts \in SUBSET Requests /\ left \in 0..MaxInvocations
  /\ \A c \in changes : c.operator \in Operators /\ c.verb \in Verbs /\ c.revision \in BindingRevisions

StartRecord(operator, permissions, verb, confirm) ==
  [operator |-> operator, permissions |-> permissions, verb |-> verb, confirm |-> confirm,
   succeeded |-> FALSE]

Verified(active) ==
  binding = [verification |-> "verified", challenge |-> 2, expired |-> FALSE, active |-> active,
             revision |-> IF active THEN 4 ELSE 3]

(* A new hostname, one that earlier commands have verified, or one put in service by two operators,
   with the records of how. *)
OperatorInit ==
  /\ jobs = {} /\ left = MaxInvocations
  /\ \/ TenantInit /\ trail = <<>> /\ artifacts = {} /\ changes = {}
     \/ /\ serving = TRUE /\ lookups = {}
        /\ zone = [n \in NameServers |-> 2] /\ published = NameServers
        /\ \/ Verified(FALSE) /\ approvals = {} /\ trail = <<>> /\ artifacts = {} /\ changes = {}
           \/ \E one, other \in Operators, grants, approving \in Elevations :
                /\ one # other /\ {"approve", "execute"} \subseteq approving
                /\ {"request", "execute"} \subseteq grants
                /\ Verified(TRUE)
                /\ approvals = {[operation |-> "activated", revision |-> 3, challenge |-> 2,
                                 requester |-> one, approver |-> other, spentBy |-> one]}
                /\ trail = <<StartRecord(one, grants, "activate", FALSE),
                             StartRecord(other, approving, "approve", TRUE),
                             StartRecord(one, grants, "activate", TRUE)>>
                /\ artifacts = {[requester |-> one, verb |-> "activate", revision |-> 3]}
                /\ changes = {[operator |-> one, verb |-> "activate", revision |-> 3]}

-----------------------------------------------------------------------------
(* OPERATOR_PERMISSIONS: who may request may not thereby approve. *)
Permitted(permissions, verb) ==
  (IF verb = "approve" THEN "approve" ELSE "request") \in permissions

(* assertExecutionPermitted: planning needs the verb only. *)
ExecutionPermitted(permissions, confirm) == confirm => "execute" \in permissions

(* The network a job runs in: only verification may ask name servers anywhere. *)
RequiredNetworkProfile(verb) == IF verb = "verify" THEN "dns-verification" ELSE "restricted"

\* Mutant: the artifact's digest is not compared.
LoadsAnything(file, vouched) == TRUE

(* loadRequestArtifact: the file is the one the vouched digest was taken of. *)
Loads(file, vouched) == file = vouched

(* assertRequestContext, assertIndependentApprover. *)
Approves(file, verb, revision, operator) ==
  /\ file.verb = verb /\ file.revision = revision
  /\ file.requester # operator

(* Everything is resolved and the start record written before a pool exists. *)
Invoke(operator, context, verb, confirm, request) ==
  /\ Permitted(context.permissions, verb) /\ ExecutionPermitted(context.permissions, confirm)
  /\ context.profile = RequiredNetworkProfile(verb)
  /\ left' = left - 1
  /\ trail' = Append(trail, StartRecord(operator, context.permissions, verb, confirm))
  /\ jobs' = jobs \cup {[invocation |-> Len(trail) + 1, phase |-> "ready", request |-> request,
                         revision |-> IF verb = "register" THEN 0 ELSE binding.revision]}
  /\ UNCHANGED <<artifacts, changes, tenantVars>>

Request(operator, context) ==
  \E verb \in Verbs \ {"approve"}, confirm \in BOOLEAN :
    /\ verb = "register" \/ Registered
    /\ confirm \/ verb \in Approvable
    /\ Invoke(operator, context, verb, confirm, NoRequest)

(* An approval is always confirmed; the platform vouches for one artifact, and brings a file. *)
RequestApproval(operator, context) ==
  \E vouched \in artifacts, file \in Requests, verb \in Approvable :
    /\ Loads(file, vouched) /\ Approves(file, verb, binding.revision, operator)
    /\ Invoke(operator, context, "approve", TRUE, file)

-----------------------------------------------------------------------------
Start(j) == trail[j.invocation]
Ready(j, verbs) == j.phase = "ready" /\ Start(j).verb \in verbs
Moved(j, phase) == jobs' = (jobs \ {j}) \cup {[j EXCEPT !.phase = phase]}
Changed(j) == changes' = changes \cup
  {[operator |-> Start(j).operator, verb |-> Start(j).verb, revision |-> j.revision]}

(* A dry run of activate or revoke without an approval inspects the binding and emits the artifact. *)
Plan(j) ==
  /\ Ready(j, Approvable) /\ ~Start(j).confirm
  /\ Registered /\ binding.revision = j.revision /\ ~binding.active
  /\ IF Start(j).verb = "activate" THEN binding.verification = "verified"
                                   ELSE binding.verification # "unverified"
  /\ artifacts' = artifacts \cup {[requester |-> Start(j).operator, verb |-> Start(j).verb,
                                   revision |-> j.revision]}
  /\ Moved(j, "done")
  /\ UNCHANGED <<trail, changes, left, tenantVars>>

RecordApproval(j) ==
  /\ Ready(j, {"approve"}) /\ binding.revision = j.revision
  /\ Approve(Recorded(j.request.verb), j.request.requester, Start(j).operator)
  /\ Moved(j, "done")
  /\ UNCHANGED <<trail, artifacts, changes, left>>

(* The registry operations, each under the revision the job names. *)
Change(j) ==
  /\ j.phase = "ready" /\ Start(j).confirm /\ binding.revision = j.revision
  /\ \/ Start(j).verb = "register" /\ Register
     \/ Start(j).verb = "issue-challenge" /\ IssueChallenge
     \/ Start(j).verb = "activate" /\ Activate(Start(j).operator)
     \/ Start(j).verb = "deactivate" /\ Deactivate
     \/ Start(j).verb = "revoke" /\ Revoke(Start(j).operator)
  /\ Changed(j) /\ Moved(j, "done")
  /\ UNCHANGED <<trail, artifacts, left>>

LookUp(j) ==
  /\ Ready(j, {"verify"}) /\ Start(j).confirm /\ binding.revision = j.revision
  /\ StartVerification
  /\ Moved(j, "looking")
  /\ UNCHANGED <<trail, artifacts, changes, left>>

Verify(j) ==
  /\ j.phase = "looking"
  /\ \E l \in lookups : ConcludeVerification(l)
  /\ IF binding' # binding THEN Changed(j) ELSE UNCHANGED changes
  /\ Moved(j, "done")
  /\ UNCHANGED <<trail, artifacts, left>>

-----------------------------------------------------------------------------
Leaves(j) ==
  /\ jobs' = jobs \ {j}
  /\ lookups' = IF j.phase = "looking" THEN {} ELSE lookups
  /\ UNCHANGED <<artifacts, changes, left, binding, serving, approvals, zone, published>>

(* The outcome record, in a finally: success, when the operation returned. *)
Conclude(j) ==
  /\ j.phase = "done"
  /\ trail' = [trail EXCEPT ![j.invocation].succeeded = TRUE]
  /\ Leaves(j)

(* Refused or failed, also by a lost answer to its commit; or dead, or its record was lost. *)
Vanish(j) == Leaves(j) /\ UNCHANGED trail

OperatorNext ==
  \/ /\ left > 0
     /\ \E o \in Operators, context \in Contexts : Request(o, context) \/ RequestApproval(o, context)
  \/ \E j \in jobs :
       \/ Plan(j) \/ RecordApproval(j) \/ Change(j) \/ LookUp(j) \/ Verify(j)
       \/ Conclude(j) \/ Vanish(j)
  \/ /\ \/ \E l \in lookups, n \in NameServers : ServerAnswers(l, n)
        \/ \E n \in NameServers : ZoneChanges(n)
     /\ UNCHANGED operatorVars

OperatorSpec == OperatorInit /\ [][OperatorNext]_<<operatorVars, tenantVars>>

-----------------------------------------------------------------------------
StartedBy(operator, verb, permission) ==
  {i \in DOMAIN trail : /\ trail[i].operator = operator /\ trail[i].verb = verb
                        /\ permission \in trail[i].permissions}

(* Whatever happens to the jobs, the records account for the registry: every change has a confirmed
   start by its operator, one for each, under a grant to execute; an approval names an approver who
   may approve and a requester who planned that operation at that revision; and a confirmed success,
   of a verification or an approval excepted, has left its change
   (tenant-domain-operator-cli.ts:461). *)
EveryChangeAccounted ==
  /\ \A c \in changes :
       Cardinality({d \in changes : d.operator = c.operator /\ d.verb = c.verb}) <=
       Cardinality({i \in StartedBy(c.operator, c.verb, "execute") : trail[i].confirm})
  /\ \A a \in approvals :
       /\ StartedBy(a.approver, "approve", "approve") # {}
       /\ \E r \in artifacts : /\ r.requester = a.requester /\ r.requester # a.approver
                               /\ Recorded(r.verb) = a.operation /\ r.revision = a.revision
                               /\ StartedBy(r.requester, r.verb, "request") # {}
  /\ \A i \in DOMAIN trail :
       trail[i].succeeded /\ trail[i].confirm /\ trail[i].verb \notin {"verify", "approve"} =>
         \E c \in changes : c.operator = trail[i].operator /\ c.verb = trail[i].verb
=============================================================================
