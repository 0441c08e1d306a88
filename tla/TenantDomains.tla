--------------------------- MODULE TenantDomains ---------------------------
(***************************************************************************)
(* One hostname on its way into service: operators register it, challenge  *)
(* its owner through DNS, verify the answer, approve and activate, and     *)
(* deactivate or revoke again. The lookups run outside of any transaction, *)
(* while the zone, the challenge and the binding move on.                  *)
(*                                                                         *)
(* A command names the revision it expects and a refused one changes       *)
(* nothing, so each command is enabled on the revision it expects; only a  *)
(* lookup carries its revision past later commits. A challenge is named by *)
(* the revision that issued it.                                            *)
(***************************************************************************)
EXTENDS Naturals, FiniteSets

CONSTANTS Operators, NameServers, NoOperator,
          MaxBindingRevision, MaxApprovals, MaxLookups     \* bounds

ASSUME TenantDomainAssumption ==
  /\ NoOperator \notin Operators /\ IsFiniteSet(NameServers)
  /\ MaxBindingRevision \in Nat /\ MaxApprovals \in Nat /\ MaxLookups \in Nat

VARIABLES
  binding,     \* the registry row; revision 0 before it is registered
  serving,     \* whether the Organization is active
  approvals,   \* tenant_domain_operator_approval, with what the audit says of its use
  lookups,     \* verifications between their first read and their transaction
  zone,        \* the challenge each authoritative server answers with, 0 for none
  published    \* history: the servers that have answered with the current challenge

tenantVars == <<binding, serving, approvals, lookups, zone, published>>

Challenges == 0..MaxBindingRevision
Answers == {"awaited", "match", "other", "failed"}

BindingRow ==
  [verification : {"unverified", "pending", "verified"}, challenge : Challenges,
   expired : BOOLEAN, active : BOOLEAN, revision : 0..MaxBindingRevision]

ApprovalRow ==
  [operation : {"activated", "verification_revoked"}, revision : 1..MaxBindingRevision,
   challenge : Challenges, requester : Operators, approver : Operators,
   spentBy : Operators \cup {NoOperator}]

TenantTypeOK ==
  /\ binding \in BindingRow
  /\ binding.active => binding.verification = "verified"
  /\ (binding.verification = "unverified") = (binding.challenge = 0)
  /\ serving \in BOOLEAN
  /\ approvals \in SUBSET ApprovalRow
  /\ \A l \in lookups : /\ l.challenge \in Challenges \ {0} /\ l.revision \in Challenges
                        /\ l.answers \in [NameServers -> Answers]
  /\ zone \in [NameServers -> Challenges]
  /\ published \in SUBSET NameServers

TenantInit ==
  /\ binding = [verification |-> "unverified", challenge |-> 0, expired |-> FALSE,
                active |-> FALSE, revision |-> 0]
  /\ serving = TRUE
  /\ approvals = {}
  /\ lookups = {}
  /\ zone = [n \in NameServers |-> 0]
  /\ published = {}

Registered == binding.revision > 0
Moves(next) ==
  /\ binding.revision < MaxBindingRevision
  /\ binding' = [next EXCEPT !.revision = binding.revision + 1]

-----------------------------------------------------------------------------
(* The hostname is unique over all Organizations; it starts unverified.    *)
Register ==
  /\ ~Registered /\ serving
  /\ Moves(binding)
  /\ UNCHANGED <<serving, approvals, lookups, zone, published>>

(* A new challenge takes the place of the one still unanswered. *)
IssueChallenge ==
  /\ Registered /\ binding.verification # "verified"
  /\ Moves([binding EXCEPT !.verification = "pending", !.challenge = binding.revision + 1,
                           !.expired = FALSE])
  /\ published' = {}
  /\ UNCHANGED <<serving, approvals, lookups, zone>>

(* verifyTenantDomain reads the pending binding without a lock and asks every server of the zone. *)
StartVerification ==
  /\ binding.verification = "pending" /\ Cardinality(lookups) < MaxLookups
  /\ lookups' = lookups \cup {[revision |-> binding.revision, challenge |-> binding.challenge,
                               answers |-> [n \in NameServers |-> "awaited"]]}
  /\ UNCHANGED <<binding, serving, approvals, zone, published>>

(* One server answers with what it holds at that moment, or cannot be asked. *)
ServerAnswers(l, n) ==
  /\ l.answers[n] = "awaited"
  /\ \E answer \in {"failed", IF zone[n] = l.challenge THEN "match" ELSE "other"} :
       lookups' = (lookups \ {l}) \cup {[l EXCEPT !.answers[n] = answer]}
  /\ UNCHANGED <<binding, serving, approvals, zone, published>>

Agreeing(l) == {n \in NameServers : l.answers[n] = "match"}

\* Mutant: one reachable server is enough.
AnyServerProves(l) ==
  /\ \A n \in NameServers : l.answers[n] # "other"
  /\ Agreeing(l) # {}

(* observeVerification: nobody answers without it, and two agree unless the zone has one server. *)
Proves(l) ==
  /\ \A n \in NameServers : l.answers[n] # "other"
  /\ Cardinality(Agreeing(l)) >= (IF Cardinality(NameServers) >= 2 THEN 2 ELSE 1)

\* Mutant: that the binding still is pending is all that is looked at again.
StillPending(l) == binding.verification = "pending"

(* Locked again: the revision the operator named, and the challenge that was looked for. *)
SameChallenge(l) == binding.revision = l.revision /\ binding.challenge = l.challenge

(* A failed verification is recorded as an attempt and changes nothing of the binding. *)
ConcludeVerification(l) ==
  /\ \A n \in NameServers : l.answers[n] # "awaited"
  /\ lookups' = lookups \ {l}
  /\ IF SameChallenge(l) /\ Proves(l) /\ ~binding.expired
     THEN Moves([binding EXCEPT !.verification = "verified"])
     ELSE UNCHANGED binding
  /\ UNCHANGED <<serving, approvals, zone, published>>

-----------------------------------------------------------------------------
(* An approval copies the committed binding, inactive, with another operator to carry it out. *)
Approve(operation, requester, approver) ==
  /\ Registered /\ serving /\ ~binding.active /\ requester # approver
  /\ IF operation = "activated" THEN binding.verification = "verified"
                                ELSE binding.verification # "unverified"
  /\ Cardinality(approvals) < MaxApprovals
  /\ approvals' = approvals \cup
       {[operation |-> operation, revision |-> binding.revision, challenge |-> binding.challenge,
         requester |-> requester, approver |-> approver, spentBy |-> NoOperator]}
  /\ UNCHANGED <<binding, serving, lookups, zone, published>>

\* Mutant: an approval holds for the hostname until it expires.
AuthorizesHostname(a, operation, operator) ==
  /\ a.operation = operation
  /\ a.requester = operator /\ a.approver # operator

(* guard_tenant_domain_audit and the index on the approval: what the mutation's audit row may name.
   Its other expected fields are functions of the revision. *)
Authorizes(a, operation, operator) ==
  /\ a.operation = operation /\ a.revision = binding.revision
  /\ a.requester = operator /\ a.approver # operator
  /\ a.spentBy = NoOperator

Spend(operation, operator) ==
  \E a \in approvals :
    /\ Authorizes(a, operation, operator)
    /\ approvals' = (approvals \ {a}) \cup {[a EXCEPT !.spentBy = operator]}

Activate(operator) ==
  /\ Registered /\ serving /\ binding.verification = "verified" /\ ~binding.active
  /\ Spend("activated", operator)
  /\ Moves([binding EXCEPT !.active = TRUE])
  /\ UNCHANGED <<serving, lookups, zone, published>>

(* Immediate and unapproved, also when the Organization is no longer active. *)
Deactivate ==
  /\ binding.active
  /\ Moves([binding EXCEPT !.active = FALSE])
  /\ UNCHANGED <<serving, approvals, lookups, zone, published>>

Revoke(operator) ==
  /\ ~binding.active /\ binding.verification # "unverified"
  /\ Spend("verification_revoked", operator)
  /\ Moves([binding EXCEPT !.verification = "unverified", !.challenge = 0, !.expired = FALSE])
  /\ published' = {}
  /\ UNCHANGED <<serving, lookups, zone>>

-----------------------------------------------------------------------------
(* Time, the zone's owner, and the Organization.                           *)

ExpireChallenge ==
  /\ binding.verification = "pending" /\ ~binding.expired
  /\ binding' = [binding EXCEPT !.expired = TRUE]
  /\ UNCHANGED <<serving, approvals, lookups, zone, published>>

(* An approval that has expired authorizes nothing more. *)
ExpireApproval(a) ==
  /\ a.spentBy = NoOperator
  /\ approvals' = approvals \ {a}
  /\ UNCHANGED <<binding, serving, lookups, zone, published>>

(* Whoever controls the zone puts the current challenge on one server, or takes a record away. While
   no challenge is open nobody asks. *)
ZoneChanges(n) ==
  /\ binding.verification = "pending"
  /\ \E c \in {0, binding.challenge} \ {zone[n]} : zone' = [zone EXCEPT ![n] = c]
  /\ published' = IF zone'[n] = 0 THEN published ELSE published \cup {n}
  /\ UNCHANGED <<binding, serving, approvals, lookups>>

OrganizationStatus ==
  /\ serving' = ~serving
  /\ UNCHANGED <<binding, approvals, lookups, zone, published>>

TenantNext ==
  \/ Register \/ IssueChallenge \/ StartVerification \/ Deactivate
  \/ \E l \in lookups : ConcludeVerification(l) \/ \E n \in NameServers : ServerAnswers(l, n)
  \/ \E o, p \in Operators, operation \in {"activated", "verification_revoked"} : Approve(operation, o, p)
  \/ \E o \in Operators : Activate(o) \/ Revoke(o)
  \/ ExpireChallenge \/ OrganizationStatus
  \/ \E a \in approvals : ExpireApproval(a)
  \/ \E n \in NameServers : ZoneChanges(n)

TenantSpec == TenantInit /\ [][TenantNext]_tenantVars

-----------------------------------------------------------------------------
(* A verified hostname's zone has answered with the very challenge it is verified by, on two of its
   servers, however lookups, replaced challenges and zone changes interleave
   (tenant-domain.operations.ts:850). *)
OwnershipProven ==
  binding.verification = "verified" =>
    Cardinality(published) >= (IF Cardinality(NameServers) >= 2 THEN 2 ELSE 1)

(* A hostname is in service by the decision of two operators about the binding as it still is: one
   approved it, the other spent that approval, and nothing was decided since
   (tenant-domain.operations.ts:976, migration 20261018). *)
InServiceAsApproved ==
  binding.active =>
    \E a \in approvals :
      /\ a.spentBy \notin {NoOperator, a.approver}
      /\ a.operation = "activated"
      /\ a.challenge = binding.challenge
      /\ a.revision + 1 = binding.revision

(* A name is verified and in service for those who own it and were approved: both of the above. *)
ServedAsProvenAndApproved == OwnershipProven /\ InServiceAsApproved
=============================================================================
