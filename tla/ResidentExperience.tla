------------------------- MODULE ResidentExperience -------------------------
(***************************************************************************)
(* What residents see of an Organization: drafts are saved over one        *)
(* another, a review of the draft, or of something published before, is    *)
(* requested and decided, and an approval is spent on publishing.          *)
(*                                                                         *)
(* A draft is its place in the chain of saves, with its saver and its      *)
(* contacts (actions, contacts and links, 0 when there are none); a save   *)
(* that leaves the contacts changes the rest. Every command holds the      *)
(* resource's row, names the revision it was written against, and changes  *)
(* nothing when refused. Reading the configuration, which all of them      *)
(* require, is part of each capability here.                               *)
(***************************************************************************)
EXTENDS Naturals, Sequences, FiniteSets

CONSTANTS Editors, NoReviewer,
          Changeable,                             \* capabilities that come and go
          MaxChanges,           \* bounds saves and authority changes together
          MaxReviews

Capabilities == {"write", "review", "publish", "contact"}

ASSUME ResidentAssumption ==
  /\ NoReviewer \notin Editors /\ Changeable \subseteq Capabilities
  /\ MaxChanges \in Nat /\ MaxReviews \in Nat

Contacts == 0..1

VARIABLES
  drafts,            \* the chain of saved revisions: [saver, contacts]
  reviews,           \* requests in their order, each with its decision and its use
  publications,      \* published events: [target, review, publisher]
  capable,           \* the persisted permissions of each member of staff
  authorization      \* the Organization's authorization revision

residentVars == <<drafts, reviews, publications, capable, authorization>>

Purposes == {"draft", "historical"}
Decisions == {"none", "approved", "rejected"}

ResidentTypeOK ==
  /\ drafts \in Seq([saver : Editors, contacts : Contacts])
  /\ reviews \in Seq([target : 1..MaxChanges, baseline : 0..MaxChanges, purpose : Purposes,
                      revision : Nat, authorization : 0..MaxChanges,
                      decision : Decisions, reviewer : Editors \cup {NoReviewer}, expired : BOOLEAN])
  /\ publications \in Seq([target : 1..MaxChanges, review : 1..MaxReviews, publisher : Editors])
  /\ Len(drafts) + authorization <= MaxChanges /\ Len(reviews) <= MaxReviews
  /\ capable \in [Editors -> SUBSET Capabilities]
  /\ authorization \in 0..MaxChanges

ResidentInit ==
  /\ drafts = <<>> /\ reviews = <<>> /\ publications = <<>>
  /\ capable = [e \in Editors |-> Capabilities]
  /\ authorization = 0

Draft == Len(drafts)
Published == IF publications = <<>> THEN 0 ELSE publications[Len(publications)].target
PublishedBefore(target) == \E p \in DOMAIN publications : publications[p].target = target

(* The revision advances with every save and every publication. *)
ResourceRevision == 1 + Len(drafts) + Len(publications)

-----------------------------------------------------------------------------
(* Which changes concern contacts, and who had a hand in them.             *)

ContactsOf(d) == IF d = 0 THEN 0 ELSE drafts[d].contacts
Consequential(target, baseline) == baseline = 0 \/ ContactsOf(target) # ContactsOf(baseline)
ChangesContacts(d) == Consequential(d, d - 1)

\* Mutant: only who saved the draft may not review it.
SaverAlone(target, baseline) == {drafts[target].saver}

(* The saver of the target, and whoever changed contacts on the way between it and what is
   published, in either direction: drafts form one chain. *)
Contributors(target, baseline) ==
  LET upper == IF target > baseline THEN target ELSE baseline
      lower == IF target > baseline THEN baseline ELSE target IN
  {drafts[target].saver} \cup {drafts[d].saver : d \in {x \in lower + 1 .. upper : ChangesContacts(x)}}

MayReview(e, consequential) == {"review"} \cup (IF consequential THEN {"contact"} ELSE {}) \subseteq capable[e]
MayPublish(e, consequential) == {"publish"} \cup (IF consequential THEN {"contact"} ELSE {}) \subseteq capable[e]
MayRequest(e, purpose, consequential) ==
  IF purpose = "historical" THEN capable[e] \cap {"write", "publish"} # {}
  ELSE {"write"} \cup (IF consequential THEN {"contact"} ELSE {}) \subseteq capable[e]

Eligible(target, purpose) ==
  /\ target # Published
  /\ IF purpose = "draft" THEN target = Draft ELSE PublishedBefore(target)

-----------------------------------------------------------------------------
(* What an approval is still good for.                                     *)

Fresh(i) ==
  /\ reviews[i].revision = ResourceRevision /\ reviews[i].authorization = authorization
  /\ Eligible(reviews[i].target, reviews[i].purpose)
Pending(i) == Fresh(i) /\ i = Len(reviews) /\ reviews[i].decision = "none"
Consumed(i) == \E p \in DOMAIN publications : publications[p].review = i
IsConsequential(i) == Consequential(reviews[i].target, reviews[i].baseline)

\* Mutant: an approval is good until it expires or is used.
UsableUntilUsed(i) ==
  /\ reviews[i].decision = "approved" /\ ~Consumed(i) /\ ~reviews[i].expired
  /\ reviews[i].target # Published
  /\ MayReview(reviews[i].reviewer, IsConsequential(i))
  /\ reviews[i].reviewer \notin Contributors(reviews[i].target, reviews[i].baseline)

(* evaluateResidentApproval, without a publisher yet. *)
Usable(i) ==
  /\ Fresh(i) /\ i = Len(reviews)
  /\ reviews[i].decision = "approved" /\ ~Consumed(i) /\ ~reviews[i].expired
  /\ MayReview(reviews[i].reviewer, IsConsequential(i))
  /\ reviews[i].reviewer \notin Contributors(reviews[i].target, reviews[i].baseline)

-----------------------------------------------------------------------------
(* Saving what the draft already is changes nothing; the first draft brings links and so contacts. *)
SaveDraft(e) ==
  /\ Draft + authorization < MaxChanges /\ "write" \in capable[e]
  /\ \E contacts \in Contacts :
       /\ Draft = 0 \/ contacts # ContactsOf(Draft) => "contact" \in capable[e]
       /\ drafts' = Append(drafts, [saver |-> e, contacts |-> contacts])
  /\ UNCHANGED <<reviews, publications, capable, authorization>>

(* The draft's review is not asked for again while the latest request is pending or its approval
   usable; a historical one may be, and takes its place. *)
RequestReview(e, target, purpose) ==
  /\ Len(reviews) < MaxReviews
  /\ Eligible(target, purpose) /\ MayRequest(e, purpose, Consequential(target, Published))
  /\ purpose = "draft" /\ reviews # <<>> => ~Pending(Len(reviews)) /\ ~Usable(Len(reviews))
  /\ reviews' = Append(reviews,
       [target |-> target, baseline |-> Published, purpose |-> purpose,
        revision |-> ResourceRevision, authorization |-> authorization,
        decision |-> "none", reviewer |-> NoReviewer, expired |-> FALSE])
  /\ UNCHANGED <<drafts, publications, capable, authorization>>

Decide(e, i) ==
  /\ Pending(i) /\ MayReview(e, IsConsequential(i))
  /\ e \notin Contributors(reviews[i].target, reviews[i].baseline)
  /\ \E outcome \in {"approved", "rejected"} :
       reviews' = [reviews EXCEPT ![i].decision = outcome, ![i].reviewer = e]
  /\ UNCHANGED <<drafts, publications, capable, authorization>>

Publish(e, i) ==
  /\ Usable(i) /\ MayPublish(e, IsConsequential(i)) /\ reviews[i].reviewer # e
  /\ publications' = Append(publications, [target |-> reviews[i].target, review |-> i, publisher |-> e])
  /\ UNCHANGED <<drafts, reviews, capable, authorization>>

(* 24 hours after the decision; what becomes of a superseded one makes no difference. *)
ApprovalExpires(i) ==
  /\ i = Len(reviews) /\ ~Consumed(i) /\ reviews[i].decision = "approved" /\ ~reviews[i].expired
  /\ reviews' = [reviews EXCEPT ![i].expired = TRUE]
  /\ UNCHANGED <<drafts, publications, capable, authorization>>

(* Any change of staff, roles or permissions advances the authorization revision. *)
ChangeCapability(e) ==
  /\ Draft + authorization < MaxChanges /\ authorization' = authorization + 1
  /\ \E c \in Changeable :
       capable' = [capable EXCEPT ![e] = IF c \in @ THEN @ \ {c} ELSE @ \cup {c}]
  /\ UNCHANGED <<drafts, reviews, publications>>

ResidentNext ==
  \/ \E e \in Editors : \/ SaveDraft(e) \/ ChangeCapability(e)
                        \/ \E target \in DOMAIN drafts, purpose \in Purposes : RequestReview(e, target, purpose)
                        \/ \E i \in DOMAIN reviews : Decide(e, i) \/ Publish(e, i)
  \/ \E i \in DOMAIN reviews : ApprovalExpires(i)

ResidentSpec == ResidentInit /\ [][ResidentNext]_residentVars

-----------------------------------------------------------------------------
(* Contacts residents see were approved at least once by somebody other than who introduced them,
   however many saves of others lie in between, and whoever approved a publication neither saved
   what it publishes nor published it; drafts undone and published again are no way around it
   (resident-experience.review.ts:150). *)
Introduced(target) ==
  CHOOSE d \in 1..target : ChangesContacts(d) /\ \A x \in d + 1 .. target : ~ChangesContacts(x)
ReviewerOf(p) == reviews[publications[p].review].reviewer

ContactsApprovedByAnother ==
  \A p \in DOMAIN publications :
    /\ ReviewerOf(p) \notin {publications[p].publisher, drafts[publications[p].target].saver}
    /\ \E q \in 1..p :
         /\ Introduced(publications[q].target) = Introduced(publications[p].target)
         /\ ReviewerOf(q) # drafts[Introduced(publications[p].target)].saver

(* An approval is spent on what was reviewed: nothing was saved, published, asked for or changed in
   anyone's authority since the review was asked for (resident-experience.publication.service.ts:155);
   and whoever introduced the contact details it publishes did not approve them. *)
ApprovalStillHolds ==
  [][publications' # publications =>
       LET i == publications'[Len(publications')].review IN
         /\ i = Len(reviews) /\ reviews[i].baseline = Published
         /\ reviews[i].purpose = "draft" => reviews[i].target = Draft
         /\ reviews[i].revision = ResourceRevision /\ reviews[i].authorization = authorization
         /\ ~Consumed(i)
         /\ ContactsApprovedByAnother']_residentVars
=============================================================================
