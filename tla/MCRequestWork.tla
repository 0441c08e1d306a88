--------------------------- MODULE MCRequestWork ---------------------------
(***************************************************************************)
(* A request's own work: the commands of staff on it, its notes and        *)
(* messages, and the requester's link. They share no variable, so one run  *)
(* checks them one at a time: `focus` says which of them acts.             *)
(***************************************************************************)
EXTENDS RequestHandling, RequestCorrespondence, RequesterTracking, TLC

CONSTANTS s1, s2, g1, u1, u2, a1, d1, d2, d3, m1, m2, r1

VARIABLE focus

RequestWorkVars == <<handlingVars, correspondenceVars, trackingVars, focus>>

ServesDef == [g \in Groups |-> {u1}]
NormalBodyDef == [d \in Drafts |-> IF d = d2 THEN d1 ELSE d]
KnownDef == [r \in Requesters |-> 1..MaxCredentials]
Symmetry == Permutations({s1, s2}) \cup Permutations({m1, m2})

Init ==
  /\ focus \in {"handling", "correspondence", "tracking"}
  /\ HandlingInit /\ CorrespondenceInit /\ TrackingInit
  /\ focus # "handling" => request.audience = "public" /\ assignment = NoRow
  /\ focus # "correspondence" => stream = "note"
  /\ focus # "tracking" => credentials = <<>>

Next ==
  /\ UNCHANGED focus
  /\ \/ /\ focus = "handling" /\ HandlingNext
        /\ UNCHANGED <<correspondenceVars, trackingVars>>
     \/ /\ focus = "correspondence" /\ CorrespondenceNext
        /\ UNCHANGED <<handlingVars, trackingVars>>
     \/ /\ focus = "tracking" /\ TrackingNext
        /\ UNCHANGED <<handlingVars, correspondenceVars>>

Spec == Init /\ [][Next]_RequestWorkVars

TypeOK == HandlingTypeOK /\ CorrespondenceTypeOK /\ TrackingTypeOK
=============================================================================
