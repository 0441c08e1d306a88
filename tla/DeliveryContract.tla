---------------------------- MODULE DeliveryContract ----------------------------
(***************************************************************************)
(* The delivery contract of the integration subsystem, as                  *)
(* delivery-contract.ts declares it: the delivery states, the transitions  *)
(* between them, and the two transitions that additionally require a       *)
(* capability of the connector semantics the intent was formed against.    *)
(* It says nothing of workers, claims, locks or attempts.                  *)
(***************************************************************************)
CONSTANTS Intent, Capabilities, NoCapabilities

VARIABLES
  delivery,   \* delivery[i]: the delivery state, "absent" before enqueue
  pinned      \* pinned[i]: the capabilities the intent was formed against

contractVars == <<delivery, pinned>>

deliveryStates == {"pending", "dispatching", "accepted", "acknowledged",
                   "retrying", "ambiguous", "failed_permanent",
                   "dead_lettered", "refused"}

deliveryStateTransitions ==
  {<<"pending", "dispatching">>, <<"pending", "refused">>,
   <<"dispatching", "accepted">>, <<"dispatching", "retrying">>,
   <<"dispatching", "ambiguous">>, <<"dispatching", "failed_permanent">>,
   <<"dispatching", "dead_lettered">>,
   <<"retrying", "dispatching">>, <<"retrying", "dead_lettered">>,
   <<"accepted", "acknowledged">>,
   <<"ambiguous", "dispatching">>, <<"ambiguous", "accepted">>,
   <<"ambiguous", "failed_permanent">>, <<"ambiguous", "dead_lettered">>}

\* The capability preconditions kept apart from the pairs.
transitionCapabilityPreconditions(from, to, capabilities) ==
  /\ <<from, to>> = <<"accepted", "acknowledged">> =>
       capabilities.reportsTerminalState
  /\ <<from, to>> = <<"ambiguous", "dispatching">> =>
       capabilities.supportsIdempotencyKey

Init ==
  /\ delivery = [i \in Intent |-> "absent"]
  /\ pinned = [i \in Intent |-> NoCapabilities]

Enqueue(i) ==
  /\ delivery[i] = "absent"
  /\ delivery' = [delivery EXCEPT ![i] = "pending"]
  /\ \E cap \in Capabilities : pinned' = [pinned EXCEPT ![i] = cap]

Transition(i, to) ==
  /\ <<delivery[i], to>> \in deliveryStateTransitions
  /\ transitionCapabilityPreconditions(delivery[i], to, pinned[i])
  /\ delivery' = [delivery EXCEPT ![i] = to]
  /\ UNCHANGED pinned

Next == \E i \in Intent : Enqueue(i) \/ \E to \in deliveryStates : Transition(i, to)

Spec == Init /\ [][Next]_contractVars
================================================================================
