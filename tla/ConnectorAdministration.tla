------------------------ MODULE ConnectorAdministration ------------------------
(***************************************************************************)
(* Administrators of the connector registry.  An administrator reads a     *)
(* connector in one transaction and submits a change in a later one,       *)
(* carrying the record revision it read.  Between the two, other           *)
(* administrators may change the connector; the optimistic check must then *)
(* refuse the stale change.                                                *)
(***************************************************************************)
EXTENDS ConnectorRegistry

CONSTANTS Administrator, NoView

\* NoView is a value no administrator could have read.
ASSUME NoViewAssumption == NoView \notin [id : Connector, row : Row]

VARIABLE view   \* view[a]: the connector row the administrator last read

adminVars == <<connector, audit, view>>

Init ==
  /\ RegistryInit
  /\ view = [a \in Administrator |-> NoView]

\* findById: the administrator sees the row and its record revision.
Read(a, c) ==
  /\ Registered(c)
  /\ view' = [view EXCEPT ![a] = [id |-> c, row |-> connector[c]]]
  /\ UNCHANGED registryVars

Create(a, c) ==
  /\ \E cap \in Declarable, k \in Credential : Register(c, cap, k)
  /\ UNCHANGED view

\* A change decided on what the administrator read.
Submit(a) ==
  /\ view[a] # NoView
  /\ LET c == view[a].id
         expected == view[a].row.record
     IN \/ \E s \in Lifecycle : ChangeLifecycle(c, expected, s)
        \/ \E cap \in Declarable : UpdateCapabilities(c, expected, cap)
        \/ \E k \in Credential : RotateCredentialReference(c, expected, k)
  /\ UNCHANGED view

Next ==
  \E a \in Administrator :
    \/ \E c \in Connector : Read(a, c) \/ Create(a, c)
    \/ Submit(a)

Spec == Init /\ [][Next]_adminVars

--------------------------------------------------------------------------------

TypeOK ==
  /\ RegistryTypeOK
  /\ view \in [Administrator -> [id : Connector, row : Row] \union {NoView}]

\* No lost update: a change to a registered connector is made only by an
\* administrator whose view was the whole current row, credential included.
\* A rotation that left the concurrency token alone would let two of them
\* overwrite each other, and no test of a single rotation could show it.
NoLostUpdate ==
  [][\A c \in Connector :
       Registered(c) /\ connector'[c] # connector[c] =>
         \E a \in Administrator : view[a] = [id |-> c, row |-> connector[c]]]_adminVars
================================================================================
