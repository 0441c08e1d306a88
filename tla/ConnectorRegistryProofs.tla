------------------------ MODULE ConnectorRegistryProofs ------------------------
(***************************************************************************)
(* What every mutation of the connector registry preserves, for any set of *)
(* connectors, capability contracts and credentials and any bound.  The    *)
(* modules that let administrators, producers or workers act on the        *)
(* registry cite these lemmas.                                             *)
(***************************************************************************)
EXTENDS ConnectorRegistry, TLAPS

\* The inductive invariant of one connector row and its audit rows.
RowInv(rows, row) ==
  /\ row \in Row
  /\ rows \in Seq(AuditRow)
  /\ Explains(rows, row)
  /\ Resolves(rows, row)
  /\ rows = << >> <=> row.configuration = 0
  /\ \A r \in DOMAIN rows : rows[r].configuration <= row.configuration

\* The inductive invariant of the registry.
RegistryInv ==
  /\ RegistryTypeOK
  /\ \A c \in Connector : RowInv(audit[c], connector[c])

\* The invariant gives the properties the runs check.
LEMMA RegistryInvSafe ==
  RegistryInv => RegistryTypeOK /\ AuditExplainsConnector /\ EveryPinResolves
BY DEF RegistryInv, RowInv, AuditExplainsConnector, EveryPinResolves

\* An unregistered connector has no audit rows, and none are needed.
LEMMA UnregisteredRowInv ==
  ASSUME NEW row \in Row, row.lifecycle = "unregistered", row.record = 0,
         row.configuration = 0
  PROVE  RowInv(<< >>, row)
<1>1. Len(<< >>) = 0 /\ DOMAIN << >> = {} /\ << >> \in Seq(AuditRow)
  OBVIOUS
<1>2. Explains(<< >>, row)
  BY <1>1 DEF Explains
<1>3. Resolves(<< >>, row)
  BY DEF Resolves
<1> QED BY <1>1, <1>2, <1>3 DEF RowInv

\* A registration is explained by one audit row.
LEMMA FirstRowInv ==
  ASSUME NEW row \in Row, row.lifecycle # "unregistered", row.record = 1,
         row.configuration = 1
  PROVE  RowInv(<<AuditOf(row, "registered")>>, row)
<1> DEFINE first == AuditOf(row, "registered")
           rows == <<first>>
<1>1. /\ first \in AuditRow
      /\ first.record = 1
      /\ first.configuration = 1
      /\ first.advanced
      /\ first = AuditOf(row, first.category)
  BY DEF AuditOf, AuditRow, Row, Category, AdvancesConfiguration
<1> HIDE DEF first
<1>2. /\ rows \in Seq(AuditRow)
      /\ Len(rows) = 1
      /\ DOMAIN rows = {1}
      /\ rows[1] = first
      /\ rows # << >>
  BY <1>1
<1> HIDE DEF rows
<1>3. Explains(rows, row)
  BY <1>1, <1>2 DEF Explains
<1>4. Snapshots(rows, 1) = {1}
  BY <1>1, <1>2 DEF Snapshots
<1>5. Resolves(rows, row)
  BY <1>2, <1>4 DEF Resolves
<1>6. RowInv(rows, row)
  BY <1>1, <1>2, <1>3, <1>5 DEF RowInv
<1> QED BY <1>6 DEF rows, first

\* What an accepted mutation does to the row it decided on.
LEMMA AdvancedRow ==
  ASSUME NEW row \in Row, NEW category
  PROVE  /\ Advanced(row, category) \in Row
         /\ Advanced(row, category).record = row.record + 1
         /\ Advanced(row, category).configuration =
              row.configuration
              + (IF AdvancesConfiguration(category) THEN 1 ELSE 0)
         /\ Advanced(row, category).lifecycle = row.lifecycle
         /\ Advanced(row, category).capabilities = row.capabilities
<1> DEFINE step == IF AdvancesConfiguration(category) THEN 1 ELSE 0
<1>1. row.record \in Nat /\ row.configuration \in Nat /\ step \in Nat
  BY DEF Row
<1>2. Advanced(row, category) =
        [row EXCEPT !.record = row.record + 1,
                    !.configuration = row.configuration + step]
  <2>1. (IF AdvancesConfiguration(category) THEN row.configuration + 1
                                            ELSE row.configuration)
          = row.configuration + step
    BY <1>1
  <2> QED BY <2>1 DEF Advanced
<1> HIDE DEF step
<1>3. row.record + 1 \in Nat /\ row.configuration + step \in Nat
  BY <1>1
<1>4. /\ Advanced(row, category) \in Row
      /\ Advanced(row, category).record = row.record + 1
      /\ Advanced(row, category).configuration = row.configuration + step
      /\ Advanced(row, category).lifecycle = row.lifecycle
      /\ Advanced(row, category).capabilities = row.capabilities
  BY <1>2, <1>3 DEF Row
<1> QED BY <1>4 DEF step

\* Appending the audit row of the next revision keeps every older pin and
\* explains the new row.
LEMMA AppendRowInv ==
  ASSUME NEW old \in Row, NEW rows, NEW new \in Row, NEW category \in Category,
         RowInv(rows, old), rows # << >>,
         new.record = old.record + 1,
         new.configuration =
           old.configuration + (IF AdvancesConfiguration(category) THEN 1 ELSE 0),
         new.lifecycle # "unregistered"
  PROVE  RowInv(Append(rows, AuditOf(new, category)), new)
<1> DEFINE added == AuditOf(new, category)
           more == Append(rows, added)
           n == Len(rows)
<1>1. /\ added \in AuditRow
      /\ added.record = new.record
      /\ added.configuration = new.configuration
      /\ added.advanced = AdvancesConfiguration(category)
      /\ added.category = category
      /\ added = AuditOf(new, added.category)
  BY DEF AuditOf, AuditRow, Row, AdvancesConfiguration
<1>2. rows \in Seq(AuditRow) /\ n \in Nat /\ n > 0
  BY DEF RowInv
<1>3. /\ n = old.record
      /\ rows[n].configuration = old.configuration
      /\ \A r \in 1..n :
           /\ rows[r].record = r
           /\ rows[r].configuration =
                (IF r = 1 THEN 0 ELSE rows[r - 1].configuration)
                + (IF rows[r].advanced THEN 1 ELSE 0)
           /\ rows[r].configuration <= old.configuration
           /\ rows[r] \in AuditRow
  BY <1>2 DEF RowInv, Explains, AuditOf
<1> HIDE DEF added
<1>4. /\ more \in Seq(AuditRow)
      /\ Len(more) = n + 1
      /\ DOMAIN more = 1..(n + 1)
      /\ DOMAIN rows = 1..n
      /\ more[n + 1] = added
      /\ \A r \in 1..n : more[r] = rows[r]
      /\ more # << >>
  BY <1>1, <1>2
<1> HIDE DEF more, n
<1>5. Explains(more, new)
  <2>1. ASSUME NEW r \in 1..(n + 1)
        PROVE  /\ more[r].record = r
               /\ more[r].configuration =
                    (IF r = 1 THEN 0 ELSE more[r - 1].configuration)
                    + (IF more[r].advanced THEN 1 ELSE 0)
    <3>1. CASE r \in 1..n
      <4>1. more[r] = rows[r] /\ (r # 1 => more[r - 1] = rows[r - 1])
        BY <3>1, <1>2, <1>4
      <4> QED BY <3>1, <4>1, <1>3
    <3>2. CASE r = n + 1
      <4>1. more[r] = added /\ more[r - 1] = rows[n] /\ r # 1
        BY <3>2, <1>2, <1>4
      <4> QED BY <3>2, <4>1, <1>1, <1>3
    <3> QED BY <3>1, <3>2, <1>2
  <2> QED
    BY <2>1, <1>1, <1>3, <1>4 DEF Explains
<1>6. Resolves(more, new)
  <2> SUFFICES ASSUME NEW revision \in 1..new.configuration
               PROVE  \E r \in DOMAIN more : Snapshots(more, revision) = {r}
    BY DEF Resolves
  <2>1. /\ old.configuration \in Nat
        /\ added.configuration \in Nat
        /\ \A r \in 1..n : rows[r].configuration \in Nat
    BY <1>1, <1>3 DEF Row, AuditRow
  <2>2. CASE revision <= old.configuration
    <3>1. PICK r \in 1..n : Snapshots(rows, revision) = {r}
      BY <2>1, <2>2, <1>4 DEF RowInv, Resolves
    <3>2. ~(added.configuration = revision /\ added.advanced)
      BY <2>1, <2>2, <1>1
    <3>3. Snapshots(more, revision) = Snapshots(rows, revision)
      BY <3>2, <1>2, <1>4 DEF Snapshots
    <3>4. r \in DOMAIN more /\ Snapshots(more, revision) = {r}
      BY <3>1, <3>3, <1>2, <1>4
    <3> QED BY <3>4, Zenon
  <2>3. CASE revision > old.configuration
    <3>1. added.advanced /\ added.configuration = revision
      BY <2>1, <2>3, <1>1
    <3>2. \A r \in 1..n : rows[r].configuration # revision
      BY <2>1, <2>3, <1>3
    <3>3. Snapshots(more, revision) = {n + 1}
      BY <3>1, <3>2, <1>2, <1>4 DEF Snapshots
    <3>4. n + 1 \in DOMAIN more
      BY <1>2, <1>4
    <3> QED BY <3>3, <3>4, Zenon
  <2> QED BY <2>1, <2>2, <2>3
<1>7. \A r \in DOMAIN more : more[r].configuration <= new.configuration
  <2> SUFFICES ASSUME NEW r \in 1..(n + 1)
               PROVE  more[r].configuration <= new.configuration
    BY <1>4
  <2>1. old.configuration \in Nat /\ new.configuration \in Nat
    BY DEF Row
  <2>2. old.configuration <= new.configuration
    BY <2>1
  <2>3. CASE r \in 1..n
    <3>1. /\ more[r] = rows[r]
          /\ rows[r].configuration \in Nat
          /\ rows[r].configuration <= old.configuration
      BY <2>3, <1>3, <1>4 DEF AuditRow
    <3> QED BY <3>1, <2>1, <2>2
  <2>4. CASE r = n + 1
    BY <2>1, <2>4, <1>1, <1>4
  <2> QED BY <2>3, <2>4, <1>2
<1>8. new.configuration # 0
  BY <1>2 DEF RowInv, Row
<1>9. RowInv(more, new)
  BY <1>4, <1>5, <1>6, <1>7, <1>8 DEF RowInv
<1> QED BY <1>9 DEF more, added

--------------------------------------------------------------------------------

\* The empty registry satisfies the invariant.
LEMMA RegistryInitInv == RegistryInit => RegistryInv
<1> SUFFICES ASSUME RegistryInit PROVE RegistryInv
  OBVIOUS
<1>1. PICK k \in Credential, cap \in Declarable :
        connector = [c \in Connector |->
          [lifecycle |-> "unregistered", record |-> 0, configuration |-> 0,
           capabilities |-> cap, credential |-> k]]
  BY DEF RegistryInit
<1>2. audit = [c \in Connector |-> << >>]
  BY DEF RegistryInit
<1>3. RegistryTypeOK
  BY <1>1, <1>2, RegistryAssumption DEF RegistryTypeOK, Row
<1>4. ASSUME NEW c \in Connector PROVE RowInv(audit[c], connector[c])
  <2>1. /\ connector[c] \in Row
        /\ connector[c].lifecycle = "unregistered"
        /\ connector[c].record = 0
        /\ connector[c].configuration = 0
        /\ audit[c] = << >>
    BY <1>1, <1>2, <1>3 DEF RegistryTypeOK
  <2> QED BY <2>1, UnregisteredRowInv
<1> QED BY <1>3, <1>4 DEF RegistryInv

\* A step that touches one connector keeps the invariant if it keeps that
\* connector's part.
LEMMA OneConnectorInv ==
  ASSUME NEW c \in Connector, NEW rows, NEW row, RegistryInv, RowInv(rows, row),
         connector' = [connector EXCEPT ![c] = row],
         audit' = [audit EXCEPT ![c] = rows]
  PROVE  RegistryInv'
<1>1. row \in Row /\ rows \in Seq(AuditRow)
  BY DEF RowInv
<1>2. RegistryTypeOK'
  BY <1>1 DEF RegistryInv, RegistryTypeOK
<1>3. ASSUME NEW d \in Connector PROVE RowInv(audit[d], connector[d])'
  <2>1. CASE d = c
    <3>1. connector'[d] = row /\ audit'[d] = rows
      BY <2>1 DEF RegistryInv, RegistryTypeOK
    <3> QED BY <3>1
  <2>2. CASE d # c
    <3>1. connector'[d] = connector[d] /\ audit'[d] = audit[d]
      BY <2>2 DEF RegistryInv, RegistryTypeOK
    <3>2. RowInv(audit[d], connector[d])
      BY DEF RegistryInv
    <3> QED BY <3>1, <3>2
  <2> QED BY <2>1, <2>2
<1> QED BY <1>2, <1>3 DEF RegistryInv

\* A registration starts the audit sequence of a connector.
LEMMA RegisterInv ==
  ASSUME NEW c \in Connector, NEW cap \in Declarable, NEW k \in Credential,
         RegistryInv, Register(c, cap, k)
  PROVE  RegistryInv'
<1> DEFINE row == [lifecycle |-> "configured", record |-> 1, configuration |-> 1,
                   capabilities |-> cap, credential |-> k]
<1>1. /\ row \in Row
      /\ row.lifecycle # "unregistered"
      /\ row.record = 1
      /\ row.configuration = 1
  BY RegistryAssumption DEF Row, Lifecycle
<1>2. /\ connector' = [connector EXCEPT ![c] = row]
      /\ audit' = [audit EXCEPT ![c] = <<AuditOf(row, "registered")>>]
  BY DEF Register
<1> HIDE DEF row
<1>3. RowInv(<<AuditOf(row, "registered")>>, row)
  BY <1>1, FirstRowInv
<1> QED BY <1>2, <1>3, OneConnectorInv

\* An accepted mutation appends one audit row and keeps every older pin.
LEMMA MutateInv ==
  ASSUME NEW c \in Connector, NEW expected, NEW next \in Row,
         NEW category \in Category,
         RegistryInv, Mutate(c, expected, next, category),
         next.record = connector[c].record,
         next.configuration = connector[c].configuration,
         next.lifecycle # "unregistered"
  PROVE  RegistryInv'
<1> DEFINE row == Advanced(next, category)
<1>1. /\ connector[c] \in Row
      /\ connector[c].lifecycle # "unregistered"
      /\ RowInv(audit[c], connector[c])
  BY DEF RegistryInv, RegistryTypeOK, Mutate, Registered
<1>2. audit[c] # << >>
  BY <1>1 DEF RowInv, Explains
<1>3. /\ row \in Row
      /\ row.record = connector[c].record + 1
      /\ row.configuration = connector[c].configuration
                             + (IF AdvancesConfiguration(category) THEN 1 ELSE 0)
      /\ row.lifecycle # "unregistered"
  BY AdvancedRow
<1>4. /\ connector' = [connector EXCEPT ![c] = row]
      /\ audit' = [audit EXCEPT ![c] = Append(audit[c], AuditOf(row, category))]
  BY DEF Mutate
<1> HIDE DEF row
<1>5. RowInv(Append(audit[c], AuditOf(row, category)), row)
  BY <1>1, <1>2, <1>3, AppendRowInv
<1> QED BY <1>4, <1>5, OneConnectorInv

\* The three mutations of a registered connector, whatever revision the
\* caller expects.
LEMMA ChangeInv ==
  ASSUME NEW c \in Connector, NEW expected, RegistryInv,
         \/ \E s \in Lifecycle : ChangeLifecycle(c, expected, s)
         \/ \E cap \in Declarable : UpdateCapabilities(c, expected, cap)
         \/ \E k \in Credential : RotateCredentialReference(c, expected, k)
  PROVE  RegistryInv'
<1>0. connector[c] \in Row
  BY DEF RegistryInv, RegistryTypeOK
<1>1. ASSUME NEW s \in Lifecycle, ChangeLifecycle(c, expected, s)
      PROVE  RegistryInv'
  <2> DEFINE next == [connector[c] EXCEPT !.lifecycle = s]
  <2>1. /\ next \in Row
        /\ next.record = connector[c].record
        /\ next.configuration = connector[c].configuration
        /\ next.lifecycle # "unregistered"
    BY <1>0 DEF Row, Lifecycle
  <2>2. Mutate(c, expected, next, "lifecycle_changed")
    BY <1>1 DEF ChangeLifecycle
  <2>3. "lifecycle_changed" \in Category
    BY DEF Category
  <2> HIDE DEF next
  <2> QED BY <2>1, <2>2, <2>3, MutateInv
<1>2. ASSUME NEW cap \in Declarable, UpdateCapabilities(c, expected, cap)
      PROVE  RegistryInv'
  <2> DEFINE next == [connector[c] EXCEPT !.capabilities = cap]
  <2>1. Mutate(c, expected, next, "capabilities_changed")
    BY <1>2 DEF UpdateCapabilities
  <2>2. /\ next \in Row
        /\ next.record = connector[c].record
        /\ next.configuration = connector[c].configuration
        /\ next.lifecycle # "unregistered"
    BY <1>0, <2>1, RegistryAssumption DEF Row, Mutate, Registered
  <2>3. "capabilities_changed" \in Category
    BY DEF Category
  <2> HIDE DEF next
  <2> QED BY <2>1, <2>2, <2>3, MutateInv
<1>3. ASSUME NEW k \in Credential, RotateCredentialReference(c, expected, k)
      PROVE  RegistryInv'
  <2> DEFINE next == [connector[c] EXCEPT !.credential = k]
  <2>1. Mutate(c, expected, next, "credential_reference_rotated")
    BY <1>3 DEF RotateCredentialReference
  <2>2. /\ next \in Row
        /\ next.record = connector[c].record
        /\ next.configuration = connector[c].configuration
        /\ next.lifecycle # "unregistered"
    BY <1>0, <2>1 DEF Row, Mutate, Registered
  <2>3. "credential_reference_rotated" \in Category
    BY DEF Category
  <2> HIDE DEF next
  <2> QED BY <2>1, <2>2, <2>3, MutateInv
<1> QED BY <1>1, <1>2, <1>3

--------------------------------------------------------------------------------
(* What the modules that pin configurations need of the registry.           *)

\* A registered connector has a configuration to pin.
LEMMA RegisteredConfigured ==
  ASSUME RegistryInv, NEW c \in Connector, Registered(c)
  PROVE  connector[c].configuration \in 1..connector[c].configuration
<1>1. connector[c].configuration \in Nat
  BY DEF RegistryInv, RegistryTypeOK, Row
<1>2. connector[c].configuration # 0
  BY DEF RegistryInv, RowInv, Explains, Registered
<1> QED BY <1>1, <1>2

\* A pin that exists resolves to a capability contract.
LEMMA PinResolves ==
  ASSUME RegistryInv, NEW c \in Connector, NEW pin \in 1..connector[c].configuration
  PROVE  CapabilitiesAt(c, pin) \in Capabilities
<1>1. Resolves(audit[c], connector[c]) /\ audit[c] \in Seq(AuditRow)
  BY DEF RegistryInv, RowInv
<1>2. PICK r \in DOMAIN audit[c] : Snapshots(audit[c], pin) = {r}
  BY <1>1 DEF Resolves
<1>3. (CHOOSE x \in Snapshots(audit[c], pin) : TRUE) = r
  BY <1>2
<1>4. audit[c][r] \in AuditRow
  BY <1>1, <1>2
<1> QED BY <1>3, <1>4 DEF CapabilitiesAt, AuditRow

================================================================================
