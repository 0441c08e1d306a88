\* Two members of staff, a group, two units; one composing author; two managers of the link.
CONSTANTS
  s1 = s1  s2 = s2  g1 = g1  u1 = u1  u2 = u2
  a1 = a1  d1 = d1  d2 = d2  d3 = d3
  m1 = m1  m2 = m2  r1 = r1
  Staff = {s1, s2}
  Groups = {g1}
  Units = {u1, u2}
  CategoryUnit = u1
  Serves <- ServesDef
  Revocable = {"route"}
  MaxRevision = 3
  MaxWatchers = 1
  MaxReorganizations = 1
  Nobody = Nobody
  NoUnit = NoUnit
  Authors = {a1}
  Drafts = {d1, d2, d3}
  NormalBody <- NormalBodyDef
  MaxKeys = 3
  MaxBatches = 2
  MaxIntents = 5
  Managers = {m1, m2}
  Requesters = {r1}
  Known <- KnownDef
  MaxCredentials = 3
  MaxUnderWay = 2
SPECIFICATION Spec
INVARIANTS
  StreamHoldsWhatWasMeant
PROPERTIES
  StaffActOnWhatTheyRead
  AuthorityHoldsAtCommit
  OwnerEligibleAndExplained
  LinksEndSeen
SYMMETRY Symmetry
CHECK_DEADLOCK FALSE
