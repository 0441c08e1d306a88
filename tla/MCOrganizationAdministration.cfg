\* Two people at each screen or command, three editing residents' pages and three sessions.
CONSTANTS
  p1 = p1  p2 = p2  p3 = p3   v1 = v1  v2 = v2
  Principal = {p1, p2}
  NoDraft = NoDraft
  Granted = {"config", "manage"}
  MaxAccessRevision = 3
  MaxElsewhere = 1
  MaxDirectives = 1
  Configurators = {p1, p2}
  Issues = {i1, i2}
  Absent = Absent
  Forms = {v1, v2}
  Policies = {v1, v2}
  MaxIssueChanges = 3
  MaxSaves = 1
  MaxEdited = 1
  Sessions = {p1, p2, p3}
  Areas = {v1, v2}
  e1 = e1  e2 = e2  e3 = e3
  Editors = {e1, e2, e3}
  NoReviewer = NoReviewer
  Changeable = {"review"}
  MaxChanges = 3
  MaxReviews = 3
  Operators = {p1, p2}
  NameServers = {v1, v2}
  NoOperator = NoOperator
  MaxBindingRevision = 5
  MaxApprovals = 2
  MaxLookups = 1
  Elevations <- ElevationsDef
  MaxInvocations = 3
  i1 = i1  i2 = i2
SPECIFICATION Spec
INVARIANTS
  ManagerRetained
  ServedAsProvenAndApproved
  CommandsAccounted
PROPERTIES
  ReviewedEffect
  ChangeSavesWhatWasOpen
  AnswersFitSettings
  ApprovalStillHolds
SYMMETRY Symmetry
CHECK_DEADLOCK FALSE
