SPECIFICATION MCSpec
CONSTANTS
  Connector = {c1}
  Declarable <- MCDeclarable
  Credential = {k1, k2}
  MaxRecord = 5
  Administrator = {a1, a2}
  NoView = NoView
  Null = Null
  i1 = i1
  k1 = k1
  i2 = i2
  Intents = {i1, i2}
  ExecutionPolicies = {e1}
  MaxRevision = 3
  MaxTries = 1
  MaxCeilings = 1
  Floor = 2
  Unread = Unread
  p1 = p1  p2 = p2  p3 = p3  v1 = v1  v2 = v2
  Calls = {p1, p2, p3}
  Members = {v1, v2}
  Models = {i1, i2}
  ModelOf <- ModelOfDef
  ProviderOf <- ProviderOfDef
  RulesOf <- RulesOfDef
  Nothing = Nothing
  Judged = {"unknown_model"}
  Statuses = {"completed"}
  Failures = {"provider_timeout"}
  MaxDay = 1
  Units = {i1, i2}
  DepartmentOf <- DepartmentOfDef
  HomeUnit = i1
  Grantable = {v1, v2}
  Services = {p1}
  MaxToolRevision = 3
  MaxHandEdits = 2
  NoRole = NoRole
  NoReport = NoReport
INVARIANT AuditExplainsConnector
INVARIANT EveryPinResolves
INVARIANT PassIsEarned
INVARIANT CallsAccounted
INVARIANT RowsNeverBlockMigration
PROPERTY NoLostUpdate
PROPERTY ToolsKeepToTheirOwn
PROPERTY EvidenceSurvives
SYMMETRY Symmetry
CHECK_DEADLOCK FALSE
