\* One upload and three batches of files; a resident choosing between two Issues of two
\* Categories; a member of staff reading and writing.
SPECIFICATION ClientSpec
CONSTANTS
  Upload = {u1}
  File = {f1}
  Content = {x1}
  Batch = {b1, b2, b3}
  Parent = {p1}
  None = None
  Lifetime = 1
  Grace = 2
  Hour = 2
  MaxCommit = 1
  MaxStaged = 2
  MaxHourly = 2
  MaxFiles = 1
  MaxProcessing = 1
  MaxClock = 4
  b1 = b1  b2 = b2  b3 = b3  s1 = s1  s2 = s2
  c1 = c1  c2 = c2  x1 = x1  x2 = x2
  Categories = {c1, c2}
  ReportIssues = {x1, x2}
  CategoryOf <- CategoryOfDef
  Linkable = {x2}
  Replies = {s1, s2}
  NoChoice = NoChoice
  MaxVersion = 2
  MaxLoads = 2
  MaxBatch = 1
  MaxRuns = 2
  MaxOverdue = 1
  MaxStored = 2
  MaxAsked = 2
  Texts = {x1}
  TooShort = TooShort
  Empty = Empty
  NoRead = NoRead
  Plain = Plain
  Filters = {x2, Plain}
  MaxListed = 2
  MaxAddresses = 3
  MaxArrivals = 1
  MaxPresses = 4
  NotRead = NotRead
  NoReads = NoReads
  Denied = Denied
  MaxServerRevision = 2
  MaxUses = 2
INVARIANTS
  AdmissionLimits
  RetriesReportOnce
  ShowsTheChosenIssue
  ScreensHoldToWhatWasAsked
PROPERTIES
  EditorOverwritesNobody
SYMMETRY Symmetry
CHECK_DEADLOCK FALSE
