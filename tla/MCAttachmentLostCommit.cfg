SPECIFICATION Spec
CONSTANTS
  Upload = {u1}
  File = {f1}
  Content = {x1}
  Batch = {b1}
  Parent = {p1}
  None = None
  Lifetime = 1
  Grace = 2
  Hour = 2
  MaxCommit = 1
  MaxStaged = 1
  MaxHourly = 1
  MaxFiles = 1
  MaxProcessing = 1
  MaxClock = 1
INVARIANT EvidenceStored
CHECK_DEADLOCK FALSE
