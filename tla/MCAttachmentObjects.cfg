SPECIFICATION Spec
CONSTANTS
  Upload = {u1, u2}
  File = {f1, f2}
  Content = {x1}
  Batch = {b1, b2}
  Parent = {p1}
  None = None
  Lifetime = 1
  Grace = 2
  Hour = 2
  MaxCommit = 1
  MaxStaged = 2
  MaxHourly = 2
  MaxFiles = 2
  MaxProcessing = 2
  MaxClock = 3
SYMMETRY Symmetry
INVARIANT RowsHaveObjects
INVARIANT SweepMissesNothing
PROPERTY FinalizedAsRead
CHECK_DEADLOCK FALSE
