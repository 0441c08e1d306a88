SPECIFICATION Spec
CONSTANTS
  Call = {h1, h2}
  Key = {k1}
  NoKey = NoKey
  None = None
  Content = {x1}
  Batch = {b1}
  NoBatch = NoBatch
  MaxFiles = 2
  MaxVersion = 2
PROPERTY CreatedFromCurrentForm
PROPERTY EveryCallAnswered
CHECK_DEADLOCK FALSE
