SPECIFICATION Spec
CONSTANTS
  Call = {h1, h2, h3}
  Key = {k1}
  NoKey = NoKey
  None = None
  Content = {x1, x2}
  Batch = {b1}
  NoBatch = NoBatch
  MaxFiles = 2
  MaxVersion = 1
SYMMETRY Symmetry
INVARIANT OneRequestPerKey
INVARIANT ReceiptIsOwn
INVARIANT EvidenceAsVerified
CHECK_DEADLOCK FALSE
