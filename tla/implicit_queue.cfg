SPECIFICATION Spec
CONSTANTS
  Consumers = {c1, c2}
  Blocks = {b1, b2, b3}
  None = None
  BlockSize = 2
  IndexSize = 2
  MaxEntries = 4
  MaxTail = 7
  MaxOvercommit = 1
  BulkIn = {5}
  BulkOut = {2}
SYMMETRY Symmetry
INVARIANTS BlocksSound LookupRight ReuseSafe Accounting BlocksReturn
PROPERTY QueueSpec
CHECK_DEADLOCK FALSE
