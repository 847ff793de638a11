SPECIFICATION Spec
CONSTANTS
  a = a
  b = b
  A = A
  B = B
  Operators = {a, b}
  Instance <- Owners
  None = None
  MaxEdits = 1
  MaxFaults = 1
INVARIANTS
  OneManager
PROPERTIES
  StampKept
  FinalizerGoesByManager
  FailsClosed
  PinnedIsServed
  DeletionCompletes
CHECK_DEADLOCK FALSE
