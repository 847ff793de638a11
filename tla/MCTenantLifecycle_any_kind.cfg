SPECIFICATION Spec
CONSTANTS
  Kinds <- TenantKinds
  Keys = {k1, k2}
  Ids = {i1, i2}
  None = None
  MaxEdits = 2
  MaxFaults = 1
INVARIANTS
  OneObject
  NothingLeft
PROPERTIES
  MadeUnderFinalizer
  RecordedIsCleaned
SYMMETRY SameObjects
CHECK_DEADLOCK FALSE
