SPECIFICATION Spec
CONSTANTS
  Kinds <- Representatives
  Keys = {k1}
  Ids = {i1, i2}
  None = None
  MaxEdits = 2
  MaxFaults = 1
PROPERTIES
  DeletionCompletes
  Converges
CHECK_DEADLOCK FALSE
