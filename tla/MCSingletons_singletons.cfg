SPECIFICATION Spec
CONSTANTS
  v = v
  s1 = s1
  s2 = s2
  Profiles <- EveryKind
  Names = {1, 2}
  Slots = {s1, s2}
  TheSlot = s1
  Values = {v, Default, Largest}
  Default = Default
  Unset = Unset
  Bad = Bad
  Huge = Huge
  Largest = Largest
  Specs <- EitherSetting
  Asks <- OneEach
  Annotated = {1}
  Drifts <- Other
  None = None
  MaxTime = 1
  MaxUid = 2
  MaxEdits = 1
  MaxFaults = 1
PROPERTIES
  YoungerNeverWrites
  WritesUnderFinalizer
  Served
  DeletionCompletes
CHECK_DEADLOCK FALSE
