SPECIFICATION Spec
CONSTANTS
  p1 = p1
  p2 = p2
  Kinds = {"MachineUser", "PersonalAccessToken", "ApplicationKey"}
  Projects = {p1, p2}
  Specs <- RotateOrGrant
  None = None
  RotateAfter = 0
  Grace = 1
  MaxTime = 1
  MaxId = 4
  MaxMishaps = 1
INVARIANTS
  TypeOK
PROPERTIES
  Handover
  GraceKept
  RecordedIsRevoked
  RotatedOutRevoked
  Delivered
  RolesGranted
CHECK_DEADLOCK FALSE
