SPECIFICATION WarmedSpec
CONSTANTS
  Namespaces = {n1}
  Scopes = {s1}
  ProjectScopes = {s1}
  HomeScopes = {}
  Workers = {w1}
  GCLoop = gc
  Sweepers = {gc}
  RotateAfter = 2
  Grace = 1
  MaxTime = 3
  MaxUser = 2
  MaxKey = 3
  Budget <- FaultUserEdit
  None = None
PROPERTIES
  TrackedOrphansRevoked
  OldKeyRetired
  SecretOutlivesUser
  OnlyUnmatchedRevoked
