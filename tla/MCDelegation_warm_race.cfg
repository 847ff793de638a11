SPECIFICATION Spec
CONSTANTS
  Namespaces = {n1}
  Scopes = {s1}
  ProjectScopes = {s1}
  HomeScopes = {}
  Workers = {w1}
  GCLoop = gc
  Sweepers = {gc}
  RotateAfter = 2
  Grace = 1
  MaxTime = 0
  MaxUser = 3
  MaxKey = 3
  Budget <- CrashAndUser
  None = None
PROPERTIES
  SecretOutlivesUser
