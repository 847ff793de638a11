SPECIFICATION Spec
CONSTANTS
  Namespaces = {n1}
  Scopes = {s1}
  ProjectScopes = {s1}
  HomeScopes = {s1}
  Workers = {w1, w2}
  GCLoop = gc
  Sweepers = {gc}
  RotateAfter = 2
  Grace = 2
  MaxTime = 4
  MaxUser = 2
  MaxKey = 3
  Budget <- AllButEdit
  None = None
INVARIANTS
  TypeOK
  LeaseKeyLive
  NoUngrantedKey
  NoDeadLease
PROPERTIES
  Handover
SYMMETRY SameWorkers
