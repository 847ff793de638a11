SPECIFICATION FairSpec
CONSTANTS
  n1 = n1
  n2 = n2
  o1 = o1
  o2 = o2
  a = a
  b = b
  p1 = p1
  p2 = p2
  prod = prod
  own = own
  other = other
  Maps = {m1}
  Namespaces = {n1}
  Labels = {prod}
  Orgs = {o1}
  OrgNames = {a}
  Projects = {p1}
  Instances = {own, other}
  Instance = own
  Malformed = Malformed
  None = None
  Specs <- NamedOrPinned
  Labelings <- NoLabels
  BoundOrg = None
  Tenants = {t1}
  Loops = {gc}
  Budget <- LiveBudget
INVARIANTS
  TypeOK
PROPERTIES
  UnmatchedRevoked
  StatusConverges
