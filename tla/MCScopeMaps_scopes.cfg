SPECIFICATION Spec
CONSTANTS
  n1 = n1
  n2 = n2
  o1 = o1
  o2 = o2
  a = a
  b = b
  p1 = p1
  p2 = p2
  prod = prod
  own = own
  other = other
  Maps = {m1, m2}
  Namespaces = {n1}
  Labels = {prod}
  Orgs = {o1, o2}
  OrgNames = {a, b}
  Projects = {p1, p2}
  Instances = {own, other}
  Instance = own
  Malformed = Malformed
  None = None
  Specs <- SafetySpecs
  Labelings <- AnyLabels
  BoundOrg = o1
  Tenants = {t1}
  Loops = {}
  Budget <- SafetyBudget
SYMMETRY SameMaps
INVARIANTS
  GrantedAsStated
  ObservedReadyIsValid
PROPERTIES
  PinnedScopesKept
