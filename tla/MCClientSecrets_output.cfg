SPECIFICATION Spec
CONSTANTS
  MaxId = 8
  MaxMishaps = 3
INVARIANTS
  StoredSecretWorks
PROPERTIES
  OutputDelivered
CHECK_DEADLOCK FALSE
