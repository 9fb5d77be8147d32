SPECIFICATION Spec
CONSTANTS
  v1 = v1
  v2 = v2
  p1 = p1
  None = None
  MaxEvents = 5
  Instance <- OneOfEach
  VpnInstance <- OneVpn
INVARIANTS
  ReleasedAtRest
  RegisteredIsAlive
  NoStartedEmptyService
  StartsAreAnswered
PROPERTIES
  RegistryIsOwners
CHECK_DEADLOCK FALSE
