SPECIFICATION Spec
CONSTANTS
  v1 = v1
  v2 = v2
  p1 = p1
  None = None
  MaxEvents = 4
  Instance <- TwoVpn
  VpnInstance <- TwoVpn
PROPERTIES
  TeardownCompletes
CHECK_DEADLOCK FALSE
