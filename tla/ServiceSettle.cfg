SPECIFICATION Spec
CONSTANTS
  v1 = v1
  v2 = v2
  p1 = p1
  None = None
  MaxEvents = 5
  Instance <- TwoVpn
  VpnInstance <- TwoVpn
PROPERTY SettlingSparesNewService
CHECK_DEADLOCK FALSE
