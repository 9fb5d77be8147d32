SPECIFICATION Spec
CONSTANTS
  v1 = v1
  v2 = v2
  p1 = p1
  None = None
  MaxEvents = 2
  Instance <- OneVpn
  VpnInstance <- OneVpn
INVARIANT TunReleasedAfterDestroy
CHECK_DEADLOCK FALSE
