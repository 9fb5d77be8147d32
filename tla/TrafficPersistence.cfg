SPECIFICATION Spec
CONSTANTS
  n1 = n1
  n2 = n2
  Sets <- GroupSets
  RuleTags = {}
  Member <- GroupMember
  SelectedId = n1
  Initial <- StoredTraffic
  Callback = {"ui"}
  MaxBytes = 1
  MaxClears = 1
INVARIANTS ClearedStaysCleared
PROPERTIES ImplementsTrafficLedger SwitchNeverStealsBytes ForegroundCatchesUp
CHECK_DEADLOCK FALSE
