SPECIFICATION Spec
CONSTANTS
  n1 = n1
  n2 = n2
  Sets <- GroupSets
  RuleTags = {}
  Member <- GroupMember
  SelectedId = n1
  Initial <- StoredTraffic
  Callback = {}
  MaxBytes = 1
  MaxClears = 1
INVARIANT BaselineIsPersisted
CHECK_DEADLOCK FALSE
