SPECIFICATION Spec
CONSTANTS
  q1 = q1
  q2 = q2
  None = None
  Query = {q1, q2}
  Async = {q2}
  Strict = {q1}
  Known = {1, 2}
  Initial = {0, 1}
  MaxChanges = 1
  MaxClears = 1
INVARIANTS LastStoreIsServed
PROPERTIES StoredUnderItsNetwork CallsAndSavesEnd
CHECK_DEADLOCK FALSE
