SPECIFICATION Spec
CONSTANTS
  Box = {b1, b2, b3}
  Proxy = {b1, b2}
  Thread = {t1, t2}
  None = None
  MaxCalls = 4
SYMMETRY Symmetry
INVARIANTS MainIsOpen ClosedLeavesNothing NoDeadlock
PROPERTIES ImplementsGuardedBoxes
CHECK_DEADLOCK FALSE
