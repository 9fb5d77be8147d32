SPECIFICATION Spec
CONSTANTS
  Box = {b1, b2}
  Proxy = {b1, b2}
  Thread = {t1, t2}
  None = None
  MaxCalls = 4
SYMMETRY Symmetry
INVARIANTS ResetOnOpenCore
CHECK_DEADLOCK FALSE
