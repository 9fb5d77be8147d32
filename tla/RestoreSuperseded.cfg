SPECIFICATION Spec
CONSTANTS
  main = main
  bg = bg
  None = None
  Process <- Processes
  Main <- main
  MaxImports = 2
  MAX_ATTEMPTS = 3
  MaxFaults = 2
INVARIANT NeverHalfRestored
CHECK_DEADLOCK FALSE
