SPECIFICATION Spec
CONSTANTS
  main = main
  bg = bg
  None = None
  Process <- Processes
  Main <- main
  MaxImports = 1
  MAX_ATTEMPTS = 3
  MaxFaults = 1
INVARIANT RefusedLeavesNoTrace
CHECK_DEADLOCK FALSE
