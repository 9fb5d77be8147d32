SPECIFICATION Spec
CONSTANTS
  main = main
  bg = bg
  None = None
  Process <- Processes
  Main <- main
  MaxImports = 2
  MAX_ATTEMPTS = 2
  MaxFaults = 3
INVARIANTS
  RolledBackLeavesNoTrace
PROPERTIES ImplementsAtomicRestore PendingIsResolved
CHECK_DEADLOCK FALSE
