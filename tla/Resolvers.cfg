SPECIFICATION Spec
CONSTANTS
  N = 3
  MaxCallbacks = 2
INVARIANTS AnswerIsTheReply FdClosedOnce
PROPERTIES ImplementsOrderedFallback LeavesOnlyFailedServers EverythingSettles
