SPECIFICATION Spec
CONSTANTS
    URIs = {u1, u2}
    NoURI = NoURI
    MaxCommands = 4
    MaxDepth = 2
INVARIANTS TypeOK SuccessHolds FailureLeavesNothing AtomicAllOrNothing AnsweredOnce
PROPERTIES CancelIsFinal
CHECK_DEADLOCK FALSE
