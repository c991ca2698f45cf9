SPECIFICATION Spec
CONSTANTS
    URIs = {u1, u2}
    NoURI = NoURI
    MaxCommands = 3
    MaxDepth = 1
INVARIANTS ObjectsAreWhole
CHECK_DEADLOCK FALSE
