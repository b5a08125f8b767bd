SPECIFICATION Spec
CONSTANTS
    Calls = {"call"}
    MaxEvents = 3
INVARIANT
    RestartedAfterRequest
CHECK_DEADLOCK FALSE
