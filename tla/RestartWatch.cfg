SPECIFICATION Spec
CONSTANTS
    Calls = {"call"}
    MaxEvents = 3
INVARIANTS
    TypeOK
    CompletedIsOwnRestart
    ErrorsAreOfThePost
PROPERTY
    EveryCallAnswered
CHECK_DEADLOCK FALSE
