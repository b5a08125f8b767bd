SPECIFICATION Spec
CONSTANT
    Processes = {"p1", "p2", "p3"}
INVARIANTS
    LiveSocketIsReached
PROPERTIES
    OtherFilesAreKept
    RefusedForCause
    StartsAndStopsEnd
CHECK_DEADLOCK FALSE
