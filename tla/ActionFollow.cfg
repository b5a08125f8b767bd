SPECIFICATION Spec
CONSTANTS
    Calls = {"call"}
    Endings <- MCEndings
    Successes <- MCSuccesses
INVARIANTS
    AnswerMatchesAction
    AnswerHasItsCause
    CompletedAnswerIsWhole
PROPERTY
    Promise
CHECK_DEADLOCK FALSE
