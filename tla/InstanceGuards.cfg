SPECIFICATION Spec
CONSTANTS
    a = a
    b = b
    c1 = c1
    c2 = c2
    Nodes <- MCNodes
    Calls <- MCCalls
    Page <- MCNodes
    Scenarios <- MCScenarios
SYMMETRY Symmetry
INVARIANTS
    OneRunsUnlessCrossed
    UnprovisionSpares
    ClearSeesAction
    DeleteLeavesNothing
    ShutdownIsHeld
CHECK_DEADLOCK FALSE
