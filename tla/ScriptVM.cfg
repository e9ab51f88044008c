SPECIFICATION FairSpec
CONSTANTS
    MaxDepth = 5
INVARIANTS
    ExitStops
    ReturnLeavesActivation
    JumpsAreImmediate
PROPERTIES
    ScriptEnds
CHECK_DEADLOCK FALSE
