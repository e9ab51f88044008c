SPECIFICATION FairSpec
CONSTANTS
    Worker = {w1, w2, w3}
    TaskId = {i1}
    MaxTask = 2
INVARIANTS
    DanglingOnlyIfRaced
    NoTaskLost
PROPERTIES
    CallsReturn
    CloseEnds
CHECK_DEADLOCK FALSE
