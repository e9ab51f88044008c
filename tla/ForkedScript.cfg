SPECIFICATION FairSpec
CONSTANTS
    a = a
    b = b
    Name = {a, b}
    Value = {1, 2, 3}
    Null = null
    Initial <- MCInitial
    MaxOps = 3
INVARIANTS
    ForkedReadsStable
    AllCombinationsRun
PROPERTIES
    ForkLoopEnds
CHECK_DEADLOCK FALSE
