SPECIFICATION Spec
CONSTANTS
    Networks <- MCOverlapping
    WaitPolls = 1
    MaxAnswers = 3
    TopAddress = 7
    Rounds = 14
    MaxFactor = 1
    Seeds = {0}
    READ <- MCRead
INVARIANTS
    PickWithinList
CHECK_DEADLOCK FALSE
