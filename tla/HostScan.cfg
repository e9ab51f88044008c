SPECIFICATION FairSpec
CONSTANTS
    Networks <- MCNetworks
    WaitPolls = 1
    MaxAnswers = 3
    TopAddress = 7
    Rounds = 14
    MaxFactor = 8
    Seeds = {0, 5}
    READ <- MCRead
INVARIANTS
    RecvDoneHonest
    
    RepeatsBounded
    ProbesExact
PROPERTIES
    CallerReturns
CHECK_DEADLOCK FALSE
