SPECIFICATION FairSpec
CONSTANTS
    Host = {h1, h2}
    Caller = {c1, c2}
    TaskLimit = 1
    OtherTasks = 1
    MaxElsewhere = 1
INVARIANTS
    CountersConserved
    StopedIsQuiet
    StopMissesAtMostOne
PROPERTIES
    TaskEnds
    ImplementsScanTask
