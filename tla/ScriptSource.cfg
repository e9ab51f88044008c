SPECIFICATION FairSourceSpec
CONSTANTS
    Entry = {1, 2}
    Inc = {3}
    Needs <- MCNeeds
    Size <- MCSize
    BatchSize = 1
    MaxUpdates = 2
    Root = "root"
    Packages <- MCPackages
    Asked <- MCAsked
INVARIANTS
    NeverAnotherFile
    ClosedUpdateServes
    SelectableIsCached
PROPERTIES
    LookupAnswers
CHECK_DEADLOCK FALSE
