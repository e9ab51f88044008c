SPECIFICATION FairSpec
CONSTANTS
    a = a
    b = b
    c = c
    File = {a, b, c}
    Database <- MCDatabase
    Request <- MCRequest
INVARIANTS
    LoadsExactly
    DependenciesFirst
PROPERTIES
    LoadingEnds
CHECK_DEADLOCK FALSE
