SPECIFICATION FairSpec
CONSTANTS
    nasl = nasl
    warp = warp
    base = base
    inc = inc
    test = test
    Executor = {e1, e2}
    Name = {nasl, warp, base, inc, test}
    Known = {nasl, warp, base}
    Nasl = nasl
    Main = {test}
    Requires <- MCRequires
    InsKey <- MCInsKey
    ConstKey <- MCConstKey
    SharedBase = 20000
    MaxKey = 1000
    MaxRuns = 2
INVARIANTS
    KeysResolve
PROPERTIES
    CacheStable
    RequireEnds
CHECK_DEADLOCK FALSE
