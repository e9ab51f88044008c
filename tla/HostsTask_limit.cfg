SPECIFICATION Spec
CONSTANTS
    Host = {h1, h2}
    Caller = {c1}
    TaskLimit = 1
    OtherTasks = 1
    MaxElsewhere = 1
INVARIANT WithinTaskLimit
