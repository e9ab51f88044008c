SPECIFICATION FairConnectionSpec
CONSTANTS
    MaxRequests = 3
    BufferSize = 6
    Addresses <- MCAddresses
INVARIANTS
    ExecutedWhole
    AnswersPair
    ResponseWhole
    NilJustified
PROPERTIES
    ConnectionEnds
CHECK_DEADLOCK FALSE
