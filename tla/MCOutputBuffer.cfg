SPECIFICATION FairSpec
CONSTANTS
    a = a
    b = b
    Calls = {a, b}
    Ids = {a, b}
    Workloads <- MCWorkloads
    ActiveCap = 1
    SnapshotCap = 1
    NoOut = NoOut
    NoCall = NoCall
INVARIANTS
    StreamFaithful
    LoopSurvives
PROPERTIES
    StreamsEnd
CHECK_DEADLOCK FALSE
