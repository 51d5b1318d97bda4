SPECIFICATION FairSpec
CONSTANTS
    p1 = p1  d1 = d1  d2 = d2  r1 = r1  r2 = r2  r3 = r3  e1 = e1  c1 = c1
    Prefills = {p1}
    Decodes = {d1}
    Ops = {r1, r2}
    CleanupIds = {c1}
    SlotCounts = {2}
    Epochs = {e1}
    NoEpoch = NoEpoch
    NoLease = NoLease
    NoCleanup = NoCleanup
    NoReq = NoReq
    NoInst = NoInst
    NoTicket = NoTicket
    MaxAttempts = 2
    WorldEpoch = e1
    WorldSlots = 2
    Rejects = TRUE
    Reuse = TRUE
INVARIANTS
    SlotFollowsRequest
    NoWriterAfterRelease
    CreditsCoverWriter
    OnePairOnWire
PROPERTY
    SchedSpec
    RequestsEnd
