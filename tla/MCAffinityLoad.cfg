SPECIFICATION FairSpec
CONSTANTS
    d1 = d1  r1 = r1  r2 = r2  o1 = o1  o2 = o2  e1 = e1
    Prefills = {}
    Decodes = {d1}
    Ops = {o1, o2}
    Reqs = {r1}
    Loop = Loop
    CleanupIds = {"prefix", "normal"}
    SlotCounts = {1}
    Epochs = {e1}
    NoEpoch = NoEpoch
    NoLease = NoLease
    NoCleanup = NoCleanup
    NoOp = NoOp
    NoTicket = NoTicket
    WorldEpoch = e1
    WorldSlots = 1
INVARIANTS
    NoWriterAfterRelease
    BlocksCoverWork
PROPERTIES
    SchedSpec
    PrefixEnds
    LoadsSettle
