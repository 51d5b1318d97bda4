SPECIFICATION FairSpec
CONSTANTS
    p0 = p0
    d0 = d0
    d1 = d1
    t1 = t1
    t2 = t2
    t3 = t3
    r1 = r1
    r2 = r2
    e1 = e1
    Prefills = {p0}
    Decodes = {d0, d1}
    Reqs = {r1, r2}
    Tasks = {t1, t2, t3}
    Req <- MCReq
    Src <- MCSrc
    Dst <- MCDst
    Size <- MCSize
    Priority <- MCPriority
    SizeSum <- MCSizeSum
    Cap = 3
    LowCap = 1
    Ratios = {0, 1}
    HighWatermark = 1
    LowWatermark = 1
    Epochs = {e1}
    NoSample = NoSample
    NoTask = NoTask
    NoEpoch = NoEpoch
INVARIANTS
    BytesConserved
    PairCapRespected
PROPERTIES
    DeferredDrains
