SPECIFICATION FairSpec
CONSTANTS
    d1 = d1
    d2 = d2
    Order <- MCOrder
    Mortal = {d1}
    Keys = {k1}
    Blocks = {b1, b2}
    LogCap = 2
    Limit = 2
    MaxEvents = 3
    MaxEpoch = 2
INVARIANTS
    IndexFaithful
    ReadyIsWhole
    NoEventLost
PROPERTIES
    DirectoryCatchesUp
