CONSTANTS
    p1 = p1  d1 = d1  d2 = d2  o1 = o1  o2 = o2
    e1 = e1  e2 = e2  c1 = c1  c2 = c2
    Prefills = {p1}
    Decodes = {d1, d2}
    Ops <- MCOps
    CleanupIds = {c1}
    SlotCounts = {1, 2}
    Epochs <- MCEpochs
    NoEpoch = NoEpoch
    NoLease = NoLease
    NoCleanup = NoCleanup
    NoTicket = NoTicket
    Loads = {0, 1}

SPECIFICATION Spec
SYMMETRY MCSymmetry

INVARIANTS
    SlotsConserved
