SPECIFICATION Spec
CONSTANTS
    a = a  b = b  c = c  g1 = g1  g2 = g2  x = x  y = y
    k1 = k1  k2 = k2  k3 = k3  k4 = k4
    Runs = {a, b}
    Gens = {g1}
    Decisions = {x, y}
    Records = {k1, k2, k3, k4}
    Key <- MCKey
    Lease <- MCLease
    RunOf <- MCRunOf
    DecOf <- MCDecOf
    MaxRecords = 2
    Retention = 1
    MaxSeals = 2
    NoRun = NoRun
    NoJob = NoJob
INVARIANTS AckedKept DiskLoads FailClosed
PROPERTIES LogSpec
