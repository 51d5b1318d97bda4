SPECIFICATION Spec
CONSTANTS
    Workers <- MCWorkers
    Order <- MCOrder
    Owners = {1, 2, 3}
    NoOwner = 0
    MaxAttempts = 2
    Reqs = {r1}
    FirstGen = 1
    MaxGen = 2
    Retention = 2
    MaxCrashes = 1
    MaxFaults = 1
    NoRun = NoRun
INVARIANT NoRequestLeft
CHECK_DEADLOCK FALSE
