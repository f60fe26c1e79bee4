SPECIFICATION Spec
CONSTANTS
    t1 = t1
    t2 = t2
    u1 = u1
    u2 = u2
    k1 = k1
    k2 = k2
    Threads = {t1, t2}
    Users = {u1, u2}
    Keys = {k1, k2}
    Ops = {"create", "add", "remove", "promote", "demote", "put", "del"}
    MaxConn = 1
    MaxFaults = 1
    MaxRequests = 3
    MaxCrashes = 0
SYMMETRY Sym
INVARIANTS TypeOK NoConnLost Founded ActsEntitled OwnerStays VariablesKept
CHECK_DEADLOCK FALSE
