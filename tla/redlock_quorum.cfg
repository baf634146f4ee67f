CONSTANTS
    c1 = c1
    c2 = c2
    v1 = v1
    v2 = v2
    None = None
    Unset = Unset
    N = 3
    Client <- TwoClients
    Val <- TwoVals
    TTL = 3
    Drift = 1
    Skew = 1
    RetryCountConf = Unset
    RetryDelayConf = 10
    Ops = {"unlock", "extend", "crash"}
    Faults = {"unanswered"}
    MaxLate = 0
SPECIFICATION Spec
SYMMETRY Interchangeable
INVARIANTS TypeOK MutualExclusion
PROPERTIES FailureIsClean ExtendKeepsLock ImplementsLease
