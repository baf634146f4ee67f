CONSTANTS
    c1 = c1
    c2 = c2
    v1 = v1
    v2 = v2
    None = None
    Unset = Unset
    N = 1
    Client <- TwoClients
    Val <- TwoVals
    TTL = 2
    Drift = 1
    Skew = 1
    RetryCountConf = Unset
    RetryDelayConf = 20
    Ops = {"unlock", "extend", "crash"}
    Faults = {"lost", "unanswered", "lateSet", "lateDel", "restart", "sameSeed"}
    MaxLate = 1
SPECIFICATION FairSpec
PROPERTY LockReturns
