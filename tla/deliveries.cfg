CONSTANTS
    c1 = c1
    c2 = c2
    e1 = e1
    e2 = e2
    r1 = r1
    f1 = f1
    d1 = d1
    d2 = d2
    None = None
    Caller = {c1, c2}
    Event = {e1, e2}
    Result = {r1}
    Feedback = {f1}
    UserOf <- OneUser
    MaxTime = 1
    Device = {d1, d2}
    MaxChange = 2
    Granted = 1
    Steps <- OneByOne
    MaxCall = 2
SPECIFICATION FairSpec
CHECK_DEADLOCK FALSE
INVARIANTS TypeOK LogIsFaithful ResultStoredOnce DeniedMeansSilent PlaysCounted
PROPERTY EveryCallReturns
