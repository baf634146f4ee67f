CONSTANTS
    c1 = c1
    c2 = c2
    None = None
    Caller <- TwoCallers
    Total = 2
    Faults = {"lost", "unanswered", "provider", "crash"}
    MaxMsg = 6
SPECIFICATION FairSpec
INVARIANTS TypeOK QuotaKept TokenExpires CurrentCodeChecked
PROPERTY QuotaReturns
