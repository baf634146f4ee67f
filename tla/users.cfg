CONSTANTS
    None = None
    c1 = c1
    c2 = c2
    a1 = a1
    x1 = x1
    x2 = x2
    Caller <- TwoCallers
    Account <- OneAccount
    Uid <- TwoUids
    Ops = {"register", "recreate", "profile", "online", "device", "delete", "reactivate"}
    Faults = {"read", "unanswered", "lost"}
    MaxLag = 1
SPECIFICATION Spec
SYMMETRY Interchangeable
INVARIANT TypeOK
PROPERTIES OldDataKept NoRevival
