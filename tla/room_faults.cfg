CONSTANTS
    r1 = r1
    u1 = u1
    u2 = u2
    u3 = u3
    s1 = s1
    s2 = s2
    c1 = c1
    c2 = c2
    w1 = w1
    w2 = w2
    None = None
    Room <- OneRoom
    User <- TwoUsers
    Seat <- OneSeat
    Client = {c1, c2}
    Worker = {w1}
    WorkerOf <- Together
    Capacity <- PlaceForOne
    AiPlayers <- OneAi
    Fns = {"queue", "ready"}
    QueueLimit = 1
    Faults = {"abort", "lost", "unanswered", "commit", "replica"}
    MaxLag = 0
    MaxDrift = 0
SPECIFICATION FairSpec
PROPERTIES SessionReleased EveryCallReturns
