CONSTANTS
    r1 = r1
    u1 = u1
    u2 = u2
    u3 = u3
    s1 = s1
    s2 = s2
    c1 = c1
    c2 = c2
    w1 = w1
    w2 = w2
    None = None
    Room <- OneRoom
    User <- TwoUsers
    Seat <- TwoSeats
    Client = {c1}
    Worker = {w1}
    WorkerOf <- Alone
    Capacity <- PlaceForTwo
    AiPlayers <- OneAi
    Fns = {"queue"}
    QueueLimit = 2
    Faults = {"lost"}
    MaxLag = 0
    MaxDrift = 1
SPECIFICATION Spec
INVARIANT CountersMatch
