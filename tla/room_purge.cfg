CONSTANTS
    r1 = r1
    u1 = u1
    u2 = u2
    u3 = u3
    s1 = s1
    s2 = s2
    c1 = c1
    c2 = c2
    w1 = w1
    w2 = w2
    None = None
    Room <- OneRoom
    User <- OneUser
    Seat <- OneSeat
    Client = {c1, c2}
    Worker = {w1}
    WorkerOf <- Together
    Capacity <- PlaceForOne
    AiPlayers <- OneAi
    Fns = {"online", "queue", "ready", "battle", "all"}
    QueueLimit = 2
    Faults = {}
    MaxLag = 1
    MaxDrift = 1
SPECIFICATION Spec
PROPERTY CallsSucceed
