CONSTANTS
    r1 = r1
    u1 = u1
    u2 = u2
    u3 = u3
    s1 = s1
    s2 = s2
    c1 = c1
    c2 = c2
    w1 = w1
    w2 = w2
    None = None
    Room <- OneRoom
    User <- ThreeUsers
    Seat <- TwoSeats
    Client = {c1, c2}
    Worker = {w1, w2}
    WorkerOf <- Apart
    Capacity <- PlaceForTwo
    AiPlayers <- OneAi
    Fns = {"queue", "battle"}
    QueueLimit = 2
    Faults = {}
    MaxLag = 0
    MaxDrift = 0
SPECIFICATION Spec
SYMMETRY Interchangeable
INVARIANTS TypeOK CountersMatch WithinCapacity SeatExclusive
PROPERTIES BattleHolds FreezeHolds LastOneIsTold ReplyIsTruthful ImplementsGameRoom
