CONSTANTS
    None = None
    p = p
    q = q
    u1 = u1
    u2 = u2
    a = a
    b = b
    Room <- TwoRooms
    User <- TwoUsers
    Cell = {a, b}
    Weight <- Level
    Shapes <- Shrunk
    NeedsSlave = {p}
    Limits = {1, 2}
    AiPlayers <- OneAi
    OnlineLimit = 1
    QueueLimit = 2
    Faults = {"page", "online", "queue", "half"}
    MaxCommit = 2
    MaxLag = 1
SPECIFICATION Spec
SYMMETRY Symmetry
INVARIANTS TypeOK SeatedAreShown PagesComplete
