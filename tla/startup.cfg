\* Two workers that start and serve at the same time, a room with
\* one place or two for two users, every fault, and a secondary one commit behind.
CONSTANTS
    w1 = w1
    w2 = w2
    u1 = u1
    u2 = u2
    a0 = a0
    a1 = a1
    a2 = a2
    b = b
    Worker <- TwoWorkers
    User <- TwoUsers
    Order <- OneKind
    Defs <- OneOrTwoPlaces
    Players <- Configured
    Room = 1
    Faults = {"fail", "unanswered", "crash", "drift"}
    MaxLag = 1
    MaxDrift = 1
    MaxMissed = 1
    MaxAssistants = 4
SPECIFICATION Spec
SYMMETRY Interchangeable
INVARIANTS TypeOK AssistantsComplete QueueCanBeDrawn
PROPERTIES RecountRepairs QueueFits
