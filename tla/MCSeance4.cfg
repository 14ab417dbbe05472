SPECIFICATION Seance4Spec
CONSTANTS
    c1 = c1
    c2 = c2
    c3 = c3
    c4 = c4
    c5 = c5
    Clients <- ThreeClients
    Backlog = 1
    EchoClients <- TwoClients
    Typed <- FourAndOne
    LineMax = 2
    BufSize = 2
    RoomUp = 2
    RoomDown = 1
    Late = 2
INVARIANTS
    TypeOK
    NobodyLeavesUnanswered
    EchoIsExact
PROPERTIES
    EverybodyIsServed
    ZombieIsReaped
    
