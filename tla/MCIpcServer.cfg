SPECIFICATION Spec
CONSTANTS
    r1 = r1
    p1 = p1
    p2 = p2
    Readers <- OneReader
    Peers <- TwoPeers
    MaxClients = 1
    QueueMax = 1
    SocketMax = 1
    MaxTicks = 3
    MaxSignals = 1
INVARIANTS
    TypeOK
    EachEintrAddsAPermit
    WholeUnlessInterrupted
    NoGapInSocket
PROPERTIES
    TicksGoOn
    StopEndsServer
