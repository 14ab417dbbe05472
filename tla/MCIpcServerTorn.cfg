SPECIFICATION Spec
CONSTANTS
    r1 = r1
    p1 = p1
    p2 = p2
    Readers <- OneReader
    Peers <- NoPeers
    MaxClients = 1
    QueueMax = 1
    SocketMax = 1
    MaxTicks = 2
    MaxSignals = 1
INVARIANT
    NeverTorn
