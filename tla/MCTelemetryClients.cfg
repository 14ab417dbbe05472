SPECIFICATION Spec
CONSTANTS
    c1 = c1
    c2 = c2
    c3 = c3
    Conns <- ThreeConns
    MaxClients = 2
    Periods <- OnePeriod
    DefaultPeriod = 5
    InitialFiles <- NoFile
    MaxEdits = 0
    MaxFifo = 0
INVARIANTS
    TableIsEpollSet
    BatchIsLive
