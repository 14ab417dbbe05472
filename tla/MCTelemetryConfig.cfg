SPECIFICATION Spec
CONSTANTS
    c1 = c1
    c2 = c2
    c3 = c3
    Conns <- NoConns
    MaxClients = 1
    Periods <- EdgePeriods
    DefaultPeriod = 5
    InitialFiles <- AnyFile
    MaxEdits = 2
    MaxFifo = 0
INVARIANTS
    TypeOK
    StaleMeansNotified
PROPERTIES
    SnapshotIsConsistent
    VersionsNeverGoBack
    ConfigIsApplied
    StopEndsProcess
