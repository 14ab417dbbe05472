SPECIFICATION Spec
CONSTANTS
    w1 = w1
    w2 = w2
    w3 = w3
    Workers <- MCWorkers
    QueueSize = 2
    NumTasks = 4
INVARIANTS
    TypeOK
    NoIdleBacklog
PROPERTIES
    PoolSpec
    MainGoesIdle
