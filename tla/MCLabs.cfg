SPECIFICATION LabsSpec
CONSTANTS
    p1 = p1
    p2 = p2
    a1 = a1
    a2 = a2
    t1 = t1
    t2 = t2
    t3 = t3
    Producers <- TwoProducers
    Addresses <- TwoAddresses
    InitialCap = 1
    GrowthChunk = 1
    MaxSamples = 3
    Modulus = 3
    CounterThreads <- ThreeThreads
    Iterations = 3
    Tries = 5
    Makers <- TwoProducers
    Users <- ThreeThreads
    Burst = 2
    MaxMsg = 3
INVARIANTS
    AccessesAreAllocated
    NoSampleLost
    Outcomes
PROPERTIES
    PassesWordsOn
    ThreadsReturn
