SPECIFICATION SpecPressing
CONSTANTS
    Capacity = 3
    Modulus = 5
INVARIANTS
    TypeOK
    SleepersHaveAReason
PROPERTIES
    ItemsFlow
    StopsAllThreads
    PassesItemsOn
