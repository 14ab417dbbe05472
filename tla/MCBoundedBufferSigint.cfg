SPECIFICATION Spec
CONSTANTS
    Capacity = 3
    Modulus = 5
PROPERTY
    StopsAllThreads
