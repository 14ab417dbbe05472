SPECIFICATION Spec
CONSTANTS
    x1 = x1
    x2 = x2
    x3 = x3
    x4 = x4
    NULL = NULL
    Cells <- FourCells
    Keys <- TwoKeys
    Lower <- Lowered
    Scalars <- OneScalar
    Limit = 2
    Count = 3
SYMMETRY Interchangeable
INVARIANTS
    ListsAreSound
    NothingLeaks
    CompareIsEquality
PROPERTY
    ForestSpec
