SPECIFICATION Spec
CONSTANTS
    MaxRegions = 2
    DataStart = 2
    PoolEnd = 9
    Align = 2
    U64 = 32
    Threads = {t1, t2}
    Names = {"x", "y"}
    LongNames = {"long"}
    Sizes = {0, 1, 3, 8}
    Serial = TRUE
    MaxCalls = 5
    MaxCrashes = 2
INVARIANTS
    AllocTypeOK
    RegionsDisjoint
    RegionsInside
    NamesUnique
    HandlesGood
    HandlesApart
    RecoverCompletes
    CountExact
PROPERTIES
    ImplementsRegionMap
