SPECIFICATION Spec
CONSTANTS
    Capacity = 2
    Line = 2
    PayloadCells = 3
    U64 = 16
    w1 = w1  w2 = w2  w3 = w3
    Threads = {w1, w2, w3}
    Hosts <- MCHosts
    HostOf <- MCHostOf
    Ops = {"append", "recover", "trim"}
    Quiesced = TRUE
    HeaderKept = TRUE
    MaxCalls = 3
    MaxCrashes = 1
INVARIANTS
    CacheTypeOK
    CommittedOnMedia
    AckedSurvives
    DroppedStays
    EndedFlushed
