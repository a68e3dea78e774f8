SPECIFICATION Spec
CONSTANTS
    Capacity = 2
    Line = 2
    PayloadCells = 2
    U64 = 16
    w1 = w1  w2 = w2  w3 = w3
    Threads = {w1, w3}
    Hosts <- MCHosts
    HostOf <- MCHostOf
    Ops = {"append"}
    Quiesced = TRUE
    HeaderKept = TRUE
    MaxCalls = 2
    MaxCrashes = 1
INVARIANTS
    TailBacked
