SPECIFICATION FairSpec
CONSTANTS
    Capacity = 3
    PayloadSize = 1
    U64 = 16
    w1 = w1  w2 = w2  w3 = w3
    a = a  b = b  Empty = Empty  Garbage = Garbage
    Threads = {w1, w2, w3}
    Hosts <- MCHosts
    HostOf <- MCHostOf
    Terms <- MCTerms
    Payloads = {b, Empty}
    PayloadLen <- MCPayloadLen
    Ops = {"append", "recover"}
    Quiesced = TRUE
    MaxCalls = 3
    MaxCrashes = 0
    MaxFaults = 0
    FaultWords = {}
INVARIANTS
    TailCaughtUp
PROPERTIES
    CallsReturn
    AckedReadable
