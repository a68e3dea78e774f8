SPECIFICATION Spec
CONSTANTS
    Capacity = 2
    PayloadSize = 1
    U64 = 16
    w1 = w1  w2 = w2  w3 = w3
    a = a  b = b  Empty = Empty  Garbage = Garbage
    Threads = {w1, w2}
    Hosts <- MCHosts
    HostOf <- MCHostOf
    Terms <- MCTerms
    Payloads = {Empty}
    PayloadLen <- MCPayloadLen
    Ops = {"append", "recover"}
    Quiesced = FALSE
    MaxCalls = 2
    MaxCrashes = 0
    MaxFaults = 0
    FaultWords = {}
INVARIANTS
    AckedDurable
