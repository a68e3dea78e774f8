SPECIFICATION Spec
CONSTANTS
    Capacity = 2
    PayloadSize = 1
    U64 = 16
    w1 = w1  w2 = w2  w3 = w3
    a = a  b = b  Empty = Empty  Garbage = Garbage
    Threads = {w1, w2}
    Hosts <- MCHosts
    HostOf <- MCHostOf
    Terms <- MCTerms
    Payloads = {a, Empty}
    PayloadLen <- MCPayloadLen
    Ops = {"append", "read", "recover", "trim"}
    Quiesced = FALSE
    MaxCalls = 3
    MaxCrashes = 0
    MaxFaults = 1
    FaultWords = {0, 2}
INVARIANTS
    TypeOK
    NoInFlightBelowTail
    CommittedIntact
    ReadSound
PROPERTIES
    TailMonotone
