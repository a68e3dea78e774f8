SPECIFICATION Spec
CONSTANTS
    Capacity = 2
    PayloadSize = 1
    U64 = 16
    w1 = w1  w2 = w2  w3 = w3
    a = a  b = b  Empty = Empty  Garbage = Garbage
    Threads = {w1, w2}
    Hosts <- MCHosts
    HostOf <- MCHostOf
    Terms <- MCTerms
    Payloads = {a, Empty}
    PayloadLen <- MCPayloadLen
    Ops = {"append", "recover", "trim"}
    Quiesced = TRUE
    MaxCalls = 4
    MaxCrashes = 1
    MaxFaults = 0
    FaultWords = {}
INVARIANTS
    SlotExclusive
    MetricsAccount
    AckedDurable
    RecoverRepairs
    PrefixVisible
PROPERTIES
    ClaimedOnce
    AbandonedFinal
    ImplementsAppendLog
