SPECIFICATION Spec
CONSTANTS
    HeaderSize = 2
    MetaSize = 2
    Line = 2
    Word = 2
    U64 = 16
    PayloadLimit = 4
    HostsLimit = 3
    Strategies <- MCStrategies
    Default <- MCDefault
    ConfigFiles <- TwoGeometries
    DefaultPath <- MCDefaultPath
    EnvPath <- MCEnvPath
    NoPath <- MCNoPath
    p1 = p1  p2 = p2
    Procs = {p1, p2}
    Commands = {"init", "serve"}
    Quiesced = TRUE
    InitOnce = TRUE
    MaxExecs = 3
    MaxMixed = 3
    MaxAppends = 2
    MaxCrashes = 0
SYMMETRY Symmetry
INVARIANTS
    InBounds
