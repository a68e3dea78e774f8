SPECIFICATION Spec
CONSTANTS
    HeaderSize = 2
    MetaSize = 2
    Line = 2
    Word = 2
    U64 = 16
    PayloadLimit = 4
    HostsLimit = 3
    Strategies <- MCStrategies
    Default <- MCDefault
    ConfigFiles <- AllFiles
    DefaultPath <- MCDefaultPath
    EnvPath <- MCEnvPath
    NoPath <- MCNoPath
    p1 = p1  p2 = p2
    Procs = {p1, p2}
    Commands = {"none", "init", "status", "recover", "serve"}
    Quiesced = TRUE
    InitOnce = TRUE
    MaxExecs = 4
    MaxMixed = 3
    MaxAppends = 3
    MaxCrashes = 1
SYMMETRY Symmetry
INVARIANTS
    PoolTypeOK
    InBoundsOneGeometry
    OvershootBounded
    PoolIntact
    AckedKept
    StatusConsistent
    StatusAppends
