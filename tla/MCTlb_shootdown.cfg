\* Two CPUs and a user map, from before Tlb::Initialize() on.
SPECIFICATION FairSpec
CONSTANTS
    Cpus = {c1, c2}
    UserMaps = {m1}
    Global = Global
    Frames = {f1}
    NoFrame = NoFrame
    NoCpu = NoCpu
    AddrEnd = 4
    KernelEnd = 3
    FlushLimit = 1
    Requests <- Ranges
INVARIANTS TypeOK NoStaleTranslation NoIpiLost CountsOutstanding
PROPERTIES ImplementsTranslation DistributeReturns
