\* Four LAPICs, the last not usable; any of the usable ones may fail to answer.
SPECIFICATION FairSpec
CONSTANTS
    c0 = c0
    c1 = c1
    c2 = c2
    c3 = c3
    Cpus <- Listed
    Boot = c0
    Firmwares <- OldAndNew
    Usable <- Working
    NoCpu = NoCpu
    Checks = 2
\* Initialization ends when StartCpus has returned and the CPUs are idle.
CHECK_DEADLOCK FALSE
INVARIANTS TablesFound NoCpuLost OneOnStartupStack AllStarted
PROPERTY StartCpusReturns
