\* Three CPUs that sleep for two ticks each; both orders of the modules.
SPECIFICATION InitFairSpec
CONSTANTS
    Cpus = {c1, c2, c3}
    Messages = {calibrate, setregs}
    NoFunc = NoFunc
    Unset = Unset
    NoCpu = NoCpu
    MaxDepth = 2
    Boot = c1
    Calibrate = calibrate
    SetCpuRegisters = setregs
    SleepTicks = 2
INVARIANTS CallsWhatWasSent NoMessageForgotten CountsAreBalanced NoMessageOverwritten NotNested NoCalibrationLeft
PROPERTY InitializeReturns
