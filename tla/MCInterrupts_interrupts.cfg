\* Two CPUs, the PIT, a driver and a panic at any moment.
SPECIFICATION FairSpec
CONSTANTS
    Cpus = {c1, c2}
    Boot = c1
    NoCpu = NoCpu
    Pins = {1, 2}
    ResetDestinations = {c2}
    Madt <- PcTable
    DriverIrq = 1
CHECK_DEADLOCK FALSE
INVARIANTS RedirectionIntact AlwaysHandled
PROPERTIES RequestsServed PanicStopsAll
