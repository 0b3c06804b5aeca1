\* Two CPUs that move between two address spaces, and two callers.
SPECIFICATION Spec
CONSTANTS
    Depth = 3
    Fanout = 3
    PageUnits = 2
    Frames = {1, 2}
    Cpus = {c1, c2}
    Global = Global
    UserSpaces = {m1}
    Owners = {o1, o2}
    Counts = {1, 2}
    Devices <- Firmware
CONSTRAINT Seeing
SYMMETRY Symmetric
CHECK_DEADLOCK FALSE
INVARIANTS TablesExact FreeRegionIsFree MappingsIntact EasyMapReaches FractalMapFresh
