\* Two callers, pages of size 1 and 2.
SPECIFICATION Spec
CONSTANTS
    Owners = {o1, o2}
    Arena <- TwoRegions
    PageSizes = {1, 2}
    Counts = {1, 2}
    AddrMod = 64
    MaxEnd = 14
    MaxRegions = 3
SYMMETRY Symmetric
\* MaxEnd and MaxRegions stop the growth of the list, and with it allocation.
INVARIANT NoLeak
CHECK_DEADLOCK FALSE
