\* Two CPUs that boot from one of four memory maps and use the heap.
SPECIFICATION Spec
CONSTANTS
    Page = 2
    BigPage = 4
    Fanout = 2
    LowMemory = 4
    LowerEnd = 32
    MaximumCount = 2
    MemoryMaps <- Maps
    ImageEnd = 8
    ObjectSize = 2
    TreeSizes = {2, 4}
    Cpus = {c1, c2}
    Addresses <- KernelAddresses
    Cells = 4
    HeaderCells = 2
    BlockSizes = {1}
SYMMETRY Symmetric
CHECK_DEADLOCK FALSE
INVARIANTS RegionsExact BootMemoryKept KernelStaysMapped ClustersSeparate BlocksDisjoint SegmentsMapped
