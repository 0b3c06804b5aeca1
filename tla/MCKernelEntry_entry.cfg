\* Two CPUs and two States, with an interrupt inside of another.
SPECIFICATION Spec
CONSTANTS
    Cpus = {c1, c2}
    States = {s1, s2}
    NoState = NoState
    UserStack = UserStack
    MaxNesting = 2
SYMMETRY Symmetric
CHECK_DEADLOCK FALSE
INVARIANTS GsIsOwn EntryStackFree
PROPERTY LostOnlyBySysret
