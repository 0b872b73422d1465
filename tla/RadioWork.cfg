SPECIFICATION Spec
CONSTANTS
    Ifaces = {i1, i2}
    Kinds <- MCKinds
    MAX_ACTIVE_WORKS = 2
    MaxWorks = 3
    MaxScans = 1
INVARIANTS TypeOK ActiveCount ParallelWorks NoStall
PROPERTIES WorksServed
CHECK_DEADLOCK FALSE
