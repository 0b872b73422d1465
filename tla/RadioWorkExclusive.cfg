SPECIFICATION Spec
CONSTANTS
    Ifaces = {i1, i2}
    Kinds <- MCKinds
    MAX_ACTIVE_WORKS = 2
    MaxWorks = 3
    MaxScans = 1
INVARIANTS ExclusiveRadio
CHECK_DEADLOCK FALSE
