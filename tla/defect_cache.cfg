SPECIFICATION L2Spec
CONSTANTS
    NReg = 2
    Retires = FALSE
    MaxInstr = 9
    MaxFailures = 0
CHECK_DEADLOCK FALSE
INVARIANTS
    CacheIsBounded
