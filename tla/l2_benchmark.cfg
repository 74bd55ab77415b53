SPECIFICATION L2Spec
CONSTANTS
    NReg = 2
    Retires = TRUE
    MaxInstr = 8
    MaxFailures = 1
CHECK_DEADLOCK FALSE
INVARIANTS
    LoopGoesOn
    EvidenceSurvives
    ResolvedWhenDue
    CacheIsBounded
PROPERTIES
    ValidatedAfterRetirement
