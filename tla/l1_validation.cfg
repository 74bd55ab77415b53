SPECIFICATION L1ValSpec
CONSTANTS
    Bins <- MCBins
    MaxInstr = 7
    MaxFailures = 1
INVARIANTS
    LoopNeverRaises
    RetainsInFlight
    RecordsFollowEvidence
PROPERTIES
    EndsResolved
