SPECIFICATION LockSpec
CONSTANTS
    LaneSize = 2
    PcSize = 16
    DmSize = 16
    NReg = 3
    Imm <- MCImm
    SubImm <- DataSubImm
    Fetchable <- DataProgram
    ResetCycles = 3
    MaxResets = 0
    NCycles = 11
    ProgramCycles = 7
    RetireLatencyCycles = 3
    RedirectBubbles = 2
CHECK_DEADLOCK FALSE
INVARIANTS
    StateAgrees
    RetainsOnlyInFlight
