SPECIFICATION LockSpec
CONSTANTS
    LaneSize = 2
    PcSize = 16
    DmSize = 8
    NReg = 3
    Imm <- MCImm
    SubImm <- DefectSubImm
    Fetchable <- DefectProgram
    ResetCycles = 3
    MaxResets = 0
    NCycles = 10
    ProgramCycles = 6
    RetireLatencyCycles = 3
    RedirectBubbles = 2
CHECK_DEADLOCK FALSE
INVARIANTS
    FailuresAreDocumented
    ForwardingFollowsAge
