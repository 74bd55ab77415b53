SPECIFICATION LockSpec
CONSTANTS
    LaneSize = 2
    PcSize = 8
    DmSize = 8
    NReg = 3
    Imm <- MCImm
    SubImm <- ControlSubImm
    Fetchable <- ControlProgram
    ResetCycles = 3
    MaxResets = 0
    NCycles = 12
    ProgramCycles = 8
    RetireLatencyCycles = 3
    RedirectBubbles = 2
CHECK_DEADLOCK FALSE
INVARIANTS
    LoopRunsToTheEnd
    LatenessIsFalseStalls
