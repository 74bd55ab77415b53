SPECIFICATION TrackSpec
CONSTANTS
    LaneSize = 2
    PcSize = 16
    DmSize = 8
    NReg = 3
    Imm <- MCImm
    SubImm <- MCSubImm
    Fetchable <- DefectProgram
    ResetCycles = 3
    MaxResets = 0
    NCycles = 10
    ProgramCycles = 6
CHECK_DEADLOCK FALSE
INVARIANT
    ForwardsTheResult
