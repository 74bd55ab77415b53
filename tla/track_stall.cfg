SPECIFICATION TrackSpec
CONSTANTS
    LaneSize = 2
    PcSize = 16
    DmSize = 8
    NReg = 3
    Imm <- MCImm
    SubImm <- MCSubImm
    Fetchable <- StallProgram
    ResetCycles = 3
    MaxResets = 0
    NCycles = 13
    ProgramCycles = 9
CHECK_DEADLOCK FALSE
INVARIANTS
    TrackTypeOK
    StageIdentity
    ProgramOrder
    SingleStall
