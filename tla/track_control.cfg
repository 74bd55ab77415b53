SPECIFICATION TrackSpec
CONSTANTS
    LaneSize = 2
    PcSize = 16
    DmSize = 8
    NReg = 3
    Imm <- MCImm
    SubImm <- MCSubImm
    Fetchable <- ControlProgram
    ResetCycles = 3
    MaxResets = 2
    NCycles = 13
    ProgramCycles = 10
CHECK_DEADLOCK FALSE
INVARIANTS
    MonitorAccepts
    RetireLatency
    ControlContinuity
    ResetForgets
PROPERTIES
    NoSilentSideEffect
