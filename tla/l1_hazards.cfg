SPECIFICATION L1Spec
CONSTANTS
    LaneSize = 2
    PcSize = 8
    DmSize = 8
    NReg = 3
    Imm <- MCImm
    SubImm <- MCSubImm
    Fetchable <- L1Program
    ResetCycles = 3
    MaxResets = 0
    NCycles = 10
    ProgramCycles = 6
    RetireLatencyCycles = 3
    RedirectBubbles = 2
CHECK_DEADLOCK FALSE
INVARIANTS
    ProducersAgree
    RejectionsExplained
    TimingExplained
