------------------------- MODULE TrackingInvariant -------------------------
(***************************************************************************)
(* An inductive invariant of ExecutionTracking.  The properties of that    *)
(* module say what an observer sees; what keeps them true from one clock   *)
(* edge to the next is the conjunction of the parts below.                 *)
(***************************************************************************)
EXTENDS ExecutionTracking

\* A tag that is not live is the empty one; a live tag has a number and an
\* instruction.  Tags are as old as their stage is deep.
TagAges ==
    /\ Live(bTag) => bTag.id # 0 /\ bTag.instr # NoInstr /\ bTag.cycle = cycle - 1
    /\ Live(cTag) => cTag.id # 0 /\ cTag.instr # NoInstr /\ cTag.cycle = cycle - 2
    /\ Live(dTag) => dTag.id # 0 /\ dTag.instr # NoInstr /\ dTag.cycle = cycle - 3
    /\ Live(retired.tag) => retired.tag.cycle = cycle - 3

\* The falling edge empties D's tag and decides what the rising edge accepts.
Accepts == ~reset /\ ~PcSel /\ ~RegStall /\ A.instr # NoInstr

EdgeOrder ==
    /\ phase = "rise" =>
        /\ dTag = NoTag
        /\ IF Accepts THEN pending.pc = A.pc /\ pending.instr = A.instr
           ELSE pending = NoPending
    /\ phase = "fall" => pending = NoPending /\ retired = NoRetire

\* A stall in progress: decided at the falling edge, a bubble behind the load
\* after the rising edge.
StallHistory ==
    /\ stallCount # 0 =>
        /\ stallCount = 1 /\ stalledId = A
        /\ phase = "rise" => RegStall /\ ~PcSel /\ ~reset
        /\ phase = "fall" => /\ B = BubbleB /\ ~Live(bTag)
                             /\ MemRead(C.op)
                             /\ C.rd \in {A.instr.rs1, A.instr.rs2}

\* Where the program goes on after the instruction in B.
Successor == IF Live(bTag) THEN (bTag.pc + 4) % PcSize ELSE resume

\* Unless B redirects, IF/ID and the PC continue at the successor; a flush
\* bubble in IF/ID leaves the PC there.
FetchContinues ==
    ~reset /\ ~PcSel =>
        /\ A.instr # NoInstr => A.pc = Successor /\ pc = (A.pc + 4) % PcSize
        /\ A.instr = NoInstr /\ cycle <= ProgramCycles => pc = Successor

ResetProgress ==
    /\ ~reset => held = 0
    /\ reset /\ phase = "fall" => held > 0
    /\ reset /\ phase = "rise" => held < ResetCycles
    /\ reset /\ held > 0 => A = BubbleA /\ resume = 0

TrackInv ==
    /\ StageIdentity /\ MonitorAccepts /\ ProgramOrder /\ SingleStall
    /\ ResetForgets
    /\ TagAges /\ EdgeOrder /\ StallHistory /\ FetchContinues /\ ResetProgress
=============================================================================
