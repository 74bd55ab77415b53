--------------------------- MODULE RV32Pipeline ---------------------------
(***************************************************************************)
(* design/Datapath.sv: the five-stage pipeline whose registers the code    *)
(* calls A (IF/ID), B (ID/EX), C (EX/MEM) and D (MEM/WB).                  *)
(*                                                                         *)
(* A clock cycle is a falling edge followed by a rising edge.  The         *)
(* register file and the data memory (clocked by ~clk) change at the       *)
(* falling edge, the pipeline registers and the PC at the rising edge.     *)
(* The bench drives reset at a falling edge, after the register file has   *)
(* sampled the old value; the PC clears at once, the rest at the next      *)
(* clock edges.                                                            *)
(*                                                                         *)
(* The word fetched is any instruction the bench may have put in           *)
(* instruction memory: the choice covers every program, and programs that  *)
(* the bench rewrites while the clock is paused.                           *)
(***************************************************************************)
EXTENDS RV32Isa

CONSTANTS
    Fetchable,     \* instructions that instruction memory may hold
    ResetCycles,   \* rising edges for which the bench holds reset (3)
    MaxResets      \* bound: warm resets of one behaviour

ASSUME FetchableAssumption == Fetchable \subseteq Instr
ASSUME ResetAssumption == ResetCycles \in Nat \ {0} /\ MaxResets \in Nat

VARIABLES
    phase,   \* the next clock edge: "fall" or "rise"
    pc,      \* pcreg
    A,       \* [pc, instr]
    B,       \* [op, rd, rs1, rs2, imm, pc, v1, v2]; op stands for the controls
    C,       \* [op, rd, alu, v2, res]; res: what wrsmux picks if not a load
    D,       \* [op, rd, val]; val: WRMuxResult
    rf,      \* register_file of RegFile.sv; x0 is a physical register
    dmem,    \* the bytes of ramOnChipData.v that a 9-bit address reaches
    reset,   \* the reset input
    held,    \* reset-active rising edges so far
    resets   \* warm resets so far (bounded by MaxResets)

pipeVars == <<phase, pc, A, B, C, D, rf, dmem, reset, held, resets>>

BubbleA == [pc |-> 0, instr |-> NoInstr]
BubbleB == [op |-> "NONE", rd |-> 0, rs1 |-> 0, rs2 |-> 0, imm |-> 0,
            pc |-> 0, v1 |-> 0, v2 |-> 0]
BubbleC == [op |-> "NONE", rd |-> 0, alu |-> 0, v2 |-> 0, res |-> 0]
BubbleD == [op |-> "NONE", rd |-> 0, val |-> 0]

-----------------------------------------------------------------------------
(* Combinational logic.                                                     *)

\* Fault: the interlock looks at rs1 only.
StallOnRs1Only == MemRead(B.op) /\ B.rd = A.instr.rs1

\* HazardDetection.sv compares raw fields: it neither excludes rd = x0 nor
\* asks whether the instruction in A uses rs2.
RegStall == MemRead(B.op) /\ (B.rd = A.instr.rs1 \/ B.rd = A.instr.rs2)

\* Fault: the older result wins.
FwdSelOldestFirst(rs) ==
    IF RegWrite(D.op) /\ D.rd # 0 /\ D.rd = rs THEN "MEM_WB"
    ELSE IF RegWrite(C.op) /\ C.rd # 0 /\ C.rd = rs THEN "EX_MEM"
    ELSE "RF"

\* Fault: the destination x0 is not excluded.
FwdSelWithoutX0Rule(rs) ==
    IF RegWrite(C.op) /\ C.rd = rs THEN "EX_MEM"
    ELSE IF RegWrite(D.op) /\ D.rd = rs THEN "MEM_WB"
    ELSE "RF"

\* ForwardingUnit.sv, for one source field.
FwdSel(rs) ==
    IF RegWrite(C.op) /\ C.rd # 0 /\ C.rd = rs THEN "EX_MEM"
    ELSE IF RegWrite(D.op) /\ D.rd # 0 /\ D.rd = rs THEN "MEM_WB"
    ELSE "RF"

ForwardA == FwdSel(B.rs1)
ForwardB == FwdSel(B.rs2)

\* The four-way muxes FAmux and FBmux.  The EX/MEM input is always the ALU
\* result, also for LUI and AUIPC whose result is not.
Forwarded(sel, v) ==
    CASE sel = "EX_MEM" -> C.alu
      [] sel = "MEM_WB" -> D.val
      [] OTHER          -> v

FAmuxResult == Forwarded(ForwardA, B.v1)
FBmuxResult == Forwarded(ForwardB, B.v2)
SrcB == IF ALUSrc(B.op) THEN B.imm ELSE FBmuxResult
AluResult == ALUResult(B.op, B.imm, FAmuxResult, SrcB)

\* BranchUnit.sv.
PcSel == JalrSel(B.op) \/ (Branch(B.op) /\ AluResult % 2 = 1)
BrPC == IF JalrSel(B.op) THEN AluResult ELSE Wrap(B.pc + B.imm)

\* Fault: the PC is wider than the pcmux.
NextPcUnwrapped == IF PcSel THEN BrPC ELSE pc + 4

\* Datapath.sv: pcmux keeps PC_W bits of the target.
NextPc == IF PcSel THEN BrPC % PcSize ELSE (pc + 4) % PcSize

\* datamemory.sv and Memoria32Data.sv.  Bank i is written at the aligned
\* address + i only, and read at the exact address + i, so it has never been
\* written where an unaligned read looks.
BankRead(a, i) == IF (a + i) % 4 = i THEN dmem[a + i] ELSE 0
ReadData(a) ==
    WordOf(BankRead(a, 0), BankRead(a, 1), BankRead(a, 2), BankRead(a, 3))

DmAddr == C.alu % DmSize

\* Fault: the banks are connected in the opposite byte order.
WrittenMemSwapped ==
    LET base == DmAddr - (DmAddr % 4) IN
    [x \in DOMAIN dmem |->
        IF x - (x % 4) = base THEN LaneOf(C.v2, 3 - (x % 4)) ELSE dmem[x]]

WrittenMem ==
    LET base == DmAddr - (DmAddr % 4) IN
    [x \in DOMAIN dmem |->
        IF x - (x % 4) = base THEN LaneOf(C.v2, x % 4) ELSE dmem[x]]

-----------------------------------------------------------------------------
(* The state right after reset_dut: reset is low again and the instruction  *)
(* at PC 0 has just entered A.                                              *)

PipeInit ==
    /\ phase = "fall"
    /\ pc = 4 % PcSize
    /\ A \in [pc : {0}, instr : Fetchable]
    /\ B = BubbleB /\ C = BubbleC /\ D = BubbleD
    /\ rf = [r \in Reg |-> 0]
    /\ dmem = [a \in 0 .. DmSize - 1 |-> 0]
    /\ reset = FALSE /\ held = 0 /\ resets = 0

-----------------------------------------------------------------------------
(* Falling edge.  r is the value of reset after the edge.                   *)

MayDriveReset(r) ==
    \/ ~reset /\ r = FALSE
    \/ ~reset /\ r = TRUE /\ resets < MaxResets
    \/ reset /\ r = (held < ResetCycles)

WriteRegisterFile ==
    rf' = IF reset THEN [x \in Reg |-> 0]
          ELSE IF RegWrite(D.op) THEN [rf EXCEPT ![D.rd] = D.val]
          ELSE rf

FallingEdge(r) ==
    /\ phase = "fall"
    /\ MayDriveReset(r)
    /\ WriteRegisterFile
    /\ dmem' = IF MemWrite(C.op) THEN WrittenMem ELSE dmem
    /\ reset' = r
    /\ pc' = IF r THEN 0 ELSE pc
    /\ held' = IF r THEN held ELSE 0
    /\ resets' = IF r /\ ~reset THEN resets + 1 ELSE resets
    /\ phase' = "rise"
    /\ UNCHANGED <<A, B, C, D>>

-----------------------------------------------------------------------------
(* Rising edge.  i is the word that instruction memory returned for pc.     *)

\* Fault: a redirect does not flush IF/ID.
LatchAWithoutFlush(i) ==
    A' = IF reset THEN BubbleA
         ELSE IF RegStall THEN A
         ELSE [pc |-> pc, instr |-> i]

\* Datapath.sv: the flush has priority over the stall.
LatchA(i) ==
    A' = IF reset \/ PcSel THEN BubbleA
         ELSE IF RegStall THEN A
         ELSE [pc |-> pc, instr |-> i]

\* Fault: the stalled instruction enters ID/EX as well.
LatchBWithoutBubble ==
    B' = IF reset \/ PcSel THEN BubbleB
         ELSE [op  |-> A.instr.op,  rd  |-> A.instr.rd,
               rs1 |-> A.instr.rs1, rs2 |-> A.instr.rs2,
               imm |-> A.instr.imm, pc  |-> A.pc,
               v1  |-> rf[A.instr.rs1], v2 |-> rf[A.instr.rs2]]

\* Fault: a redirect does not flush ID/EX.
LatchBWithoutFlush ==
    B' = IF reset \/ RegStall THEN BubbleB
         ELSE [op  |-> A.instr.op,  rd  |-> A.instr.rd,
               rs1 |-> A.instr.rs1, rs2 |-> A.instr.rs2,
               imm |-> A.instr.imm, pc  |-> A.pc,
               v1  |-> rf[A.instr.rs1], v2 |-> rf[A.instr.rs2]]

\* Datapath.sv: a stall, a flush and a reset all leave a bubble.
LatchB ==
    B' = IF reset \/ RegStall \/ PcSel THEN BubbleB
         ELSE [op  |-> A.instr.op,  rd  |-> A.instr.rd,
               rs1 |-> A.instr.rs1, rs2 |-> A.instr.rs2,
               imm |-> A.instr.imm, pc  |-> A.pc,
               v1  |-> rf[A.instr.rs1], v2 |-> rf[A.instr.rs2]]

LatchC ==
    C' = IF reset THEN BubbleC
         ELSE [op |-> B.op, rd |-> B.rd, alu |-> AluResult,
               v2 |-> FBmuxResult,
               res |-> CASE LinkSel(B.op)  -> Wrap(B.pc + 4)
                         [] ImmSel(B.op)   -> B.imm
                         [] PcImmSel(B.op) -> Wrap(B.pc + B.imm)
                         [] OTHER          -> AluResult]

\* The banks loaded their output registers at the falling edge of this cycle,
\* from the memory that is still there.
LatchD ==
    D' = IF reset THEN BubbleD
         ELSE [op |-> C.op, rd |-> C.rd,
               val |-> IF MemtoReg(C.op) THEN ReadData(DmAddr) ELSE C.res]

RisingEdge(i) ==
    /\ phase = "rise"
    /\ LatchA(i) /\ LatchB /\ LatchC /\ LatchD
    /\ pc' = IF reset THEN 0 ELSE IF RegStall THEN pc ELSE NextPc
    /\ held' = IF reset THEN held + 1 ELSE held
    /\ phase' = "fall"
    /\ UNCHANGED <<rf, dmem, reset, resets>>

PipeNext ==
    \/ \E r \in BOOLEAN : FallingEdge(r)
    \/ \E i \in Fetchable \cup {NoInstr} : RisingEdge(i)

PipeSpec == PipeInit /\ [][PipeNext]_pipeVars
=============================================================================
