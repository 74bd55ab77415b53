------------------------------ MODULE RV32Isa ------------------------------
(***************************************************************************)
(* The instruction set shared by the frozen RTL (design/), which decodes   *)
(* it in Controller.sv, ALUController.sv and alu.sv, and by the Python     *)
(* verification stack, which decodes it in isa_decode.py.  Both decoders   *)
(* are operators of this module so that the pipeline and the golden model  *)
(* can disagree exactly where the two sources do.                          *)
(*                                                                         *)
(* An instruction is a record of its raw fields.  A field an operation     *)
(* does not use still has a value (it holds immediate bits), and the RTL   *)
(* looks at it: that is what hazards H19 and H20 are about.                *)
(***************************************************************************)
EXTENDS Integers

CONSTANTS
    LaneSize,    \* values of a memory byte (256 in the source)
    PcSize,      \* values of the fetch PC (512: PC_W = 9)
    DmSize,      \* data-memory addresses (512: DM_ADDRESS = 9)
    NReg,        \* registers (32)
    Imm,         \* sign-extended immediates, as machine words
    SubImm       \* I-immediates with imm[11:5] = 0100000

WordSize == LaneSize * LaneSize * LaneSize * LaneSize

Word == 0 .. WordSize - 1
Reg == 0 .. NReg - 1
FetchPc == 0 .. PcSize - 1
Lane == 0 .. LaneSize - 1

ASSUME LaneSizeAssumption == LaneSize \in Nat \ {0, 1}
ASSUME PcSizeAssumption == PcSize \in 1 .. WordSize
ASSUME DmSizeAssumption == DmSize \in 1 .. WordSize /\ DmSize % 4 = 0
ASSUME NRegAssumption == NReg \in Nat \ {0, 1}
ASSUME ImmAssumption == 0 \in Imm /\ Imm \subseteq Word /\ SubImm \subseteq Imm

-----------------------------------------------------------------------------
(* Operations: the T6 subset that the decoder, the golden model and the     *)
(* timing oracle all accept.                                                *)

BranchOps == {"BEQ", "BNE", "BLT", "BGE", "BLTU", "BGEU"}
Op == {"ADD", "ADDI", "LW", "SW", "LUI", "AUIPC", "JAL", "JALR"} \cup BranchOps

Instr == [op : Op, rd : Reg, rs1 : Reg, rs2 : Reg, imm : Imm]

\* The all-zero word: what a reset or a flush leaves in IF/ID and what
\* instruction memory holds past the program.  decode_instruction rejects it.
NoInstr == [op |-> "NONE", rd |-> 0, rs1 |-> 0, rs2 |-> 0, imm |-> 0]

InstrOrNone == Instr \cup {NoInstr}

\* isa_decode.py: the operand fields an operation really uses.
UsesRs1(op) == op \in {"ADD", "ADDI", "LW", "SW", "JALR"} \cup BranchOps
UsesRs2(op) == op \in {"ADD", "SW"} \cup BranchOps
WritesRd(op) == op \in {"ADD", "ADDI", "LW", "LUI", "AUIPC", "JAL", "JALR"}

-----------------------------------------------------------------------------
(* Encoders.  I-type and S-type immediates occupy the field that the RTL    *)
(* reads as rs2 or rd, so those raw fields are the immediate's low bits.    *)

LowField(imm) == imm % NReg

Add(rd, rs1, rs2) ==
    [op |-> "ADD", rd |-> rd, rs1 |-> rs1, rs2 |-> rs2, imm |-> 0]

IType(op, rd, rs1, imm) ==
    [op |-> op, rd |-> rd, rs1 |-> rs1, rs2 |-> LowField(imm), imm |-> imm]

Sw(rs2, rs1, imm) ==
    [op |-> "SW", rd |-> LowField(imm), rs1 |-> rs1, rs2 |-> rs2, imm |-> imm]

BType(op, rs1, rs2, imm) ==
    [op |-> op, rd |-> LowField(imm), rs1 |-> rs1, rs2 |-> rs2, imm |-> imm]

\* U-type and J-type: rs1 and rs2 are upper immediate bits.
UType(op, rd, raw1, raw2, imm) ==
    [op |-> op, rd |-> rd, rs1 |-> raw1, rs2 |-> raw2, imm |-> imm]

-----------------------------------------------------------------------------
(* Controller.sv, one operator per control output.  RWSel = 01 is LinkSel,  *)
(* 10 is ImmSel, 11 is PcImmSel.                                            *)

ALUSrc(op) == op \in {"LW", "SW", "ADDI", "JALR"}
MemtoReg(op) == op = "LW"
RegWrite(op) == op \in {"ADD", "ADDI", "LW", "JAL", "JALR", "LUI", "AUIPC"}
MemRead(op) == op = "LW"
MemWrite(op) == op = "SW"
Branch(op) == op = "JAL" \/ op \in BranchOps
JalrSel(op) == op = "JALR"
LinkSel(op) == op \in {"JAL", "JALR"}
ImmSel(op) == op = "LUI"
PcImmSel(op) == op = "AUIPC"

-----------------------------------------------------------------------------
(* Machine words.                                                           *)

Wrap(n) == n % WordSize
Signed(w) == IF w < WordSize \div 2 THEN w ELSE w - WordSize
Bit(b) == IF b THEN 1 ELSE 0

\* The comparison that both alu.sv and the golden model make for a branch.
Compares(op, a, b) ==
    \/ op = "BEQ" /\ a = b
    \/ op = "BNE" /\ a # b
    \/ op = "BLT" /\ Signed(a) < Signed(b)
    \/ op = "BGE" /\ Signed(a) >= Signed(b)
    \/ op = "BLTU" /\ a < b
    \/ op = "BGEU" /\ a >= b

\* ALUController.sv takes funct7 = 0100000 for SUB whether the instruction is
\* R-type or ADDI, whose funct7 bits belong to the immediate.  The NONE bubble
\* has ALUOp 00 and adds.
SelectsSub(op, imm) == op = "ADDI" /\ imm \in SubImm

\* alu.sv.  JAL and LUI select the constant 1 (ALUOp = 11).
ALUResult(op, imm, a, b) ==
    CASE op \in BranchOps       -> Bit(Compares(op, a, b))
      [] op \in {"JAL", "LUI"}  -> 1
      [] SelectsSub(op, imm)    -> Wrap(a - b)
      [] OTHER                  -> Wrap(a + b)

-----------------------------------------------------------------------------
(* A word is four byte lanes, least significant first.                      *)

LaneWeight ==
    <<1, LaneSize, LaneSize * LaneSize, LaneSize * LaneSize * LaneSize>>

LaneOf(w, i) == (w \div LaneWeight[i + 1]) % LaneSize

WordOf(l0, l1, l2, l3) ==
    Wrap(l0 + LaneWeight[2] * l1 + LaneWeight[3] * l2 + LaneWeight[4] * l3)
=============================================================================
