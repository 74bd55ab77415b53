--------------------------- MODULE TrackingProofs ---------------------------
(***************************************************************************)
(* Theorems about ExecutionTracking, for every word size, register count,  *)
(* instruction set, program and pattern of resets.                         *)
(***************************************************************************)
EXTENDS TrackingInvariant, TLAPS

-----------------------------------------------------------------------------
(* The machine word and its operators.                                      *)

\* A word has at least two values, so both results of a comparison fit.
LEMMA WordSizeType == WordSize \in Nat /\ WordSize > 1
<1>1. LaneSize \in Nat /\ LaneSize >= 2
  BY LaneSizeAssumption
<1>2. LaneSize * LaneSize \in Nat /\ LaneSize * LaneSize >= 2
  BY <1>1
<1>3. LaneSize * LaneSize * LaneSize \in Nat /\ LaneSize * LaneSize * LaneSize >= 2
  BY <1>1, <1>2
<1>4. LaneSize * LaneSize * LaneSize * LaneSize \in Nat
      /\ LaneSize * LaneSize * LaneSize * LaneSize >= 2
  BY <1>1, <1>3
<1> QED BY <1>4 DEF WordSize

\* Reduction modulo the word size gives a word.
LEMMA WrapType == ASSUME NEW n \in Int PROVE Wrap(n) \in Word
  BY WordSizeType DEF Wrap, Word

\* Zero is a word, a lane, a register, a fetch PC and an immediate.
LEMMA ZeroTypes == 0 \in Word /\ 1 \in Word /\ 0 \in Lane /\ 0 \in Reg
                   /\ 0 \in FetchPc /\ 0 \in Imm /\ PcSize \in Nat \ {0}
                   /\ DmSize \in Nat \ {0}
  BY WordSizeType, LaneSizeAssumption, NRegAssumption, PcSizeAssumption,
     ImmAssumption, DmSizeAssumption
  DEF Word, Lane, Reg, FetchPc

\* Words and fetch PCs are integers.
LEMMA IntTypes == Word \subseteq Int /\ FetchPc \subseteq Int
  BY WordSizeType, ZeroTypes DEF Word, FetchPc

\* The ALU returns a word.
LEMMA AluType ==
    ASSUME NEW op, NEW imm, NEW a \in Word, NEW b \in Word
    PROVE  ALUResult(op, imm, a, b) \in Word
<1>1. a + b \in Int /\ a - b \in Int
  BY WordSizeType DEF Word
<1>2. Bit(Compares(op, a, b)) \in Word
  BY ZeroTypes DEF Bit
<1> QED BY <1>1, <1>2, WrapType, ZeroTypes DEF ALUResult

\* A byte lane of a word.
LEMMA LaneOfType ==
    ASSUME NEW w \in Word, NEW i \in 0 .. 3
    PROVE  LaneOf(w, i) \in Lane
<1>1. LaneSize \in Nat /\ LaneSize >= 2 /\ w \in Nat
  BY LaneSizeAssumption, WordSizeType DEF Word
<1>2. LaneSize * LaneSize \in Nat \ {0}
  BY <1>1
<1>3. LaneSize * LaneSize * LaneSize \in Nat \ {0}
  BY <1>1, <1>2
<1>4. LaneWeight[i + 1] \in Nat \ {0}
  BY <1>1, <1>2, <1>3 DEF LaneWeight
<1>5. w \div LaneWeight[i + 1] \in Int
  BY <1>1, <1>4
<1> QED BY <1>1, <1>5 DEF LaneOf, Lane

\* Four lanes make a word.
LEMMA WordOfType ==
    ASSUME NEW a \in Lane, NEW b \in Lane, NEW c \in Lane, NEW d \in Lane
    PROVE  WordOf(a, b, c, d) \in Word
<1>1. LaneSize \in Nat /\ a \in Nat /\ b \in Nat /\ c \in Nat /\ d \in Nat
  BY LaneSizeAssumption DEF Lane
<1>2. LaneSize * LaneSize \in Nat
  BY <1>1
<1>3. LaneSize * LaneSize * LaneSize \in Nat
  BY <1>1, <1>2
<1>4. LaneWeight[2] \in Nat /\ LaneWeight[3] \in Nat /\ LaneWeight[4] \in Nat
  BY <1>1, <1>2, <1>3 DEF LaneWeight
<1>5. LaneWeight[2] * b \in Nat /\ LaneWeight[3] * c \in Nat /\ LaneWeight[4] * d \in Nat
  BY <1>1, <1>4
<1>6. a + LaneWeight[2] * b + LaneWeight[3] * c + LaneWeight[4] * d \in Int
  BY <1>1, <1>5
<1> QED BY <1>6, WrapType DEF WordOf

-----------------------------------------------------------------------------
(* Types of the pipeline.                                                   *)

\* Every value on the operand, result and next-PC wires has its width.
LEMMA DatapathTypes ==
    ASSUME PipeTypeOK
    PROVE  /\ FAmuxResult \in Word /\ FBmuxResult \in Word /\ SrcB \in Word
           /\ AluResult \in Word
           /\ BrPC \in Int /\ BrPC % PcSize \in FetchPc
           /\ NextPc \in FetchPc /\ (pc + 4) % PcSize \in FetchPc
           /\ (B.pc + 4) % PcSize \in FetchPc
<1>1. B.v1 \in Word /\ B.v2 \in Word /\ B.imm \in Word /\ C.alu \in Word /\ D.val \in Word
  BY ImmAssumption DEF PipeTypeOK, StageB, StageC, StageD
<1>2. \A sel, v : v \in Word => Forwarded(sel, v) \in Word
  BY <1>1 DEF Forwarded
<1>3. FAmuxResult \in Word /\ FBmuxResult \in Word
  BY <1>1, <1>2 DEF FAmuxResult, FBmuxResult
<1>4. SrcB \in Word
  BY <1>1, <1>3 DEF SrcB
<1>5. AluResult \in Word
  BY <1>1, <1>3, <1>4, AluType DEF AluResult
<1>6. B.pc \in Int /\ pc \in Int /\ PcSize \in Nat \ {0}
  BY ZeroTypes DEF PipeTypeOK, StageB, FetchPc
<1>7. Word \subseteq Int
  BY WordSizeType DEF Word
<1>8. Wrap(B.pc + B.imm) \in Word
  <2>1. B.imm \in Int
    BY <1>1, <1>7
  <2>2. B.pc + B.imm \in Int
    BY <1>6, <2>1
  <2> QED BY <2>2, WrapType
<1>9. BrPC \in Int
  BY <1>5, <1>7, <1>8 DEF BrPC
<1>10. \A n \in Int : n % PcSize \in FetchPc
  BY <1>6 DEF FetchPc
<1> QED BY <1>3, <1>4, <1>5, <1>6, <1>9, <1>10 DEF NextPc

\* What the memory stage reads is a word, what it writes are lanes.
LEMMA MemoryTypes ==
    ASSUME PipeTypeOK
    PROVE  /\ DmAddr \in 0 .. DmSize - 1
           /\ ReadData(DmAddr) \in Word
           /\ WrittenMem \in [0 .. DmSize - 1 -> Lane]
<1>1. DmSize \in Nat \ {0} /\ DmSize % 4 = 0
  BY ZeroTypes, DmSizeAssumption
<1>2. C.alu \in Nat /\ C.v2 \in Word
  BY WordSizeType DEF PipeTypeOK, StageC, Word
<1>3. DmAddr \in 0 .. DmSize - 1
  BY <1>1, <1>2 DEF DmAddr
<1>4. ASSUME NEW a \in 0 .. DmSize - 1, NEW i \in 0 .. 3 PROVE BankRead(a, i) \in Lane
  <2>1. CASE (a + i) % 4 = i
    <3>1. a % 4 = 0 /\ a \in Nat
      BY <1>1, <2>1
    <3>2. a + i \in 0 .. DmSize - 1
      BY <1>1, <3>1
    <3> QED BY <2>1, <3>2 DEF BankRead, PipeTypeOK
  <2>2. CASE (a + i) % 4 # i
    BY <2>2, ZeroTypes DEF BankRead
  <2> QED BY <2>1, <2>2
<1>5. ReadData(DmAddr) \in Word
  BY <1>3, <1>4, WordOfType DEF ReadData
<1>6. ASSUME NEW x \in 0 .. DmSize - 1 PROVE LaneOf(C.v2, x % 4) \in Lane /\ dmem[x] \in Lane
  BY <1>1, <1>2, LaneOfType DEF PipeTypeOK
<1>7. WrittenMem \in [0 .. DmSize - 1 -> Lane]
  BY <1>6 DEF WrittenMem, PipeTypeOK
<1> QED BY <1>3, <1>5, <1>7

\* An instruction's fields, and those of the zero word.
LEMMA InstrTypes ==
    ASSUME NEW i \in InstrOrNone
    PROVE  /\ i.op \in Op \cup {"NONE"} /\ i.rd \in Reg /\ i.rs1 \in Reg
           /\ i.rs2 \in Reg /\ i.imm \in Imm
  BY ZeroTypes DEF InstrOrNone, Instr, NoInstr

\* The bubbles have the types of their stages.
LEMMA BubbleTypes ==
    /\ BubbleA \in [pc : FetchPc, instr : InstrOrNone]
    /\ BubbleB \in StageB /\ BubbleC \in StageC /\ BubbleD \in StageD
  BY ZeroTypes
  DEF BubbleA, BubbleB, BubbleC, BubbleD, StageB, StageC, StageD, InstrOrNone

\* The pipeline comes out of reset well typed.
LEMMA PipeInitType == PipeInit => PipeTypeOK
<1> SUFFICES ASSUME PipeInit PROVE PipeTypeOK
  OBVIOUS
<1>1. pc \in FetchPc
  BY ZeroTypes DEF PipeInit, FetchPc
<1>2. A \in [pc : FetchPc, instr : InstrOrNone]
  BY ZeroTypes, FetchableAssumption DEF PipeInit, InstrOrNone
<1>3. B \in StageB /\ C \in StageC /\ D \in StageD
  BY BubbleTypes DEF PipeInit
<1>4. rf \in [Reg -> Word] /\ dmem \in [0 .. DmSize - 1 -> Lane]
  BY ZeroTypes DEF PipeInit
<1>5. held \in 0 .. ResetCycles /\ resets \in 0 .. MaxResets
  <2>1. held = 0 /\ resets = 0
    BY DEF PipeInit
  <2> QED BY <2>1, ResetAssumption
<1>6. reset \in BOOLEAN
  BY DEF PipeInit
<1> QED BY <1>1, <1>2, <1>3, <1>4, <1>5, <1>6 DEF PipeInit, PipeTypeOK

\* The falling edge keeps the pipeline well typed.
LEMMA FallingEdgeType ==
    ASSUME PipeTypeOK, NEW r \in BOOLEAN, FallingEdge(r)
    PROVE  PipeTypeOK'
<1>1. rf' \in [Reg -> Word]
  <2>1. D.rd \in Reg /\ D.val \in Word
    BY DEF PipeTypeOK, StageD
  <2> QED BY <2>1, ZeroTypes DEF FallingEdge, WriteRegisterFile, PipeTypeOK
<1>2. dmem' \in [0 .. DmSize - 1 -> Lane]
  BY MemoryTypes DEF FallingEdge, PipeTypeOK
<1>3. pc' \in FetchPc
  BY ZeroTypes DEF FallingEdge, PipeTypeOK
<1>4. held' \in 0 .. ResetCycles
  BY ResetAssumption DEF FallingEdge, PipeTypeOK
<1>5. resets' \in 0 .. MaxResets
  BY ResetAssumption DEF FallingEdge, MayDriveReset, PipeTypeOK
<1>6. UNCHANGED <<A, B, C, D>> /\ phase' = "rise" /\ reset' \in BOOLEAN
  BY DEF FallingEdge
<1> QED BY <1>1, <1>2, <1>3, <1>4, <1>5, <1>6 DEF PipeTypeOK

\* The rising edge keeps the pipeline well typed.
LEMMA RisingEdgeType ==
    ASSUME PipeTypeOK, NEW i \in InstrOrNone, RisingEdge(i),
           reset => held < ResetCycles
    PROVE  PipeTypeOK'
<1>1. A' \in [pc : FetchPc, instr : InstrOrNone]
  BY BubbleTypes DEF RisingEdge, LatchA, PipeTypeOK
<1>2. B' \in StageB
  <2>1. /\ A.pc \in FetchPc /\ A.instr \in InstrOrNone
    BY DEF PipeTypeOK
  <2>2. rf[A.instr.rs1] \in Word /\ rf[A.instr.rs2] \in Word
    BY <2>1, InstrTypes DEF PipeTypeOK
  <2> QED BY <2>1, <2>2, InstrTypes, BubbleTypes DEF RisingEdge, LatchB, StageB
<1>3. C' \in StageC
  <2>1. /\ B.op \in Op \cup {"NONE"} /\ B.rd \in Reg /\ B.imm \in Word
        /\ B.pc \in Int /\ B.imm \in Int
    <3>1. /\ B.op \in Op \cup {"NONE"} /\ B.rd \in Reg /\ B.imm \in Word
          /\ B.pc \in FetchPc
      BY ImmAssumption DEF PipeTypeOK, StageB
    <3> QED BY <3>1, IntTypes
  <2>2. Wrap(B.pc + 4) \in Word /\ Wrap(B.pc + B.imm) \in Word
    <3>1. B.pc + 4 \in Int /\ B.pc + B.imm \in Int
      BY <2>1
    <3> QED BY <3>1, WrapType
  <2>3. AluResult \in Word /\ FBmuxResult \in Word
    BY DatapathTypes
  <2> DEFINE res == CASE LinkSel(B.op)  -> Wrap(B.pc + 4)
                      [] ImmSel(B.op)   -> B.imm
                      [] PcImmSel(B.op) -> Wrap(B.pc + B.imm)
                      [] OTHER          -> AluResult
  <2>4. res \in Word
    BY <2>1, <2>2, <2>3
  <2>5. C' = IF reset THEN BubbleC
             ELSE [op |-> B.op, rd |-> B.rd, alu |-> AluResult,
                   v2 |-> FBmuxResult, res |-> res]
    BY DEF RisingEdge, LatchC
  <2> HIDE DEF res
  <2> QED BY <2>1, <2>3, <2>4, <2>5, BubbleTypes DEF StageC
<1>4. D' \in StageD
  <2>1. C.op \in Op \cup {"NONE"} /\ C.rd \in Reg /\ C.res \in Word
    BY DEF PipeTypeOK, StageC
  <2>2. ReadData(DmAddr) \in Word
    BY MemoryTypes
  <2> QED BY <2>1, <2>2, BubbleTypes DEF RisingEdge, LatchD, StageD
<1>5. pc' \in FetchPc
  BY DatapathTypes, ZeroTypes DEF RisingEdge, PipeTypeOK
<1>6. held' \in 0 .. ResetCycles
  BY ResetAssumption DEF RisingEdge, PipeTypeOK
<1>7. UNCHANGED <<rf, dmem, reset, resets>> /\ phase' = "fall"
  BY DEF RisingEdge
<1> QED BY <1>1, <1>2, <1>3, <1>4, <1>5, <1>6, <1>7 DEF PipeTypeOK

-----------------------------------------------------------------------------
(* Facts about decoding.                                                    *)

\* The zero word and a bubble write nothing, store nothing, load nothing and
\* redirect nothing; what writes, stores, loads or redirects is an instruction.
LEMMA DecodeFacts ==
    /\ ~RegWrite("NONE") /\ ~MemWrite("NONE") /\ ~MemRead("NONE")
    /\ ~JalrSel("NONE") /\ ~Branch("NONE")
    /\ \A op : MemRead(op) => ~JalrSel(op) /\ ~Branch(op)
  BY DEF RegWrite, MemWrite, MemRead, JalrSel, Branch, BranchOps

\* No operation is called NONE, so an instruction differs from the zero word.
LEMMA InstrIsNotNone ==
    \A i \in InstrOrNone : i # NoInstr <=> i.op # "NONE"
<1> SUFFICES ASSUME NEW i \in InstrOrNone PROVE i # NoInstr <=> i.op # "NONE"
  OBVIOUS
<1>1. "NONE" \notin Op
  BY DEF Op, BranchOps
<1>2. NoInstr.op = "NONE"
  BY DEF NoInstr
<1>3. CASE i \in Instr
  <2>1. i.op \in Op
    BY <1>3 DEF Instr
  <2> QED BY <1>1, <1>2, <2>1
<1>4. CASE i = NoInstr
  BY <1>2, <1>4
<1> QED BY <1>3, <1>4 DEF InstrOrNone

\* The combinational outputs depend on the four stages only, so they are stable
\* over the falling edge.
LEMMA StableWires ==
    ASSUME UNCHANGED <<A, B, C, D>>
    PROVE  PcSel' = PcSel /\ RegStall' = RegStall
<1>1. ForwardA' = ForwardA /\ ForwardB' = ForwardB
  BY DEF ForwardA, ForwardB, FwdSel
<1>3. FAmuxResult' = FAmuxResult /\ FBmuxResult' = FBmuxResult
  BY <1>1 DEF FAmuxResult, FBmuxResult, Forwarded
<1>4. SrcB' = SrcB
  BY <1>3 DEF SrcB
<1>5. AluResult' = AluResult
  BY <1>3, <1>4 DEF AluResult
<1> QED BY <1>5 DEF PcSel, RegStall

\* A redirect and a stall exclude each other: a load is neither jump nor branch.
LEMMA RedirectExcludesStall == ~(PcSel /\ RegStall)
  BY DecodeFacts DEF PcSel, RegStall

\* A bubble in B neither redirects nor stalls.
LEMMA BubbleIsInert == B.op = "NONE" => ~PcSel /\ ~RegStall
  BY DecodeFacts DEF PcSel, RegStall

-----------------------------------------------------------------------------
(* The initial states.                                                      *)

\* Adapter and monitor start well typed.
LEMMA InitType == TrackInit => TrackTypeOK
<1> SUFFICES ASSUME TrackInit PROVE TrackTypeOK
  OBVIOUS
<1>1. PipeTypeOK
  BY PipeInitType DEF TrackInit
<1>2. NoPending \in [pc : FetchPc, instr : InstrOrNone, stalls : Nat]
      /\ NoIdentity \in [pc : FetchPc, instr : InstrOrNone]
      /\ NoTag \in Tag
  BY ZeroTypes DEF NoPending, NoIdentity, NoTag, Tag, InstrOrNone
<1>3. NoEvent \in [id : Nat, cycle : Nat, pc : FetchPc, instr : InstrOrNone,
                   stalls : Nat, fa : Sel, fb : Sel]
  BY ZeroTypes DEF NoEvent, InstrOrNone, Sel
<1>4. NoRetire \in [tag : Tag, regwrite : BOOLEAN, rd : Reg, wdata : Word]
  BY <1>2, ZeroTypes DEF NoRetire
<1> QED BY <1>1, <1>2, <1>3, <1>4, ZeroTypes DEF TrackInit, TrackTypeOK

\* Nothing is in flight initially.
LEMMA InitInv == TrackInit => TrackInv
<1> SUFFICES ASSUME TrackInit PROVE TrackInv
  OBVIOUS
<1>1. /\ B = BubbleB /\ C = BubbleC /\ D = BubbleD /\ reset = FALSE /\ held = 0
      /\ A \in [pc : {0}, instr : Fetchable] /\ pc = 4 % PcSize /\ phase = "fall"
      /\ bTag = NoTag /\ cTag = NoTag /\ dTag = NoTag /\ retired = NoRetire
      /\ pending = NoPending /\ stallCount = 0 /\ protocolError = FALSE
      /\ index = 0 /\ lastRetired = 0 /\ resume = 0 /\ cycle = 1
  BY DEF TrackInit, PipeInit
<1>2. StageIdentity
  BY <1>1 DEF StageIdentity, Live, NoTag, NoInstr, BubbleB, BubbleC, BubbleD
<1>3. MonitorAccepts /\ ProgramOrder
  BY <1>1 DEF MonitorAccepts, ProgramOrder, Live, Count
<1>4. SingleStall /\ StallHistory
  BY <1>1 DEF SingleStall, StallHistory, NoPending
<1>5. ResetForgets /\ ResetProgress
  BY <1>1 DEF ResetForgets, ResetProgress
<1>6. TagAges
  BY <1>1 DEF TagAges, Live, NoRetire
<1>7. EdgeOrder
  BY <1>1 DEF EdgeOrder
<1>8. FetchContinues
  <2>1. A.pc = 0 /\ Successor = 0
    BY <1>1 DEF Successor, Live
  <2>2. A.instr \in Instr /\ A.instr # NoInstr
    <3>1. A.instr \in Instr
      BY <1>1, FetchableAssumption
    <3>2. A.instr.op \in Op /\ "NONE" \notin Op
      BY <3>1 DEF Instr, Op, BranchOps
    <3> QED BY <3>1, <3>2 DEF NoInstr
  <2>3. pc = (A.pc + 4) % PcSize
    BY <1>1, <2>1
  <2> QED BY <2>1, <2>2, <2>3 DEF FetchContinues
<1> QED BY <1>2, <1>3, <1>4, <1>5, <1>6, <1>7, <1>8 DEF TrackInv

-----------------------------------------------------------------------------
(* The falling edge.                                                        *)

\* The falling edge keeps adapter and monitor well typed.
LEMMA FallingType ==
    ASSUME TrackTypeOK, NEW r \in BOOLEAN, TrackFallingEdge(r)
    PROVE  TrackTypeOK'
<1>1. PipeTypeOK /\ FallingEdge(r)
  BY DEF TrackTypeOK, TrackFallingEdge
<1>2. PipeTypeOK'
  BY <1>1, FallingEdgeType
<1>3. /\ NoTag \in Tag /\ NoRetire \in [tag : Tag, regwrite : BOOLEAN, rd : Reg, wdata : Word]
      /\ NoPending \in [pc : FetchPc, instr : InstrOrNone, stalls : Nat]
      /\ NoIdentity \in [pc : FetchPc, instr : InstrOrNone]
  BY ZeroTypes DEF NoPending, NoIdentity, NoTag, NoRetire, Tag, InstrOrNone
<1>4. /\ dTag' \in Tag /\ lastRetired' \in Nat /\ protocolError' \in BOOLEAN
      /\ retired' \in [tag : Tag, regwrite : BOOLEAN, rd : Reg, wdata : Word]
  <2>1. RegWrite(D.op) \in BOOLEAN /\ D.rd \in Reg /\ D.val \in Word
    BY <1>1 DEF PipeTypeOK, StageD, RegWrite
  <2>2. dTag \in Tag /\ dTag.id \in Nat /\ lastRetired \in Nat
    BY DEF TrackTypeOK, Tag
  <2>3. ObserveFallingEdge
    BY DEF TrackFallingEdge
  <2>4. protocolError' \in BOOLEAN
    BY <2>1, <2>3 DEF ObserveFallingEdge
  <2>5. dTag' \in Tag
    BY <1>3, <2>2, <2>3 DEF ObserveFallingEdge
  <2>6. lastRetired' \in Nat
    BY <2>2, <2>3 DEF ObserveFallingEdge
  <2>7. [tag |-> dTag, regwrite |-> RegWrite(D.op), rd |-> D.rd, wdata |-> D.val]
          \in [tag : Tag, regwrite : BOOLEAN, rd : Reg, wdata : Word]
    BY <2>1, <2>2
  <2>8. retired' \in [tag : Tag, regwrite : BOOLEAN, rd : Reg, wdata : Word]
    BY <1>3, <2>3, <2>7 DEF ObserveFallingEdge
  <2> QED BY <2>4, <2>5, <2>6, <2>8
<1>5. /\ pending' \in [pc : FetchPc, instr : InstrOrNone, stalls : Nat]
      /\ stalledId' \in [pc : FetchPc, instr : InstrOrNone] /\ stallCount' \in Nat
  <2>1. /\ A \in [pc : FetchPc, instr : InstrOrNone]
        /\ stalledId \in [pc : FetchPc, instr : InstrOrNone] /\ stallCount \in Nat
    BY <1>1 DEF TrackTypeOK, PipeTypeOK
  <2>2. ObservePreEdge
    BY DEF TrackFallingEdge
  <2> QED BY <1>3, <2>1, <2>2 DEF ObservePreEdge, ClearStallHistory
<1>6. UNCHANGED <<cycle, index, event, bTag, cTag, resume>>
  BY DEF TrackFallingEdge
<1> QED BY <1>2, <1>4, <1>5, <1>6 DEF TrackTypeOK

\* What the falling edge leaves alone.
LEMMA FallingKeeps ==
    ASSUME NEW r \in BOOLEAN, TrackFallingEdge(r)
    PROVE  /\ phase = "fall" /\ phase' = "rise"
           /\ UNCHANGED <<A, B, C, D, cycle, index, event, bTag, cTag, resume>>
           /\ PcSel' = PcSel /\ RegStall' = RegStall
           /\ ObserveFallingEdge /\ ObservePreEdge /\ FallingEdge(r)
           /\ ~protocolError
<1>1. phase = "fall" /\ phase' = "rise" /\ UNCHANGED <<A, B, C, D>>
  BY DEF TrackFallingEdge, FallingEdge
<1> QED BY <1>1, StableWires DEF TrackFallingEdge

\* Nothing that reaches D is unknown to the monitor, so it never raises.
LEMMA FallingRetires ==
    ASSUME TrackTypeOK, TrackInv, NEW r \in BOOLEAN, TrackFallingEdge(r)
    PROVE  /\ ~protocolError'
           /\ dTag' = NoTag
           /\ IF Live(dTag)
              THEN /\ lastRetired' = lastRetired + 1 /\ dTag.id = lastRetired + 1
                   /\ retired' = [tag |-> dTag, regwrite |-> RegWrite(D.op),
                                  rd |-> D.rd, wdata |-> D.val]
              ELSE /\ lastRetired' = lastRetired /\ retired' = NoRetire
                   /\ D.op = "NONE"
<1>1. phase = "fall" /\ ObserveFallingEdge
  BY FallingKeeps
<1>2. StageIdentity /\ ProgramOrder
  BY DEF TrackInv
<1>3. CASE Live(dTag)
  <2>1. dTag.id = lastRetired + 1
    BY <1>2, <1>3 DEF ProgramOrder
  <2> QED BY <1>1, <1>3, <2>1 DEF ObserveFallingEdge, Live
<1>4. CASE ~Live(dTag)
  <2>1. D.op = "NONE"
    BY <1>1, <1>2, <1>4 DEF StageIdentity, Live, NoTag, NoInstr
  <2> QED BY <1>1, <1>4, <2>1, DecodeFacts DEF ObserveFallingEdge, Live
<1> QED BY <1>3, <1>4

\* The falling edge preserves the invariant.
LEMMA FallingInv ==
    ASSUME TrackTypeOK, TrackInv, NEW r \in BOOLEAN, TrackFallingEdge(r)
    PROVE  TrackInv'
<1>1. /\ phase = "fall" /\ phase' = "rise"
      /\ UNCHANGED <<A, B, C, D, cycle, index, event, bTag, cTag, resume>>
      /\ PcSel' = PcSel /\ RegStall' = RegStall
      /\ ObservePreEdge /\ FallingEdge(r)
  BY FallingKeeps
<1>2. /\ StageIdentity /\ MonitorAccepts /\ ProgramOrder /\ SingleStall /\ ResetForgets
      /\ TagAges /\ EdgeOrder /\ StallHistory /\ FetchContinues /\ ResetProgress
  BY DEF TrackInv
<1>3. /\ ~protocolError' /\ dTag' = NoTag
      /\ Live(dTag) => /\ lastRetired' = lastRetired + 1
                       /\ retired'.tag = dTag
      /\ ~Live(dTag) => lastRetired' = lastRetired /\ retired' = NoRetire
  BY FallingRetires
<1>4. /\ lastRetired \in Nat /\ index \in Nat /\ cycle \in Nat /\ held \in Nat
      /\ reset \in BOOLEAN /\ bTag.id \in Nat /\ cTag.id \in Nat /\ stallCount \in Nat
  BY ResetAssumption DEF TrackTypeOK, PipeTypeOK, Tag
<1>5. StageIdentity'
  BY <1>1, <1>2, <1>3 DEF StageIdentity, Live
<1>6. MonitorAccepts'
  BY <1>3 DEF MonitorAccepts
<1>7. ProgramOrder'
  <2>1. Count(dTag)' = 0 /\ Count(cTag)' = Count(cTag) /\ Count(bTag)' = Count(bTag)
    BY <1>1, <1>3 DEF Count, Live
  <2>2. lastRetired' = lastRetired + Count(dTag)
    BY <1>3, <1>4 DEF Count
  <2>3. Count(cTag) \in Nat /\ Count(dTag) \in Nat /\ Count(bTag) \in Nat
    BY DEF Count
  <2>4. ~Live(dTag)' /\ (Live(cTag)' <=> Live(cTag)) /\ (Live(bTag)' <=> Live(bTag))
    BY <1>1, <1>3 DEF Live
  <2> QED BY <1>1, <1>2, <1>4, <2>1, <2>2, <2>3, <2>4 DEF ProgramOrder
<1>8. TagAges'
  BY <1>1, <1>2, <1>3 DEF TagAges, Live, NoRetire
<1>9. ResetProgress' /\ ResetForgets'
  <2>1. MayDriveReset(r) /\ reset' = r /\ held' = (IF r THEN held ELSE 0)
        /\ pc' = (IF r THEN 0 ELSE pc)
    BY <1>1 DEF FallingEdge
  <2>2. ResetProgress'
    BY <1>1, <1>2, <1>4, <2>1, ResetAssumption DEF ResetProgress, MayDriveReset
  <2>3. ASSUME reset', held' > 0 PROVE reset /\ held > 0
    BY <1>1, <1>2, <1>4, <2>1, <2>3 DEF ResetProgress
  <2>4. ResetForgets'
    <3> SUFFICES ASSUME reset', held' > 0
                 PROVE  /\ ~Live(bTag)' /\ ~Live(cTag)' /\ ~Live(dTag)'
                        /\ B' = BubbleB /\ C' = BubbleC /\ D' = BubbleD
                        /\ pc' = 0 /\ index' = 0 /\ lastRetired' = 0
      BY DEF ResetForgets
    <3>1. /\ ~Live(bTag) /\ ~Live(cTag) /\ ~Live(dTag)
          /\ B = BubbleB /\ C = BubbleC /\ D = BubbleD
          /\ index = 0 /\ lastRetired = 0
      BY <1>2, <2>3 DEF ResetForgets
    <3>2. pc' = 0
      BY <2>1
    <3> QED BY <1>1, <1>3, <3>1, <3>2 DEF Live
  <2> QED BY <2>2, <2>4
<1>10. EdgeOrder'
  <2>1. Accepts' <=> ~reset' /\ ~PcSel /\ ~RegStall /\ A.instr # NoInstr
    BY <1>1 DEF Accepts
  <2>2. IF ~reset' /\ ~PcSel /\ ~RegStall /\ A.instr # NoInstr
        THEN pending'.pc = A.pc /\ pending'.instr = A.instr
        ELSE pending' = NoPending
    BY <1>1 DEF ObservePreEdge
  <2> QED BY <1>1, <1>3, <2>1, <2>2 DEF EdgeOrder
<1>11. SingleStall' /\ StallHistory'
  <2>1. CASE reset' \/ PcSel \/ A.instr = NoInstr
    <3>1. stallCount' = 0 /\ pending' = NoPending
      BY <1>1, <2>1 DEF ObservePreEdge, ClearStallHistory
    <3> QED BY <3>1 DEF SingleStall, StallHistory, NoPending
  <2>2. CASE ~(reset' \/ PcSel \/ A.instr = NoInstr) /\ RegStall
    <3>1. stallCount = 0
      <4>1. MemRead(B.op)
        BY <2>2 DEF RegStall
      <4> QED BY <1>1, <1>2, <4>1, DecodeFacts DEF StallHistory, BubbleB
    <3>2. stallCount' = 1 /\ stalledId' = A /\ pending' = NoPending
      BY <1>1, <2>2, <3>1 DEF ObservePreEdge
    <3> QED BY <1>1, <2>2, <3>2 DEF SingleStall, StallHistory, NoPending
  <2>3. CASE ~(reset' \/ PcSel \/ A.instr = NoInstr) /\ ~RegStall
    <3>1. /\ stallCount' = 0
          /\ pending' = [pc |-> A.pc, instr |-> A.instr,
                         stalls |-> IF stalledId = A THEN stallCount ELSE 0]
      BY <1>1, <2>3 DEF ObservePreEdge, ClearStallHistory
    <3>2. pending'.instr = A.instr /\ pending'.stalls # 0 =>
             stallCount # 0 /\ pending'.stalls = stallCount
      BY <3>1
    <3> QED BY <1>1, <1>2, <3>1, <3>2 DEF SingleStall, StallHistory, Live
  <2> QED BY <2>1, <2>2, <2>3
<1>12. FetchContinues'
  <2>1. Successor' = Successor
    BY <1>1 DEF Successor, Live
  <2> SUFFICES ASSUME ~reset', ~PcSel
               PROVE  /\ A.instr # NoInstr => A.pc = Successor /\ pc' = (A.pc + 4) % PcSize
                      /\ A.instr = NoInstr /\ cycle <= ProgramCycles => pc' = Successor
    BY <1>1, <2>1 DEF FetchContinues
  <2>2. pc' = pc /\ MayDriveReset(FALSE)
    BY <1>1 DEF FallingEdge
  <2>3. CASE ~reset
    BY <1>2, <2>2, <2>3 DEF FetchContinues
  <2>4. CASE reset
    <3>1. held > 0
      BY <1>1, <1>2, <2>4 DEF ResetProgress
    <3>2. A = BubbleA /\ resume = 0 /\ ~Live(bTag) /\ pc = 0
      BY <1>2, <2>4, <3>1 DEF ResetProgress, ResetForgets
    <3> QED BY <2>2, <3>2 DEF BubbleA, Successor
  <2> QED BY <2>3, <2>4
<1> QED BY <1>5, <1>6, <1>7, <1>8, <1>9, <1>10, <1>11, <1>12 DEF TrackInv

-----------------------------------------------------------------------------
(* The rising edge.                                                         *)

\* The rising edge keeps adapter and monitor well typed.
LEMMA RisingType ==
    ASSUME TrackTypeOK, TrackInv, NEW i \in Fetchable \cup {NoInstr}, TrackRisingEdge(i)
    PROVE  TrackTypeOK'
<1>1. PipeTypeOK /\ RisingEdge(i) /\ phase = "rise"
  BY DEF TrackTypeOK, TrackRisingEdge, RisingEdge
<1>2. PipeTypeOK'
  <2>1. i \in InstrOrNone
    BY FetchableAssumption DEF InstrOrNone
  <2>2. reset => held < ResetCycles
    BY <1>1 DEF TrackInv, ResetProgress
  <2> QED BY <1>1, <2>1, <2>2, RisingEdgeType
<1>3. /\ NoTag \in Tag /\ NoRetire \in [tag : Tag, regwrite : BOOLEAN, rd : Reg, wdata : Word]
      /\ NoPending \in [pc : FetchPc, instr : InstrOrNone, stalls : Nat]
      /\ NoIdentity \in [pc : FetchPc, instr : InstrOrNone]
      /\ NoEvent \in [id : Nat, cycle : Nat, pc : FetchPc, instr : InstrOrNone,
                      stalls : Nat, fa : Sel, fb : Sel]
  BY ZeroTypes DEF NoPending, NoIdentity, NoTag, NoRetire, NoEvent, Tag, InstrOrNone, Sel
<1>4. cycle' \in Nat
  BY DEF TrackTypeOK, TrackRisingEdge
<1>5. /\ pending' = NoPending /\ retired' = NoRetire /\ protocolError' = protocolError
      /\ stalledId' \in [pc : FetchPc, instr : InstrOrNone] /\ stallCount' \in Nat
      /\ lastRetired' \in Nat
  BY <1>3 DEF TrackTypeOK, TrackRisingEdge, ResetTrackers
<1>6. /\ index' \in Nat
      /\ event' \in [id : Nat, cycle : Nat, pc : FetchPc, instr : InstrOrNone,
                     stalls : Nat, fa : Sel, fb : Sel]
  <2>1. CASE reset
    BY <1>3, <2>1 DEF TrackRisingEdge, ResetTrackers
  <2>2. CASE ~reset
    <3>1. FinalizePostEdge
      BY <2>2 DEF TrackRisingEdge
    <3>2. ForwardA' \in Sel /\ ForwardB' \in Sel
      BY DEF ForwardA, ForwardB, FwdSel, Sel
    <3>3. index \in Nat /\ index + 1 \in Nat /\ cycle \in Nat
      BY DEF TrackTypeOK
    <3>4. pending.pc \in FetchPc /\ pending.instr \in InstrOrNone /\ pending.stalls \in Nat
      BY DEF TrackTypeOK
    <3> QED BY <1>3, <3>1, <3>2, <3>3, <3>4 DEF FinalizePostEdge
  <2> QED BY <2>1, <2>2
<1>7. bTag' \in Tag /\ cTag' \in Tag /\ dTag' \in Tag
  <2>1. bTag \in Tag /\ cTag \in Tag
    BY DEF TrackTypeOK
  <2>2. TagOf(event') \in Tag
    BY <1>6 DEF TagOf, Tag
  <2> QED BY <1>3, <2>1, <2>2 DEF TrackRisingEdge, ResetTrackers, AdvancePipeline
<1>8. resume' \in FetchPc
  <2>1. Resolve /\ resume \in FetchPc
    BY DEF TrackRisingEdge, TrackTypeOK
  <2> QED BY <1>1, <2>1, ZeroTypes, DatapathTypes DEF Resolve
<1> QED BY <1>2, <1>3, <1>4, <1>5, <1>6, <1>7, <1>8 DEF TrackTypeOK

\* A reset-active rising edge empties everything at once.
LEMMA ResetRisingInv ==
    ASSUME TrackTypeOK, TrackInv, NEW i \in Fetchable \cup {NoInstr}, TrackRisingEdge(i),
           reset
    PROVE  TrackInv'
<1>1. /\ phase = "rise" /\ phase' = "fall" /\ reset' = reset
      /\ A' = BubbleA /\ B' = BubbleB /\ C' = BubbleC /\ D' = BubbleD
      /\ pc' = 0 /\ held' = held + 1
      /\ index' = 0 /\ lastRetired' = 0 /\ event' = NoEvent
      /\ bTag' = NoTag /\ cTag' = NoTag /\ dTag' = NoTag
      /\ stallCount' = 0 /\ pending' = NoPending /\ retired' = NoRetire /\ resume' = 0
      /\ ~protocolError'
  BY DEF TrackRisingEdge, RisingEdge, LatchA, LatchB, LatchC, LatchD, ResetTrackers, Resolve
<1>2. held' > 0
  BY <1>1, ResetAssumption DEF TrackTypeOK, PipeTypeOK
<1>3. StageIdentity'
  BY <1>1 DEF StageIdentity, Live, NoTag, NoInstr, BubbleB, BubbleC, BubbleD
<1>4. MonitorAccepts' /\ ProgramOrder'
  BY <1>1 DEF MonitorAccepts, ProgramOrder, Live, Count
<1>5. SingleStall' /\ StallHistory'
  BY <1>1 DEF SingleStall, StallHistory, NoPending
<1>6. ResetForgets' /\ ResetProgress'
  BY <1>1, <1>2 DEF ResetForgets, ResetProgress, Live
<1>7. TagAges'
  BY <1>1 DEF TagAges, Live, NoRetire
<1>8. EdgeOrder' /\ FetchContinues'
  BY <1>1 DEF EdgeOrder, FetchContinues
<1> QED BY <1>3, <1>4, <1>5, <1>6, <1>7, <1>8 DEF TrackInv

\* What a rising edge outside reset does to the stages and to the trackers, in
\* its two cases: the instruction in A enters B, or B gets a bubble.
LEMMA RisingEffect ==
    ASSUME TrackTypeOK, TrackInv, NEW i \in Fetchable \cup {NoInstr}, TrackRisingEdge(i),
           ~reset
    PROVE  /\ phase = "rise" /\ phase' = "fall" /\ ~reset' /\ held' = 0
           /\ cycle' = cycle + 1 /\ pending' = NoPending /\ retired' = NoRetire
           /\ ~protocolError' /\ UNCHANGED <<lastRetired, stalledId, stallCount>>
           /\ C'.op = B.op /\ C'.rd = B.rd /\ D'.op = C.op /\ D'.rd = C.rd
           /\ dTag' = cTag /\ cTag' = bTag /\ dTag = NoTag
           /\ IF Accepts
              THEN /\ index' = index + 1
                   /\ bTag' = [id |-> index + 1, cycle |-> cycle,
                               pc |-> A.pc, instr |-> A.instr]
                   /\ Live(bTag)'
              ELSE index' = index /\ bTag' = NoTag
           /\ IF PcSel \/ RegStall THEN B' = BubbleB
              ELSE B' = [op |-> A.instr.op, rd |-> A.instr.rd,
                         rs1 |-> A.instr.rs1, rs2 |-> A.instr.rs2,
                         imm |-> A.instr.imm, pc |-> A.pc,
                         v1 |-> rf[A.instr.rs1], v2 |-> rf[A.instr.rs2]]
<1>1. /\ phase = "rise" /\ phase' = "fall" /\ reset' = reset
      /\ cycle' = cycle + 1 /\ pending' = NoPending /\ retired' = NoRetire
      /\ ~protocolError' /\ UNCHANGED <<lastRetired, stalledId, stallCount>>
      /\ FinalizePostEdge /\ AdvancePipeline /\ held' = held
  BY DEF TrackRisingEdge, RisingEdge
<1>2. C'.op = B.op /\ C'.rd = B.rd /\ D'.op = C.op /\ D'.rd = C.rd
  <2>1. \E a, v, w : C' = [op |-> B.op, rd |-> B.rd, alu |-> a, v2 |-> v, res |-> w]
    BY DEF TrackRisingEdge, RisingEdge, LatchC
  <2>2. \E v : D' = [op |-> C.op, rd |-> C.rd, val |-> v]
    BY DEF TrackRisingEdge, RisingEdge, LatchD
  <2> QED BY <2>1, <2>2
<1>3. held = 0 /\ dTag = NoTag
  BY <1>1 DEF TrackInv, ResetProgress, EdgeOrder
<1>4. IF PcSel \/ RegStall THEN B' = BubbleB
      ELSE B' = [op |-> A.instr.op, rd |-> A.instr.rd,
                 rs1 |-> A.instr.rs1, rs2 |-> A.instr.rs2,
                 imm |-> A.instr.imm, pc |-> A.pc,
                 v1 |-> rf[A.instr.rs1], v2 |-> rf[A.instr.rs2]]
  BY DEF TrackRisingEdge, RisingEdge, LatchB
<1>5. dTag' = cTag /\ cTag' = bTag
  BY <1>1 DEF AdvancePipeline
<1>6. CASE Accepts
  <2>1. pending.pc = A.pc /\ pending.instr = A.instr /\ A.instr # NoInstr
    BY <1>1, <1>6 DEF TrackInv, EdgeOrder, Accepts
  <2>2. pending # NoPending
    BY <2>1 DEF NoPending
  <2>3. /\ index' = index + 1 /\ event'.id = index + 1 /\ event'.cycle = cycle
        /\ event'.pc = A.pc /\ event'.instr = A.instr
    BY <1>1, <2>1, <2>2 DEF FinalizePostEdge
  <2>4. index + 1 # 0
    BY DEF TrackTypeOK
  <2>5. event' # NoEvent
    BY <2>3, <2>4 DEF NoEvent
  <2>6. bTag' = [id |-> index + 1, cycle |-> cycle, pc |-> A.pc, instr |-> A.instr]
    BY <1>1, <2>3, <2>5 DEF AdvancePipeline, TagOf
  <2>7. Live(bTag)'
    BY <2>4, <2>6 DEF Live, NoTag
  <2> QED BY <1>1, <1>2, <1>3, <1>4, <1>5, <1>6, <2>3, <2>6, <2>7
<1>7. CASE ~Accepts
  <2>1. pending = NoPending
    BY <1>1, <1>7 DEF TrackInv, EdgeOrder
  <2>2. index' = index /\ bTag' = NoTag
    BY <1>1, <2>1 DEF FinalizePostEdge, AdvancePipeline
  <2> QED BY <1>1, <1>2, <1>3, <1>4, <1>5, <1>7, <2>2
<1> QED BY <1>6, <1>7

\* Outside reset, the parts that speak of identities, numbers and ages.
LEMMA RisingIdentity ==
    ASSUME TrackTypeOK, TrackInv, NEW i \in Fetchable \cup {NoInstr}, TrackRisingEdge(i),
           ~reset
    PROVE  StageIdentity' /\ ProgramOrder' /\ TagAges'
<1>1. /\ phase' = "fall" /\ cycle' = cycle + 1 /\ retired' = NoRetire
      /\ lastRetired' = lastRetired
      /\ C'.op = B.op /\ C'.rd = B.rd /\ D'.op = C.op /\ D'.rd = C.rd
      /\ dTag' = cTag /\ cTag' = bTag /\ dTag = NoTag
  BY RisingEffect
<1>2. StageIdentity /\ ProgramOrder /\ TagAges
  BY DEF TrackInv
<1>3. /\ cycle \in Nat /\ index \in Nat /\ lastRetired \in Nat
      /\ bTag.id \in Nat /\ cTag.id \in Nat /\ A.instr \in InstrOrNone
      /\ bTag.cycle \in Nat /\ cTag.cycle \in Nat
  BY DEF TrackTypeOK, PipeTypeOK, Tag
<1>4. /\ (Live(dTag)' <=> Live(cTag)) /\ (Live(cTag)' <=> Live(bTag)) /\ ~Live(dTag)
      /\ Count(dTag)' = Count(cTag) /\ Count(cTag)' = Count(bTag) /\ Count(dTag) = 0
      /\ Count(cTag) \in Nat /\ Count(bTag) \in Nat
  BY <1>1 DEF Live, Count
<1>5. CASE Accepts
  <2>1. /\ index' = index + 1 /\ Live(bTag)'
        /\ bTag' = [id |-> index + 1, cycle |-> cycle, pc |-> A.pc, instr |-> A.instr]
        /\ ~PcSel /\ ~RegStall
    BY <1>5, RisingEffect DEF Accepts
  <2>2. B' = [op |-> A.instr.op, rd |-> A.instr.rd,
              rs1 |-> A.instr.rs1, rs2 |-> A.instr.rs2,
              imm |-> A.instr.imm, pc |-> A.pc,
              v1 |-> rf[A.instr.rs1], v2 |-> rf[A.instr.rs2]]
    BY <2>1, RisingEffect
  <2>3. StageIdentity'
    <3>1. /\ B'.op = A.instr.op /\ B'.rd = A.instr.rd /\ B'.rs1 = A.instr.rs1
          /\ B'.rs2 = A.instr.rs2 /\ B'.imm = A.instr.imm /\ B'.pc = A.pc
          /\ bTag'.instr = A.instr /\ bTag'.pc = A.pc
      BY <2>1, <2>2
    <3> QED BY <1>1, <1>2, <1>4, <3>1 DEF StageIdentity
  <2>4. Count(bTag)' = 1 /\ bTag'.id = index + 1
    BY <2>1 DEF Count
  <2>5. ProgramOrder'
    BY <1>1, <1>2, <1>3, <1>4, <2>1, <2>4 DEF ProgramOrder
  <2>6. bTag'.id # 0 /\ bTag'.instr # NoInstr /\ bTag'.cycle = cycle' - 1
    BY <1>1, <1>3, <1>5, <2>1 DEF Accepts
  <2>7. TagAges'
    BY <1>1, <1>2, <1>3, <1>4, <2>6 DEF TagAges, NoRetire, Live
  <2> QED BY <2>3, <2>5, <2>7
<1>6. CASE ~Accepts
  <2>1. index' = index /\ bTag' = NoTag
    BY <1>6, RisingEffect
  <2>2. B'.op = "NONE"
    <3>1. CASE PcSel \/ RegStall
      BY <3>1, RisingEffect DEF BubbleB
    <3>2. CASE ~(PcSel \/ RegStall)
      <4>1. A.instr = NoInstr
        BY <1>6, <3>2 DEF Accepts
      <4>2. B'.op = A.instr.op
        BY <3>2, RisingEffect
      <4> QED BY <4>1, <4>2 DEF NoInstr
    <3> QED BY <3>1, <3>2
  <2>3. ~Live(bTag)' /\ Count(bTag)' = 0 /\ bTag'.instr.op = "NONE"
    BY <2>1 DEF Live, Count, NoTag, NoInstr
  <2>4. StageIdentity'
    BY <1>1, <1>2, <1>4, <2>2, <2>3 DEF StageIdentity
  <2>5. ProgramOrder'
    BY <1>1, <1>2, <1>3, <1>4, <2>1, <2>3 DEF ProgramOrder
  <2>6. TagAges'
    BY <1>1, <1>2, <1>3, <1>4, <2>3 DEF TagAges, NoRetire, Live
  <2> QED BY <2>4, <2>5, <2>6
<1> QED BY <1>5, <1>6

\* Outside reset, the parts that speak of the stall in progress.
LEMMA RisingStall ==
    ASSUME TrackTypeOK, TrackInv, NEW i \in Fetchable \cup {NoInstr}, TrackRisingEdge(i),
           ~reset
    PROVE  SingleStall' /\ StallHistory'
<1>1. /\ phase = "rise" /\ phase' = "fall" /\ pending' = NoPending
      /\ UNCHANGED <<stalledId, stallCount>> /\ C'.op = B.op /\ C'.rd = B.rd
  BY RisingEffect
<1>2. StallHistory /\ SingleStall
  BY DEF TrackInv
<1>3. SingleStall'
  BY <1>1, <1>2 DEF SingleStall, NoPending
<1>4. StallHistory'
  <2> SUFFICES ASSUME stallCount # 0
               PROVE  /\ stallCount = 1 /\ stalledId = A' /\ B' = BubbleB /\ ~Live(bTag)'
                      /\ MemRead(B.op) /\ B.rd \in {A'.instr.rs1, A'.instr.rs2}
    BY <1>1 DEF StallHistory
  <2>1. stallCount = 1 /\ stalledId = A /\ RegStall /\ ~PcSel
    BY <1>1, <1>2 DEF StallHistory
  <2>2. A' = A
    BY <2>1 DEF TrackRisingEdge, RisingEdge, LatchA
  <2>3. B' = BubbleB
    BY <2>1, RisingEffect
  <2>4. ~Live(bTag)'
    BY <2>1, RisingEffect DEF Accepts, Live
  <2> QED BY <2>1, <2>2, <2>3, <2>4 DEF RegStall
<1> QED BY <1>3, <1>4

\* Outside reset, the fetch goes on at the successor of B, or at its target.
LEMMA RisingFetch ==
    ASSUME TrackTypeOK, TrackInv, NEW i \in Fetchable \cup {NoInstr}, TrackRisingEdge(i),
           ~reset
    PROVE  FetchContinues'
<1>1. /\ cycle' = cycle + 1 /\ Resolve /\ FetchedWord(i) /\ LatchA(i)
      /\ pc' = IF RegStall THEN pc ELSE NextPc
  BY DEF TrackRisingEdge, RisingEdge
<1>2. StageIdentity /\ FetchContinues /\ TagAges
  BY DEF TrackInv
<1>3. cycle \in Nat /\ ProgramCycles \in Nat /\ A.instr \in InstrOrNone
      /\ bTag.instr \in InstrOrNone /\ pc \in FetchPc
  BY CyclesAssumption DEF TrackTypeOK, PipeTypeOK, Tag
<1>4. B.op # "NONE" => Live(bTag) /\ B.pc = bTag.pc
  BY <1>2 DEF StageIdentity, Live, NoTag, NoInstr
<1>5. ~PcSel => resume' = Successor
  <2> SUFFICES ASSUME ~PcSel PROVE resume' = Successor
    OBVIOUS
  <2>1. CASE Live(bTag)
    <3>1. B.pc = bTag.pc
      BY <1>2, <2>1 DEF StageIdentity
    <3> QED BY <1>1, <2>1, <3>1 DEF Resolve, Successor, Live
  <2>2. CASE ~Live(bTag)
    BY <1>1, <2>2 DEF Resolve, Successor, Live
  <2> QED BY <2>1, <2>2
<1>6. CASE PcSel
  <2>1. ~RegStall /\ B.op # "NONE"
    BY <1>6, RedirectExcludesStall, BubbleIsInert
  <2>2. Live(bTag)
    BY <1>4, <2>1
  <2>3. A' = BubbleA /\ pc' = BrPC % PcSize
    BY <1>1, <1>6, <2>1 DEF LatchA, NextPc
  <2>4. resume' = BrPC % PcSize
    BY <1>1, <1>6, <2>2 DEF Resolve, Live
  <2>5. ~Live(bTag)'
    BY <1>6, RisingEffect DEF Accepts, Live
  <2> QED BY <2>3, <2>4, <2>5 DEF FetchContinues, Successor, BubbleA
<1>7. CASE ~PcSel /\ RegStall
  <2>1. A' = A /\ pc' = pc
    BY <1>1, <1>7 DEF LatchA
  <2>2. ~Live(bTag)'
    BY <1>7, RisingEffect DEF Accepts, Live
  <2>3. Successor' = Successor
    BY <1>5, <1>7, <2>2 DEF Successor
  <2>4. cycle' <= ProgramCycles => cycle <= ProgramCycles
    BY <1>1, <1>3
  <2> QED BY <1>2, <1>7, <2>1, <2>3, <2>4 DEF FetchContinues
<1>8. CASE ~PcSel /\ ~RegStall
  <2>1. A' = [pc |-> pc, instr |-> i] /\ pc' = (pc + 4) % PcSize
    BY <1>1, <1>8 DEF LatchA, NextPc
  <2>2. A'.pc = pc /\ A'.instr = i /\ pc' = (A'.pc + 4) % PcSize
    BY <2>1
  <2>3. i = NoInstr => ~(cycle' <= ProgramCycles)
    <3>1. i = NoInstr => ~(cycle < ProgramCycles)
      <4>1. NoInstr \notin Fetchable
        <5>1. NoInstr \notin Instr
          BY DEF NoInstr, Instr, Op, BranchOps
        <5> QED BY <5>1, FetchableAssumption
      <4> QED BY <1>1, <4>1 DEF FetchedWord
    <3> QED BY <1>1, <1>3, <3>1
  <2>4. i # NoInstr => cycle <= ProgramCycles
    BY <1>1, <1>3 DEF FetchedWord
  <2>5. CASE A.instr # NoInstr
    <3>1. Live(bTag)' /\ bTag'.pc = A.pc
      BY <1>8, <2>5, RisingEffect DEF Accepts
    <3>2. Successor' = (A.pc + 4) % PcSize
      BY <3>1 DEF Successor
    <3>3. pc = (A.pc + 4) % PcSize
      BY <1>2, <1>8, <2>5 DEF FetchContinues
    <3> QED BY <2>2, <2>3, <3>2, <3>3 DEF FetchContinues
  <2>6. CASE A.instr = NoInstr
    <3>1. ~Live(bTag)'
      BY <2>6, RisingEffect DEF Accepts, Live
    <3>2. Successor' = Successor
      BY <1>5, <1>8, <3>1 DEF Successor
    <3>3. cycle <= ProgramCycles => pc = Successor
      BY <1>2, <1>8, <2>6 DEF FetchContinues
    <3> QED BY <2>2, <2>3, <2>4, <3>2, <3>3 DEF FetchContinues
  <2> QED BY <2>5, <2>6
<1> QED BY <1>6, <1>7, <1>8

\* The rising edge preserves the invariant.
LEMMA RisingInv ==
    ASSUME TrackTypeOK, TrackInv, NEW i \in Fetchable \cup {NoInstr}, TrackRisingEdge(i)
    PROVE  TrackInv'
<1>1. CASE reset
  BY <1>1, ResetRisingInv
<1>2. CASE ~reset
  <2>1. /\ phase' = "fall" /\ ~reset' /\ held' = 0
        /\ pending' = NoPending /\ retired' = NoRetire /\ ~protocolError'
    BY <1>2, RisingEffect
  <2>2. MonitorAccepts' /\ ResetForgets' /\ EdgeOrder' /\ ResetProgress'
    BY <2>1 DEF MonitorAccepts, ResetForgets, EdgeOrder, ResetProgress
  <2> QED BY <1>2, <2>2, RisingIdentity, RisingStall, RisingFetch DEF TrackInv
<1> QED BY <1>1, <1>2

-----------------------------------------------------------------------------
(* The theorems.                                                            *)

\* Neither part of the invariant mentions anything but variables, so a step
\* that changes none keeps both.
LEMMA StutterInv ==
    ASSUME TrackTypeOK, TrackInv, UNCHANGED vars
    PROVE  TrackTypeOK' /\ TrackInv'
<1>1. UNCHANGED <<phase, pc, A, B, C, D, rf, dmem, reset, held, resets, cycle, pending,
                  stalledId, stallCount, index, event, bTag, cTag, dTag, lastRetired,
                  retired, protocolError, resume>>
  BY DEF vars, pipeVars, adapterVars, monitorVars
<1>2. TrackTypeOK'
  BY <1>1 DEF TrackTypeOK, PipeTypeOK
<1>3. PcSel' = PcSel /\ RegStall' = RegStall
  BY <1>1, StableWires
<1>4. StageIdentity' /\ MonitorAccepts' /\ ProgramOrder' /\ SingleStall' /\ ResetForgets'
  BY <1>1 DEF TrackInv, StageIdentity, MonitorAccepts, ProgramOrder, SingleStall,
              ResetForgets, Live, Count
<1>5. TagAges' /\ EdgeOrder' /\ StallHistory' /\ FetchContinues' /\ ResetProgress'
  BY <1>1, <1>3 DEF TrackInv, TagAges, EdgeOrder, StallHistory, FetchContinues,
                    ResetProgress, Accepts, Successor, Live
<1> QED BY <1>2, <1>4, <1>5 DEF TrackInv

\* The two invariants hold together: the rising edge needs ResetProgress to
\* keep held in its range.
LEMMA InductiveInvariant == TrackSpec => [](TrackTypeOK /\ TrackInv)
<1>1. TrackInit => TrackTypeOK /\ TrackInv
  BY InitType, InitInv
<1>2. TrackTypeOK /\ TrackInv /\ [TrackNext]_vars => (TrackTypeOK /\ TrackInv)'
  <2> SUFFICES ASSUME TrackTypeOK, TrackInv, [TrackNext]_vars
               PROVE  TrackTypeOK' /\ TrackInv'
    OBVIOUS
  <2>1. CASE \E r \in BOOLEAN : TrackFallingEdge(r)
    BY <2>1, FallingType, FallingInv
  <2>2. CASE \E i \in Fetchable \cup {NoInstr} : TrackRisingEdge(i)
    BY <2>2, RisingType, RisingInv
  <2>3. CASE UNCHANGED vars
    BY <2>3, StutterInv
  <2> QED BY <2>1, <2>2, <2>3 DEF TrackNext
<1> QED BY <1>1, <1>2, PTL DEF TrackSpec

\* Every register of the DUT and of the trackers keeps its width and kind.
THEOREM TypeCorrect == TrackSpec => []TrackTypeOK
<1>1. TrackTypeOK /\ TrackInv => TrackTypeOK
  OBVIOUS
<1> QED BY <1>1, InductiveInvariant, PTL

\* The identity that the Python side tracks is that of the instruction in the
\* stage, in every reachable state.
THEOREM IdentityCorrect == TrackSpec => []StageIdentity
<1>1. TrackTypeOK /\ TrackInv => StageIdentity
  BY DEF TrackInv
<1> QED BY <1>1, InductiveInvariant, PTL

\* RetireMonitor never raises a RetireProtocolError.
THEOREM NeverRaises == TrackSpec => []MonitorAccepts
<1>1. TrackTypeOK /\ TrackInv => MonitorAccepts
  BY DEF TrackInv
<1> QED BY <1>1, InductiveInvariant, PTL

\* No instruction is lost, retired twice or overtaken.
THEOREM OrderCorrect == TrackSpec => []ProgramOrder
<1>1. TrackTypeOK /\ TrackInv => ProgramOrder
  BY DEF TrackInv
<1> QED BY <1>1, InductiveInvariant, PTL

\* A stall lasts one cycle and is caused by the load right in front.
THEOREM StallCorrect == TrackSpec => []SingleStall
<1>1. TrackTypeOK /\ TrackInv => SingleStall
  BY DEF TrackInv
<1> QED BY <1>1, InductiveInvariant, PTL

\* RETIRE_LATENCY is three for every instruction of every program.
THEOREM LatencyCorrect == TrackSpec => []RetireLatency
<1>1. TrackTypeOK /\ TrackInv => RetireLatency
  <2> SUFFICES ASSUME TrackTypeOK, TrackInv, Live(retired.tag)
               PROVE  cycle = retired.tag.cycle + 3
    BY DEF RetireLatency
  <2>1. retired.tag.cycle = cycle - 3 /\ cycle \in Nat
    BY DEF TrackInv, TagAges, TrackTypeOK
  <2> QED BY <2>1
<1> QED BY <1>1, InductiveInvariant, PTL

\* No wrong-path instruction is ever accepted.
THEOREM ControlCorrect == TrackSpec => []ControlContinuity
<1>1. TrackTypeOK /\ TrackInv => ControlContinuity
  <2> SUFFICES ASSUME TrackTypeOK, TrackInv, pending # NoPending
               PROVE  pending.pc = IF Live(bTag) THEN (bTag.pc + 4) % PcSize ELSE resume
    BY DEF ControlContinuity
  <2>1. phase = "rise" /\ Accepts /\ pending.pc = A.pc
    BY DEF TrackInv, EdgeOrder, TrackTypeOK, PipeTypeOK
  <2>2. A.pc = Successor
    BY <2>1 DEF TrackInv, FetchContinues, Accepts
  <2> QED BY <2>1, <2>2 DEF Successor
<1> QED BY <1>1, InductiveInvariant, PTL

\* Nothing from before a warm reset survives it.
THEOREM ResetCorrect == TrackSpec => []ResetForgets
<1>1. TrackTypeOK /\ TrackInv => ResetForgets
  BY DEF TrackInv
<1> QED BY <1>1, InductiveInvariant, PTL

\* A change of the register file or of the data memory belongs to an
\* instruction that was accepted.
THEOREM SideEffectsCorrect == TrackSpec => NoSilentSideEffect
<1> DEFINE Attributed ==
        /\ rf' # rf /\ ~reset =>
             /\ retired'.regwrite
             /\ rf' = [rf EXCEPT ![retired'.rd] = retired'.wdata]
        /\ dmem' # dmem => cTag.instr.op = "SW"
<1>1. TrackTypeOK /\ TrackInv /\ [TrackNext]_vars => [Attributed]_vars
  <2> SUFFICES ASSUME TrackTypeOK, TrackInv, TrackNext PROVE Attributed
    OBVIOUS
  <2>1. ASSUME NEW r \in BOOLEAN, TrackFallingEdge(r) PROVE Attributed
    <3>1. FallingEdge(r) /\ StageIdentity
      BY <2>1 DEF TrackFallingEdge, TrackInv
    <3>2. ASSUME rf' # rf, ~reset
          PROVE  retired'.regwrite /\ rf' = [rf EXCEPT ![retired'.rd] = retired'.wdata]
      <4>1. RegWrite(D.op) /\ rf' = [rf EXCEPT ![D.rd] = D.val]
        BY <3>1, <3>2 DEF FallingEdge, WriteRegisterFile
      <4>2. retired' = [tag |-> dTag, regwrite |-> RegWrite(D.op),
                        rd |-> D.rd, wdata |-> D.val]
        BY <2>1, <4>1, DecodeFacts, FallingRetires
      <4> QED BY <4>1, <4>2
    <3>3. ASSUME dmem' # dmem PROVE cTag.instr.op = "SW"
      <4>1. C.op = "SW"
        BY <3>1, <3>3 DEF FallingEdge, MemWrite
      <4> QED BY <3>1, <4>1 DEF StageIdentity
    <3> QED BY <3>2, <3>3
  <2>2. ASSUME NEW i \in Fetchable \cup {NoInstr}, TrackRisingEdge(i) PROVE Attributed
    BY <2>2 DEF TrackRisingEdge, RisingEdge
  <2> QED BY <2>1, <2>2 DEF TrackNext
<1>2. NoSilentSideEffect <=> [][Attributed]_vars
  BY DEF NoSilentSideEffect
<1> QED BY <1>1, <1>2, InductiveInvariant, PTL DEF TrackSpec
=============================================================================
