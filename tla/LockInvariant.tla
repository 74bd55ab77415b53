--------------------------- MODULE LockInvariant ---------------------------
(***************************************************************************)
(* An inductive invariant of GoldenLockstep.  The pipeline and the golden  *)
(* model are at different points of one program: the model has executed    *)
(* what the DUT has only accepted.  The parts below say, stage by stage,   *)
(* what the DUT still has to do to catch up, and that it has the values    *)
(* to do it with.                                                          *)
(***************************************************************************)
EXTENDS GoldenLockstep, TrackingInvariant

Writer == [id : Nat, op : Op \cup {"NONE"}, cycle : Nat, seen : Nat]

LockTypes ==
    /\ ~reset
    /\ DOMAIN gold.x = Reg /\ DOMAIN gold.m = Word
    /\ oracle \in [next : Nat, writer : [Reg -> Writer]]
    /\ expectation.accept \in Nat /\ expectation.stalls \in {0, 1}
    /\ falseStalls \in Int
    /\ loopError \in BOOLEAN

Writes(t, r) == WritesRd(t.instr.op) /\ t.instr.rd = r

\* The oracle's entry for a register that the instruction t writes.
IsEntryOf(w, t) == w.id = t.id /\ w.op = t.instr.op /\ w.seen = t.cycle

\* The oracle's writer of a register is the youngest one in B or C, if there is
\* one; otherwise it is out of reach of the forwarding paths.
WritersAreYoungest ==
    ~loopError => \A r \in Reg \ {0} :
        IF Writes(bTag, r) THEN IsEntryOf(oracle.writer[r], bTag)
        ELSE IF Writes(cTag, r) THEN IsEntryOf(oracle.writer[r], cTag)
        ELSE oracle.writer[r] = NoWriter \/ oracle.writer[r].seen < cycle - 2

\* A stall that has been decided has been counted; only the end of the program leaves
\* the zero word behind an instruction.
StallsAreCounted ==
    /\ phase = "rise" /\ RegStall /\ A.instr # NoInstr => stallCount = 1
    /\ A.instr = NoInstr /\ cycle <= ProgramCycles => B.op = "NONE"

-----------------------------------------------------------------------------
(* In a clean run.                                                          *)

\* The memory as it is once the store in C has been done.
NextMem == IF phase = "fall" /\ MemWrite(C.op) THEN WrittenMem ELSE dmem

LoadFrom(m, a) == WordOf(m[a], m[a + 1], m[a + 2], m[a + 3])

\* What LatchC will put into res.
ResultInB ==
    CASE LinkSel(B.op)  -> Wrap(B.pc + 4)
      [] ImmSel(B.op)   -> B.imm
      [] PcImmSel(B.op) -> Wrap(B.pc + B.imm)
      [] OTHER          -> AluResult

\* What was registered for t is about t, changes nothing in x0, and stays inside the
\* aligned data memory.
IsExpectationOf(x, t) ==
    /\ x.regwrite <=> WritesRd(t.instr.op) /\ t.instr.rd # 0
    /\ x.rd = t.instr.rd
    /\ x.store = (t.instr.op = "SW")
    /\ WritesRd(t.instr.op) /\ t.instr.rd = 0 => x.wdata = 0
    /\ t.instr.op \in {"LW", "SW"} => x.addr \in 0 .. DmSize - 1 /\ x.addr % 4 = 0

\* The instruction in B has its operands: forwarding makes the ALU compute what
\* the golden model did.
BFollows ==
    Live(bTag) => LET x == expected[bTag.id] IN
        /\ IsExpectationOf(x, bTag)
        /\ WritesRd(B.op) /\ B.op # "LW" => ResultInB = x.wdata
        /\ B.op \in {"LW", "SW"} => AluResult = x.addr
        /\ B.op = "SW" => FBmuxResult = x.data
        /\ B.op = "LW" => x.wdata = LoadFrom(NextMem, x.addr)

CFollows ==
    Live(cTag) => LET x == expected[cTag.id] IN
        /\ IsExpectationOf(x, cTag)
        /\ WritesRd(C.op) /\ C.op # "LW" => C.res = x.wdata
        /\ C.op \in {"LW", "SW"} => C.alu = x.addr
        /\ C.op = "SW" => C.v2 = x.data
        /\ C.op = "LW" => x.wdata = LoadFrom(NextMem, x.addr)

DFollows ==
    phase = "fall" /\ Live(dTag) =>
        /\ IsExpectationOf(expected[dTag.id], dTag)
        /\ WritesRd(D.op) => D.val = expected[dTag.id].wdata

\* The store that was observed is the one expected.
StoresFollow ==
    LET t == IF phase = "fall" THEN dTag ELSE cTag IN
    Live(t) =>
        /\ stores[t.id].write = expected[t.id].store
        /\ t.instr.op = "SW" => /\ stores[t.id].addr = expected[t.id].addr
                                /\ stores[t.id].data = expected[t.id].data

\* A golden register is the youngest write in flight, or the register file.
RegistersFollow ==
    /\ rf[0] = 0
    /\ \A r \in Reg \ {0} :
        gold.x[r] = IF Writes(bTag, r) THEN expected[bTag.id].wdata
                    ELSE IF Writes(cTag, r) THEN expected[cTag.id].wdata
                    ELSE IF phase = "fall" /\ Writes(dTag, r) THEN expected[dTag.id].wdata
                    ELSE rf[r]

\* A golden byte is that of the store in B, or of the memory after the store in C.
MemoryFollows ==
    \A a \in 0 .. DmSize - 1 :
        gold.m[a] = IF bTag.instr.op = "SW" /\ a - (a % 4) = expected[bTag.id].addr
                    THEN LaneOf(expected[bTag.id].data, a % 4)
                    ELSE NextMem[a]

\* The golden PC is where the DUT goes on after the instruction in B.
PathFollows ==
    gold.pc = IF ~Live(bTag) THEN resume
              ELSE IF PcSel THEN BrPC % PcSize
              ELSE (B.pc + 4) % PcSize

\* How long the instruction in A has waited.
Waited == IF phase = "fall" THEN stallCount ELSE pending.stalls

\* The oracle's next slot is when the DUT will accept, but for the false stalls.
SlotsFollow ==
    /\ PcSel => oracle.next + falseStalls = cycle + 2
    /\ ~PcSel /\ A.instr # NoInstr => oracle.next + falseStalls + Waited = cycle
    /\ ~PcSel /\ A.instr = NoInstr /\ cycle <= ProgramCycles =>
         oracle.next + falseStalls = cycle + 1

\* Only the last accepted instruction can be right in front of the next slot.
WritersHaveSlots ==
    \A r \in Reg : LET w == oracle.writer[r] IN
        /\ w.cycle < oracle.next
        /\ w # NoWriter /\ oracle.next = w.cycle + 1 => w.seen = w.cycle + falseStalls

\* WHAT: the DUT has the values of the golden model.
InStep ==
    /\ ~loopError /\ verdict.functional
    /\ BFollows /\ CFollows /\ DFollows /\ StoresFollow
    /\ RegistersFollow /\ MemoryFollows /\ PathFollows

\* WHEN: it has them when the oracle says, but for the false stalls.
OnTime == SlotsFollow /\ WritersHaveSlots /\ LatenessIsFalseStalls

LockInv ==
    /\ LockTypes /\ RetainsOnlyInFlight /\ WritersAreYoungest /\ ForwardingFollowsAge
    /\ StallsAreCounted
    /\ Clean => InStep /\ (RedirectBubbles = 2 => OnTime)
=============================================================================
