--------------------------- MODULE GoldenLockstep ---------------------------
(***************************************************************************)
(* The live checking loop (week9/benchmark/test_week9_benchmark.py and the *)
(* adaptive loops of week10): at every acceptance the timing oracle and    *)
(* the golden architectural model advance by one instruction and register  *)
(* what they expect of its retirement; at every falling edge the store     *)
(* stage and the retirement are compared with it.                          *)
(*                                                                         *)
(* WHAT is judged by StreamingFunctionalScoreboard, WHEN by                *)
(* StreamingPerformanceMonitor, and the verdicts are independent.          *)
(*                                                                         *)
(* The RTL is frozen with defects the repository documents.  The ghost     *)
(* variable defects names those that the accepted program has provoked so  *)
(* far; what the properties say is that nothing else goes wrong.           *)
(***************************************************************************)
EXTENDS ExecutionTracking, FiniteSets

CONSTANT RetireLatencyCycles, RedirectBubbles   \* RETIRE_LATENCY, REDIRECT_BUBBLES

ASSUME OracleAssumption == RetireLatencyCycles \in Nat /\ RedirectBubbles \in Nat

VARIABLES
    gold,        \* RV32ArchitecturalModel: [x, m, pc]
    oracle,      \* StreamingTimingOracleV1: [next, writer]
    expectation, \* the TimingExpectation of the last acceptance
    expected,    \* id -> ExpectedRetire with its retire cycle
    stores,      \* id -> StoreObservation
    verdict,     \* the CrossVerdict of this cycle
    loopError,   \* an oracle or a scoreboard raised: the loop has ended
    defects,     \* ghost: documented defects provoked so far
    falseStalls  \* ghost: stalls the oracle does not ask for

checkVars == <<gold, oracle, expectation, expected, stores, verdict, loopError>>
lockVars == <<vars, checkVars, defects, falseStalls>>

NoWriter == [id |-> 0, op |-> "NONE", cycle |-> 0, seen |-> 0]
NoExpectation == [id |-> 0, accept |-> 0, stalls |-> 0, fa |-> "RF", fb |-> "RF",
                  a |-> NoWriter, b |-> NoWriter]
NoVerdict == [id |-> 0, functional |-> TRUE, delta |-> 0]

NoEntries == [id \in {} |-> 0]
With(f, id, v) == [k \in DOMAIN f \cup {id} |-> IF k = id THEN v ELSE f[k]]

\* Fault: nothing is ever discarded.
WithoutDiscard(f, id) == f
\* Both scoreboards delete what they have judged.
Without(f, id) == [k \in DOMAIN f \ {id} |-> f[k]]

LockInit ==
    /\ TrackInit
    /\ gold = [x |-> [r \in Reg |-> 0], m |-> [a \in Word |-> 0], pc |-> 0]
    /\ oracle = [next |-> 1, writer |-> [r \in Reg |-> NoWriter]]
    /\ expectation = NoExpectation
    /\ expected = NoEntries /\ stores = NoEntries
    /\ verdict = NoVerdict /\ loopError = FALSE
    /\ defects = {} /\ falseStalls = 0

-----------------------------------------------------------------------------
(* RV32ArchitecturalModel.step, with the fetch PC of the wrap-aware model.  *)

ReadReg(g, r) == IF r = 0 THEN 0 ELSE g.x[r]
Address(g, i) == Wrap(ReadReg(g, i.rs1) + i.imm)

ReadWord(g, a) ==
    WordOf(g.m[a], g.m[Wrap(a + 1)], g.m[Wrap(a + 2)], g.m[Wrap(a + 3)])

WriteWord(m, a, v) ==
    [b \in Word |-> IF Wrap(b - a) < 4 THEN LaneOf(v, Wrap(b - a)) ELSE m[b]]

Result(g, i, at) ==
    CASE i.op = "ADD"             -> Wrap(ReadReg(g, i.rs1) + ReadReg(g, i.rs2))
      [] i.op = "ADDI"            -> Wrap(ReadReg(g, i.rs1) + i.imm)
      [] i.op = "LW"              -> ReadWord(g, Address(g, i))
      [] i.op = "LUI"             -> i.imm
      [] i.op = "AUIPC"           -> Wrap(at + i.imm)
      [] i.op \in {"JAL", "JALR"} -> Wrap(at + 4)
      [] OTHER                    -> 0

BranchTaken(g, i) ==
    i.op \in BranchOps /\ Compares(i.op, ReadReg(g, i.rs1), ReadReg(g, i.rs2))

\* Fault: the model of week 5 alone, which does not cut the fetch PC.
NextFetchPcFullWidth(g, i, at) ==
    LET target == Address(g, i) IN
    IF i.op = "JALR" THEN target - (target % 2)
    ELSE IF i.op = "JAL" \/ BranchTaken(g, i) THEN Wrap(at + i.imm)
    ELSE Wrap(at + 4)

\* RV32 clears bit 0 of a JALR target; only the fetch PC is cut to PC_W bits.
NextFetchPc(g, i, at) ==
    LET target == Address(g, i) IN
    IF i.op = "JALR" THEN (target - (target % 2)) % PcSize
    ELSE IF i.op = "JAL" \/ BranchTaken(g, i) THEN Wrap(at + i.imm) % PcSize
    ELSE (at + 4) % PcSize

GoldStep(g, i, at) ==
    [x  |-> IF WritesRd(i.op) /\ i.rd # 0
            THEN [g.x EXCEPT ![i.rd] = Result(g, i, at)] ELSE g.x,
     m  |-> IF i.op = "SW"
            THEN WriteWord(g.m, Address(g, i), ReadReg(g, i.rs2)) ELSE g.m,
     pc |-> NextFetchPc(g, i, at)]

\* ExpectedRetire.from_architectural_step, plus the oracle's retire cycle.
ExpectedRetire(g, i, at, retireCycle) ==
    [regwrite |-> WritesRd(i.op) /\ i.rd # 0, rd |-> i.rd,
     wdata |-> Result(g, i, at),
     store |-> i.op = "SW", addr |-> Address(g, i), data |-> ReadReg(g, i.rs2),
     cycle |-> retireCycle]

-----------------------------------------------------------------------------
(* StreamingTimingOracleV1.next_expectation.                                *)

\* The latest writer of a semantic source; seen is the cycle in which the DUT
\* accepted it (a ghost: the oracle itself only knows its own schedule).
Producer(uses, r) == IF uses /\ r # 0 THEN oracle.writer[r] ELSE NoWriter

ForwardForAge(w, accept) ==
    CASE w # NoWriter /\ accept - w.cycle = 1 -> "EX_MEM"
      [] w # NoWriter /\ accept - w.cycle = 2 -> "MEM_WB"
      [] OTHER                                -> "RF"

NextExpectation(e) ==
    LET a == Producer(UsesRs1(e.instr.op), e.instr.rs1)
        b == Producer(UsesRs2(e.instr.op), e.instr.rs2)
        LoadUse(w) == w.op = "LW" /\ oracle.next - w.cycle = 1
        stalls == IF LoadUse(a) \/ LoadUse(b) THEN 1 ELSE 0
        accept == oracle.next + stalls
    IN [id |-> e.id, accept |-> accept, stalls |-> stalls,
        fa |-> ForwardForAge(a, accept), fb |-> ForwardForAge(b, accept),
        a |-> a, b |-> b]

\* Fault: only jumps cost bubbles.
AdvanceOracleJumpsOnly(e, x) ==
    LET redirect == e.instr.op \in {"JAL", "JALR"}
        entry == [id |-> e.id, op |-> e.instr.op, cycle |-> x.accept, seen |-> e.cycle]
    IN oracle' =
        [next   |-> x.accept + 1 + (IF redirect THEN RedirectBubbles ELSE 0),
         writer |-> IF WritesRd(e.instr.op) /\ e.instr.rd # 0
                    THEN [oracle.writer EXCEPT ![e.instr.rd] = entry]
                    ELSE oracle.writer]

\* The end of next_expectation: the writer table and the next slot.
AdvanceOracle(e, x) ==
    LET redirect == e.instr.op \in {"JAL", "JALR"} \/ BranchTaken(gold, e.instr)
        entry == [id |-> e.id, op |-> e.instr.op, cycle |-> x.accept, seen |-> e.cycle]
    IN oracle' =
        [next   |-> x.accept + 1 + (IF redirect THEN RedirectBubbles ELSE 0),
         writer |-> IF WritesRd(e.instr.op) /\ e.instr.rd # 0
                    THEN [oracle.writer EXCEPT ![e.instr.rd] = entry]
                    ELSE oracle.writer]

-----------------------------------------------------------------------------
(* Ghost: the defects the repository documents, as conditions on the        *)
(* program, not on what the DUT made of it.                                 *)

Provoked(e) ==
    LET i == e.instr
        Adjacent(w) == w.op \in {"LUI", "AUIPC"} /\ e.cycle - w.seen = 1
        Of(kind, holds) == IF holds THEN {kind} ELSE {}
    IN UNION {
        \* H18: x0 is a physical register of RegFile.sv.
        Of("x0_write", WritesRd(i.op) /\ i.rd = 0 /\ Result(gold, i, e.pc) # 0),
        \* H11, H13: the EX/MEM path forwards the ALU result.
        Of("upper_imm_forward",
           Adjacent(Producer(UsesRs1(i.op), i.rs1))
             \/ Adjacent(Producer(UsesRs2(i.op), i.rs2))),
        \* L1 and L2 of ISA_SUBSET.md.
        Of("addi_sub", SelectsSub(i.op, i.imm)),
        Of("jalr_bit0", i.op = "JALR" /\ Address(gold, i) % 2 = 1),
        \* Outside the aligned 9-bit data memory.
        Of("data_address", i.op \in {"LW", "SW"}
                           /\ (Address(gold, i) % 4 # 0 \/ Address(gold, i) >= DmSize))}

-----------------------------------------------------------------------------
(* After the falling edge.                                                  *)

\* StreamingFunctionalScoreboard.observe_retire.
FunctionalPass(x, r, s, x0) ==
    /\ IF x.regwrite THEN r.regwrite /\ r.rd = x.rd /\ r.wdata = x.wdata
       ELSE ~(r.regwrite /\ r.rd # 0)
    /\ s.write = x.store
    /\ x.store => /\ x.addr < DmSize /\ s.addr = x.addr
                  /\ s.data = x.data
    /\ x0 = 0

StoreStage ==
    IF Live(cTag)
    THEN With(stores, cTag.id,
              [write |-> MemWrite(C.op), addr |-> DmAddr, data |-> C.v2])
    ELSE stores

\* The scoreboard's own protocol: a store observation needs an expectation and
\* must be new; a retirement needs both and must be the next one.
ScoreboardRaises ==
    \/ Live(cTag) /\ (cTag.id \notin DOMAIN expected \/ cTag.id \in DOMAIN stores)
    \/ Live(retired'.tag) /\ (retired'.tag.id \notin DOMAIN expected
                              \/ retired'.tag.id \notin DOMAIN StoreStage)

LockFallingEdge ==
    /\ ~loopError
    /\ TrackFallingEdge(FALSE)
    /\ loopError' = (protocolError' \/ ScoreboardRaises)
    /\ IF loopError' \/ ~Live(retired'.tag)
       THEN /\ verdict' = NoVerdict
            /\ stores' = IF loopError' THEN stores ELSE StoreStage
            /\ UNCHANGED expected
       ELSE LET id == retired'.tag.id IN
            /\ verdict' =
                [id |-> id,
                 functional |-> FunctionalPass(expected[id], retired',
                                               StoreStage[id], rf'[0]),
                 delta |-> cycle - expected[id].cycle]
            /\ stores' = Without(StoreStage, id)
            /\ expected' = Without(expected, id)
    /\ UNCHANGED <<gold, oracle, expectation, defects, falseStalls>>

-----------------------------------------------------------------------------
(* After the rising edge.                                                   *)

\* observe_accept raises on another PC than the model's before anything else.
Accept(e) ==
    IF e.pc # gold.pc
    THEN loopError' = TRUE /\ expectation' = NoExpectation
         /\ UNCHANGED <<gold, oracle, expected, defects, falseStalls>>
    ELSE LET x == NextExpectation(e) IN
         /\ expectation' = x
         /\ AdvanceOracle(e, x)
         /\ gold' = GoldStep(gold, e.instr, e.pc)
         /\ expected' = With(expected, e.id,
                ExpectedRetire(gold, e.instr, e.pc, x.accept + RetireLatencyCycles))
         /\ defects' = defects \cup Provoked(e)
         /\ falseStalls' = falseStalls + (e.stalls - x.stalls)
         /\ UNCHANGED loopError

LockRisingEdge(i) ==
    /\ ~loopError
    /\ TrackRisingEdge(i)
    /\ IF event' = NoEvent
       THEN /\ expectation' = NoExpectation
            /\ UNCHANGED <<gold, oracle, expected, loopError, defects, falseStalls>>
       ELSE Accept(event')
    /\ verdict' = NoVerdict
    /\ UNCHANGED stores

LockNext ==
    \/ LockFallingEdge
    \/ \E i \in Fetchable \cup {NoInstr} : LockRisingEdge(i)

LockSpec == LockInit /\ [][LockNext]_lockVars

-----------------------------------------------------------------------------
(* What the checking loop must get right.                                   *)

Clean == defects = {}

\* Every functional failure of the frozen RTL is one of the documented defects:
\* forwarding, interlock, flush and write-back order give each instruction the
\* operands of the sequential machine, whatever the program.
FailuresAreDocumented == ~verdict.functional => ~Clean

\* The loop stops on an unexpected PC, a missing expectation or a duplicate
\* observation only after a documented defect.
LoopRunsToTheEnd == loopError => ~Clean

\* Register state, also of registers nobody reads any more: in a clean run the
\* golden register is the youngest pending write, or the register file.
PendingWrites(r) == {id \in DOMAIN expected : expected[id].regwrite /\ expected[id].rd = r}
YoungestOf(ids) == CHOOSE id \in ids : \A k \in ids : k <= id

RegistersAgree ==
    Clean => \A r \in Reg \ {0} :
        gold.x[r] = IF PendingWrites(r) = {} THEN rf[r]
                    ELSE expected[YoungestOf(PendingWrites(r))].wdata

\* Memory state: in a clean run every byte of the golden memory is the youngest
\* pending store to it, or the byte in the banks.
PendingStores(a) ==
    {id \in DOMAIN expected \ DOMAIN stores :
        expected[id].store /\ expected[id].addr \in (a - 3) .. a}

MemoryAgrees ==
    Clean => \A a \in 0 .. DmSize - 1 :
        gold.m[a] = IF PendingStores(a) = {} THEN dmem[a]
                    ELSE LET x == expected[YoungestOf(PendingStores(a))]
                         IN LaneOf(x.data, a - x.addr)

\* The DUT's registers and memory, completed by what is in flight, are the golden
\* model's at every cycle, whatever forwarding and interlock had to bring about.
StateAgrees == RegistersAgree /\ MemoryAgrees

\* WHEN: in a clean run the DUT is late by exactly the stalls that no semantic
\* dependency asks for (H19, H20), and never early; a redirect costs exactly
\* the oracle's bubbles and a load-use exactly one cycle.
LatenessIsFalseStalls ==
    Clean /\ expectation # NoExpectation =>
        /\ event.cycle - expectation.accept = falseStalls
        /\ event.stalls >= expectation.stalls

\* The forwarding select of every semantic source is the oracle's rule applied
\* to the cycles in which the DUT accepted producer and consumer: the schedules
\* can differ only by a false stall in between.
ObservedForward(w) ==
    CASE w # NoWriter /\ event.cycle - w.seen = 1 -> "EX_MEM"
      [] w # NoWriter /\ event.cycle - w.seen = 2 -> "MEM_WB"
      [] OTHER                                    -> "RF"

ForwardingFollowsAge ==
    expectation # NoExpectation =>
        /\ UsesRs1(event.instr.op) => event.fa = ObservedForward(expectation.a)
        /\ UsesRs2(event.instr.op) => event.fb = ObservedForward(expectation.b)

\* What the streaming classes retain is what is in flight, nothing older
\* (streaming_functional.py: state scales with the pipeline, not the campaign).
RetainsOnlyInFlight ==
    ~loopError =>
        /\ DOMAIN expected = {bTag.id, cTag.id, dTag.id} \ {0}
        /\ DOMAIN stores = {IF phase = "fall" THEN dTag.id ELSE cTag.id} \ {0}

=============================================================================
