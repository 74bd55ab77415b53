----------------------------- MODULE LockProofs -----------------------------
(***************************************************************************)
(* Theorems about GoldenLockstep, for every word size, register count,     *)
(* instruction set and program.                                            *)
(***************************************************************************)
EXTENDS LockInvariant, TrackingProofs

-----------------------------------------------------------------------------
(* The loop runs the trackers, so what is proved of them holds here.        *)

\* A step of the loop is a step of the trackers, without a reset.
LEMMA LockStepTracks == [LockNext]_lockVars => [TrackNext]_vars
<1>1. LockFallingEdge => TrackFallingEdge(FALSE)
  BY DEF LockFallingEdge
<1>2. \A i : LockRisingEdge(i) => TrackRisingEdge(i)
  BY DEF LockRisingEdge
<1>3. UNCHANGED lockVars => UNCHANGED vars
  BY DEF lockVars
<1>4. LockNext => TrackNext
  BY <1>1, <1>2 DEF LockNext, TrackNext
<1> QED BY <1>3, <1>4

\* The checking loop does not disturb what it observes: without its own variables
\* it is the tracking loop.
THEOREM LoopTracks == LockSpec => TrackSpec
<1>1. LockInit => TrackInit
  BY DEF LockInit
<1> QED BY <1>1, LockStepTracks, PTL DEF LockSpec, TrackSpec

\* The types and the invariant of the trackers hold in the checking loop.
LEMMA TracksInv == LockSpec => [](TrackTypeOK /\ TrackInv)
<1> QED BY LoopTracks, InductiveInvariant, PTL

\* A tag that is not live has no number; live ones are numbered downwards.
LEMMA TagNumbers ==
    ASSUME TrackTypeOK, TrackInv
    PROVE  /\ bTag.id \in Nat /\ cTag.id \in Nat /\ dTag.id \in Nat
           /\ Live(bTag) <=> bTag.id # 0
           /\ Live(cTag) <=> cTag.id # 0
           /\ Live(dTag) <=> dTag.id # 0
           /\ Live(bTag) /\ Live(cTag) => bTag.id > cTag.id
           /\ Live(bTag) /\ Live(dTag) => bTag.id > dTag.id
           /\ Live(cTag) /\ Live(dTag) => cTag.id > dTag.id
           /\ Live(bTag) => bTag.id = index
           /\ index \in Nat /\ index >= bTag.id /\ index >= cTag.id /\ index >= dTag.id
<1>1. bTag.id \in Nat /\ cTag.id \in Nat /\ dTag.id \in Nat /\ index \in Nat /\ lastRetired \in Nat
  BY DEF TrackTypeOK, Tag
<1>2. /\ Live(bTag) <=> bTag.id # 0
      /\ Live(cTag) <=> cTag.id # 0
      /\ Live(dTag) <=> dTag.id # 0
  BY DEF TrackInv, TagAges, Live, NoTag
<1>3. /\ Live(dTag) => dTag.id = lastRetired + 1
      /\ Live(cTag) => cTag.id = (lastRetired + Count(dTag)) + 1
      /\ Live(bTag) => bTag.id = ((lastRetired + Count(dTag)) + Count(cTag)) + 1
      /\ index = ((lastRetired + Count(dTag)) + Count(cTag)) + Count(bTag)
  BY DEF TrackInv, ProgramOrder
<1>4. /\ Count(dTag) = (IF Live(dTag) THEN 1 ELSE 0)
      /\ Count(cTag) = (IF Live(cTag) THEN 1 ELSE 0)
      /\ Count(bTag) = (IF Live(bTag) THEN 1 ELSE 0)
  BY DEF Count
<1> HIDE DEF Live, Count
<1> QED BY ONLY <1>1, <1>2, <1>3, <1>4

-----------------------------------------------------------------------------
(* What an edge does.                                                       *)

\* A falling edge retires the tag in D, writes registers and memory, observes the
\* store in C, and judges; no scoreboard raises.
LEMMA LockFallingEffect ==
    ASSUME TrackTypeOK, TrackInv, LockTypes, RetainsOnlyInFlight, LockFallingEdge
    PROVE  /\ phase = "fall" /\ phase' = "rise" /\ ~reset' /\ ~loopError /\ ~loopError'
           /\ loopError' \in BOOLEAN
           /\ UNCHANGED <<A, B, C, D, cycle, event, bTag, cTag, resume>>
           /\ UNCHANGED <<gold, oracle, expectation, defects, falseStalls>>
           /\ PcSel' = PcSel /\ RegStall' = RegStall
           /\ dTag' = NoTag
           /\ rf' = IF RegWrite(D.op) THEN [rf EXCEPT ![D.rd] = D.val] ELSE rf
           /\ dmem' = IF MemWrite(C.op) THEN WrittenMem ELSE dmem
           /\ expected' = IF Live(dTag) THEN Without(expected, dTag.id) ELSE expected
           /\ stores' = IF Live(dTag) THEN Without(StoreStage, dTag.id) ELSE StoreStage
           /\ verdict' =
                IF Live(dTag)
                THEN [id |-> dTag.id,
                      functional |->
                        FunctionalPass(expected[dTag.id],
                                       [tag |-> dTag, regwrite |-> RegWrite(D.op),
                                        rd |-> D.rd, wdata |-> D.val],
                                       StoreStage[dTag.id], rf'[0]),
                      delta |-> cycle - expected[dTag.id].cycle]
                ELSE NoVerdict
<1>1. TrackFallingEdge(FALSE) /\ FALSE \in BOOLEAN
  BY DEF LockFallingEdge
<1>2. /\ phase = "fall" /\ phase' = "rise" /\ FallingEdge(FALSE)
      /\ UNCHANGED <<A, B, C, D, cycle, index, event, bTag, cTag, resume>>
      /\ PcSel' = PcSel /\ RegStall' = RegStall
  BY <1>1, FallingKeeps
<1>3. /\ ~reset /\ ~reset'
      /\ rf' = IF RegWrite(D.op) THEN [rf EXCEPT ![D.rd] = D.val] ELSE rf
      /\ dmem' = IF MemWrite(C.op) THEN WrittenMem ELSE dmem
  BY <1>2 DEF LockTypes, FallingEdge, WriteRegisterFile
<1>4. /\ ~protocolError' /\ dTag' = NoTag
      /\ retired' = IF Live(dTag)
                    THEN [tag |-> dTag, regwrite |-> RegWrite(D.op), rd |-> D.rd, wdata |-> D.val]
                    ELSE NoRetire
  BY <1>1, FallingRetires
<1>5. ~loopError
  BY DEF LockFallingEdge
<1>6. /\ DOMAIN expected = {bTag.id, cTag.id, dTag.id} \ {0}
      /\ DOMAIN stores = {dTag.id} \ {0}
  BY <1>2, <1>5 DEF RetainsOnlyInFlight
<1>7. retired'.tag = (IF Live(dTag) THEN dTag ELSE NoTag)
  BY <1>4 DEF NoRetire
<1>8. Live(retired'.tag) <=> Live(dTag)
  BY <1>7 DEF Live
<1>9. ~ScoreboardRaises
  <2>1. Live(cTag) => cTag.id \in DOMAIN expected /\ cTag.id \notin DOMAIN stores
    BY <1>6, TagNumbers
  <2>2. Live(dTag) => dTag.id \in DOMAIN expected /\ dTag.id \in DOMAIN stores
    BY <1>6, TagNumbers
  <2>3. DOMAIN stores \subseteq DOMAIN StoreStage
    BY DEF StoreStage, With
  <2> QED BY <1>7, <1>8, <2>1, <2>2, <2>3 DEF ScoreboardRaises
<1>10. loopError' = FALSE
  BY <1>4, <1>9 DEF LockFallingEdge
<1>11. UNCHANGED <<gold, oracle, expectation, defects, falseStalls>>
  BY DEF LockFallingEdge
<1>12. CASE Live(dTag)
  <2>1. retired' = [tag |-> dTag, regwrite |-> RegWrite(D.op), rd |-> D.rd, wdata |-> D.val]
        /\ retired'.tag = dTag
    BY <1>4, <1>12
  <2>2. /\ verdict' = [id |-> retired'.tag.id,
                       functional |-> FunctionalPass(expected[retired'.tag.id], retired',
                                               StoreStage[retired'.tag.id], rf'[0]),
                       delta |-> cycle - expected[retired'.tag.id].cycle]
        /\ stores' = Without(StoreStage, retired'.tag.id)
        /\ expected' = Without(expected, retired'.tag.id)
    BY <1>8, <1>10, <1>12 DEF LockFallingEdge
  <2> QED BY <1>2, <1>3, <1>4, <1>5, <1>10, <1>11, <1>12, <2>1, <2>2
<1>13. CASE ~Live(dTag)
  <2>1. verdict' = NoVerdict /\ stores' = StoreStage /\ UNCHANGED expected
    BY <1>8, <1>10, <1>13 DEF LockFallingEdge
  <2> QED BY <1>2, <1>3, <1>4, <1>5, <1>10, <1>11, <1>13, <2>1
<1> QED BY <1>12, <1>13

\* A rising edge moves every stage; when it accepts, oracle and golden model follow.
LEMMA LockRisingEffect ==
    ASSUME TrackTypeOK, TrackInv, LockTypes, NEW i \in Fetchable \cup {NoInstr},
           LockRisingEdge(i)
    PROVE  /\ phase = "rise" /\ phase' = "fall" /\ ~reset' /\ ~loopError
           /\ cycle' = cycle + 1 /\ verdict' = NoVerdict
           /\ UNCHANGED <<rf, dmem, stores, stalledId, stallCount>> /\ pending' = NoPending
           /\ dTag' = cTag /\ cTag' = bTag /\ dTag = NoTag
           /\ LatchA(i) /\ LatchC /\ LatchD /\ Resolve /\ FetchedWord(i)
           /\ IF Accepts
              THEN /\ event' = [id |-> index + 1, cycle |-> cycle, pc |-> A.pc,
                                instr |-> A.instr, stalls |-> pending.stalls,
                                fa |-> ForwardA', fb |-> ForwardB']
                   /\ event' # NoEvent /\ Accept(event')
                   /\ bTag' = [id |-> index + 1, cycle |-> cycle,
                               pc |-> A.pc, instr |-> A.instr]
                   /\ Live(bTag)'
                   /\ B' = [op |-> A.instr.op, rd |-> A.instr.rd,
                            rs1 |-> A.instr.rs1, rs2 |-> A.instr.rs2,
                            imm |-> A.instr.imm, pc |-> A.pc,
                            v1 |-> rf[A.instr.rs1], v2 |-> rf[A.instr.rs2]]
              ELSE /\ event' = NoEvent /\ bTag' = NoTag
                   /\ expectation' = NoExpectation
                   /\ UNCHANGED <<gold, oracle, expected, loopError, defects, falseStalls>>
<1>1. TrackRisingEdge(i) /\ ~reset /\ ~loopError /\ verdict' = NoVerdict /\ stores' = stores
  BY DEF LockRisingEdge, LockTypes
<1>2. /\ phase = "rise" /\ phase' = "fall" /\ ~reset'
      /\ cycle' = cycle + 1 /\ pending' = NoPending
      /\ UNCHANGED <<stalledId, stallCount>>
      /\ dTag' = cTag /\ cTag' = bTag /\ dTag = NoTag
      /\ IF Accepts
         THEN /\ bTag' = [id |-> index + 1, cycle |-> cycle,
                          pc |-> A.pc, instr |-> A.instr]
              /\ Live(bTag)'
         ELSE bTag' = NoTag
      /\ IF PcSel \/ RegStall THEN B' = BubbleB
         ELSE B' = [op |-> A.instr.op, rd |-> A.instr.rd,
                    rs1 |-> A.instr.rs1, rs2 |-> A.instr.rs2,
                    imm |-> A.instr.imm, pc |-> A.pc,
                    v1 |-> rf[A.instr.rs1], v2 |-> rf[A.instr.rs2]]
  BY <1>1, RisingEffect
<1>3. /\ UNCHANGED <<rf, dmem>> /\ LatchA(i) /\ LatchC /\ LatchD /\ Resolve /\ FetchedWord(i)
      /\ FinalizePostEdge
  BY <1>1 DEF TrackRisingEdge, RisingEdge
<1>4. CASE Accepts
  <2>1. pending.pc = A.pc /\ pending.instr = A.instr /\ A.instr # NoInstr
    BY <1>2, <1>4 DEF TrackInv, EdgeOrder, Accepts
  <2>2. pending # NoPending
    BY <2>1 DEF NoPending
  <2>3. event' = [id |-> index + 1, cycle |-> cycle, pc |-> A.pc,
                  instr |-> A.instr, stalls |-> pending.stalls,
                  fa |-> ForwardA', fb |-> ForwardB']
    BY <1>3, <2>1, <2>2 DEF FinalizePostEdge
  <2>4. event'.id = index + 1 /\ index + 1 # 0
    BY <2>3 DEF TrackTypeOK
  <2>5. event' # NoEvent
    BY <2>4 DEF NoEvent
  <2>6. Accept(event')
    BY <2>5 DEF LockRisingEdge
  <2>7. ~PcSel /\ ~RegStall
    BY <1>4 DEF Accepts
  <2> QED BY <1>1, <1>2, <1>3, <1>4, <2>3, <2>5, <2>6, <2>7
<1>5. CASE ~Accepts
  <2>1. pending = NoPending
    BY <1>2, <1>5 DEF TrackInv, EdgeOrder
  <2>2. event' = NoEvent
    BY <1>3, <2>1 DEF FinalizePostEdge
  <2>3. /\ expectation' = NoExpectation
        /\ UNCHANGED <<gold, oracle, expected, loopError, defects, falseStalls>>
    BY <2>2 DEF LockRisingEdge
  <2> QED BY <1>1, <1>2, <1>3, <1>5, <2>2, <2>3
<1> QED BY <1>4, <1>5

-----------------------------------------------------------------------------
(* Types.                                                                   *)

\* The event of an acceptance is well typed.
LEMMA AcceptedEvent ==
    ASSUME TrackTypeOK, TrackInv, LockTypes, NEW i \in Fetchable \cup {NoInstr},
           LockRisingEdge(i), Accepts
    PROVE  /\ event'.id = index + 1 /\ event'.id \in Nat \ {0}
           /\ event'.cycle = cycle /\ cycle \in Nat
           /\ event'.pc = A.pc /\ event'.instr = A.instr
           /\ event'.stalls = pending.stalls /\ pending.stalls \in Nat
           /\ event'.fa = ForwardA' /\ event'.fb = ForwardB'
           /\ A.instr \in Instr /\ A.instr.op \in Op /\ A.instr.op # "NONE"
           /\ A.instr.rd \in Reg /\ A.instr.rs1 \in Reg /\ A.instr.rs2 \in Reg
           /\ A.instr.imm \in Imm /\ A.instr.imm \in Word /\ A.pc \in FetchPc
           /\ ~PcSel /\ ~RegStall
<1>1. event' = [id |-> index + 1, cycle |-> cycle, pc |-> A.pc,
                instr |-> A.instr, stalls |-> pending.stalls,
                fa |-> ForwardA', fb |-> ForwardB']
  BY LockRisingEffect
<1>2. index \in Nat /\ cycle \in Nat /\ pending.stalls \in Nat
  BY DEF TrackTypeOK
<1>3. A.pc \in FetchPc /\ A.instr \in InstrOrNone /\ A.instr # NoInstr /\ ~PcSel /\ ~RegStall
  BY DEF TrackTypeOK, PipeTypeOK, Accepts
<1>4. A.instr \in Instr
  BY <1>3 DEF InstrOrNone
<1>5. A.instr.op # "NONE"
  BY <1>3, InstrIsNotNone
<1>6. index + 1 \in Nat \ {0}
  BY <1>2
<1>7. /\ event'.id = index + 1 /\ event'.cycle = cycle /\ event'.pc = A.pc
      /\ event'.instr = A.instr /\ event'.stalls = pending.stalls
      /\ event'.fa = ForwardA' /\ event'.fb = ForwardB'
  BY <1>1
<1>8. /\ A.instr.op \in Op /\ A.instr.rd \in Reg /\ A.instr.rs1 \in Reg
      /\ A.instr.rs2 \in Reg /\ A.instr.imm \in Imm /\ A.instr.imm \in Word
  BY <1>4, ImmAssumption DEF Instr
<1> QED BY <1>2, <1>3, <1>4, <1>5, <1>6, <1>7, <1>8

\* An expectation is for the oracle's next slot, or the one after a load.
LEMMA ExpectationType ==
    ASSUME LockTypes, NEW e
    PROVE  /\ NextExpectation(e).accept = oracle.next + NextExpectation(e).stalls
           /\ NextExpectation(e).accept \in Nat /\ NextExpectation(e).stalls \in {0, 1}
           /\ NextExpectation(e).a = Producer(UsesRs1(e.instr.op), e.instr.rs1)
           /\ NextExpectation(e).b = Producer(UsesRs2(e.instr.op), e.instr.rs2)
<1> DEFINE a == Producer(UsesRs1(e.instr.op), e.instr.rs1)
           b == Producer(UsesRs2(e.instr.op), e.instr.rs2)
           LoadUse(w) == w.op = "LW" /\ oracle.next - w.cycle = 1
           stalls == IF LoadUse(a) \/ LoadUse(b) THEN 1 ELSE 0
           accept == oracle.next + stalls
           fa == ForwardForAge(a, accept)
           fb == ForwardForAge(b, accept)
<1>1. NextExpectation(e) = [id |-> e.id, accept |-> accept, stalls |-> stalls,
                            fa |-> fa, fb |-> fb, a |-> a, b |-> b]
  BY DEF NextExpectation
<1>2. oracle.next \in Nat /\ stalls \in {0, 1}
  BY DEF LockTypes
<1>3. accept \in Nat
  BY <1>2
<1>4. a = Producer(UsesRs1(e.instr.op), e.instr.rs1)
      /\ b = Producer(UsesRs2(e.instr.op), e.instr.rs2)
  OBVIOUS
<1>5. accept = oracle.next + stalls
  OBVIOUS
<1> HIDE DEF a, b, stalls, accept, fa, fb
<1> QED BY <1>1, <1>2, <1>3, <1>4, <1>5

\* What an acceptance on the expected path registers.
LEMMA AcceptEffect ==
    ASSUME NEW e, Accept(e), e.pc = gold.pc
    PROVE  /\ expectation' = NextExpectation(e)
           /\ oracle' =
                [next   |-> NextExpectation(e).accept + 1
                            + (IF e.instr.op \in {"JAL", "JALR"} \/ BranchTaken(gold, e.instr)
                               THEN RedirectBubbles ELSE 0),
                 writer |-> IF WritesRd(e.instr.op) /\ e.instr.rd # 0
                            THEN [oracle.writer EXCEPT ![e.instr.rd] =
                                    [id |-> e.id, op |-> e.instr.op,
                                     cycle |-> NextExpectation(e).accept, seen |-> e.cycle]]
                            ELSE oracle.writer]
           /\ gold' = GoldStep(gold, e.instr, e.pc)
           /\ expected' = With(expected, e.id,
                ExpectedRetire(gold, e.instr, e.pc,
                               NextExpectation(e).accept + RetireLatencyCycles))
           /\ defects' = defects \cup Provoked(e)
           /\ falseStalls' = falseStalls + (e.stalls - NextExpectation(e).stalls)
           /\ loopError' = loopError
<1>1. /\ expectation' = NextExpectation(e)
      /\ AdvanceOracle(e, NextExpectation(e))
      /\ gold' = GoldStep(gold, e.instr, e.pc)
      /\ expected' = With(expected, e.id,
           ExpectedRetire(gold, e.instr, e.pc,
                          NextExpectation(e).accept + RetireLatencyCycles))
      /\ defects' = defects \cup Provoked(e)
      /\ falseStalls' = falseStalls + (e.stalls - NextExpectation(e).stalls)
      /\ loopError' = loopError
  BY DEF Accept
<1> QED BY <1>1 DEF AdvanceOracle

\* On another path the loop ends.
LEMMA RejectEffect ==
    ASSUME NEW e, Accept(e), e.pc # gold.pc
    PROVE  /\ loopError' = TRUE /\ expectation' = NoExpectation
           /\ UNCHANGED <<gold, oracle, expected, defects, falseStalls>>
  BY DEF Accept

\* Golden model and oracle start well typed.
LEMMA LockInitTypes == LockInit => LockTypes
<1> SUFFICES ASSUME LockInit PROVE LockTypes
  OBVIOUS
<1>1. ~reset
  BY DEF LockInit, TrackInit, PipeInit
<1>2. NoWriter \in Writer
  BY DEF NoWriter, Writer
<1>3. oracle \in [next : Nat, writer : [Reg -> Writer]]
  <2>1. [r \in Reg |-> NoWriter] \in [Reg -> Writer]
    BY <1>2
  <2> QED BY <2>1 DEF LockInit
<1>4. DOMAIN gold.x = Reg /\ DOMAIN gold.m = Word
  BY DEF LockInit
<1>5. expectation.accept \in Nat /\ expectation.stalls \in {0, 1} /\ falseStalls \in Int
      /\ loopError \in BOOLEAN
  <2>1. expectation = NoExpectation /\ falseStalls = 0 /\ loopError = FALSE
    BY DEF LockInit
  <2>2. NoExpectation.accept = 0 /\ NoExpectation.stalls = 0
    BY DEF NoExpectation
  <2>3. loopError \in BOOLEAN
    BY <2>1, Zenon
  <2> QED BY <2>1, <2>2, <2>3
<1> QED BY <1>1, <1>3, <1>4, <1>5 DEF LockTypes

\* Each edge keeps the types.
LEMMA LockNextTypes ==
    ASSUME TrackTypeOK, TrackInv, LockTypes, RetainsOnlyInFlight, LockNext
    PROVE  LockTypes'
<1>1. CASE LockFallingEdge
  <2>1. /\ ~reset' /\ UNCHANGED <<gold, oracle, expectation, falseStalls>>
        /\ loopError' \in BOOLEAN
    BY <1>1, LockFallingEffect
  <2> QED BY <2>1 DEF LockTypes
<1>2. ASSUME NEW i \in Fetchable \cup {NoInstr}, LockRisingEdge(i)
      PROVE  LockTypes'
  <2>1. ~reset'
    BY <1>2, LockRisingEffect
  <2>2. NoExpectation.accept \in Nat /\ NoExpectation.stalls \in {0, 1}
    BY DEF NoExpectation
  <2>3. CASE ~Accepts
    <3>1. expectation' = NoExpectation /\ UNCHANGED <<gold, oracle, loopError, falseStalls>>
      BY <1>2, <2>3, LockRisingEffect
    <3> QED BY <2>1, <2>2, <3>1 DEF LockTypes
  <2>4. CASE Accepts /\ event'.pc # gold.pc
    <3>1. loopError' = TRUE /\ expectation' = NoExpectation
          /\ UNCHANGED <<gold, oracle, falseStalls>>
      BY <1>2, <2>4, LockRisingEffect, RejectEffect
    <3> QED BY <2>1, <2>2, <3>1 DEF LockTypes
  <2>5. CASE Accepts /\ event'.pc = gold.pc
    <3> DEFINE x == NextExpectation(event')
               bubbles == IF event'.instr.op \in {"JAL", "JALR"}
                             \/ BranchTaken(gold, event'.instr)
                          THEN RedirectBubbles ELSE 0
               entry == [id |-> event'.id, op |-> event'.instr.op, cycle |-> x.accept,
                         seen |-> event'.cycle]
    <3>1. Accept(event')
      BY <1>2, <2>5, LockRisingEffect
    <3>2. /\ expectation' = x
          /\ oracle' = [next |-> x.accept + 1 + bubbles,
                        writer |-> IF WritesRd(event'.instr.op) /\ event'.instr.rd # 0
                                   THEN [oracle.writer EXCEPT ![event'.instr.rd] = entry]
                                   ELSE oracle.writer]
          /\ gold' = GoldStep(gold, event'.instr, event'.pc)
          /\ falseStalls' = falseStalls + (event'.stalls - x.stalls)
          /\ loopError' = loopError
      BY <2>5, <3>1, AcceptEffect
    <3>3. x.accept \in Nat /\ x.stalls \in {0, 1}
      BY ExpectationType
    <3>4. bubbles \in Nat
      BY OracleAssumption
    <3>5. entry \in Writer
      BY <1>2, <2>5, <3>3, AcceptedEvent DEF Writer
    <3>6. oracle.writer \in [Reg -> Writer] /\ event'.instr.rd \in Reg
      BY <1>2, <2>5, AcceptedEvent DEF LockTypes
    <3>7. DOMAIN gold'.x = Reg
      BY <3>2 DEF GoldStep, LockTypes
    <3>8. DOMAIN gold'.m = Word
      BY <3>2 DEF GoldStep, LockTypes, WriteWord
    <3>9. event'.stalls \in Nat /\ falseStalls \in Int
      BY <1>2, <2>5, AcceptedEvent DEF LockTypes
    <3> HIDE DEF x, bubbles, entry
    <3>10. oracle' \in [next : Nat, writer : [Reg -> Writer]]
      BY <3>2, <3>3, <3>4, <3>5, <3>6
    <3>11. falseStalls' \in Int
      BY <3>2, <3>3, <3>9
    <3> QED BY <2>1, <3>2, <3>3, <3>7, <3>8, <3>10, <3>11 DEF LockTypes
  <2> QED BY <2>3, <2>4, <2>5
<1> QED BY <1>1, <1>2 DEF LockNext

-----------------------------------------------------------------------------
(* What the scoreboards retain.                                             *)

\* Expectations are those of the tags, store observations those of the next tag to
\* retire.
LEMMA RetainsNext ==
    ASSUME TrackTypeOK, TrackInv, LockTypes, RetainsOnlyInFlight, LockNext
    PROVE  RetainsOnlyInFlight'
<1>1. CASE LockFallingEdge
  <2>1. /\ phase = "fall" /\ phase' = "rise" /\ ~loopError
        /\ UNCHANGED <<bTag, cTag>> /\ dTag' = NoTag
        /\ expected' = IF Live(dTag) THEN Without(expected, dTag.id) ELSE expected
        /\ stores' = IF Live(dTag) THEN Without(StoreStage, dTag.id) ELSE StoreStage
    BY <1>1, LockFallingEffect
  <2>2. /\ DOMAIN expected = {bTag.id, cTag.id, dTag.id} \ {0}
        /\ DOMAIN stores = {dTag.id} \ {0}
    BY <2>1 DEF RetainsOnlyInFlight
  <2>3. DOMAIN StoreStage = {cTag.id, dTag.id} \ {0}
    BY <2>2, TagNumbers DEF StoreStage, With
  <2>4. /\ DOMAIN expected' = {bTag.id, cTag.id} \ {0}
        /\ DOMAIN stores' = {cTag.id} \ {0}
    BY <2>1, <2>2, <2>3, TagNumbers DEF Without
  <2>5. NoTag.id = 0
    BY DEF NoTag
  <2> QED BY <2>1, <2>4, <2>5 DEF RetainsOnlyInFlight
<1>2. ASSUME NEW i \in Fetchable \cup {NoInstr}, LockRisingEdge(i), ~loopError'
      PROVE  RetainsOnlyInFlight'
  <2>1. /\ phase = "rise" /\ phase' = "fall" /\ ~loopError /\ UNCHANGED stores
        /\ dTag' = cTag /\ cTag' = bTag /\ dTag = NoTag
    BY <1>2, LockRisingEffect
  <2>2. NoTag.id = 0
    BY DEF NoTag
  <2>3. /\ DOMAIN expected = {bTag.id, cTag.id} \ {0}
        /\ DOMAIN stores = {cTag.id} \ {0}
    BY <2>1, <2>2 DEF RetainsOnlyInFlight
  <2>4. CASE ~Accepts
    <3>1. bTag' = NoTag /\ UNCHANGED expected
      BY <1>2, <2>4, LockRisingEffect
    <3> QED BY <2>1, <2>2, <2>3, <3>1 DEF RetainsOnlyInFlight
  <2>5. CASE Accepts
    <3>1. Accept(event') /\ bTag'.id = index + 1 /\ event'.id = index + 1
          /\ event'.id \in Nat \ {0}
      BY <1>2, <2>5, LockRisingEffect, AcceptedEvent
    <3>2. event'.pc = gold.pc
      BY <1>2, <3>1, RejectEffect
    <3>3. DOMAIN expected' = DOMAIN expected \cup {index + 1}
      BY <3>1, <3>2, AcceptEffect DEF With
    <3> QED BY <2>1, <2>3, <3>1, <3>3 DEF RetainsOnlyInFlight
  <2> QED BY <2>4, <2>5
<1>3. loopError' => RetainsOnlyInFlight'
  BY DEF RetainsOnlyInFlight
<1> QED BY <1>1, <1>2, <1>3 DEF LockNext

-----------------------------------------------------------------------------
(* Forwarding.                                                              *)

\* The decoders of the DUT and of the stack agree on who writes a register.
LEMMA WritersAgree == \A op : RegWrite(op) <=> WritesRd(op)
  BY DEF RegWrite, WritesRd

\* The empty tag writes nothing; a tag that writes is that of its stage.
LEMMA TagsWrite ==
    ASSUME TrackTypeOK, TrackInv, NEW r
    PROVE  /\ Writes(bTag, r) <=> RegWrite(B.op) /\ B.rd = r
           /\ Writes(cTag, r) <=> RegWrite(C.op) /\ C.rd = r
           /\ Writes(bTag, r) => Live(bTag)
           /\ Writes(cTag, r) => Live(cTag)
           /\ Writes(dTag, r) => Live(dTag)
<1>1. ~WritesRd(NoTag.instr.op)
  BY DEF WritesRd, NoTag, NoInstr
<1>2. \A t : Writes(t, r) => Live(t)
  BY <1>1 DEF Writes, Live
<1>3. bTag.instr.op = B.op /\ cTag.instr.op = C.op
  BY DEF TrackInv, StageIdentity
<1>4. (Live(bTag) => B.rd = bTag.instr.rd) /\ (Live(cTag) => C.rd = cTag.instr.rd)
  BY DEF TrackInv, StageIdentity
<1>5. (~Live(bTag) => ~WritesRd(B.op)) /\ (~Live(cTag) => ~WritesRd(C.op))
  BY <1>1, <1>3 DEF Live
<1> QED BY <1>2, <1>3, <1>4, <1>5, WritersAgree DEF Writes

\* No register has a writer yet.
LEMMA LockInitWriters == LockInit => WritersAreYoungest
<1> SUFFICES ASSUME LockInit, NEW r \in Reg
             PROVE  /\ ~Writes(bTag, r) /\ ~Writes(cTag, r)
                    /\ oracle.writer[r] = NoWriter
  BY DEF WritersAreYoungest
<1>1. bTag = NoTag /\ cTag = NoTag
  BY DEF LockInit, TrackInit
<1>2. ~Writes(bTag, r) /\ ~Writes(cTag, r)
  BY <1>1 DEF Writes, WritesRd, NoTag, NoInstr
<1>3. oracle.writer = [q \in Reg |-> NoWriter]
  BY DEF LockInit
<1> QED BY <1>2, <1>3

\* The oracle's table follows the tags from stage to stage.
LEMMA WritersNext ==
    ASSUME TrackTypeOK, TrackInv, LockTypes, RetainsOnlyInFlight, WritersAreYoungest, LockNext
    PROVE  WritersAreYoungest'
<1>1. CASE LockFallingEdge
  <2>1. UNCHANGED <<bTag, cTag, cycle, oracle>> /\ ~loopError
    BY <1>1, LockFallingEffect
  <2> QED BY <2>1 DEF WritersAreYoungest, Writes, IsEntryOf
<1>2. ASSUME NEW i \in Fetchable \cup {NoInstr}, LockRisingEdge(i), ~loopError',
             NEW r \in Reg \ {0}
      PROVE  IF Writes(bTag', r) THEN IsEntryOf(oracle'.writer[r], bTag')
             ELSE IF Writes(cTag', r) THEN IsEntryOf(oracle'.writer[r], cTag')
             ELSE oracle'.writer[r] = NoWriter \/ oracle'.writer[r].seen < cycle' - 2
  <2>1. ~loopError /\ cTag' = bTag /\ cycle' = cycle + 1
    BY <1>2, LockRisingEffect
  <2>2. cycle \in Nat /\ oracle.writer[r] \in Writer
    BY DEF TrackTypeOK, LockTypes
  <2>3. oracle.writer[r].seen \in Nat
    BY <2>2 DEF Writer
  <2>4. Writes(cTag, r) => cTag.cycle = cycle - 2
    BY TagsWrite DEF TrackInv, TagAges
  <2>5. IF Writes(bTag, r) THEN IsEntryOf(oracle.writer[r], bTag)
        ELSE IF Writes(cTag, r) THEN IsEntryOf(oracle.writer[r], cTag)
        ELSE oracle.writer[r] = NoWriter \/ oracle.writer[r].seen < cycle - 2
    BY <2>1 DEF WritersAreYoungest
  <2>6. IF Writes(cTag', r) THEN IsEntryOf(oracle.writer[r], cTag')
        ELSE oracle.writer[r] = NoWriter \/ oracle.writer[r].seen < cycle' - 2
    <3>1. CASE Writes(bTag, r)
      BY <2>1, <2>5, <3>1
    <3>2. CASE ~Writes(bTag, r) /\ Writes(cTag, r)
      <4>1. oracle.writer[r].seen = cycle - 2
        BY <2>4, <2>5, <3>2 DEF IsEntryOf
      <4>2. oracle.writer[r].seen < cycle' - 2
        BY <2>1, <2>2, <4>1
      <4> QED BY <2>1, <3>2, <4>2
    <3>3. CASE ~Writes(bTag, r) /\ ~Writes(cTag, r)
      <4>1. oracle.writer[r].seen < cycle - 2 => oracle.writer[r].seen < cycle' - 2
        BY <2>1, <2>2, <2>3
      <4> QED BY <2>1, <2>5, <3>3, <4>1
    <3> QED BY <3>1, <3>2, <3>3
  <2>7. CASE ~Accepts
    <3>1. bTag' = NoTag /\ UNCHANGED oracle
      BY <1>2, <2>7, LockRisingEffect
    <3>2. ~Writes(bTag', r)
      BY <3>1 DEF Writes, WritesRd, NoTag, NoInstr
    <3> QED BY <2>6, <3>1, <3>2
  <2>8. CASE Accepts
    <3> DEFINE e == event'
    <3>1. /\ Accept(e)
          /\ bTag' = [id |-> index + 1, cycle |-> cycle, pc |-> A.pc, instr |-> A.instr]
      BY <1>2, <2>8, LockRisingEffect
    <3>2. e.id = index + 1 /\ e.instr = A.instr /\ e.cycle = cycle /\ A.instr.rd \in Reg
      BY <1>2, <2>8, AcceptedEvent
    <3>3. e.pc = gold.pc
      BY <1>2, <3>1, RejectEffect
    <3>4. bTag'.id = index + 1 /\ bTag'.instr = A.instr /\ bTag'.cycle = cycle
      BY <3>1
    <3>5. oracle'.writer = IF WritesRd(e.instr.op) /\ e.instr.rd # 0
                           THEN [oracle.writer EXCEPT ![e.instr.rd] =
                                   [id |-> e.id, op |-> e.instr.op,
                                    cycle |-> NextExpectation(e).accept, seen |-> e.cycle]]
                           ELSE oracle.writer
      BY <3>1, <3>3, AcceptEffect
    <3>6. DOMAIN oracle.writer = Reg
      BY DEF LockTypes
    <3> HIDE DEF e
    <3>7. CASE Writes(bTag', r)
      <4>1. WritesRd(e.instr.op) /\ e.instr.rd = r /\ r # 0
        BY <3>2, <3>4, <3>7 DEF Writes
      <4>2. oracle'.writer[r] = [id |-> e.id, op |-> e.instr.op,
                                 cycle |-> NextExpectation(e).accept, seen |-> e.cycle]
        BY <3>5, <3>6, <4>1
      <4> QED BY <3>2, <3>4, <3>7, <4>2 DEF IsEntryOf
    <3>8. CASE ~Writes(bTag', r)
      <4>1. ~(WritesRd(e.instr.op) /\ e.instr.rd = r)
        BY <3>2, <3>4, <3>8 DEF Writes
      <4>2. oracle'.writer[r] = oracle.writer[r]
        BY <3>5, <3>6, <4>1
      <4> QED BY <2>6, <3>8, <4>2
    <3> QED BY <3>7, <3>8
  <2> QED BY <2>7, <2>8
<1>3. CASE \E i \in Fetchable \cup {NoInstr} : LockRisingEdge(i)
  BY <1>2, <1>3 DEF WritersAreYoungest
<1> QED BY <1>1, <1>3 DEF LockNext

\* The forwarding unit's choice for an operand field, from the tags that are in B and C
\* when the reading instruction leaves A.
LEMMA ForwardFromTags ==
    ASSUME TrackTypeOK, TrackInv, LockTypes, NEW i \in Fetchable \cup {NoInstr},
           LockRisingEdge(i), NEW r,
           NEW sel, \/ B'.rs1 = r /\ sel = ForwardA'
                    \/ B'.rs2 = r /\ sel = ForwardB'
    PROVE  sel = IF r # 0 /\ Writes(bTag, r) THEN "EX_MEM"
                 ELSE IF r # 0 /\ Writes(cTag, r) THEN "MEM_WB"
                 ELSE "RF"
<1>1. TrackRisingEdge(i) /\ ~reset
  BY DEF LockRisingEdge, LockTypes
<1>2. C'.op = B.op /\ C'.rd = B.rd /\ D'.op = C.op /\ D'.rd = C.rd
  BY <1>1, RisingEffect
<1> QED BY <1>2, TagsWrite DEF ForwardA, ForwardB, FwdSel

\* What a semantic source receives in EX is what the ages of producer and consumer
\* say.
LEMMA ForwardByAge ==
    ASSUME TrackTypeOK, TrackInv, LockTypes, WritersAreYoungest,
           NEW i \in Fetchable \cup {NoInstr}, LockRisingEdge(i),
           NEW r \in Reg, NEW w,
           w = IF r # 0 THEN oracle.writer[r] ELSE NoWriter,
           NEW sel, \/ B'.rs1 = r /\ sel = ForwardA'
                    \/ B'.rs2 = r /\ sel = ForwardB'
    PROVE  /\ w = NoWriter => sel = "RF"
           /\ w # NoWriter /\ cycle - w.seen = 1 => sel = "EX_MEM"
           /\ w # NoWriter /\ cycle - w.seen = 2 => sel = "MEM_WB"
           /\ w # NoWriter /\ cycle - w.seen # 1 /\ cycle - w.seen # 2 => sel = "RF"
<1>0. sel = IF r # 0 /\ Writes(bTag, r) THEN "EX_MEM"
            ELSE IF r # 0 /\ Writes(cTag, r) THEN "MEM_WB"
            ELSE "RF"
  BY ForwardFromTags
<1>1. CASE r = 0
  <2>1. w = NoWriter
    BY <1>1
  <2> QED BY <1>0, <1>1, <2>1
<1>2. CASE r # 0
  <2>1. w = oracle.writer[r]
    BY <1>2
  <2>2. ~loopError
    BY DEF LockRisingEdge
  <2>3. IF Writes(bTag, r) THEN IsEntryOf(w, bTag)
        ELSE IF Writes(cTag, r) THEN IsEntryOf(w, cTag)
        ELSE w = NoWriter \/ w.seen < cycle - 2
    BY <1>2, <2>1, <2>2 DEF WritersAreYoungest
  <2>4. cycle \in Nat /\ w \in Writer
    BY <2>1 DEF TrackTypeOK, LockTypes
  <2>5. w.seen \in Nat
    BY <2>4 DEF Writer
  <2>6. /\ Writes(bTag, r) => bTag.id # 0 /\ bTag.cycle = cycle - 1
        /\ Writes(cTag, r) => cTag.id # 0 /\ cTag.cycle = cycle - 2
    BY TagsWrite DEF TrackInv, TagAges
  <2>7. NoWriter.id = 0
    BY DEF NoWriter
  <2>8. CASE Writes(bTag, r)
    <3>1. w # NoWriter /\ w.seen = cycle - 1
      BY <2>3, <2>6, <2>7, <2>8 DEF IsEntryOf
    <3>2. cycle - w.seen = 1
      BY <2>4, <3>1
    <3> QED BY <1>0, <1>2, <2>4, <2>5, <2>8, <3>1, <3>2
  <2>9. CASE ~Writes(bTag, r) /\ Writes(cTag, r)
    <3>1. w # NoWriter /\ w.seen = cycle - 2
      BY <2>3, <2>6, <2>7, <2>9 DEF IsEntryOf
    <3>2. cycle - w.seen = 2
      BY <2>4, <3>1
    <3> QED BY <1>0, <1>2, <2>4, <2>5, <2>9, <3>1, <3>2
  <2>10. CASE ~Writes(bTag, r) /\ ~Writes(cTag, r)
    <3>1. sel = "RF"
      BY <1>0, <2>10
    <3>2. w = NoWriter \/ w.seen < cycle - 2
      BY <2>3, <2>10
    <3>3. w.seen < cycle - 2 => cycle - w.seen # 1 /\ cycle - w.seen # 2
      BY <2>4, <2>5
    <3> QED BY <3>1, <3>2, <3>3
  <2> QED BY <2>8, <2>9, <2>10
<1> QED BY <1>1, <1>2

\* An edge keeps ForwardingFollowsAge.
LEMMA ForwardingNext ==
    ASSUME TrackTypeOK, TrackInv, LockTypes, RetainsOnlyInFlight, WritersAreYoungest,
           ForwardingFollowsAge, LockNext
    PROVE  ForwardingFollowsAge'
<1>1. CASE LockFallingEdge
  <2>1. UNCHANGED <<event, expectation>>
    BY <1>1, LockFallingEffect
  <2> QED BY <2>1 DEF ForwardingFollowsAge, ObservedForward
<1>2. ASSUME NEW i \in Fetchable \cup {NoInstr}, LockRisingEdge(i),
             expectation' # NoExpectation
      PROVE  ForwardingFollowsAge'
  <2>1. Accepts
    BY <1>2, LockRisingEffect
  <2> DEFINE e == event'
  <2>2. Accept(e) /\ B'.rs1 = A.instr.rs1 /\ B'.rs2 = A.instr.rs2
    BY <1>2, <2>1, LockRisingEffect
  <2>3. e.pc = gold.pc
    BY <1>2, <2>2, RejectEffect
  <2>4. expectation' = NextExpectation(e)
    BY <2>2, <2>3, AcceptEffect
  <2>5. /\ e.instr = A.instr /\ e.cycle = cycle /\ e.fa = ForwardA' /\ e.fb = ForwardB'
        /\ A.instr.rs1 \in Reg /\ A.instr.rs2 \in Reg
    BY <1>2, <2>1, AcceptedEvent
  <2>6. /\ expectation'.a = Producer(UsesRs1(e.instr.op), e.instr.rs1)
        /\ expectation'.b = Producer(UsesRs2(e.instr.op), e.instr.rs2)
    BY <2>4, ExpectationType
  <2>8. ASSUME UsesRs1(e.instr.op) PROVE e.fa = ObservedForward(expectation.a)'
    <3>1. PICK r \in Reg : r = A.instr.rs1
      BY <2>5
    <3>2. PICK w : w = expectation'.a
      OBVIOUS
    <3>3. w = IF r # 0 THEN oracle.writer[r] ELSE NoWriter
      BY <2>5, <2>6, <2>8, <3>1, <3>2 DEF Producer
    <3>4. B'.rs1 = r /\ e.fa = ForwardA'
      BY <2>2, <2>5, <3>1
    <3>5. /\ w = NoWriter => e.fa = "RF"
          /\ w # NoWriter /\ cycle - w.seen = 1 => e.fa = "EX_MEM"
          /\ w # NoWriter /\ cycle - w.seen = 2 => e.fa = "MEM_WB"
          /\ w # NoWriter /\ cycle - w.seen # 1 /\ cycle - w.seen # 2 => e.fa = "RF"
      BY <1>2, <3>3, <3>4, ForwardByAge
    <3>6. ObservedForward(expectation.a)' =
            CASE w # NoWriter /\ cycle - w.seen = 1 -> "EX_MEM"
              [] w # NoWriter /\ cycle - w.seen = 2 -> "MEM_WB"
              [] OTHER                              -> "RF"
      BY <2>5, <3>2 DEF ObservedForward
    <3>7. w # NoWriter => w \in Writer
      BY <3>1, <3>3 DEF LockTypes
    <3>8. (w # NoWriter => w.seen \in Nat) /\ cycle \in Nat
      BY <3>7 DEF Writer, TrackTypeOK
    <3>9. CASE w # NoWriter /\ cycle - w.seen = 2
      BY <3>5, <3>6, <3>8, <3>9
    <3>10. CASE ~(w # NoWriter /\ cycle - w.seen = 2)
      BY <3>5, <3>6, <3>10
    <3> QED BY <3>9, <3>10
  <2>9. ASSUME UsesRs2(e.instr.op) PROVE e.fb = ObservedForward(expectation.b)'
    <3>1. PICK r \in Reg : r = A.instr.rs2
      BY <2>5
    <3>2. PICK w : w = expectation'.b
      OBVIOUS
    <3>3. w = IF r # 0 THEN oracle.writer[r] ELSE NoWriter
      BY <2>5, <2>6, <2>9, <3>1, <3>2 DEF Producer
    <3>4. B'.rs2 = r /\ e.fb = ForwardB'
      BY <2>2, <2>5, <3>1
    <3>5. /\ w = NoWriter => e.fb = "RF"
          /\ w # NoWriter /\ cycle - w.seen = 1 => e.fb = "EX_MEM"
          /\ w # NoWriter /\ cycle - w.seen = 2 => e.fb = "MEM_WB"
          /\ w # NoWriter /\ cycle - w.seen # 1 /\ cycle - w.seen # 2 => e.fb = "RF"
      BY <1>2, <3>3, <3>4, ForwardByAge
    <3>6. ObservedForward(expectation.b)' =
            CASE w # NoWriter /\ cycle - w.seen = 1 -> "EX_MEM"
              [] w # NoWriter /\ cycle - w.seen = 2 -> "MEM_WB"
              [] OTHER                              -> "RF"
      BY <2>5, <3>2 DEF ObservedForward
    <3>7. w # NoWriter => w \in Writer
      BY <3>1, <3>3 DEF LockTypes
    <3>8. (w # NoWriter => w.seen \in Nat) /\ cycle \in Nat
      BY <3>7 DEF Writer, TrackTypeOK
    <3>9. CASE w # NoWriter /\ cycle - w.seen = 2
      BY <3>5, <3>6, <3>8, <3>9
    <3>10. CASE ~(w # NoWriter /\ cycle - w.seen = 2)
      BY <3>5, <3>6, <3>10
    <3> QED BY <3>9, <3>10
  <2> QED BY <2>8, <2>9 DEF ForwardingFollowsAge
<1>3. expectation' = NoExpectation => ForwardingFollowsAge'
  BY DEF ForwardingFollowsAge
<1> QED BY <1>1, <1>2, <1>3 DEF LockNext

-----------------------------------------------------------------------------
(* A clean run, the falling edge: registers and memory take what D and C hold, *)
(* and the scoreboard finds it as expected.                                  *)

\* The wires of EX depend on the stages only.
LEMMA StableResults ==
    ASSUME UNCHANGED <<B, C, D>>
    PROVE  /\ AluResult' = AluResult /\ FAmuxResult' = FAmuxResult
           /\ FBmuxResult' = FBmuxResult /\ BrPC' = BrPC /\ ResultInB' = ResultInB
<1>1. FAmuxResult' = FAmuxResult /\ FBmuxResult' = FBmuxResult
  BY DEF FAmuxResult, FBmuxResult, Forwarded, ForwardA, ForwardB, FwdSel
<1>2. AluResult' = AluResult
  BY <1>1 DEF AluResult, SrcB
<1>3. BrPC' = BrPC /\ ResultInB' = ResultInB
  BY <1>2 DEF BrPC, ResultInB
<1> QED BY <1>1, <1>2, <1>3

\* A tag is live when its stage holds an instruction.
LEMMA LiveStages ==
    ASSUME TrackTypeOK, TrackInv
    PROVE  /\ B.op # "NONE" => Live(bTag)
           /\ C.op # "NONE" => Live(cTag)
           /\ phase = "fall" /\ D.op # "NONE" => Live(dTag)
           /\ Live(bTag) => B.op # "NONE" /\ B.op = bTag.instr.op /\ bTag.instr \in Instr
           /\ Live(cTag) => C.op # "NONE" /\ C.op = cTag.instr.op /\ cTag.instr \in Instr
           /\ phase = "fall" /\ Live(dTag) => /\ D.op # "NONE" /\ D.op = dTag.instr.op
                                              /\ D.rd = dTag.instr.rd /\ dTag.instr \in Instr
<1>1. NoTag.instr.op = "NONE"
  BY DEF NoTag, NoInstr
<1>2. /\ bTag.instr.op = B.op /\ cTag.instr.op = C.op
      /\ phase = "fall" => dTag.instr.op = D.op
      /\ Live(dTag) => D.rd = dTag.instr.rd
  BY DEF TrackInv, StageIdentity
<1>3. /\ Live(bTag) => bTag.instr # NoInstr
      /\ Live(cTag) => cTag.instr # NoInstr
      /\ Live(dTag) => dTag.instr # NoInstr
  BY DEF TrackInv, TagAges
<1>4. bTag.instr \in InstrOrNone /\ cTag.instr \in InstrOrNone /\ dTag.instr \in InstrOrNone
  BY DEF TrackTypeOK, Tag
<1>5. \A t : t.instr \in InstrOrNone /\ t.instr # NoInstr =>
                 t.instr \in Instr /\ t.instr.op # "NONE"
  BY InstrIsNotNone DEF InstrOrNone
<1> QED BY <1>1, <1>2, <1>3, <1>4, <1>5 DEF Live

\* The entries of the tags that stay are those of before.
LEMMA FallingKeepsEntries ==
    ASSUME TrackTypeOK, TrackInv, LockTypes, RetainsOnlyInFlight, LockFallingEdge
    PROVE  /\ Live(bTag) => expected'[bTag.id] = expected[bTag.id]
           /\ Live(cTag) => /\ expected'[cTag.id] = expected[cTag.id]
                            /\ stores'[cTag.id] = [write |-> MemWrite(C.op), addr |-> DmAddr,
                                                   data |-> C.v2]
           /\ Live(dTag) => StoreStage[dTag.id] = stores[dTag.id]
<1>1. /\ expected' = IF Live(dTag) THEN Without(expected, dTag.id) ELSE expected
      /\ stores' = IF Live(dTag) THEN Without(StoreStage, dTag.id) ELSE StoreStage
      /\ phase = "fall" /\ ~loopError
  BY LockFallingEffect
<1>2. /\ DOMAIN expected = {bTag.id, cTag.id, dTag.id} \ {0}
      /\ DOMAIN stores = {dTag.id} \ {0}
  BY <1>1 DEF RetainsOnlyInFlight
<1>3. Live(bTag) => expected'[bTag.id] = expected[bTag.id]
  BY <1>1, <1>2, TagNumbers DEF Without
<1>4. Live(cTag) => expected'[cTag.id] = expected[cTag.id]
  BY <1>1, <1>2, TagNumbers DEF Without
<1>5. ASSUME Live(cTag)
      PROVE  /\ cTag.id \in DOMAIN StoreStage
             /\ StoreStage[cTag.id] = [write |-> MemWrite(C.op), addr |-> DmAddr, data |-> C.v2]
  BY <1>5 DEF StoreStage, With
<1>6. ASSUME Live(cTag)
      PROVE  stores'[cTag.id] = StoreStage[cTag.id]
  BY <1>1, <1>5, <1>6, TagNumbers DEF Without
<1>7. ASSUME Live(dTag) PROVE StoreStage[dTag.id] = stores[dTag.id]
  BY <1>2, <1>7, TagNumbers DEF StoreStage, With
<1> QED BY <1>3, <1>4, <1>5, <1>6, <1>7

\* The memory after the store is the one that is looked ahead to.
LEMMA FallingMemory ==
    ASSUME TrackTypeOK, TrackInv, LockTypes, RetainsOnlyInFlight, LockFallingEdge
    PROVE  NextMem' = NextMem
<1>1. /\ phase = "fall" /\ phase' = "rise"
      /\ dmem' = IF MemWrite(C.op) THEN WrittenMem ELSE dmem
  BY LockFallingEffect
<1> QED BY <1>1 DEF NextMem

\* Stages and golden state stay in step.
LEMMA FallingStages ==
    ASSUME TrackTypeOK, TrackInv, LockTypes, RetainsOnlyInFlight, LockFallingEdge, InStep
    PROVE  /\ BFollows' /\ CFollows' /\ DFollows' /\ StoresFollow'
           /\ MemoryFollows' /\ PathFollows'
<1>1. /\ phase = "fall" /\ phase' = "rise" /\ PcSel' = PcSel
      /\ UNCHANGED <<A, B, C, D, bTag, cTag, resume, gold>>
  BY LockFallingEffect
<1>2. /\ AluResult' = AluResult /\ FBmuxResult' = FBmuxResult /\ BrPC' = BrPC
      /\ ResultInB' = ResultInB /\ NextMem' = NextMem
  BY <1>1, StableResults, FallingMemory
<1>3. BFollows'
  BY <1>1, <1>2, FallingKeepsEntries DEF InStep, BFollows, IsExpectationOf, Live
<1>4. CFollows'
  BY <1>1, <1>2, FallingKeepsEntries DEF InStep, CFollows, IsExpectationOf, Live
<1>5. DFollows'
  BY <1>1 DEF DFollows
<1>6. StoresFollow'
  <2> SUFFICES ASSUME Live(cTag)
               PROVE  /\ stores'[cTag.id].write = expected'[cTag.id].store
                      /\ cTag.instr.op = "SW" =>
                           /\ stores'[cTag.id].addr = expected'[cTag.id].addr
                           /\ stores'[cTag.id].data = expected'[cTag.id].data
    BY <1>1 DEF StoresFollow, Live
  <2> DEFINE x == expected[cTag.id]
  <2>1. /\ expected'[cTag.id] = x
        /\ stores'[cTag.id].write = MemWrite(C.op)
        /\ stores'[cTag.id].addr = DmAddr
        /\ stores'[cTag.id].data = C.v2
    BY FallingKeepsEntries
  <2>2. C.op = cTag.instr.op
    BY LiveStages
  <2>3. /\ x.store = (C.op = "SW")
        /\ C.op = "SW" => C.alu = x.addr /\ C.v2 = x.data /\ x.addr \in 0 .. DmSize - 1
    BY <2>2 DEF InStep, CFollows, IsExpectationOf
  <2>4. C.op = "SW" => DmAddr = x.addr
    BY <2>3, ZeroTypes DEF DmAddr
  <2> QED BY <2>1, <2>2, <2>3, <2>4 DEF MemWrite
<1>7. MemoryFollows'
  <2>1. ASSUME bTag.instr.op = "SW" PROVE expected'[bTag.id] = expected[bTag.id]
    BY <2>1, FallingKeepsEntries DEF Live, NoTag, NoInstr
  <2> QED BY <1>1, <1>2, <2>1 DEF InStep, MemoryFollows
<1>8. PathFollows'
  BY <1>1, <1>2 DEF InStep, PathFollows, Live
<1> QED BY <1>3, <1>4, <1>5, <1>6, <1>7, <1>8

\* The register file receives what the instruction in D was to write, and x0 zero.
LEMMA FallingRegisters ==
    ASSUME TrackTypeOK, TrackInv, LockTypes, RetainsOnlyInFlight, LockFallingEdge, InStep
    PROVE  RegistersFollow'
<1>1. /\ phase = "fall" /\ phase' = "rise" /\ dTag' = NoTag
      /\ UNCHANGED <<bTag, cTag, gold>>
      /\ rf' = IF RegWrite(D.op) THEN [rf EXCEPT ![D.rd] = D.val] ELSE rf
  BY LockFallingEffect
<1>2. rf \in [Reg -> Word] /\ 0 \in Reg
  BY ZeroTypes DEF TrackTypeOK, PipeTypeOK
<1>3. /\ RegWrite(D.op) => Live(dTag)
      /\ Live(dTag) => D.op = dTag.instr.op /\ D.rd = dTag.instr.rd
  BY <1>1, LiveStages, DecodeFacts
<1>4. RegWrite(D.op) => /\ D.val = expected[dTag.id].wdata
                        /\ dTag.instr.rd = 0 => D.val = 0
  BY <1>1, <1>3, WritersAgree DEF InStep, DFollows, IsExpectationOf
<1>5. rf'[0] = 0
  BY <1>1, <1>2, <1>3, <1>4 DEF InStep, RegistersFollow
<1>6. ASSUME NEW r \in Reg \ {0}
      PROVE  gold'.x[r] = IF Writes(bTag', r) THEN expected'[bTag'.id].wdata
                          ELSE IF Writes(cTag', r) THEN expected'[cTag'.id].wdata
                          ELSE rf'[r]
  <2>1. gold.x[r] = IF Writes(bTag, r) THEN expected[bTag.id].wdata
                    ELSE IF Writes(cTag, r) THEN expected[cTag.id].wdata
                    ELSE IF Writes(dTag, r) THEN expected[dTag.id].wdata
                    ELSE rf[r]
    BY <1>1 DEF InStep, RegistersFollow
  <2>2. rf'[r] = IF Writes(dTag, r) THEN expected[dTag.id].wdata ELSE rf[r]
    <3>1. CASE Writes(dTag, r)
      <4>1. Live(dTag) /\ WritesRd(dTag.instr.op) /\ dTag.instr.rd = r
        BY <3>1, TagsWrite DEF Writes
      <4> QED BY <1>1, <1>2, <1>3, <1>4, <3>1, <4>1, WritersAgree
    <3>2. CASE ~Writes(dTag, r)
      <4>1. ~(RegWrite(D.op) /\ D.rd = r)
        BY <1>3, <3>2, WritersAgree DEF Writes
      <4> QED BY <1>1, <1>2, <3>2, <4>1
    <3> QED BY <3>1, <3>2
  <2> QED BY <1>1, <2>1, <2>2, TagsWrite, FallingKeepsEntries
<1>7. phase' # "fall"
  BY <1>1
<1> QED BY <1>5, <1>6, <1>7 DEF RegistersFollow

\* The retirement passes.
LEMMA FallingPasses ==
    ASSUME TrackTypeOK, TrackInv, LockTypes, RetainsOnlyInFlight, LockFallingEdge, InStep
    PROVE  verdict'.functional
<1>1. /\ phase = "fall" /\ phase' = "rise"
      /\ verdict' =
           IF Live(dTag)
           THEN [id |-> dTag.id,
                 functional |->
                   FunctionalPass(expected[dTag.id],
                                  [tag |-> dTag, regwrite |-> RegWrite(D.op),
                                   rd |-> D.rd, wdata |-> D.val],
                                  StoreStage[dTag.id], rf'[0]),
                 delta |-> cycle - expected[dTag.id].cycle]
           ELSE NoVerdict
  BY LockFallingEffect
<1>2. CASE ~Live(dTag)
  BY <1>1, <1>2 DEF NoVerdict
<1>3. CASE Live(dTag)
  <2> DEFINE x == expected[dTag.id]
             r == [tag |-> dTag, regwrite |-> RegWrite(D.op), rd |-> D.rd, wdata |-> D.val]
             s == stores[dTag.id]
  <2>1. verdict'.functional = FunctionalPass(x, r, s, rf'[0])
    BY <1>1, <1>3, FallingKeepsEntries
  <2>2. /\ r.regwrite = RegWrite(D.op) /\ r.rd = D.rd /\ r.wdata = D.val
    OBVIOUS
  <2>3. D.op = dTag.instr.op /\ D.rd = dTag.instr.rd
    BY <1>1, <1>3, LiveStages
  <2>4. /\ x.regwrite <=> WritesRd(D.op) /\ D.rd # 0
        /\ x.rd = D.rd /\ x.store = (D.op = "SW")
        /\ D.op \in {"LW", "SW"} => x.addr \in 0 .. DmSize - 1
        /\ WritesRd(D.op) => D.val = x.wdata
    BY <1>1, <1>3, <2>3 DEF InStep, DFollows, IsExpectationOf
  <2>5. /\ s.write = x.store
        /\ D.op = "SW" => s.addr = x.addr /\ s.data = x.data
    BY <1>1, <1>3, <2>3 DEF InStep, StoresFollow
  <2>6. rf'[0] = 0
    BY FallingRegisters DEF RegistersFollow
  <2> HIDE DEF x, r, s
  <2>7. D.op = "SW" => x.addr < DmSize
    BY <2>4, ZeroTypes
  <2>8. IF x.regwrite THEN r.regwrite /\ r.rd = x.rd /\ r.wdata = x.wdata
        ELSE ~(r.regwrite /\ r.rd # 0)
    BY <2>2, <2>4, WritersAgree
  <2>9. s.write = x.store
    BY <2>5
  <2>10. x.store => x.addr < DmSize /\ s.addr = x.addr /\ s.data = x.data
    BY <2>4, <2>5, <2>7
  <2>11. FunctionalPass(x, r, s, rf'[0])
    BY <2>6, <2>8, <2>9, <2>10 DEF FunctionalPass
  <2> QED BY <2>1, <2>11
<1> QED BY <1>2, <1>3

-----------------------------------------------------------------------------
(* A clean run, the rising edge: what was in B and C moves on.              *)

\* What C and D latch.
LEMMA RisingLatches ==
    ASSUME TrackTypeOK, TrackInv, LockTypes, NEW i \in Fetchable \cup {NoInstr},
           LockRisingEdge(i)
    PROVE  /\ C'.op = B.op /\ C'.rd = B.rd /\ C'.alu = AluResult
           /\ C'.v2 = FBmuxResult /\ C'.res = ResultInB
           /\ D'.op = C.op /\ D'.rd = C.rd
           /\ D'.val = IF MemtoReg(C.op) THEN ReadData(DmAddr) ELSE C.res
<1> DEFINE res == CASE LinkSel(B.op)  -> Wrap(B.pc + 4)
                    [] ImmSel(B.op)   -> B.imm
                    [] PcImmSel(B.op) -> Wrap(B.pc + B.imm)
                    [] OTHER          -> AluResult
           val == IF MemtoReg(C.op) THEN ReadData(DmAddr) ELSE C.res
<1>1. LatchC /\ LatchD /\ ~reset
  BY LockRisingEffect DEF LockTypes
<1>2. C' = [op |-> B.op, rd |-> B.rd, alu |-> AluResult, v2 |-> FBmuxResult, res |-> res]
  BY <1>1 DEF LatchC
<1>3. D' = [op |-> C.op, rd |-> C.rd, val |-> val]
  BY <1>1 DEF LatchD
<1>4. res = ResultInB
  BY DEF ResultInB
<1> HIDE DEF res, val
<1>5. C'.op = B.op /\ C'.rd = B.rd /\ C'.alu = AluResult /\ C'.v2 = FBmuxResult /\ C'.res = res
  BY <1>2
<1>6. D'.op = C.op /\ D'.rd = C.rd /\ D'.val = val
  BY <1>3
<1> QED BY <1>4, <1>5, <1>6 DEF val

\* An aligned load reads four bytes of the data memory.
LEMMA AlignedRead ==
    ASSUME NEW a \in 0 .. DmSize - 1, a % 4 = 0
    PROVE  /\ ReadData(a) = LoadFrom(dmem, a)
           /\ a + 3 <= DmSize - 1 /\ a + 3 < WordSize
<1>1. DmSize \in Nat /\ DmSize % 4 = 0 /\ DmSize <= WordSize /\ WordSize \in Nat
  BY DmSizeAssumption, WordSizeType, ZeroTypes
<1>2. a \in Nat /\ a <= DmSize - 1
  BY <1>1
<1>3. (a + 0) % 4 = 0 /\ (a + 1) % 4 = 1 /\ (a + 2) % 4 = 2 /\ (a + 3) % 4 = 3
  BY <1>2
<1>4. a + 3 <= DmSize - 1
  BY <1>1, <1>2
<1>5. a + 0 = a
  BY <1>2
<1>6. ReadData(a) = WordOf(dmem[a + 0], dmem[a + 1], dmem[a + 2], dmem[a + 3])
  BY <1>3 DEF ReadData, BankRead
<1> QED BY <1>1, <1>2, <1>4, <1>5, <1>6 DEF LoadFrom

\* What is in B moves to C.
LEMMA RisingC ==
    ASSUME TrackTypeOK, TrackInv, LockTypes, NEW i \in Fetchable \cup {NoInstr},
           LockRisingEdge(i), InStep,
           Live(bTag) => expected'[bTag.id] = expected[bTag.id]
    PROVE  CFollows'
<1>1. /\ phase = "rise" /\ cTag' = bTag /\ UNCHANGED dmem
  BY LockRisingEffect
<1>2. C'.op = B.op /\ C'.alu = AluResult /\ C'.v2 = FBmuxResult /\ C'.res = ResultInB
  BY RisingLatches
<1>3. B.op = "LW" => NextMem' = NextMem
  BY <1>1, <1>2 DEF NextMem, MemWrite
<1>4. Live(bTag) =>
        /\ IsExpectationOf(expected[bTag.id], bTag)
        /\ WritesRd(B.op) /\ B.op # "LW" => ResultInB = expected[bTag.id].wdata
        /\ B.op \in {"LW", "SW"} => AluResult = expected[bTag.id].addr
        /\ B.op = "SW" => FBmuxResult = expected[bTag.id].data
        /\ B.op = "LW" => expected[bTag.id].wdata = LoadFrom(NextMem, expected[bTag.id].addr)
  BY DEF InStep, BFollows
<1> QED BY <1>1, <1>2, <1>3, <1>4 DEF CFollows, IsExpectationOf, Live

\* What is in C moves to D: a load has read what it should.
LEMMA RisingD ==
    ASSUME TrackTypeOK, TrackInv, LockTypes, NEW i \in Fetchable \cup {NoInstr},
           LockRisingEdge(i), InStep,
           Live(cTag) => expected'[cTag.id] = expected[cTag.id]
    PROVE  /\ DFollows' /\ StoresFollow'
           /\ WritesRd(C.op) => D'.val = expected[cTag.id].wdata
<1>1. /\ phase = "rise" /\ phase' = "fall" /\ dTag' = cTag /\ UNCHANGED stores
  BY LockRisingEffect
<1>2. D'.op = C.op /\ D'.val = IF MemtoReg(C.op) THEN ReadData(DmAddr) ELSE C.res
  BY RisingLatches
<1>3. WritesRd(C.op) => D'.val = expected[cTag.id].wdata
  <2> SUFFICES ASSUME WritesRd(C.op) PROVE D'.val = expected[cTag.id].wdata
    OBVIOUS
  <2>1. Live(cTag)
    BY LiveStages DEF WritesRd
  <2>2. CASE C.op = "LW"
    <3> DEFINE x == expected[cTag.id]
    <3>1. /\ C.alu = x.addr /\ x.addr \in 0 .. DmSize - 1 /\ x.addr % 4 = 0
          /\ x.wdata = LoadFrom(NextMem, x.addr)
      BY <2>1, <2>2, LiveStages DEF InStep, CFollows, IsExpectationOf
    <3>2. DmAddr = x.addr
      BY <3>1, ZeroTypes DEF DmAddr
    <3>3. ReadData(x.addr) = LoadFrom(dmem, x.addr)
      BY <3>1, AlignedRead
    <3>4. NextMem = dmem
      BY <1>1 DEF NextMem
    <3> QED BY <1>2, <2>2, <3>1, <3>2, <3>3, <3>4 DEF MemtoReg
  <2>3. CASE C.op # "LW"
    BY <1>2, <2>1, <2>3 DEF MemtoReg, InStep, CFollows
  <2> QED BY <2>2, <2>3
<1>4. Live(cTag) => IsExpectationOf(expected'[cTag.id], cTag)
  BY DEF InStep, CFollows
<1>5. DFollows'
  BY <1>1, <1>2, <1>3, <1>4 DEF DFollows, IsExpectationOf, Live
<1>6. Live(cTag) => /\ stores[cTag.id].write = expected[cTag.id].store
                    /\ cTag.instr.op = "SW" =>
                         /\ stores[cTag.id].addr = expected[cTag.id].addr
                         /\ stores[cTag.id].data = expected[cTag.id].data
  BY <1>1 DEF InStep, StoresFollow
<1>7. StoresFollow'
  BY <1>1, <1>6 DEF StoresFollow, Live
<1> QED BY <1>3, <1>5, <1>7

\* The golden memory before the edge is the memory once the store that was in B has
\* been done.
LEMMA RisingMemory ==
    ASSUME TrackTypeOK, TrackInv, LockTypes, NEW i \in Fetchable \cup {NoInstr},
           LockRisingEdge(i), InStep, NEW a \in 0 .. DmSize - 1
    PROVE  NextMem'[a] = gold.m[a]
<1>1. phase = "rise" /\ phase' = "fall" /\ UNCHANGED dmem
  BY LockRisingEffect
<1>2. C'.op = B.op /\ C'.alu = AluResult /\ C'.v2 = FBmuxResult
  BY RisingLatches
<1>3. gold.m[a] = IF bTag.instr.op = "SW" /\ a - (a % 4) = expected[bTag.id].addr
                  THEN LaneOf(expected[bTag.id].data, a % 4)
                  ELSE dmem[a]
  BY <1>1 DEF InStep, MemoryFollows, NextMem
<1>4. bTag.instr.op = B.op
  BY DEF TrackInv, StageIdentity
<1>5. CASE B.op # "SW"
  BY <1>1, <1>2, <1>3, <1>4, <1>5 DEF NextMem, MemWrite
<1>6. CASE B.op = "SW"
  <2> DEFINE x == expected[bTag.id]
  <2>1. Live(bTag)
    BY <1>6, LiveStages
  <2>2. /\ AluResult = x.addr /\ FBmuxResult = x.data
        /\ x.addr \in 0 .. DmSize - 1 /\ x.addr % 4 = 0
    BY <1>4, <1>6, <2>1 DEF InStep, BFollows, IsExpectationOf
  <2>3. DmAddr' = x.addr
    BY <1>2, <2>2, ZeroTypes DEF DmAddr
  <2>4. x.addr - (x.addr % 4) = x.addr
    BY <2>2, ZeroTypes
  <2>5. DOMAIN dmem = 0 .. DmSize - 1
    BY DEF TrackTypeOK, PipeTypeOK
  <2>6. NextMem' = WrittenMem'
    BY <1>1, <1>2, <1>6 DEF NextMem, MemWrite
  <2>7. WrittenMem'[a] = IF a - (a % 4) = x.addr THEN LaneOf(C'.v2, a % 4) ELSE dmem[a]
    BY <1>1, <2>3, <2>4, <2>5 DEF WrittenMem
  <2> QED BY <1>2, <1>3, <1>4, <1>6, <2>2, <2>6, <2>7
<1> QED BY <1>5, <1>6

\* A golden register before the edge is the youngest write in B or C, or the register
\* file.
LEMMA RisingRegisters ==
    ASSUME TrackTypeOK, TrackInv, LockTypes, NEW i \in Fetchable \cup {NoInstr},
           LockRisingEdge(i), InStep, NEW r \in Reg \ {0}
    PROVE  gold.x[r] = IF Writes(bTag, r) THEN expected[bTag.id].wdata
                       ELSE IF Writes(cTag, r) THEN expected[cTag.id].wdata
                       ELSE rf[r]
<1>1. phase = "rise"
  BY LockRisingEffect
<1> QED BY <1>1 DEF InStep, RegistersFollow

\* Where the DUT goes on after the edge, when nothing is accepted.
LEMMA RisingPath ==
    ASSUME TrackTypeOK, TrackInv, LockTypes, NEW i \in Fetchable \cup {NoInstr},
           LockRisingEdge(i), InStep
    PROVE  /\ gold.pc = resume'
           /\ Accepts => A.pc = gold.pc
<1>1. Resolve /\ ~reset
  BY LockRisingEffect DEF LockTypes
<1>2. gold.pc = resume'
  BY <1>1 DEF Resolve, InStep, PathFollows, Live
<1>3. ASSUME Accepts PROVE A.pc = gold.pc
  <2>1. A.pc = Successor /\ ~PcSel
    BY <1>1, <1>3 DEF TrackInv, FetchContinues, Accepts
  <2>2. Live(bTag) => B.pc = bTag.pc
    BY DEF TrackInv, StageIdentity
  <2> QED BY <2>1, <2>2 DEF Successor, InStep, PathFollows
<1> QED BY <1>2, <1>3

\* A rising edge that accepts nothing.
LEMMA BubbleInStep ==
    ASSUME TrackTypeOK, TrackInv, LockTypes, RetainsOnlyInFlight,
           NEW i \in Fetchable \cup {NoInstr}, LockRisingEdge(i), InStep, ~Accepts
    PROVE  InStep'
<1>1. /\ phase' = "fall" /\ bTag' = NoTag /\ cTag' = bTag /\ dTag' = cTag
      /\ UNCHANGED <<gold, expected, loopError, rf>> /\ verdict' = NoVerdict
  BY LockRisingEffect
<1>2. ~loopError' /\ verdict'.functional
  BY <1>1 DEF InStep, NoVerdict
<1>3. ~Live(bTag')
  BY <1>1 DEF Live
<1>4. BFollows'
  BY <1>3 DEF BFollows, Live
<1>5. CFollows' /\ DFollows' /\ StoresFollow'
  BY <1>1, RisingC, RisingD
<1>6. \A r : ~Writes(bTag', r)
  BY <1>1 DEF Writes, WritesRd, NoTag, NoInstr
<1>7. RegistersFollow'
  BY <1>1, <1>6, RisingRegisters DEF RegistersFollow, InStep
<1>8. MemoryFollows'
  <2>1. bTag'.instr.op # "SW"
    BY <1>1 DEF NoTag, NoInstr
  <2> QED BY <1>1, <2>1, RisingMemory DEF MemoryFollows
<1>9. PathFollows'
  BY <1>1, <1>3, RisingPath DEF PathFollows, Live
<1> QED BY <1>2, <1>4, <1>5, <1>7, <1>8, <1>9 DEF InStep

-----------------------------------------------------------------------------
(* A clean run, the rising edge: the accepted instruction gets its operands. *)

\* An acceptance that leaves the run clean provokes none of the defects.
LEMMA NotProvoked ==
    ASSUME NEW e, defects' = defects \cup Provoked(e), Clean'
    PROVE  /\ Clean
           /\ WritesRd(e.instr.op) /\ e.instr.rd = 0 => Result(gold, e.instr, e.pc) = 0
           /\ UsesRs1(e.instr.op) /\ e.instr.rs1 # 0 =>
                ~(/\ oracle.writer[e.instr.rs1].op \in {"LUI", "AUIPC"}
                  /\ e.cycle - oracle.writer[e.instr.rs1].seen = 1)
           /\ UsesRs2(e.instr.op) /\ e.instr.rs2 # 0 =>
                ~(/\ oracle.writer[e.instr.rs2].op \in {"LUI", "AUIPC"}
                  /\ e.cycle - oracle.writer[e.instr.rs2].seen = 1)
           /\ ~SelectsSub(e.instr.op, e.instr.imm)
           /\ e.instr.op = "JALR" => Address(gold, e.instr) % 2 # 1
           /\ e.instr.op \in {"LW", "SW"} =>
                /\ Address(gold, e.instr) % 4 = 0
                /\ ~(Address(gold, e.instr) >= DmSize)
<1> DEFINE i == e.instr
           Adjacent(w) == w.op \in {"LUI", "AUIPC"} /\ e.cycle - w.seen = 1
           x0 == WritesRd(i.op) /\ i.rd = 0 /\ Result(gold, i, e.pc) # 0
           upper == \/ Adjacent(Producer(UsesRs1(i.op), i.rs1))
                    \/ Adjacent(Producer(UsesRs2(i.op), i.rs2))
           sub == SelectsSub(i.op, i.imm)
           bit0 == i.op = "JALR" /\ Address(gold, i) % 2 = 1
           addr == i.op \in {"LW", "SW"}
                   /\ (Address(gold, i) % 4 # 0 \/ Address(gold, i) >= DmSize)
           Of(kind, holds) == IF holds THEN {kind} ELSE {}
<1>1. Provoked(e) = UNION {Of("x0_write", x0), Of("upper_imm_forward", upper),
                           Of("addi_sub", sub), Of("jalr_bit0", bit0),
                           Of("data_address", addr)}
  BY DEF Provoked
<1>2. defects = {} /\ Provoked(e) = {}
  BY DEF Clean
<1>3. ~x0 /\ ~upper /\ ~sub /\ ~bit0 /\ ~addr
  <2> HIDE DEF x0, upper, sub, bit0, addr
  <2> QED BY <1>1, <1>2
<1>4. \A r : /\ UsesRs1(i.op) /\ r = i.rs1 /\ r # 0 => ~Adjacent(oracle.writer[r])
             /\ UsesRs2(i.op) /\ r = i.rs2 /\ r # 0 => ~Adjacent(oracle.writer[r])
  BY <1>3 DEF Producer
<1> QED BY <1>2, <1>3, <1>4 DEF Clean

\* The register write that a field finds in C, in D or in the register file is the one
\* of the golden model.
LEMMA OperandFollows ==
    ASSUME TrackTypeOK, TrackInv, LockTypes, WritersAreYoungest, RetainsOnlyInFlight,
           NEW i \in Fetchable \cup {NoInstr}, LockRisingEdge(i), InStep, Accepts,
           NEW r \in Reg,
           NEW sel, \/ B'.rs1 = r /\ sel = ForwardA'
                    \/ B'.rs2 = r /\ sel = ForwardB',
           ~(MemRead(B.op) /\ B.rd = r),
           r # 0 => ~(/\ oracle.writer[r].op \in {"LUI", "AUIPC"}
                      /\ cycle - oracle.writer[r].seen = 1),
           Live(cTag) => expected'[cTag.id] = expected[cTag.id]
    PROVE  ReadReg(gold, r) = IF sel = "EX_MEM" THEN C'.alu
                              ELSE IF sel = "MEM_WB" THEN D'.val
                              ELSE rf[r]
<1>0. sel = IF r # 0 /\ Writes(bTag, r) THEN "EX_MEM"
            ELSE IF r # 0 /\ Writes(cTag, r) THEN "MEM_WB"
            ELSE "RF"
  BY ForwardFromTags
<1>1. CASE r = 0
  BY <1>0, <1>1 DEF ReadReg, InStep, RegistersFollow
<1>2. CASE r # 0
  <2>1. ReadReg(gold, r) = IF Writes(bTag, r) THEN expected[bTag.id].wdata
                           ELSE IF Writes(cTag, r) THEN expected[cTag.id].wdata
                           ELSE rf[r]
    BY <1>2, RisingRegisters DEF ReadReg
  <2>2. CASE Writes(bTag, r)
    <3>1. Live(bTag) /\ RegWrite(B.op) /\ B.rd = r /\ WritesRd(B.op) /\ bTag.instr.op = B.op
      BY <2>2, TagsWrite, WritersAgree, LiveStages
    <3>2. B.op # "LW"
      BY <3>1 DEF MemRead
    <3>3. B.op \notin {"JAL", "JALR"}
      <4>1. AluResult = 1 => AluResult % 2 = 1
        OBVIOUS
      <4>2. B.op = "JAL" => AluResult = 1
        BY DEF AluResult, ALUResult, BranchOps, SelectsSub
      <4>3. ~PcSel
        BY DEF Accepts
      <4> QED BY <4>1, <4>2, <4>3 DEF PcSel, JalrSel, Branch
    <3>4. B.op \notin {"LUI", "AUIPC"}
      <4>1. oracle.writer[r].op = B.op /\ oracle.writer[r].seen = bTag.cycle
        BY <1>2, <2>2, <3>1 DEF LockRisingEdge, WritersAreYoungest, IsEntryOf
      <4>2. bTag.cycle = cycle - 1 /\ cycle \in Nat
        BY <3>1 DEF TrackInv, TagAges, TrackTypeOK
      <4>3. cycle - oracle.writer[r].seen = 1
        BY <4>1, <4>2
      <4> QED BY <1>2, <4>1, <4>3
    <3>5. ResultInB = AluResult
      BY <3>3, <3>4 DEF ResultInB, LinkSel, ImmSel, PcImmSel
    <3>6. C'.alu = expected[bTag.id].wdata
      BY <3>1, <3>2, <3>5, RisingLatches DEF InStep, BFollows
    <3> QED BY <1>0, <1>2, <2>1, <2>2, <3>6
  <2>3. CASE ~Writes(bTag, r) /\ Writes(cTag, r)
    <3>1. RegWrite(C.op)
      BY <2>3, TagsWrite
    <3>2. D'.val = expected[cTag.id].wdata
      BY <3>1, RisingD, WritersAgree
    <3> QED BY <1>0, <1>2, <2>1, <2>3, <3>2
  <2>4. CASE ~Writes(bTag, r) /\ ~Writes(cTag, r)
    BY <1>0, <2>1, <2>4
  <2> QED BY <2>2, <2>3, <2>4
<1> QED BY <1>1, <1>2

\* The entries of the tags in B and C survive an acceptance.
LEMMA AcceptKeepsEntries ==
    ASSUME TrackTypeOK, TrackInv, LockTypes, RetainsOnlyInFlight,
           NEW i \in Fetchable \cup {NoInstr}, LockRisingEdge(i), Accepts,
           event'.pc = gold.pc
    PROVE  /\ Live(bTag) => expected'[bTag.id] = expected[bTag.id]
           /\ Live(cTag) => expected'[cTag.id] = expected[cTag.id]
           /\ expected'[index + 1] =
                ExpectedRetire(gold, A.instr, A.pc,
                               NextExpectation(event').accept + RetireLatencyCycles)
<1>1. Accept(event') /\ ~loopError /\ phase = "rise"
  BY LockRisingEffect
<1>2. /\ event'.id = index + 1 /\ event'.instr = A.instr /\ event'.pc = A.pc
  BY AcceptedEvent
<1> DEFINE x == ExpectedRetire(gold, A.instr, A.pc,
                               NextExpectation(event').accept + RetireLatencyCycles)
<1>3. expected' = With(expected, index + 1, x)
  BY <1>1, <1>2, AcceptEffect
<1> HIDE DEF x
<1>4. DOMAIN expected = {bTag.id, cTag.id, dTag.id} \ {0}
  BY <1>1 DEF RetainsOnlyInFlight
<1>5. /\ Live(bTag) => bTag.id \in DOMAIN expected /\ bTag.id # index + 1
      /\ Live(cTag) => cTag.id \in DOMAIN expected /\ cTag.id # index + 1
  BY <1>4, TagNumbers
<1>6. /\ Live(bTag) => expected'[bTag.id] = expected[bTag.id]
      /\ Live(cTag) => expected'[cTag.id] = expected[cTag.id]
      /\ expected'[index + 1] = x
  BY <1>3, <1>5 DEF With
<1> QED BY <1>6 DEF x

\* In a run that stays clean the DUT is on the golden path, and the operands that the
\* accepted instruction uses are the golden ones.
LEMMA AcceptOperands ==
    ASSUME TrackTypeOK, TrackInv, LockTypes, WritersAreYoungest, RetainsOnlyInFlight,
           NEW i \in Fetchable \cup {NoInstr}, LockRisingEdge(i), Accepts,
           Clean => InStep, Clean'
    PROVE  /\ Clean /\ InStep /\ event'.pc = gold.pc
           /\ defects' = defects \cup Provoked(event')
           /\ UsesRs1(A.instr.op) => FAmuxResult' = ReadReg(gold, A.instr.rs1)
           /\ UsesRs2(A.instr.op) => FBmuxResult' = ReadReg(gold, A.instr.rs2)
<1> DEFINE e == event'
<1>1. /\ Accept(e) /\ UNCHANGED rf
      /\ B' = [op |-> A.instr.op, rd |-> A.instr.rd,
               rs1 |-> A.instr.rs1, rs2 |-> A.instr.rs2,
               imm |-> A.instr.imm, pc |-> A.pc,
               v1 |-> rf[A.instr.rs1], v2 |-> rf[A.instr.rs2]]
  BY LockRisingEffect
<1>2. /\ e.cycle = cycle /\ e.pc = A.pc /\ e.instr = A.instr
      /\ A.instr.rs1 \in Reg /\ A.instr.rs2 \in Reg /\ ~RegStall
  BY AcceptedEvent
<1>3. defects \subseteq defects'
  <2>1. CASE e.pc = gold.pc
    BY <1>1, <2>1, AcceptEffect
  <2>2. CASE e.pc # gold.pc
    BY <1>1, <2>2, RejectEffect
  <2> QED BY <2>1, <2>2
<1>4. Clean /\ InStep
  BY <1>3 DEF Clean
<1>5. e.pc = gold.pc
  BY <1>2, <1>4, RisingPath
<1>6. defects' = defects \cup Provoked(e)
  BY <1>1, <1>5, AcceptEffect
<1>7. Live(cTag) => expected'[cTag.id] = expected[cTag.id]
  BY <1>5, AcceptKeepsEntries
<1>8. /\ UsesRs1(A.instr.op) /\ A.instr.rs1 # 0 =>
           ~(/\ oracle.writer[A.instr.rs1].op \in {"LUI", "AUIPC"}
             /\ cycle - oracle.writer[A.instr.rs1].seen = 1)
      /\ UsesRs2(A.instr.op) /\ A.instr.rs2 # 0 =>
           ~(/\ oracle.writer[A.instr.rs2].op \in {"LUI", "AUIPC"}
             /\ cycle - oracle.writer[A.instr.rs2].seen = 1)
  BY <1>2, <1>6, NotProvoked
<1>9. ASSUME UsesRs1(A.instr.op) PROVE FAmuxResult' = ReadReg(gold, A.instr.rs1)
  <2>1. PICK r \in Reg : r = A.instr.rs1
    BY <1>2
  <2>2. PICK sel : sel = ForwardA'
    OBVIOUS
  <2>3. B'.rs1 = r /\ B'.v1 = rf[r]
    BY <1>1, <2>1
  <2>4. ~(MemRead(B.op) /\ B.rd = r)
    BY <1>2, <2>1 DEF RegStall
  <2>5. ReadReg(gold, r) = IF sel = "EX_MEM" THEN C'.alu
                           ELSE IF sel = "MEM_WB" THEN D'.val
                           ELSE rf[r]
    BY <1>4, <1>7, <1>8, <1>9, <2>1, <2>2, <2>3, <2>4, OperandFollows
  <2> QED BY <2>1, <2>2, <2>3, <2>5 DEF FAmuxResult, Forwarded
<1>10. ASSUME UsesRs2(A.instr.op) PROVE FBmuxResult' = ReadReg(gold, A.instr.rs2)
  <2>1. PICK r \in Reg : r = A.instr.rs2
    BY <1>2
  <2>2. PICK sel : sel = ForwardB'
    OBVIOUS
  <2>3. B'.rs2 = r /\ B'.v2 = rf[r]
    BY <1>1, <2>1
  <2>4. ~(MemRead(B.op) /\ B.rd = r)
    BY <1>2, <2>1 DEF RegStall
  <2>5. ReadReg(gold, r) = IF sel = "EX_MEM" THEN C'.alu
                           ELSE IF sel = "MEM_WB" THEN D'.val
                           ELSE rf[r]
    BY <1>4, <1>7, <1>8, <1>10, <2>1, <2>2, <2>3, <2>4, OperandFollows
  <2> QED BY <2>1, <2>2, <2>3, <2>5 DEF FBmuxResult, Forwarded
<1> QED BY <1>4, <1>5, <1>6, <1>9, <1>10
\* What the muxes of EX carry after an edge are words again.
LEMMA NextWires ==
    PipeTypeOK' => FAmuxResult' \in Word /\ FBmuxResult' \in Word /\ AluResult' \in Word
<1>1. PipeTypeOK => FAmuxResult \in Word /\ FBmuxResult \in Word /\ AluResult \in Word
  BY DatapathTypes
<1>2. (PipeTypeOK => FAmuxResult \in Word /\ FBmuxResult \in Word /\ AluResult \in Word)'
  BY <1>1, PTL
<1> QED BY <1>2

\* In a run that stays clean the ALU computes what the golden model does: the sum, the
\* address or the outcome of the branch.
LEMMA AcceptAlu ==
    ASSUME TrackTypeOK, TrackInv, LockTypes, WritersAreYoungest, RetainsOnlyInFlight,
           NEW i \in Fetchable \cup {NoInstr}, LockRisingEdge(i), Accepts,
           Clean => InStep, Clean'
    PROVE  /\ A.instr.op \in {"LW", "SW", "JALR"} => AluResult' = Address(gold, A.instr)
           /\ A.instr.op \in BranchOps => AluResult' = Bit(BranchTaken(gold, A.instr))
           /\ A.instr.op = "JAL" => AluResult' = 1
           /\ A.instr.op = "SW" => FBmuxResult' = ReadReg(gold, A.instr.rs2)
           /\ WritesRd(A.instr.op) /\ A.instr.op # "LW" =>
                ResultInB' = Result(gold, A.instr, A.pc)
           /\ AluResult' \in Word
<1> DEFINE op == A.instr.op
           imm == A.instr.imm
<1>1. /\ B' = [op |-> A.instr.op, rd |-> A.instr.rd,
               rs1 |-> A.instr.rs1, rs2 |-> A.instr.rs2,
               imm |-> A.instr.imm, pc |-> A.pc,
               v1 |-> rf[A.instr.rs1], v2 |-> rf[A.instr.rs2]]
  BY LockRisingEffect
<1>2. B'.op = op /\ B'.imm = imm /\ B'.pc = A.pc
  BY <1>1
<1>3. op \in Op /\ event'.instr = A.instr /\ event'.pc = A.pc
  BY AcceptedEvent
<1>4. /\ UsesRs1(op) => FAmuxResult' = ReadReg(gold, A.instr.rs1)
      /\ UsesRs2(op) => FBmuxResult' = ReadReg(gold, A.instr.rs2)
      /\ defects' = defects \cup Provoked(event')
  BY AcceptOperands
<1>5. ~SelectsSub(op, imm)
  BY <1>3, <1>4, NotProvoked
<1>6. PICK a : a = FAmuxResult'
  OBVIOUS
<1>7. PICK b : b = FBmuxResult'
  OBVIOUS
<1>8. AluResult' = ALUResult(op, imm, a, IF ALUSrc(op) THEN imm ELSE b)
  BY <1>2, <1>6, <1>7 DEF AluResult, SrcB
<1>9. /\ UsesRs1(op) => a = ReadReg(gold, A.instr.rs1)
      /\ UsesRs2(op) => b = ReadReg(gold, A.instr.rs2)
  BY <1>4, <1>6, <1>7
<1> HIDE DEF op, imm
<1>10. op \in {"LW", "SW", "JALR", "ADDI"} => AluResult' = Wrap(a + imm)
  BY <1>5, <1>8 DEF ALUResult, ALUSrc, BranchOps
<1>11. op = "ADD" => AluResult' = Wrap(a + b)
  BY <1>5, <1>8 DEF ALUResult, ALUSrc, BranchOps
<1>12. op \in BranchOps => AluResult' = Bit(Compares(op, a, b))
  BY <1>5, <1>8 DEF ALUResult, ALUSrc, BranchOps
<1>13. op = "JAL" => AluResult' = 1
  BY <1>5, <1>8 DEF ALUResult, BranchOps
<1>14. op \in {"LW", "SW", "JALR"} => AluResult' = Address(gold, A.instr)
  BY <1>9, <1>10 DEF Address, UsesRs1, op, imm
<1>15. op \in BranchOps => AluResult' = Bit(BranchTaken(gold, A.instr))
  <2>1. op \in BranchOps => UsesRs1(op) /\ UsesRs2(op)
    BY DEF UsesRs1, UsesRs2
  <2>2. op \in BranchOps =>
          (BranchTaken(gold, A.instr) <=> Compares(op, a, b))
    BY <1>9, <2>1 DEF BranchTaken, op
  <2> QED BY <1>12, <2>2 DEF Bit
<1>16. op = "SW" => FBmuxResult' = ReadReg(gold, A.instr.rs2)
  BY <1>4 DEF UsesRs2, op
<1>17. ResultInB' = CASE LinkSel(op)  -> Wrap(A.pc + 4)
                      [] ImmSel(op)   -> imm
                      [] PcImmSel(op) -> Wrap(A.pc + imm)
                      [] OTHER        -> AluResult'
  BY <1>2 DEF ResultInB
<1>18. ASSUME WritesRd(op), op # "LW" PROVE ResultInB' = Result(gold, A.instr, A.pc)
  <2>1. CASE op = "ADD"
    BY <1>9, <1>11, <1>17, <2>1 DEF LinkSel, ImmSel, PcImmSel, Result, UsesRs1, UsesRs2, op
  <2>2. CASE op = "ADDI"
    BY <1>9, <1>10, <1>17, <2>2 DEF LinkSel, ImmSel, PcImmSel, Result, UsesRs1, op, imm
  <2>3. CASE op \in {"LUI", "AUIPC", "JAL", "JALR"}
    BY <1>17, <2>3 DEF LinkSel, ImmSel, PcImmSel, Result, op, imm
  <2> QED BY <1>18, <2>1, <2>2, <2>3 DEF WritesRd
<1>19. AluResult' \in Word
  <2>1. PipeTypeOK'
    BY RisingType DEF LockRisingEdge, TrackTypeOK
  <2> QED BY <2>1, NextWires
<1> QED BY <1>13, <1>14, <1>15, <1>16, <1>18, <1>19 DEF op
\* An aligned load of the golden model reads what the DUT will find.
LEMMA AcceptLoads ==
    ASSUME TrackTypeOK, TrackInv, LockTypes, NEW i \in Fetchable \cup {NoInstr},
           LockRisingEdge(i), InStep, NEW a \in 0 .. DmSize - 1, a % 4 = 0
    PROVE  ReadWord(gold, a) = LoadFrom(NextMem', a)
<1>1. a + 3 <= DmSize - 1 /\ a + 3 < WordSize
  BY AlignedRead
<1>2. a \in Nat /\ WordSize \in Nat /\ WordSize > 1 /\ DmSize \in Nat
  BY ZeroTypes, WordSizeType
<1>3. a \in 0 .. DmSize - 1 /\ a + 1 \in 0 .. DmSize - 1 /\ a + 2 \in 0 .. DmSize - 1
      /\ a + 3 \in 0 .. DmSize - 1
  BY <1>1, <1>2
<1>4. Wrap(a + 1) = a + 1 /\ Wrap(a + 2) = a + 2 /\ Wrap(a + 3) = a + 3
  BY <1>1, <1>2 DEF Wrap
<1>5. /\ NextMem'[a] = gold.m[a] /\ NextMem'[a + 1] = gold.m[a + 1]
      /\ NextMem'[a + 2] = gold.m[a + 2] /\ NextMem'[a + 3] = gold.m[a + 3]
  BY <1>3, RisingMemory
<1> QED BY <1>4, <1>5 DEF ReadWord, LoadFrom

\* What is registered for the accepted instruction is what it will do from B on.
LEMMA AcceptB ==
    ASSUME TrackTypeOK, TrackInv, LockTypes, WritersAreYoungest, RetainsOnlyInFlight,
           NEW i \in Fetchable \cup {NoInstr}, LockRisingEdge(i), Accepts,
           Clean => InStep, Clean'
    PROVE  /\ BFollows'
           /\ LET x == expected'[index + 1] IN
              /\ x.wdata = Result(gold, A.instr, A.pc)
              /\ x.addr = Address(gold, A.instr) /\ x.data = ReadReg(gold, A.instr.rs2)
           /\ A.instr.op \in {"LW", "SW"} =>
                Address(gold, A.instr) \in 0 .. DmSize - 1 /\ Address(gold, A.instr) % 4 = 0
<1> DEFINE x == expected'[index + 1]
           op == A.instr.op
<1>1. /\ InStep /\ event'.pc = gold.pc /\ defects' = defects \cup Provoked(event')
  BY AcceptOperands
<1>2. x = ExpectedRetire(gold, A.instr, A.pc,
                         NextExpectation(event').accept + RetireLatencyCycles)
  BY <1>1, AcceptKeepsEntries
<1>3. /\ x.regwrite = (WritesRd(op) /\ A.instr.rd # 0) /\ x.rd = A.instr.rd
      /\ x.wdata = Result(gold, A.instr, A.pc)
      /\ x.store = (op = "SW")
      /\ x.addr = Address(gold, A.instr) /\ x.data = ReadReg(gold, A.instr.rs2)
  BY <1>2 DEF ExpectedRetire
<1>4. /\ bTag' = [id |-> index + 1, cycle |-> cycle, pc |-> A.pc, instr |-> A.instr]
      /\ B' = [op |-> A.instr.op, rd |-> A.instr.rd,
               rs1 |-> A.instr.rs1, rs2 |-> A.instr.rs2,
               imm |-> A.instr.imm, pc |-> A.pc,
               v1 |-> rf[A.instr.rs1], v2 |-> rf[A.instr.rs2]]
  BY LockRisingEffect
<1>5. bTag'.id = index + 1 /\ bTag'.instr = A.instr /\ B'.op = op
  BY <1>4
<1>6. event'.instr = A.instr /\ event'.pc = A.pc
  BY AcceptedEvent
<1>7. /\ WritesRd(op) /\ A.instr.rd = 0 => Result(gold, A.instr, A.pc) = 0
      /\ op \in {"LW", "SW"} => /\ Address(gold, A.instr) % 4 = 0
                                /\ ~(Address(gold, A.instr) >= DmSize)
  BY <1>1, <1>6, NotProvoked
<1>8. /\ op \in {"LW", "SW"} => AluResult' = Address(gold, A.instr)
      /\ op = "SW" => FBmuxResult' = ReadReg(gold, A.instr.rs2)
      /\ WritesRd(op) /\ op # "LW" => ResultInB' = Result(gold, A.instr, A.pc)
      /\ AluResult' \in Word
  BY AcceptAlu
<1>9. op \in {"LW", "SW"} =>
        Address(gold, A.instr) \in 0 .. DmSize - 1 /\ Address(gold, A.instr) % 4 = 0
  <2>1. PICK a : a = AluResult'
    OBVIOUS
  <2>2. a \in Nat
    BY <1>8, <2>1, WordSizeType DEF Word
  <2>3. op \in {"LW", "SW"} => a = Address(gold, A.instr)
    BY <1>8, <2>1
  <2> HIDE DEF op
  <2> QED BY <1>7, <2>2, <2>3, ZeroTypes
<1>10. op = "LW" => x.wdata = LoadFrom(NextMem', x.addr)
  <2> SUFFICES ASSUME op = "LW" PROVE x.wdata = LoadFrom(NextMem', x.addr)
    OBVIOUS
  <2>1. PICK a : a = Address(gold, A.instr)
    OBVIOUS
  <2>2. a \in 0 .. DmSize - 1 /\ a % 4 = 0
    BY <1>9, <2>1
  <2>3. ReadWord(gold, a) = LoadFrom(NextMem', a)
    BY <1>1, <2>2, AcceptLoads
  <2>4. x.wdata = ReadWord(gold, a)
    BY <1>3, <2>1 DEF Result
  <2> QED BY <1>3, <2>1, <2>3, <2>4
<1> HIDE DEF x, op
<1>11. /\ x.regwrite <=> WritesRd(op) /\ A.instr.rd # 0
       /\ x.rd = A.instr.rd /\ x.store = (op = "SW")
       /\ WritesRd(op) /\ A.instr.rd = 0 => x.wdata = 0
       /\ op \in {"LW", "SW"} => x.addr \in 0 .. DmSize - 1 /\ x.addr % 4 = 0
  BY <1>3, <1>7, <1>9
<1>12. IsExpectationOf(x, bTag')
  BY <1>5, <1>11 DEF IsExpectationOf, op
<1>13. expected'[bTag'.id] = x
  BY <1>5 DEF x
<1>14. /\ WritesRd(B'.op) /\ B'.op # "LW" => ResultInB' = x.wdata
       /\ B'.op \in {"LW", "SW"} => AluResult' = x.addr
       /\ B'.op = "SW" => FBmuxResult' = x.data
       /\ B'.op = "LW" => x.wdata = LoadFrom(NextMem', x.addr)
  BY <1>3, <1>5, <1>8, <1>10
<1>15. BFollows'
  BY <1>12, <1>13, <1>14 DEF BFollows, IsExpectationOf
<1> QED BY <1>3, <1>9, <1>15 DEF x, op
\* Reduction modulo w of what is just below zero.
LEMMA ModBelowZero ==
    ASSUME NEW w \in Nat, w > 0, NEW n \in Int, n < 0, n >= 0 - w
    PROVE  n % w = n + w
<1>1. PICK q \in Int : q = n \div w
  OBVIOUS
<1>2. PICK r \in Int : r = n % w
  OBVIOUS
<1>3. n = w * q + r /\ 0 <= r /\ r < w
  BY <1>1, <1>2
<1>4. q < 0
  <2>1. q >= 0 => w * q >= 0
    OBVIOUS
  <2> QED BY <1>3, <2>1
<1>5. ~(q <= 0 - 2)
  <2>1. q <= 0 - 2 => w * q <= 0 - (2 * w)
    <3>1. q <= 0 - 2 => w * (q + 2) <= 0
      OBVIOUS
    <3>2. w * (q + 2) = w * q + 2 * w
      OBVIOUS
    <3>3. w * q \in Int
      OBVIOUS
    <3> QED BY <3>1, <3>2, <3>3
  <2>2. w * q \in Int
    OBVIOUS
  <2> QED BY <1>3, <2>1, <2>2
<1>6. q = 0 - 1
  BY <1>4, <1>5
<1>7. w * q = 0 - w
  BY <1>6
<1> QED BY <1>2, <1>3, <1>7

\* The bytes of an aligned word, as the golden model counts them.
LEMMA AlignedBytes ==
    ASSUME NEW a \in 0 .. DmSize - 1, NEW b \in 0 .. DmSize - 1, b % 4 = 0
    PROVE  /\ Wrap(a - b) < 4 <=> a - (a % 4) = b
           /\ a - (a % 4) = b => Wrap(a - b) = a % 4
<1>1. /\ DmSize \in Nat \ {0} /\ DmSize % 4 = 0 /\ DmSize <= WordSize
      /\ WordSize \in Nat /\ WordSize > 1
  BY ZeroTypes, DmSizeAssumption, WordSizeType
<1>2. PICK w \in Nat : w = WordSize
  BY <1>1
<1>3. PICK d \in Nat : d = DmSize
  BY <1>1
<1>4. a \in Nat /\ b \in Nat /\ a < d /\ b < d /\ d % 4 = 0 /\ d <= w /\ w > 1
  BY <1>1, <1>2, <1>3
<1>5. b + 4 <= d
  BY <1>4
<1>6. CASE a >= b
  <2>1. Wrap(a - b) = a - b
    BY <1>2, <1>4, <1>6 DEF Wrap
  <2> QED BY <1>4, <1>6, <2>1
<1>7. CASE a < b
  <2>1. Wrap(a - b) = (a - b) + w
    <3>1. a - b < 0 /\ a - b >= 0 - w /\ a - b \in Int /\ w > 0
      BY <1>4, <1>7
    <3> QED BY <1>2, <3>1, ModBelowZero DEF Wrap
  <2>2. (a - b) + w >= 4
    BY <1>4, <1>5, <1>7
  <2>3. a - (a % 4) # b
    BY <1>4, <1>7
  <2> QED BY <1>4, <2>1, <2>2, <2>3
<1> QED BY <1>4, <1>6, <1>7
\* The golden model executes the accepted instruction.
LEMMA AcceptGold ==
    ASSUME TrackTypeOK, TrackInv, LockTypes, NEW i \in Fetchable \cup {NoInstr},
           LockRisingEdge(i), Accepts, event'.pc = gold.pc
    PROVE  /\ gold'.pc = NextFetchPc(gold, A.instr, A.pc)
           /\ gold'.x = IF WritesRd(A.instr.op) /\ A.instr.rd # 0
                        THEN [gold.x EXCEPT ![A.instr.rd] = Result(gold, A.instr, A.pc)]
                        ELSE gold.x
           /\ gold'.m = IF A.instr.op = "SW"
                        THEN WriteWord(gold.m, Address(gold, A.instr),
                                       ReadReg(gold, A.instr.rs2))
                        ELSE gold.m
<1>1. Accept(event')
  BY LockRisingEffect
<1>2. event'.instr = A.instr /\ event'.pc = A.pc
  BY AcceptedEvent
<1>3. gold' = GoldStep(gold, A.instr, A.pc)
  BY <1>1, <1>2, AcceptEffect
<1> DEFINE x == IF WritesRd(A.instr.op) /\ A.instr.rd # 0
                THEN [gold.x EXCEPT ![A.instr.rd] = Result(gold, A.instr, A.pc)]
                ELSE gold.x
           m == IF A.instr.op = "SW"
                THEN WriteWord(gold.m, Address(gold, A.instr), ReadReg(gold, A.instr.rs2))
                ELSE gold.m
           next == NextFetchPc(gold, A.instr, A.pc)
<1>4. gold' = [x |-> x, m |-> m, pc |-> next]
  BY <1>3 DEF GoldStep
<1> HIDE DEF x, m, next
<1>5. gold'.x = x /\ gold'.m = m /\ gold'.pc = next
  BY <1>4
<1> QED BY <1>5 DEF x, m, next

\* DUT and golden model agree on whether the accepted instruction redirects, and where
\* to.
LEMMA AcceptPath ==
    ASSUME TrackTypeOK, TrackInv, LockTypes, WritersAreYoungest, RetainsOnlyInFlight,
           NEW i \in Fetchable \cup {NoInstr}, LockRisingEdge(i), Accepts,
           Clean => InStep, Clean'
    PROVE  /\ PcSel' <=> A.instr.op \in {"JAL", "JALR"} \/ BranchTaken(gold, A.instr)
           /\ PathFollows'
<1> DEFINE op == A.instr.op
           imm == A.instr.imm
           target == Address(gold, A.instr)
<1>1. /\ InStep /\ event'.pc = gold.pc /\ defects' = defects \cup Provoked(event')
  BY AcceptOperands
<1>2. event'.instr = A.instr /\ event'.pc = A.pc
  BY AcceptedEvent
<1>3. /\ Accept(event') /\ Live(bTag)'
      /\ B' = [op |-> A.instr.op, rd |-> A.instr.rd,
               rs1 |-> A.instr.rs1, rs2 |-> A.instr.rs2,
               imm |-> A.instr.imm, pc |-> A.pc,
               v1 |-> rf[A.instr.rs1], v2 |-> rf[A.instr.rs2]]
  BY LockRisingEffect
<1>4. B'.op = op /\ B'.imm = imm /\ B'.pc = A.pc
  BY <1>3
<1>5. gold'.pc = NextFetchPc(gold, A.instr, A.pc)
  BY <1>1, AcceptGold
<1>6. /\ op = "JALR" => AluResult' = target
      /\ op \in BranchOps => AluResult' = Bit(BranchTaken(gold, A.instr))
      /\ op = "JAL" => AluResult' = 1
      /\ AluResult' \in Word
  BY AcceptAlu
<1>7. op = "JALR" => target % 2 # 1
  BY <1>1, <1>2, NotProvoked
<1>8. BranchTaken(gold, A.instr) => op \in BranchOps
  BY DEF BranchTaken
<1>9. PICK taken \in BOOLEAN : taken <=> BranchTaken(gold, A.instr)
  OBVIOUS
<1>10. PICK alu : alu = AluResult'
  OBVIOUS
<1>11. alu \in Nat
  BY <1>6, <1>10, WordSizeType DEF Word
<1> HIDE DEF op, imm, target
<1>12. PcSel' <=> op = "JALR" \/ ((op = "JAL" \/ op \in BranchOps) /\ alu % 2 = 1)
  BY <1>4, <1>10 DEF PcSel, JalrSel, Branch
<1>13. op = "JAL" => alu % 2 = 1
  BY <1>6, <1>10
<1>14. op \in BranchOps => (alu % 2 = 1 <=> taken)
  <2>1. op \in BranchOps => alu = (IF taken THEN 1 ELSE 0)
    BY <1>6, <1>9, <1>10 DEF Bit
  <2> QED BY <2>1
<1>15. PcSel' <=> op \in {"JAL", "JALR"} \/ taken
  BY <1>8, <1>9, <1>12, <1>13, <1>14 DEF BranchOps
<1>16. op = "JALR" => target - (target % 2) = target
  BY <1>6, <1>7, <1>10, <1>11
<1>17. gold'.pc = IF op = "JALR" THEN (target - (target % 2)) % PcSize
                  ELSE IF op = "JAL" \/ taken THEN Wrap(A.pc + imm) % PcSize
                  ELSE (A.pc + 4) % PcSize
  BY <1>5, <1>9 DEF NextFetchPc, op, imm, target
<1>18. BrPC' = IF op = "JALR" THEN alu ELSE Wrap(A.pc + imm)
  BY <1>4, <1>10 DEF BrPC, JalrSel
<1>19. gold'.pc = IF PcSel' THEN BrPC' % PcSize ELSE (A.pc + 4) % PcSize
  <2>1. CASE op = "JALR"
    BY <1>6, <1>10, <1>15, <1>16, <1>17, <1>18, <2>1
  <2>2. CASE op # "JALR" /\ PcSel'
    <3>1. op = "JAL" \/ taken
      BY <1>15, <2>2
    <3> QED BY <1>17, <1>18, <2>2, <3>1
  <2>3. CASE op # "JALR" /\ ~PcSel'
    <3>1. ~(op = "JAL" \/ taken)
      BY <1>15, <2>3
    <3> QED BY <1>17, <2>3, <3>1
  <2> QED BY <2>1, <2>2, <2>3
<1>20. PathFollows'
  BY <1>3, <1>4, <1>19 DEF PathFollows
<1> QED BY <1>9, <1>15, <1>20 DEF op

\* The registers of the golden model after an acceptance.
LEMMA AcceptRegisters ==
    ASSUME TrackTypeOK, TrackInv, LockTypes, WritersAreYoungest, RetainsOnlyInFlight,
           NEW i \in Fetchable \cup {NoInstr}, LockRisingEdge(i), Accepts,
           Clean => InStep, Clean'
    PROVE  RegistersFollow'
<1>1. InStep /\ event'.pc = gold.pc
  BY AcceptOperands
<1>2. event'.instr = A.instr /\ event'.pc = A.pc
  BY AcceptedEvent
<1>3. /\ Accept(event') /\ cTag' = bTag /\ dTag' = cTag /\ phase' = "fall" /\ UNCHANGED rf
      /\ bTag' = [id |-> index + 1, cycle |-> cycle, pc |-> A.pc, instr |-> A.instr]
  BY LockRisingEffect
<1>4. gold'.x = IF WritesRd(A.instr.op) /\ A.instr.rd # 0
                THEN [gold.x EXCEPT ![A.instr.rd] = Result(gold, A.instr, A.pc)] ELSE gold.x
  BY <1>1, AcceptGold
<1>5. expected'[index + 1].wdata = Result(gold, A.instr, A.pc)
  BY AcceptB
<1>6. bTag'.id = index + 1 /\ bTag'.instr = A.instr
  BY <1>3
<1>7. rf'[0] = 0
  BY <1>1, <1>3 DEF InStep, RegistersFollow
<1>8. ASSUME NEW r \in Reg \ {0}
      PROVE  gold'.x[r] = IF Writes(bTag', r) THEN expected'[bTag'.id].wdata
                          ELSE IF Writes(cTag', r) THEN expected'[cTag'.id].wdata
                          ELSE IF Writes(dTag', r) THEN expected'[dTag'.id].wdata
                          ELSE rf'[r]
  <2>1. DOMAIN gold.x = Reg
    BY DEF LockTypes
  <2>2. Writes(bTag', r) <=> WritesRd(A.instr.op) /\ A.instr.rd = r
    BY <1>6 DEF Writes
  <2>3. CASE Writes(bTag', r)
    <3>1. gold'.x[r] = Result(gold, A.instr, A.pc)
      BY <1>4, <2>1, <2>2, <2>3
    <3> QED BY <1>5, <1>6, <2>3, <3>1
  <2>4. CASE ~Writes(bTag', r)
    <3>1. gold'.x[r] = gold.x[r]
      BY <1>4, <2>1, <2>2, <2>4
    <3>2. gold.x[r] = IF Writes(bTag, r) THEN expected[bTag.id].wdata
                      ELSE IF Writes(cTag, r) THEN expected[cTag.id].wdata
                      ELSE rf[r]
      BY <1>1, RisingRegisters
    <3>3. /\ Writes(bTag, r) => expected'[bTag.id] = expected[bTag.id]
          /\ Writes(cTag, r) => expected'[cTag.id] = expected[cTag.id]
      BY <1>1, TagsWrite, AcceptKeepsEntries
    <3> QED BY <1>3, <2>4, <3>1, <3>2, <3>3
  <2> QED BY <2>3, <2>4
<1> QED BY <1>3, <1>7, <1>8 DEF RegistersFollow

\* The memory of the golden model after an acceptance.
LEMMA AcceptMemory ==
    ASSUME TrackTypeOK, TrackInv, LockTypes, WritersAreYoungest, RetainsOnlyInFlight,
           NEW i \in Fetchable \cup {NoInstr}, LockRisingEdge(i), Accepts,
           Clean => InStep, Clean'
    PROVE  MemoryFollows'
<1> DEFINE x == expected'[index + 1]
           op == A.instr.op
<1>1. InStep /\ event'.pc = gold.pc
  BY AcceptOperands
<1>2. event'.instr = A.instr /\ event'.pc = A.pc
  BY AcceptedEvent
<1>3. /\ Accept(event')
      /\ bTag' = [id |-> index + 1, cycle |-> cycle, pc |-> A.pc, instr |-> A.instr]
  BY LockRisingEffect
<1>4. gold'.m = IF op = "SW"
                THEN WriteWord(gold.m, Address(gold, A.instr), ReadReg(gold, A.instr.rs2))
                ELSE gold.m
  BY <1>1, AcceptGold
<1>5. bTag'.id = index + 1 /\ bTag'.instr.op = op
  BY <1>3
<1>6. /\ x.addr = Address(gold, A.instr) /\ x.data = ReadReg(gold, A.instr.rs2)
      /\ op = "SW" => x.addr \in 0 .. DmSize - 1 /\ x.addr % 4 = 0
  BY AcceptB
<1> HIDE DEF x, op
<1>7. ASSUME NEW a \in 0 .. DmSize - 1
      PROVE  gold'.m[a] = IF op = "SW" /\ a - (a % 4) = x.addr THEN LaneOf(x.data, a % 4)
                          ELSE NextMem'[a]
  <2>1. NextMem'[a] = gold.m[a]
    BY <1>1, RisingMemory
  <2>2. CASE op # "SW"
    BY <1>4, <2>1, <2>2
  <2>3. CASE op = "SW"
    <3>1. a \in Word
      BY ZeroTypes, DmSizeAssumption, WordSizeType DEF Word
    <3>2. gold'.m[a] = IF Wrap(a - x.addr) < 4 THEN LaneOf(x.data, Wrap(a - x.addr))
                       ELSE gold.m[a]
      BY <1>4, <1>6, <2>3, <3>1 DEF WriteWord
    <3>3. /\ Wrap(a - x.addr) < 4 <=> a - (a % 4) = x.addr
          /\ a - (a % 4) = x.addr => Wrap(a - x.addr) = a % 4
      BY <1>6, <2>3, AlignedBytes
    <3> QED BY <2>1, <2>3, <3>2, <3>3
  <2> QED BY <2>2, <2>3
<1> QED BY <1>5, <1>7 DEF MemoryFollows, x

\* A rising edge that accepts, in a run that stays clean.
LEMMA AcceptInStep ==
    ASSUME TrackTypeOK, TrackInv, LockTypes, WritersAreYoungest, RetainsOnlyInFlight,
           NEW i \in Fetchable \cup {NoInstr}, LockRisingEdge(i), Accepts,
           Clean => InStep, Clean'
    PROVE  InStep'
<1>1. InStep /\ event'.pc = gold.pc
  BY AcceptOperands
<1>2. Accept(event') /\ verdict' = NoVerdict
  BY LockRisingEffect
<1>3. loopError' = loopError
  BY <1>1, <1>2, AcceptEffect
<1>4. ~loopError' /\ verdict'.functional
  BY <1>1, <1>2, <1>3 DEF InStep, NoVerdict
<1>5. CFollows' /\ DFollows' /\ StoresFollow'
  BY <1>1, AcceptKeepsEntries, RisingC, RisingD
<1> QED BY <1>4, <1>5, AcceptB, AcceptRegisters, AcceptMemory, AcceptPath DEF InStep
-----------------------------------------------------------------------------
(* Stalls.                                                                  *)

\* A falling edge moves the count of a stall from the adapter's history to the
\* pending acceptance.
LEMMA FallingWaits ==
    ASSUME TrackTypeOK, TrackInv, LockTypes, RetainsOnlyInFlight, LockFallingEdge
    PROVE  /\ ~PcSel /\ A.instr # NoInstr => Waited' = Waited
           /\ RegStall /\ A.instr # NoInstr => stallCount' = 1
<1>1. /\ phase = "fall" /\ phase' = "rise" /\ ~reset'
  BY LockFallingEffect
<1>2. ObservePreEdge
  BY FallingKeeps DEF LockFallingEdge
<1>3. stallCount # 0 => stallCount = 1 /\ stalledId = A /\ ~RegStall
  <2>1. stallCount # 0 => stallCount = 1 /\ stalledId = A /\ B = BubbleB
    BY <1>1 DEF TrackInv, StallHistory
  <2>2. B = BubbleB => B.op = "NONE"
    BY DEF BubbleB
  <2> QED BY <2>1, <2>2, BubbleIsInert
<1>4. Waited = stallCount /\ Waited' = pending'.stalls /\ stallCount \in Nat
  BY <1>1 DEF Waited, TrackTypeOK
<1>5. CASE A.instr # NoInstr /\ RegStall
  <2>1. stallCount = 0 /\ ~PcSel
    BY <1>3, <1>5, RedirectExcludesStall
  <2>2. stallCount' = (IF stalledId = A THEN stallCount + 1 ELSE 1) /\ pending' = NoPending
    BY <1>1, <1>2, <1>5, <2>1 DEF ObservePreEdge
  <2>3. NoPending.stalls = 0
    BY DEF NoPending
  <2> QED BY <1>4, <2>1, <2>2, <2>3
<1>6. CASE A.instr # NoInstr /\ ~RegStall /\ ~PcSel
  <2>1. pending' = [pc |-> A.pc, instr |-> A.instr,
                    stalls |-> IF stalledId = A THEN stallCount ELSE 0]
    BY <1>1, <1>2, <1>6 DEF ObservePreEdge
  <2>2. pending'.stalls = stallCount
    BY <1>3, <2>1
  <2> QED BY <1>4, <1>6, <2>2
<1> QED BY <1>5, <1>6

\* The fetch after a rising edge: a flush and a stall leave a bubble in B, and a fetched
\* word is an instruction until the program ends.
LEMMA RisingFetches ==
    ASSUME TrackTypeOK, TrackInv, LockTypes, NEW i \in Fetchable \cup {NoInstr},
           LockRisingEdge(i)
    PROVE  /\ PcSel \/ RegStall => B'.op = "NONE" /\ ~PcSel'
           /\ PcSel => A'.instr = NoInstr
           /\ ~PcSel /\ RegStall => A' = A
           /\ ~PcSel /\ ~RegStall =>
                /\ cycle < ProgramCycles => A'.instr # NoInstr
                /\ A'.instr # NoInstr => cycle < ProgramCycles
           /\ A.instr = NoInstr => B'.op = "NONE" /\ ~PcSel'
<1>1. LatchA(i) /\ FetchedWord(i) /\ ~reset
  BY LockRisingEffect DEF LockTypes
<1>2. IF PcSel \/ RegStall THEN B' = BubbleB
      ELSE B' = [op |-> A.instr.op, rd |-> A.instr.rd,
                 rs1 |-> A.instr.rs1, rs2 |-> A.instr.rs2,
                 imm |-> A.instr.imm, pc |-> A.pc,
                 v1 |-> rf[A.instr.rs1], v2 |-> rf[A.instr.rs2]]
  <2>1. TrackRisingEdge(i)
    BY DEF LockRisingEdge
  <2> QED BY <1>1, <2>1, RisingEffect
<1>3. PcSel \/ RegStall => B'.op = "NONE"
  BY <1>2 DEF BubbleB
<1>4. A.instr = NoInstr => B'.op = "NONE"
  <2>1. NoInstr.op = "NONE"
    BY DEF NoInstr
  <2> QED BY <1>2, <1>3, <2>1
<1>5. B'.op = "NONE" => ~PcSel'
  BY DecodeFacts DEF PcSel
<1>6. A' = IF PcSel THEN BubbleA ELSE IF RegStall THEN A ELSE [pc |-> pc, instr |-> i]
  BY <1>1 DEF LatchA
<1>7. BubbleA.instr = NoInstr
  BY DEF BubbleA
<1>8. \A k \in Fetchable : k # NoInstr
  BY FetchableAssumption, InstrIsNotNone DEF InstrOrNone, Instr, NoInstr, Op, BranchOps
<1>9. i # NoInstr <=> cycle < ProgramCycles
  BY <1>1, <1>8 DEF FetchedWord
<1>10. ~PcSel /\ ~RegStall => A'.instr = i
  BY <1>6
<1> QED BY <1>3, <1>4, <1>5, <1>6, <1>7, <1>9, <1>10

\* Both edges keep StallsAreCounted.
LEMMA StallsNext ==
    ASSUME TrackTypeOK, TrackInv, LockTypes, RetainsOnlyInFlight, StallsAreCounted, LockNext
    PROVE  StallsAreCounted'
<1>1. CASE LockFallingEdge
  <2>1. UNCHANGED <<A, B, cycle>> /\ RegStall' = RegStall
    BY <1>1, LockFallingEffect
  <2> QED BY <1>1, <2>1, FallingWaits DEF StallsAreCounted
<1>2. ASSUME NEW i \in Fetchable \cup {NoInstr}, LockRisingEdge(i)
      PROVE  StallsAreCounted'
  <2>1. phase' = "fall" /\ cycle' = cycle + 1
    BY <1>2, LockRisingEffect
  <2>2. cycle \in Nat /\ ProgramCycles \in Nat
    BY CyclesAssumption DEF TrackTypeOK
  <2>3. ASSUME A'.instr = NoInstr, cycle' <= ProgramCycles PROVE B'.op = "NONE"
    <3>1. cycle < ProgramCycles
      BY <2>1, <2>2, <2>3
    <3> QED BY <1>2, <2>3, <3>1, RisingFetches
  <2> QED BY <2>1, <2>3 DEF StallsAreCounted
<1> QED BY <1>1, <1>2 DEF LockNext
-----------------------------------------------------------------------------
(* A clean run: when.                                                       *)

\* A falling edge changes nothing of the schedule.
LEMMA FallingOnTime ==
    ASSUME TrackTypeOK, TrackInv, LockTypes, RetainsOnlyInFlight, LockFallingEdge, OnTime
    PROVE  OnTime'
<1>1. /\ UNCHANGED <<A, cycle, event, oracle, expectation, defects, falseStalls>>
      /\ PcSel' = PcSel
  BY LockFallingEffect
<1>2. ~PcSel /\ A.instr # NoInstr => Waited' = Waited
  BY FallingWaits
<1>3. SlotsFollow'
  BY <1>1, <1>2 DEF OnTime, SlotsFollow
<1>4. WritersHaveSlots'
  BY <1>1 DEF OnTime, WritersHaveSlots
<1>5. LatenessIsFalseStalls'
  BY <1>1 DEF OnTime, LatenessIsFalseStalls, Clean
<1> QED BY <1>3, <1>4, <1>5 DEF OnTime

\* Nor does a rising edge that accepts nothing: a flush costs two cycles, a stall one.
LEMMA BubbleOnTime ==
    ASSUME TrackTypeOK, TrackInv, LockTypes, StallsAreCounted,
           NEW i \in Fetchable \cup {NoInstr}, LockRisingEdge(i), OnTime, ~Accepts
    PROVE  OnTime'
<1>1. /\ phase = "rise" /\ phase' = "fall" /\ cycle' = cycle + 1
      /\ expectation' = NoExpectation
      /\ UNCHANGED <<oracle, stallCount, falseStalls>>
  BY LockRisingEffect
<1>2. cycle \in Nat /\ ProgramCycles \in Nat /\ oracle.next \in Nat /\ falseStalls \in Int
  BY CyclesAssumption DEF TrackTypeOK, LockTypes
<1>3. Waited = pending.stalls /\ Waited' = stallCount
  BY <1>1 DEF Waited
<1>4. pending = NoPending /\ NoPending.stalls = 0
  BY <1>1 DEF TrackInv, EdgeOrder, NoPending
<1>5. PICK slot \in Int : slot = oracle.next + falseStalls
  BY <1>2
<1>6. oracle'.next + falseStalls' = slot
  BY <1>1, <1>5
<1>7. ~reset
  BY DEF LockTypes
<1>8. SlotsFollow'
  <2>1. CASE PcSel
    <3>1. ~PcSel' /\ A'.instr = NoInstr
      BY <2>1, RisingFetches
    <3>2. slot = cycle + 2
      BY <1>5, <2>1 DEF OnTime, SlotsFollow
    <3>3. slot = cycle' + 1
      BY <1>1, <1>2, <3>2
    <3> QED BY <1>6, <3>1, <3>3 DEF SlotsFollow
  <2>2. CASE ~PcSel /\ RegStall /\ A.instr # NoInstr
    <3>1. ~PcSel' /\ A' = A
      BY <2>2, RisingFetches
    <3>2. slot + 0 = cycle
      BY <1>3, <1>4, <1>5, <2>2 DEF OnTime, SlotsFollow
    <3>3. stallCount = 1
      BY <1>1, <2>2 DEF StallsAreCounted
    <3>4. slot + 1 = cycle'
      BY <1>1, <1>2, <3>2
    <3> QED BY <1>3, <1>6, <2>2, <3>1, <3>3, <3>4 DEF SlotsFollow
  <2>3. CASE ~PcSel /\ A.instr = NoInstr
    <3>1. ~PcSel'
      BY <2>3, RisingFetches
    <3>2. cycle <= ProgramCycles => slot = cycle'
      BY <1>1, <1>5, <2>3 DEF OnTime, SlotsFollow
    <3>3. cycle <= ProgramCycles => ~RegStall
      BY <2>3, BubbleIsInert DEF StallsAreCounted
    <3>4. stallCount # 0 => RegStall
      BY <1>1 DEF TrackInv, StallHistory
    <3>5. A'.instr # NoInstr => cycle <= ProgramCycles
      <4>1. CASE RegStall
        <5>1. A' = A
          BY <2>3, <4>1, RisingFetches
        <5> QED BY <2>3, <5>1
      <4>2. CASE ~RegStall
        <5>1. A'.instr # NoInstr => cycle < ProgramCycles
          BY <2>3, <4>2, RisingFetches
        <5> QED BY <1>2, <5>1
      <4> QED BY <4>1, <4>2
    <3>6. A'.instr = NoInstr => ~(cycle' <= ProgramCycles)
      <4>1. cycle' <= ProgramCycles => cycle < ProgramCycles /\ cycle <= ProgramCycles
        BY <1>1, <1>2
      <4> QED BY <2>3, <3>3, <4>1, RisingFetches
    <3>7. A'.instr # NoInstr => slot + stallCount = cycle'
      <4>1. A'.instr # NoInstr => slot = cycle' /\ stallCount = 0
        BY <3>2, <3>3, <3>4, <3>5
      <4>2. slot + 0 = slot
        OBVIOUS
      <4> QED BY <4>1, <4>2
    <3> QED BY <1>3, <1>6, <3>1, <3>6, <3>7 DEF SlotsFollow
  <2> QED BY <1>7, <2>1, <2>2, <2>3 DEF Accepts
<1>9. WritersHaveSlots'
  BY <1>1 DEF OnTime, WritersHaveSlots
<1>10. LatenessIsFalseStalls'
  BY <1>1 DEF LatenessIsFalseStalls
<1> QED BY <1>8, <1>9, <1>10 DEF OnTime
\* The slot of an acceptance: the DUT has waited for it, but for the false stalls, and
\* its false stalls are never negative.
LEMMA AcceptSlot ==
    ASSUME TrackTypeOK, TrackInv, LockTypes, WritersAreYoungest, OnTime,
           NEW i \in Fetchable \cup {NoInstr}, LockRisingEdge(i), Accepts
    PROVE  /\ (oracle.next + falseStalls) + pending.stalls = cycle
           /\ NextExpectation(event').stalls <= pending.stalls
<1>1. phase = "rise" /\ ~loopError
  BY LockRisingEffect
<1>2. ~PcSel /\ ~RegStall /\ A.instr # NoInstr
  BY DEF Accepts
<1>3. cycle \in Nat /\ oracle.next \in Nat /\ falseStalls \in Int /\ pending.stalls \in Nat
  BY DEF TrackTypeOK, LockTypes
<1>4. (oracle.next + falseStalls) + pending.stalls = cycle
  BY <1>1, <1>2 DEF OnTime, SlotsFollow, Waited
<1>5. ASSUME NEW r \in Reg \ {0}, r \in {A.instr.rs1, A.instr.rs2},
             oracle.writer[r].op = "LW", oracle.next - oracle.writer[r].cycle = 1
      PROVE  pending.stalls # 0
  <2> DEFINE w == oracle.writer[r]
  <2>1. w \in Writer
    BY DEF LockTypes
  <2>2. w.cycle \in Nat /\ w.seen \in Nat
    BY <2>1 DEF Writer
  <2>3. w # NoWriter
    BY <1>5 DEF NoWriter
  <2>4. oracle.next = w.cycle + 1
    BY <1>3, <1>5, <2>2
  <2>5. w.seen = w.cycle + falseStalls
    BY <2>3, <2>4 DEF OnTime, WritersHaveSlots
  <2>6. IF Writes(bTag, r) THEN IsEntryOf(w, bTag)
        ELSE IF Writes(cTag, r) THEN IsEntryOf(w, cTag)
        ELSE w = NoWriter \/ w.seen < cycle - 2
    BY <1>1 DEF WritersAreYoungest
  <2>7. ~Writes(bTag, r)
    <3> SUFFICES ASSUME Writes(bTag, r) PROVE FALSE
      OBVIOUS
    <3>1. bTag.instr.op = "LW"
      BY <1>5, <2>6 DEF IsEntryOf
    <3>2. B.op = "LW" /\ B.rd = r
      BY <3>1, TagsWrite DEF TrackInv, StageIdentity
    <3> QED BY <1>2, <1>5, <3>2 DEF RegStall, MemRead
  <2>8. Writes(cTag, r) => w.seen = cTag.cycle /\ cTag.cycle = cycle - 2
    BY <2>6, <2>7, TagsWrite DEF IsEntryOf, TrackInv, TagAges
  <2>9. w.seen <= cycle - 2
    <3>1. w.seen = cycle - 2 \/ w.seen < cycle - 2
      BY <2>3, <2>6, <2>7, <2>8
    <3> QED BY <1>3, <2>2, <3>1
  <2> HIDE DEF w
  <2> QED BY <1>3, <1>4, <2>2, <2>4, <2>5, <2>9
<1>6. event'.instr = A.instr /\ A.instr.rs1 \in Reg /\ A.instr.rs2 \in Reg
  BY AcceptedEvent
<1> DEFINE a == Producer(UsesRs1(event'.instr.op), event'.instr.rs1)
           b == Producer(UsesRs2(event'.instr.op), event'.instr.rs2)
           LoadUse(w) == w.op = "LW" /\ oracle.next - w.cycle = 1
           x == NextExpectation(event')
<1>7. x.stalls = IF LoadUse(a) \/ LoadUse(b) THEN 1 ELSE 0
  BY DEF NextExpectation
<1>8. LoadUse(a) => pending.stalls # 0
  <2> SUFFICES ASSUME LoadUse(a) PROVE pending.stalls # 0
    OBVIOUS
  <2>1. PICK r \in Reg : r = A.instr.rs1
    BY <1>6
  <2>2. a.op = "LW"
    OBVIOUS
  <2>3. a # NoWriter
    BY <2>2 DEF NoWriter
  <2>4. r # 0 /\ a = oracle.writer[r]
    BY <1>6, <2>1, <2>3 DEF Producer
  <2>5. r \in Reg \ {0} /\ r \in {A.instr.rs1, A.instr.rs2}
        /\ oracle.writer[r].op = "LW" /\ oracle.next - oracle.writer[r].cycle = 1
    BY <2>1, <2>4
  <2> QED BY <1>5, <2>5
<1>9. LoadUse(b) => pending.stalls # 0
  <2> SUFFICES ASSUME LoadUse(b) PROVE pending.stalls # 0
    OBVIOUS
  <2>1. PICK r \in Reg : r = A.instr.rs2
    BY <1>6
  <2>2. b.op = "LW"
    OBVIOUS
  <2>3. b # NoWriter
    BY <2>2 DEF NoWriter
  <2>4. r # 0 /\ b = oracle.writer[r]
    BY <1>6, <2>1, <2>3 DEF Producer
  <2>5. r \in Reg \ {0} /\ r \in {A.instr.rs1, A.instr.rs2}
        /\ oracle.writer[r].op = "LW" /\ oracle.next - oracle.writer[r].cycle = 1
    BY <2>1, <2>4
  <2> QED BY <1>5, <2>5
<1> HIDE DEF a, b, LoadUse, x
<1>10. x.stalls <= pending.stalls
  BY <1>3, <1>7, <1>8, <1>9
<1> QED BY <1>4, <1>10 DEF x

\* An acceptance moves the oracle's slot to where the DUT will be.
LEMMA AcceptOnTime ==
    ASSUME RedirectBubbles = 2,
           TrackTypeOK, TrackInv, LockTypes, WritersAreYoungest, RetainsOnlyInFlight, OnTime,
           NEW i \in Fetchable \cup {NoInstr}, LockRisingEdge(i), Accepts,
           Clean => InStep, Clean'
    PROVE  OnTime'
<1> DEFINE e == event'
           x == NextExpectation(event')
           redirect == \/ A.instr.op \in {"JAL", "JALR"}
                       \/ BranchTaken(gold, A.instr)
           entry == [id |-> e.id, op |-> e.instr.op, cycle |-> x.accept, seen |-> e.cycle]
<1>1. /\ phase = "rise" /\ phase' = "fall" /\ cycle' = cycle + 1 /\ UNCHANGED stallCount
      /\ Accept(e)
  BY LockRisingEffect
<1>2. e.pc = gold.pc
  BY AcceptOperands
<1>3. /\ e.cycle = cycle /\ e.instr = A.instr /\ e.stalls = pending.stalls
      /\ A.instr.rd \in Reg /\ ~PcSel /\ ~RegStall
  BY AcceptedEvent
<1>4. /\ expectation' = x
      /\ oracle' = [next   |-> x.accept + 1 + (IF redirect THEN 2 ELSE 0),
                    writer |-> IF WritesRd(A.instr.op) /\ A.instr.rd # 0
                               THEN [oracle.writer EXCEPT ![A.instr.rd] = entry]
                               ELSE oracle.writer]
      /\ falseStalls' = falseStalls + (e.stalls - x.stalls)
  BY <1>1, <1>2, <1>3, AcceptEffect
<1>5. x.accept = oracle.next + x.stalls /\ x.accept \in Nat /\ x.stalls \in {0, 1}
  BY ExpectationType
<1>6. (oracle.next + falseStalls) + pending.stalls = cycle /\ x.stalls <= pending.stalls
  BY AcceptSlot
<1>7. cycle \in Nat /\ oracle.next \in Nat /\ falseStalls \in Int /\ pending.stalls \in Nat
  BY DEF TrackTypeOK, LockTypes
<1>8. PcSel' <=> redirect
  BY AcceptPath
<1>9. entry.cycle = x.accept /\ entry.seen = cycle
  BY <1>3
<1> HIDE DEF e, x, redirect, entry
<1>10. oracle'.next = (x.accept + 1) + (IF redirect THEN 2 ELSE 0)
  BY <1>4
<1>11. x.accept + falseStalls' = cycle
  BY <1>3, <1>4, <1>5, <1>6, <1>7
<1>12. falseStalls' \in Int
  BY <1>3, <1>4, <1>5, <1>7
<1>13. SlotsFollow'
  <2>1. PcSel' => oracle'.next + falseStalls' = cycle' + 2
    BY <1>1, <1>5, <1>7, <1>8, <1>10, <1>11, <1>12
  <2>2. ~PcSel' => oracle'.next + falseStalls' = cycle'
    BY <1>1, <1>5, <1>7, <1>8, <1>10, <1>11, <1>12
  <2>3. Waited' = 0
    BY <1>1, <1>3 DEF Waited, TrackInv, StallHistory
  <2>4. A'.instr = NoInstr => ~(cycle' <= ProgramCycles)
    <3>1. ProgramCycles \in Nat
      BY CyclesAssumption
    <3>2. cycle < ProgramCycles => A'.instr # NoInstr
      BY <1>3, RisingFetches
    <3> QED BY <1>1, <1>7, <3>1, <3>2
  <2>5. oracle'.next + falseStalls' + Waited' = oracle'.next + falseStalls'
    <3>1. oracle'.next \in Nat
      BY <1>5, <1>10
    <3> QED BY <1>12, <2>3, <3>1
  <2> QED BY <2>1, <2>2, <2>4, <2>5 DEF SlotsFollow
<1>14. WritersHaveSlots'
  <2> SUFFICES ASSUME NEW r \in Reg
               PROVE  /\ oracle'.writer[r].cycle < oracle'.next
                      /\ oracle'.writer[r] # NoWriter
                           /\ oracle'.next = oracle'.writer[r].cycle + 1
                           => oracle'.writer[r].seen = oracle'.writer[r].cycle + falseStalls'
    BY DEF WritersHaveSlots
  <2>1. oracle'.next > x.accept /\ x.accept >= oracle.next
    BY <1>5, <1>7, <1>10
  <2>2. CASE oracle'.writer[r] = entry
    BY <1>5, <1>9, <1>11, <1>12, <2>1, <2>2
  <2>3. CASE oracle'.writer[r] = oracle.writer[r]
    <3>1. oracle.writer[r] \in Writer
      BY DEF LockTypes
    <3>2. oracle.writer[r].cycle \in Nat
      BY <3>1 DEF Writer
    <3>3. oracle.writer[r].cycle < oracle.next
      BY DEF OnTime, WritersHaveSlots
    <3>4. oracle'.next \in Nat
      BY <1>5, <1>10
    <3>5. oracle.writer[r].cycle + 1 < oracle'.next
      BY <1>5, <1>7, <2>1, <3>2, <3>3, <3>4
    <3> QED BY <2>3, <3>2, <3>4, <3>5
  <2>4. oracle'.writer[r] = entry \/ oracle'.writer[r] = oracle.writer[r]
    <3>1. DOMAIN oracle.writer = Reg
      BY DEF LockTypes
    <3> QED BY <1>3, <1>4, <3>1
  <2> QED BY <2>2, <2>3, <2>4
<1>15. LatenessIsFalseStalls'
  <2>1. event'.cycle - expectation'.accept = falseStalls'
    BY <1>3, <1>4, <1>5, <1>7, <1>11, <1>12 DEF e
  <2>2. event'.stalls >= expectation'.stalls
    BY <1>3, <1>4, <1>5, <1>6, <1>7 DEF e
  <2> QED BY <2>1, <2>2 DEF LatenessIsFalseStalls
<1> QED BY <1>13, <1>14, <1>15 DEF OnTime
-----------------------------------------------------------------------------
(* The inductive invariant.                                                 *)

\* It holds before the first edge.
LEMMA LockInitInv == LockInit => LockInv
<1> SUFFICES ASSUME LockInit PROVE LockInv
  OBVIOUS
<1>1. /\ B = BubbleB /\ C = BubbleC /\ phase = "fall" /\ cycle = 1 /\ stallCount = 0
      /\ A.instr \in Fetchable
      /\ rf = [r \in Reg |-> 0] /\ dmem = [a \in 0 .. DmSize - 1 |-> 0]
      /\ bTag = NoTag /\ cTag = NoTag /\ dTag = NoTag /\ resume = 0
  BY DEF LockInit, TrackInit, PipeInit
<1>2. /\ gold = [x |-> [r \in Reg |-> 0], m |-> [a \in Word |-> 0], pc |-> 0]
      /\ oracle = [next |-> 1, writer |-> [r \in Reg |-> NoWriter]]
      /\ expectation = NoExpectation /\ expected = NoEntries /\ stores = NoEntries
      /\ verdict = NoVerdict /\ ~loopError /\ falseStalls = 0
  BY DEF LockInit
<1>3. gold.x = [r \in Reg |-> 0] /\ gold.m = [a \in Word |-> 0] /\ gold.pc = 0
      /\ oracle.next = 1 /\ oracle.writer = [r \in Reg |-> NoWriter]
  BY <1>2
<1>4. /\ ~Live(bTag) /\ ~Live(cTag) /\ ~Live(dTag)
      /\ B.op = "NONE" /\ C.op = "NONE" /\ bTag.instr.op = "NONE"
      /\ bTag.id = 0 /\ cTag.id = 0 /\ dTag.id = 0
  BY <1>1 DEF Live, BubbleB, BubbleC, NoTag, NoInstr
<1>5. \A r : ~Writes(bTag, r) /\ ~Writes(cTag, r) /\ ~Writes(dTag, r)
  BY <1>1 DEF Writes, WritesRd, NoTag, NoInstr
<1>6. RetainsOnlyInFlight
  BY <1>2, <1>4 DEF RetainsOnlyInFlight, NoEntries
<1>7. ForwardingFollowsAge
  BY <1>2 DEF ForwardingFollowsAge
<1>8. A.instr # NoInstr
  BY <1>1, FetchableAssumption, InstrIsNotNone
  DEF InstrOrNone, Instr, NoInstr, Op, BranchOps
<1>9. StallsAreCounted
  BY <1>1, <1>8 DEF StallsAreCounted
<1>10. InStep
  <2>1. verdict.functional
    BY <1>2 DEF NoVerdict
  <2>2. BFollows /\ CFollows /\ DFollows /\ StoresFollow
    BY <1>1, <1>4 DEF BFollows, CFollows, DFollows, StoresFollow
  <2>3. RegistersFollow
    BY <1>1, <1>3, <1>5, ZeroTypes DEF RegistersFollow
  <2>4. MemoryFollows
    <3>1. NextMem = dmem
      BY <1>4 DEF NextMem, MemWrite
    <3>2. 0 .. DmSize - 1 \subseteq Word
      BY ZeroTypes, DmSizeAssumption, WordSizeType DEF Word
    <3> QED BY <1>1, <1>3, <1>4, <3>1, <3>2 DEF MemoryFollows
  <2>5. PathFollows
    BY <1>1, <1>3, <1>4 DEF PathFollows
  <2> QED BY <1>2, <2>1, <2>2, <2>3, <2>4, <2>5 DEF InStep
<1>11. OnTime
  <2>1. ~PcSel /\ Waited = 0
    BY <1>1, <1>4, BubbleIsInert DEF Waited
  <2>2. SlotsFollow
    BY <1>1, <1>2, <1>3, <1>8, <2>1 DEF SlotsFollow
  <2>3. WritersHaveSlots
    <3>1. NoWriter.cycle = 0
      BY DEF NoWriter
    <3> QED BY <1>3, <3>1 DEF WritersHaveSlots
  <2>4. LatenessIsFalseStalls
    BY <1>2 DEF LatenessIsFalseStalls
  <2> QED BY <2>2, <2>3, <2>4 DEF OnTime
<1> QED BY <1>6, <1>7, <1>9, <1>10, <1>11, LockInitTypes, LockInitWriters DEF LockInv

\* What a run has provoked, it keeps.
LEMMA DefectsRemain ==
    ASSUME TrackTypeOK, TrackInv, LockTypes, RetainsOnlyInFlight, LockNext, Clean'
    PROVE  Clean
<1>1. CASE LockFallingEdge
  <2>1. UNCHANGED defects
    BY <1>1, LockFallingEffect
  <2> QED BY <2>1 DEF Clean
<1>2. ASSUME NEW i \in Fetchable \cup {NoInstr}, LockRisingEdge(i) PROVE Clean
  <2>1. CASE ~Accepts
    <3>1. UNCHANGED defects
      BY <1>2, <2>1, LockRisingEffect
    <3> QED BY <3>1 DEF Clean
  <2>2. CASE Accepts
    <3>1. Accept(event')
      BY <1>2, <2>2, LockRisingEffect
    <3>2. defects \subseteq defects'
      <4>1. CASE event'.pc = gold.pc
        BY <3>1, <4>1, AcceptEffect
      <4>2. CASE event'.pc # gold.pc
        BY <3>1, <4>2, RejectEffect
      <4> QED BY <4>1, <4>2
    <3> QED BY <3>2 DEF Clean
  <2> QED BY <2>1, <2>2
<1> QED BY <1>1, <1>2 DEF LockNext

\* Every edge keeps it.
LEMMA LockStepInv ==
    ASSUME TrackTypeOK, TrackInv, LockInv, LockNext
    PROVE  LockInv'
<1>1. /\ LockTypes /\ RetainsOnlyInFlight /\ WritersAreYoungest /\ ForwardingFollowsAge
      /\ StallsAreCounted
      /\ Clean => InStep
      /\ Clean /\ RedirectBubbles = 2 => OnTime
  BY DEF LockInv
<1>2. /\ LockTypes' /\ RetainsOnlyInFlight' /\ WritersAreYoungest' /\ ForwardingFollowsAge'
      /\ StallsAreCounted'
  BY <1>1, LockNextTypes, RetainsNext, WritersNext, ForwardingNext, StallsNext
<1>3. Clean' => Clean
  BY <1>1, DefectsRemain
<1>4. CASE LockFallingEdge
  <2>1. Clean' => InStep'
    <3> SUFFICES ASSUME Clean' PROVE InStep'
      OBVIOUS
    <3>1. InStep
      BY <1>1, <1>3
    <3>2. ~loopError'
      BY <1>1, <1>4, LockFallingEffect
    <3> QED BY <1>1, <1>4, <3>1, <3>2, FallingStages, FallingRegisters, FallingPasses
        DEF InStep
  <2>2. Clean' /\ RedirectBubbles = 2 => OnTime'
    BY <1>1, <1>3, <1>4, FallingOnTime
  <2> QED BY <1>2, <2>1, <2>2 DEF LockInv
<1>5. ASSUME NEW i \in Fetchable \cup {NoInstr}, LockRisingEdge(i) PROVE LockInv'
  <2>1. Clean' => InStep'
    <3>1. CASE ~Accepts
      BY <1>1, <1>3, <1>5, <3>1, BubbleInStep
    <3>2. CASE Accepts
      BY <1>1, <1>5, <3>2, AcceptInStep
    <3> QED BY <3>1, <3>2
  <2>2. Clean' /\ RedirectBubbles = 2 => OnTime'
    <3>1. CASE ~Accepts
      BY <1>1, <1>3, <1>5, <3>1, BubbleOnTime
    <3>2. CASE Accepts
      BY <1>1, <1>3, <1>5, <3>2, AcceptOnTime
    <3> QED BY <3>1, <3>2
  <2> QED BY <1>2, <2>1, <2>2 DEF LockInv
<1> QED BY <1>4, <1>5 DEF LockNext

\* So does a step of something else.
LEMMA LockStutterInv ==
    ASSUME LockInv, UNCHANGED lockVars
    PROVE  LockInv'
<1>1. /\ UNCHANGED <<phase, pc, A, B, C, D, rf, dmem, reset, cycle, pending, stallCount,
                     event, bTag, cTag, dTag, resume>>
      /\ UNCHANGED <<gold, oracle, expectation, expected, stores, verdict, loopError,
                     defects, falseStalls>>
  BY DEF lockVars, checkVars, vars, pipeVars, adapterVars, monitorVars
<1>2. /\ AluResult' = AluResult /\ FBmuxResult' = FBmuxResult /\ BrPC' = BrPC
      /\ ResultInB' = ResultInB /\ PcSel' = PcSel /\ RegStall' = RegStall
  BY <1>1, StableResults, StableWires
<1>3. WrittenMem' = WrittenMem
  BY <1>1 DEF WrittenMem, DmAddr
<1>4. NextMem' = NextMem /\ Waited' = Waited
  BY <1>1, <1>3 DEF NextMem, Waited
<1>5. LockTypes' /\ RetainsOnlyInFlight' /\ StallsAreCounted'
  BY <1>1, <1>2 DEF LockInv, LockTypes, RetainsOnlyInFlight, StallsAreCounted
<1>6. WritersAreYoungest'
  BY <1>1 DEF LockInv, WritersAreYoungest, Writes, IsEntryOf
<1>7. ForwardingFollowsAge'
  BY <1>1 DEF LockInv, ForwardingFollowsAge, ObservedForward
<1>8. Clean' <=> Clean
  BY <1>1 DEF Clean
<1>9. InStep => InStep'
  <2> SUFFICES ASSUME InStep PROVE InStep'
    OBVIOUS
  <2>1. BFollows'
    BY <1>1, <1>2, <1>4 DEF InStep, BFollows, IsExpectationOf, Live
  <2>2. CFollows'
    BY <1>1, <1>4 DEF InStep, CFollows, IsExpectationOf, Live
  <2>3. DFollows' /\ StoresFollow'
    BY <1>1 DEF InStep, DFollows, StoresFollow, IsExpectationOf, Live
  <2>4. RegistersFollow'
    BY <1>1 DEF InStep, RegistersFollow, Writes
  <2>5. MemoryFollows' /\ PathFollows'
    BY <1>1, <1>2, <1>4 DEF InStep, MemoryFollows, PathFollows, Live
  <2> QED BY <1>1, <2>1, <2>2, <2>3, <2>4, <2>5 DEF InStep
<1>10. OnTime => OnTime'
  <2> SUFFICES ASSUME OnTime PROVE OnTime'
    OBVIOUS
  <2>1. SlotsFollow' /\ WritersHaveSlots'
    BY <1>1, <1>2, <1>4 DEF OnTime, SlotsFollow, WritersHaveSlots
  <2>2. LatenessIsFalseStalls'
    BY <1>1 DEF OnTime, LatenessIsFalseStalls, Clean
  <2> QED BY <2>1, <2>2 DEF OnTime
<1> QED BY <1>5, <1>6, <1>7, <1>8, <1>9, <1>10 DEF LockInv

\* The invariant of the checking loop, whatever the program: the DUT has, in every stage,
\* the values it needs to reach the golden model.
THEOREM LockInvariantHolds == LockSpec => []LockInv
<1>1. LockInit => LockInv
  BY LockInitInv
<1>2. /\ TrackTypeOK /\ TrackInv
      /\ (TrackTypeOK /\ TrackInv)'
      /\ LockInv /\ [LockNext]_lockVars
      => LockInv'
  BY LockStepInv, LockStutterInv
<1> QED BY <1>1, <1>2, TracksInv, PTL DEF LockSpec
-----------------------------------------------------------------------------
(* What follows from it.                                                    *)

\* The youngest of some numbers is their maximum.
LEMMA YoungestIs ==
    ASSUME NEW ids, ids \subseteq Nat, NEW n \in ids, \A k \in ids : k <= n
    PROVE  YoungestOf(ids) = n
<1> DEFINE y == YoungestOf(ids)
<1>1. y \in ids /\ \A k \in ids : k <= y
  BY DEF YoungestOf
<1>2. y <= n /\ n <= y /\ y \in Nat /\ n \in Nat
  BY <1>1
<1> QED BY <1>2

\* The entries are those of the instructions in flight.
LEMMA EntriesOfTags ==
    ASSUME TrackTypeOK, TrackInv, LockInv, Clean
    PROVE  /\ DOMAIN expected = {bTag.id, cTag.id, dTag.id} \ {0}
           /\ DOMAIN stores = {IF phase = "fall" THEN dTag.id ELSE cTag.id} \ {0}
           /\ Live(bTag) => IsExpectationOf(expected[bTag.id], bTag)
           /\ Live(cTag) => IsExpectationOf(expected[cTag.id], cTag)
           /\ Live(dTag) => phase = "fall" /\ IsExpectationOf(expected[dTag.id], dTag)
<1>1. InStep /\ RetainsOnlyInFlight /\ ~loopError
  BY DEF LockInv, InStep
<1>2. Live(dTag) => phase = "fall"
  BY DEF TrackInv, EdgeOrder, Live, TrackTypeOK, PipeTypeOK
<1> QED BY <1>1, <1>2 DEF RetainsOnlyInFlight, InStep, BFollows, CFollows, DFollows

\* The pending writes of a register are those of the tags that write it.
LEMMA PendingWritesAre ==
    ASSUME TrackTypeOK, TrackInv, LockInv, Clean, NEW r \in Reg \ {0}
    PROVE  \A id : id \in PendingWrites(r) <=>
               \/ id = bTag.id /\ Writes(bTag, r)
               \/ id = cTag.id /\ Writes(cTag, r)
               \/ id = dTag.id /\ Writes(dTag, r)
<1>1. \A t \in {bTag, cTag, dTag} :
        /\ Writes(t, r) => Live(t)
        /\ Live(t) <=> t.id # 0
        /\ Live(t) => ((expected[t.id].regwrite /\ expected[t.id].rd = r) <=> Writes(t, r))
  <2>1. /\ Live(bTag) => IsExpectationOf(expected[bTag.id], bTag)
        /\ Live(cTag) => IsExpectationOf(expected[cTag.id], cTag)
        /\ Live(dTag) => IsExpectationOf(expected[dTag.id], dTag)
    BY EntriesOfTags
  <2>2. \A x, t : IsExpectationOf(x, t) => ((x.regwrite /\ x.rd = r) <=> Writes(t, r))
    BY DEF IsExpectationOf, Writes
  <2>3. /\ Live(bTag) <=> bTag.id # 0
        /\ Live(cTag) <=> cTag.id # 0
        /\ Live(dTag) <=> dTag.id # 0
    BY TagNumbers
  <2> QED BY <2>1, <2>2, <2>3, TagsWrite
<1>2. DOMAIN expected = {bTag.id, cTag.id, dTag.id} \ {0}
  BY EntriesOfTags
<1> QED BY <1>1, <1>2 DEF PendingWrites

\* Registers.
LEMMA RegistersAgreeInv ==
    ASSUME TrackTypeOK, TrackInv, LockInv
    PROVE  RegistersAgree
<1> SUFFICES ASSUME Clean, NEW r \in Reg \ {0}
             PROVE  gold.x[r] = IF PendingWrites(r) = {} THEN rf[r]
                                ELSE expected[YoungestOf(PendingWrites(r))].wdata
  BY DEF RegistersAgree
<1>1. gold.x[r] = IF Writes(bTag, r) THEN expected[bTag.id].wdata
                  ELSE IF Writes(cTag, r) THEN expected[cTag.id].wdata
                  ELSE IF phase = "fall" /\ Writes(dTag, r) THEN expected[dTag.id].wdata
                  ELSE rf[r]
  BY DEF LockInv, InStep, RegistersFollow
<1>2. \A id : id \in PendingWrites(r) <=>
                \/ id = bTag.id /\ Writes(bTag, r)
                \/ id = cTag.id /\ Writes(cTag, r)
                \/ id = dTag.id /\ Writes(dTag, r)
  BY PendingWritesAre
<1>3. Writes(dTag, r) => phase = "fall"
  BY EntriesOfTags, TagsWrite
<1>4. /\ bTag.id \in Nat /\ cTag.id \in Nat /\ dTag.id \in Nat
      /\ Writes(bTag, r) /\ Writes(cTag, r) => cTag.id <= bTag.id
      /\ Writes(bTag, r) /\ Writes(dTag, r) => dTag.id <= bTag.id
      /\ Writes(cTag, r) /\ Writes(dTag, r) => dTag.id <= cTag.id
  BY TagNumbers, TagsWrite
<1>5. PendingWrites(r) \subseteq Nat
  BY <1>2, <1>4
<1>6. CASE Writes(bTag, r)
  <2>1. bTag.id \in PendingWrites(r) /\ \A k \in PendingWrites(r) : k <= bTag.id
    BY <1>2, <1>4, <1>6
  <2>2. YoungestOf(PendingWrites(r)) = bTag.id
    BY <1>5, <2>1, YoungestIs
  <2> QED BY <1>1, <1>6, <2>1, <2>2
<1>7. CASE ~Writes(bTag, r) /\ Writes(cTag, r)
  <2>1. cTag.id \in PendingWrites(r) /\ \A k \in PendingWrites(r) : k <= cTag.id
    BY <1>2, <1>4, <1>7
  <2>2. YoungestOf(PendingWrites(r)) = cTag.id
    BY <1>5, <2>1, YoungestIs
  <2> QED BY <1>1, <1>7, <2>1, <2>2
<1>8. CASE ~Writes(bTag, r) /\ ~Writes(cTag, r) /\ Writes(dTag, r)
  <2>1. dTag.id \in PendingWrites(r) /\ \A k \in PendingWrites(r) : k <= dTag.id
    BY <1>2, <1>4, <1>8
  <2>2. YoungestOf(PendingWrites(r)) = dTag.id
    BY <1>5, <2>1, YoungestIs
  <2> QED BY <1>1, <1>3, <1>8, <2>1, <2>2
<1>9. CASE ~Writes(bTag, r) /\ ~Writes(cTag, r) /\ ~Writes(dTag, r)
  <2>1. PendingWrites(r) = {}
    BY <1>2, <1>9
  <2> QED BY <1>1, <1>9, <2>1
<1> QED BY <1>6, <1>7, <1>8, <1>9

\* The aligned word that holds a byte.
LEMMA WordOfByte ==
    ASSUME NEW a \in 0 .. DmSize - 1, NEW b \in 0 .. DmSize - 1, b % 4 = 0
    PROVE  /\ b \in (a - 3) .. a <=> a - (a % 4) = b
           /\ a - (a % 4) = b => a - b = a % 4
  BY ZeroTypes

\* Memory.
LEMMA MemoryAgreesInv ==
    ASSUME TrackTypeOK, TrackInv, LockInv
    PROVE  MemoryAgrees
<1> SUFFICES ASSUME Clean, NEW a \in 0 .. DmSize - 1
             PROVE  gold.m[a] =
                      IF PendingStores(a) = {} THEN dmem[a]
                      ELSE LaneOf(expected[YoungestOf(PendingStores(a))].data,
                                  a - expected[YoungestOf(PendingStores(a))].addr)
  BY DEF MemoryAgrees
<1> DEFINE Holds(t) == t.instr.op = "SW" /\ a - (a % 4) = expected[t.id].addr
<1>1. InStep
  BY DEF LockInv
<1>2. /\ DOMAIN expected = {bTag.id, cTag.id, dTag.id} \ {0}
      /\ DOMAIN stores = {IF phase = "fall" THEN dTag.id ELSE cTag.id} \ {0}
      /\ Live(bTag) => IsExpectationOf(expected[bTag.id], bTag)
      /\ Live(cTag) => IsExpectationOf(expected[cTag.id], cTag)
      /\ Live(dTag) => phase = "fall"
  BY EntriesOfTags
<1>3. \A t \in {bTag, cTag} :
        /\ t.instr.op = "SW" => Live(t)
        /\ Live(t) =>
             /\ (expected[t.id].store /\ expected[t.id].addr \in (a - 3) .. a) <=> Holds(t)
             /\ Holds(t) => a - expected[t.id].addr = a % 4
  <2>1. \A x, t : IsExpectationOf(x, t) =>
                    /\ x.store = (t.instr.op = "SW")
                    /\ t.instr.op = "SW" =>
                         /\ x.addr \in (a - 3) .. a <=> a - (a % 4) = x.addr
                         /\ a - (a % 4) = x.addr => a - x.addr = a % 4
    BY WordOfByte DEF IsExpectationOf
  <2>2. \A t : t.instr.op = "SW" => Live(t)
    BY DEF Live, NoTag, NoInstr
  <2> QED BY <1>2, <2>1, <2>2
<1> HIDE DEF Holds
<1>4. \A id : id \in PendingStores(a) <=>
                \/ id = bTag.id /\ Live(bTag) /\ Holds(bTag)
                \/ id = cTag.id /\ Live(cTag) /\ Holds(cTag) /\ phase = "fall"
  <2>1. \A id : id \in DOMAIN expected \ DOMAIN stores <=>
                  \/ id = bTag.id /\ Live(bTag)
                  \/ id = cTag.id /\ Live(cTag) /\ phase = "fall"
    BY <1>2, TagNumbers
  <2> QED BY <1>3, <2>1 DEF PendingStores
<1>5. /\ bTag.id \in Nat /\ cTag.id \in Nat
      /\ Live(bTag) /\ Live(cTag) => cTag.id <= bTag.id
  BY TagNumbers
<1>6. PendingStores(a) \subseteq Nat
  BY <1>4, <1>5
<1>7. gold.m[a] = IF Holds(bTag) THEN LaneOf(expected[bTag.id].data, a % 4) ELSE NextMem[a]
  BY <1>1 DEF InStep, MemoryFollows, Holds
<1>8. NextMem[a] = IF phase = "fall" /\ Live(cTag) /\ Holds(cTag)
                   THEN LaneOf(expected[cTag.id].data, a % 4) ELSE dmem[a]
  <2>1. cTag.instr.op = C.op
    BY DEF TrackInv, StageIdentity
  <2>2. CASE phase = "fall" /\ C.op = "SW"
    <3> DEFINE x == expected[cTag.id]
    <3>1. Live(cTag)
      BY <2>2, LiveStages
    <3>2. C.alu = x.addr /\ C.v2 = x.data /\ x.addr \in 0 .. DmSize - 1 /\ x.addr % 4 = 0
      BY <1>1, <2>1, <2>2, <3>1 DEF InStep, CFollows, IsExpectationOf
    <3>3. DmAddr = x.addr /\ DmAddr - (DmAddr % 4) = x.addr
      <4>1. PICK b \in 0 .. DmSize - 1 : b = x.addr
        BY <3>2
      <4>2. b % 4 = 0
        BY <3>2, <4>1
      <4>3. b - (b % 4) = b
        BY ONLY <4>1, <4>2, ZeroTypes
      <4>4. b % DmSize = b
        BY ONLY <4>1, ZeroTypes
      <4>5. DmAddr = b
        BY <3>2, <4>1, <4>4 DEF DmAddr
      <4> QED BY <4>1, <4>3, <4>5
    <3>4. DOMAIN dmem = 0 .. DmSize - 1
      BY DEF TrackTypeOK, PipeTypeOK
    <3>5. WrittenMem[a] = IF a - (a % 4) = x.addr THEN LaneOf(x.data, a % 4) ELSE dmem[a]
      BY <3>2, <3>3, <3>4 DEF WrittenMem
    <3>6. NextMem = WrittenMem
      BY <2>2 DEF NextMem, MemWrite
    <3>7. Holds(cTag) <=> a - (a % 4) = x.addr
      BY <2>1, <2>2 DEF Holds
    <3> QED BY <2>2, <3>1, <3>5, <3>6, <3>7
  <2>3. CASE ~(phase = "fall" /\ C.op = "SW")
    BY <2>1, <2>3 DEF NextMem, MemWrite, Holds
  <2> QED BY <2>2, <2>3
<1>9. CASE Holds(bTag)
  <2>1. Live(bTag) /\ a - expected[bTag.id].addr = a % 4
    BY <1>3, <1>9 DEF Holds
  <2>2. bTag.id \in PendingStores(a) /\ \A k \in PendingStores(a) : k <= bTag.id
    BY <1>4, <1>5, <1>9, <2>1
  <2>3. YoungestOf(PendingStores(a)) = bTag.id
    BY <1>6, <2>2, YoungestIs
  <2> QED BY <1>7, <1>9, <2>1, <2>2, <2>3
<1>10. CASE ~Holds(bTag) /\ Live(cTag) /\ Holds(cTag) /\ phase = "fall"
  <2>1. a - expected[cTag.id].addr = a % 4
    BY <1>3, <1>10
  <2>2. cTag.id \in PendingStores(a) /\ \A k \in PendingStores(a) : k <= cTag.id
    BY <1>4, <1>5, <1>10
  <2>3. YoungestOf(PendingStores(a)) = cTag.id
    BY <1>6, <2>2, YoungestIs
  <2> QED BY <1>7, <1>8, <1>10, <2>1, <2>2, <2>3
<1>11. CASE ~Holds(bTag) /\ ~(Live(cTag) /\ Holds(cTag) /\ phase = "fall")
  <2>1. PendingStores(a) = {}
    BY <1>4, <1>11
  <2> QED BY <1>7, <1>8, <1>11, <2>1
<1> QED BY <1>9, <1>10, <1>11
\* The trackers' invariant and the loop's, together.
LEMMA LockInvariants == LockSpec => [](TrackTypeOK /\ TrackInv /\ LockInv)
<1> QED BY TracksInv, LockInvariantHolds, PTL

\* What the streaming classes retain is what is in flight.
THEOREM RetentionFollowsPipeline == LockSpec => []RetainsOnlyInFlight
<1>1. LockInv => RetainsOnlyInFlight
  BY DEF LockInv
<1> QED BY <1>1, LockInvariantHolds, PTL

\* Every forwarding select is the one that the ages of producer and consumer ask for.
THEOREM ForwardingIsByAge == LockSpec => []ForwardingFollowsAge
<1>1. LockInv => ForwardingFollowsAge
  BY DEF LockInv
<1> QED BY <1>1, LockInvariantHolds, PTL

\* A retirement that fails the scoreboard comes after a documented defect.
THEOREM FailuresHaveDefects == LockSpec => []FailuresAreDocumented
<1>1. LockInv => FailuresAreDocumented
  BY DEF LockInv, InStep, FailuresAreDocumented
<1> QED BY <1>1, LockInvariantHolds, PTL

\* The loop ends with an error after a documented defect only.
THEOREM LoopEndsOnDefectsOnly == LockSpec => []LoopRunsToTheEnd
<1>1. LockInv => LoopRunsToTheEnd
  BY DEF LockInv, InStep, LoopRunsToTheEnd
<1> QED BY <1>1, LockInvariantHolds, PTL

\* In a clean run registers and memory, completed by what is in flight, are those of the
\* golden model.
THEOREM PipelineComputesGold == LockSpec => []StateAgrees
<1>1. TrackTypeOK /\ TrackInv /\ LockInv => StateAgrees
  BY RegistersAgreeInv, MemoryAgreesInv DEF StateAgrees
<1> QED BY <1>1, LockInvariants, PTL

\* In a clean run the DUT is late by exactly the stalls that no semantic dependency asks
\* for, when the oracle charges a redirect with its two bubbles.
THEOREM LatenessIsExact ==
    ASSUME RedirectBubbles = 2
    PROVE  LockSpec => []LatenessIsFalseStalls
<1>1. LockInv => LatenessIsFalseStalls
  BY DEF LockInv, OnTime, LatenessIsFalseStalls
<1> QED BY <1>1, LockInvariantHolds, PTL

=============================================================================
