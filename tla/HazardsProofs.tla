--------------------------- MODULE HazardsProofs ---------------------------
(***************************************************************************)
(* Theorems about L1Hazards, for every program, register count and word    *)
(* size.                                                                   *)
(***************************************************************************)
EXTENDS HazardsInvariant, LockProofs, SequenceTheorems

-----------------------------------------------------------------------------
(* The classifier watches the loop.                                         *)

\* A step with the classifier is a step of the checking loop.
LEMMA HazardsStepLocks == [L1Next]_l1Vars => [LockNext]_lockVars
<1>1. L1FallingEdge => LockFallingEdge
  BY DEF L1FallingEdge
<1>2. \A i : L1RisingEdge(i) => LockRisingEdge(i)
  BY DEF L1RisingEdge
<1>3. UNCHANGED l1Vars => UNCHANGED lockVars
  BY DEF l1Vars
<1>4. L1Next => LockNext
  BY <1>1, <1>2 DEF L1Next, LockNext
<1> QED BY <1>3, <1>4

\* The classifier does not disturb the loop it watches.
THEOREM HazardsWatchTheLoop == L1Spec => LockSpec
<1>1. L1Init => LockInit
  BY DEF L1Init
<1> QED BY <1>1, HazardsStepLocks, PTL DEF L1Spec, LockSpec

\* So everything that is proved of the loop holds here.
LEMMA LoopInv == L1Spec => [](TrackTypeOK /\ TrackInv /\ LockInv)
<1> QED BY HazardsWatchTheLoop, LockInvariants, PTL

-----------------------------------------------------------------------------
(* The history.                                                             *)

\* The deque keeps the last three.
LEMMA DequeShifts ==
    ASSUME NEW S, NEW h \in Seq(S), NEW n \in Nat, n = Len(h), n <= 3, NEW p \in S, NEW g,
           g = SubSeq(Append(h, p), IF Len(Append(h, p)) > 3 THEN 2 ELSE 1,
                      Len(Append(h, p)))
    PROVE  \E m \in 1 .. 3 :
             /\ g \in Seq(S) /\ Len(g) = m /\ g[m] = p
             /\ (2 <= m <=> 1 <= n) /\ (3 <= m <=> 2 <= n)
             /\ 1 <= n => g[m - 1] = h[n]
             /\ 2 <= n => g[m - 2] = h[n - 1]
<1>1. PICK all : all = Append(h, p)
  OBVIOUS
<1>2. /\ all \in Seq(S) /\ Len(all) = n + 1 /\ all[n + 1] = p
      /\ \A k \in 1 .. n : all[k] = h[k]
  BY <1>1, AppendProperties
<1>3. CASE n = 3
  <2>1. 3 + 1 = 4 /\ ~(4 <= 3) /\ n + 1 = 4
    BY <1>3
  <2>2. Len(all) = 4 /\ g = SubSeq(all, 2, 4)
    BY <1>1, <1>2, <2>1
  <2>3. (\A k \in 2 .. 4 : all[k] \in S) /\ 2 \in Int /\ 4 \in Int
    BY <1>2, <2>2
  <2>4. /\ SubSeq(all, 2, 4) \in Seq(S)
        /\ Len(SubSeq(all, 2, 4)) = IF 2 <= 4 THEN 4 - 2 + 1 ELSE 0
        /\ \A k \in 1 .. 4 - 2 + 1 : SubSeq(all, 2, 4)[k] = all[2 + k - 1]
    BY ONLY <2>3, SubSeqProperties
  <2>5. /\ 1 \in 1 .. 4 - 2 + 1 /\ 2 \in 1 .. 4 - 2 + 1 /\ 3 \in 1 .. 4 - 2 + 1
        /\ 2 + 1 - 1 = 2 /\ 2 + 2 - 1 = 3 /\ 2 + 3 - 1 = 4
        /\ 2 <= 4 /\ 4 - 2 + 1 = 3
    BY ONLY SMT
  <2>6. g \in Seq(S) /\ Len(g) = 3
    BY <2>2, <2>4, <2>5, Zenon
  <2>7. g[1] = all[2] /\ g[2] = all[3] /\ g[3] = all[4]
    <3>1. g[1] = all[2 + 1 - 1] /\ g[2] = all[2 + 2 - 1] /\ g[3] = all[2 + 3 - 1]
      BY <2>2, <2>4, <2>5, Zenon
    <3> QED BY <2>5, <3>1, Zenon
  <2>8. all[4] = p /\ all[3] = h[3] /\ all[2] = h[2]
    BY <1>2, <1>3
  <2>9. /\ 3 \in 1 .. 3 /\ 3 - 1 = 2 /\ 3 - 2 = 1 /\ 2 <= 3 /\ 1 <= 3 /\ 3 <= 3
    BY ONLY SMT
  <2>10. g[3] = p /\ g[3 - 1] = h[3] /\ g[3 - 2] = h[2]
    BY <2>7, <2>8, <2>9, Zenon
  <2> QED BY <1>3, <2>6, <2>9, <2>10, Zenon
<1>4. CASE n < 3
  <2>1. ~(n + 1 > 3)
    BY <1>4
  <2>2. g = SubSeq(all, 1, Len(all))
    BY <1>1, <1>2, <2>1
  <2>3. g = all
    BY <1>2, <2>2, SubSeqFull
  <2>4. PICK m \in Nat : m = n + 1
    OBVIOUS
  <2>5. m \in 1 .. 3 /\ (2 <= m <=> 1 <= n) /\ (3 <= m <=> 2 <= n)
    BY <1>4, <2>4
  <2>6. 1 <= n => n \in 1 .. n /\ m - 1 = n
    BY <2>4
  <2>7. 2 <= n => n - 1 \in 1 .. n /\ m - 2 = n - 1
    BY <2>4
  <2>8. g \in Seq(S) /\ g[m] = p /\ Len(g) = m
    BY <1>2, <2>3, <2>4
  <2>9. 1 <= n => g[m - 1] = h[n]
    BY <1>2, <2>3, <2>6
  <2>10. 2 <= n => g[m - 2] = h[n - 1]
    BY <1>2, <2>3, <2>7
  <2> QED BY <2>5, <2>8, <2>9, <2>10, Zenon
<1>5. n = 3 \/ n < 3
  OBVIOUS
<1> QED BY <1>3, <1>4, <1>5, Zenon

\* Each event moves one place back.
LEMMA HistoryShifts ==
    ASSUME HistoryTypes, NEW e, e.id \in Nat, e.instr.op \in Op, e.instr.rd \in Reg,
           e.stalls \in Nat, PcSel' \in BOOLEAN, history' = Remember(e)
    PROVE  /\ history' \in Seq(PastEvent) /\ Len(history') <= 3
           /\ Newest' = [id |-> e.id, op |-> e.instr.op, rd |-> e.instr.rd,
                         stalls |-> e.stalls, redirects |-> PcSel']
           /\ Middle' = Newest /\ Oldest' = Middle
<1> DEFINE p == [id |-> e.id, op |-> e.instr.op, rd |-> e.instr.rd,
                 stalls |-> e.stalls, redirects |-> PcSel']
<1>1. p \in PastEvent
  BY DEF PastEvent
<1>2. history' = SubSeq(Append(history, p), IF Len(Append(history, p)) > 3 THEN 2 ELSE 1,
                        Len(Append(history, p)))
  BY DEF Remember
<1>3. history \in Seq(PastEvent) /\ Len(history) <= 3
  BY DEF HistoryTypes
<1>4. PICK g : g = history'
  OBVIOUS
<1> HIDE DEF p
<1>5. PICK h, q : h = history /\ q = p
  OBVIOUS
<1>6. h \in Seq(PastEvent) /\ q \in PastEvent
  BY <1>1, <1>3, <1>5
<1>7. PICK n \in Nat : n = Len(h) /\ n <= 3
  BY <1>3, <1>5, <1>6
<1>8. g = SubSeq(Append(h, q), IF Len(Append(h, q)) > 3 THEN 2 ELSE 1, Len(Append(h, q)))
  BY <1>2, <1>4, <1>5, Zenon
<1>9. PICK m \in 1 .. 3 :
         /\ g \in Seq(PastEvent) /\ Len(g) = m /\ g[m] = q
         /\ (2 <= m <=> 1 <= n) /\ (3 <= m <=> 2 <= n)
         /\ 1 <= n => g[m - 1] = h[n]
         /\ 2 <= n => g[m - 2] = h[n - 1]
  BY <1>6, <1>7, <1>8, DequeShifts
<1>10. Newest' = (IF 1 <= m THEN g[m + 1 - 1] ELSE NoPast)
      /\ Middle' = (IF 2 <= m THEN g[m + 1 - 2] ELSE NoPast)
      /\ Oldest' = (IF 3 <= m THEN g[m + 1 - 3] ELSE NoPast)
  BY <1>4, <1>9 DEF Newest, Middle, Oldest, Past
<1>11. Newest = (IF 1 <= n THEN h[n + 1 - 1] ELSE NoPast)
      /\ Middle = (IF 2 <= n THEN h[n + 1 - 2] ELSE NoPast)
  BY <1>5, <1>7 DEF Newest, Middle, Past
<1>12. /\ m + 1 - 1 = m /\ m + 1 - 2 = m - 1 /\ m + 1 - 3 = m - 2
       /\ n + 1 - 1 = n /\ n + 1 - 2 = n - 1 /\ 1 <= m
  BY <1>7, <1>9
<1>13. Newest' = p /\ Middle' = Newest /\ Oldest' = Middle
  BY <1>5, <1>9, <1>10, <1>11, <1>12, Zenon
<1>14. history' \in Seq(PastEvent) /\ Len(history') <= 3
  BY <1>4, <1>9
<1> QED BY <1>13, <1>14 DEF p

-----------------------------------------------------------------------------
(* What an edge does.                                                       *)

\* A falling edge correlates the hits of the instruction that retires.
LEMMA HazardsFallingEffect ==
    ASSUME TrackTypeOK, TrackInv, LockTypes, RetainsOnlyInFlight, L1FallingEdge
    PROVE  /\ controls' = {} /\ ~loopError /\ ~loopError'
           /\ UNCHANGED <<history, orderError, misled>>
           /\ Newest' = Newest /\ Middle' = Middle /\ Oldest' = Oldest
           /\ IF 0 \notin DOMAIN awaiting /\ Live(dTag) /\ dTag.id \in DOMAIN awaiting
              THEN /\ attributions' = {Correlate(h, awaiting[dTag.id], cycle) :
                                           h \in awaiting[dTag.id].hits}
                   /\ awaiting' = Without(awaiting, dTag.id)
              ELSE 0 \notin DOMAIN awaiting => attributions' = {} /\ UNCHANGED awaiting
<1>1. LockFallingEdge /\ controls' = {} /\ UNCHANGED <<history, orderError, misled>>
      /\ IF loopError' \/ retired'.tag.id \notin DOMAIN awaiting
         THEN attributions' = {} /\ UNCHANGED awaiting
         ELSE /\ attributions' = {Correlate(h, awaiting[retired'.tag.id], cycle) :
                                      h \in awaiting[retired'.tag.id].hits}
              /\ awaiting' = Without(awaiting, retired'.tag.id)
  BY DEF L1FallingEdge
<1>2. ~loopError /\ ~loopError'
  BY <1>1, LockFallingEffect
<1>3. TrackFallingEdge(FALSE) /\ FALSE \in BOOLEAN
  BY <1>1 DEF LockFallingEdge
<1>4. retired'.tag = IF Live(dTag) THEN dTag ELSE NoTag
  <2>1. IF Live(dTag)
        THEN retired' = [tag |-> dTag, regwrite |-> RegWrite(D.op), rd |-> D.rd,
                         wdata |-> D.val]
        ELSE retired' = NoRetire
    BY <1>3, FallingRetires
  <2> QED BY <2>1 DEF NoRetire
<1>5. NoTag.id = 0
  BY DEF NoTag
<1>6. Newest' = Newest /\ Middle' = Middle /\ Oldest' = Oldest
  BY <1>1 DEF Newest, Middle, Oldest, Past
<1>7. retired'.tag.id = IF Live(dTag) THEN dTag.id ELSE 0
  BY <1>4, <1>5
<1> QED BY <1>1, <1>2, <1>6, <1>7

\* A rising edge that accepts nothing, or ends the loop, is not classified.
LEMMA HazardsBubbleEffect ==
    ASSUME TrackTypeOK, TrackInv, LockTypes, NEW i \in Fetchable \cup {NoInstr},
           L1RisingEdge(i), ~Accepts \/ loopError'
    PROVE  /\ LockRisingEdge(i) /\ attributions' = {} /\ controls' = {} /\ ~orderError
           /\ UNCHANGED <<history, awaiting, orderError, misled>>
           /\ Newest' = Newest /\ Middle' = Middle /\ Oldest' = Oldest
<1>1. LockRisingEdge(i) /\ attributions' = {} /\ ~orderError
  BY DEF L1RisingEdge
<1>2. event' = NoEvent \/ loopError'
  BY <1>1, LockRisingEffect
<1>3. controls' = {} /\ UNCHANGED <<history, awaiting, orderError, misled>>
  BY <1>2 DEF L1RisingEdge
<1>4. Newest' = Newest /\ Middle' = Middle /\ Oldest' = Oldest
  BY <1>3 DEF Newest, Middle, Oldest, Past
<1> QED BY <1>1, <1>3, <1>4

\* An acceptance is classified against the history, and enters it.
LEMMA HazardsAcceptEffect ==
    ASSUME TrackTypeOK, TrackInv, LockTypes, HistoryTypes,
           NEW i \in Fetchable \cup {NoInstr}, L1RisingEdge(i), Accepts, ~loopError'
    PROVE  /\ LockRisingEdge(i) /\ attributions' = {} /\ ~orderError
           /\ L1Accept(event') /\ Accept(event') /\ event'.pc = gold.pc
           /\ expectation' = NextExpectation(event')
           /\ HistoryTypes'
           /\ Newest' = [id |-> event'.id, op |-> A.instr.op, rd |-> A.instr.rd,
                         stalls |-> pending.stalls, redirects |-> PcSel']
           /\ Middle' = Newest /\ Oldest' = Middle
           /\ PcSel' => A.instr.op \in LinkOps \cup BranchOps
           /\ A.instr.op \in LinkOps => PcSel'
<1>1. LockRisingEdge(i) /\ attributions' = {} /\ ~orderError
  BY DEF L1RisingEdge
<1>2. event' # NoEvent /\ Accept(event') /\ B'.op = A.instr.op
  BY <1>1, LockRisingEffect
<1>3. L1Accept(event')
  BY <1>2 DEF L1RisingEdge
<1>4. event'.pc = gold.pc
  BY <1>2, RejectEffect
<1>5. /\ event'.id \in Nat \ {0} /\ event'.instr = A.instr
      /\ event'.stalls = pending.stalls /\ event'.stalls \in Nat
      /\ A.instr.op \in Op /\ A.instr.rd \in Reg /\ A.instr.op # "NONE"
  BY <1>1, AcceptedEvent DEF TrackTypeOK
<1>6. PcSel' \in BOOLEAN
  BY DEF PcSel
<1>7. /\ history' \in Seq(PastEvent) /\ Len(history') <= 3
      /\ Newest' = [id |-> event'.id, op |-> A.instr.op, rd |-> A.instr.rd,
                    stalls |-> pending.stalls, redirects |-> PcSel']
      /\ Middle' = Newest /\ Oldest' = Middle
  BY <1>3, <1>5, <1>6, HistoryShifts DEF L1Accept
<1>8. /\ PcSel' => A.instr.op \in LinkOps \cup BranchOps
      /\ A.instr.op \in LinkOps => PcSel'
  <2>1. A.instr.op \in LinkOps => PcSel'
    <3>1. A.instr.op = "JALR" => JalrSel(B'.op)
      BY <1>2 DEF JalrSel
    <3>2. A.instr.op = "JAL" => Branch(B'.op) /\ AluResult' = 1
      <4>1. \A imm, a, b : ALUResult("JAL", imm, a, b) = 1
        BY DEF ALUResult, BranchOps, SelectsSub
      <4>2. Branch("JAL")
        BY DEF Branch
      <4> QED BY <1>2, <4>1, <4>2 DEF AluResult
    <3>3. 1 % 2 = 1
      OBVIOUS
    <3> QED BY <3>1, <3>2, <3>3 DEF PcSel, LinkOps
  <2>2. PcSel' => A.instr.op \in LinkOps \cup BranchOps
    BY <1>2 DEF PcSel, JalrSel, Branch, LinkOps
  <2> QED BY <2>1, <2>2
<1>9. IsPast(Newest)'
  <2>1. Newest' \in PastEvent
    BY <1>5, <1>6, <1>7 DEF PastEvent
  <2>2. /\ Newest'.op = A.instr.op /\ Newest'.id = event'.id /\ Newest'.redirects = PcSel'
    BY <1>7
  <2> QED BY <1>5, <1>8, <2>1, <2>2 DEF IsPast
<1>10. HistoryTypes'
  BY <1>7, <1>9 DEF HistoryTypes
<1>11. expectation' = NextExpectation(event')
  BY <1>2, <1>4, AcceptEffect
<1> QED BY <1>1, <1>2, <1>3, <1>4, <1>7, <1>8, <1>10, <1>11

-----------------------------------------------------------------------------
(* Cycles between acceptances.                                              *)

\* No operation of the empty past redirects or loads.
LEMMA NoPastIsInert ==
    ASSUME HistoryTypes, Newest.id = 0
    PROVE  Newest.op = "NONE" /\ ~Newest.redirects
<1>1. Newest.op = "NONE"
  BY DEF HistoryTypes, IsPast
<1>2. "NONE" \notin LinkOps \cup BranchOps
  BY DEF LinkOps, BranchOps
<1> QED BY <1>1, <1>2 DEF HistoryTypes, IsPast

\* How long the accepted instruction has waited follows from the instruction in front
\* of it alone: a load that one of its raw fields names, or a redirect.
LEMMA AcceptSpacing ==
    ASSUME TrackTypeOK, TrackInv, LockTypes, HistoryTypes, WaitsForNewest,
           phase = "rise", Accepts
    PROVE  /\ pending.stalls \in {0, 1}
           /\ pending.stalls = 1 <=>
                Newest.op = "LW" /\ Newest.rd \in {A.instr.rs1, A.instr.rs2}
           /\ Elapsed = (1 + pending.stalls) + Bubbles(Newest)
<1>1. ~PcSel /\ ~RegStall /\ A.instr # NoInstr /\ pending.instr = A.instr
  BY DEF Accepts, TrackInv, EdgeOrder
<1>2. Waited = pending.stalls
  BY DEF Waited
<1>3. bTag.instr.op = B.op /\ (Live(bTag) => B.rd = bTag.instr.rd)
      /\ cTag.instr.op = C.op /\ (Live(cTag) => C.rd = cTag.instr.rd)
  BY DEF TrackInv, StageIdentity
<1>4. \A op : MemRead(op) <=> op = "LW"
  BY DEF MemRead
<1>5. (1 + 0) + 0 = 1 /\ (1 + 0) + 2 = 3 /\ (1 + 1) + 0 = 2
  OBVIOUS
<1>6. CASE Newest.id = 0
  <2>1. Waited = 0 /\ ~Newest.redirects /\ Newest.op # "LW"
    BY <1>1, <1>6, NoPastIsInert DEF WaitsForNewest
  <2>2. Elapsed = 1 /\ Bubbles(Newest) = 0
    BY <1>6, <2>1 DEF Elapsed, Bubbles
  <2> QED BY <1>2, <1>5, <2>1, <2>2
<1>7. CASE Newest.id # 0 /\ Live(bTag)
  <2>1. Waited = 0 /\ ~Newest.redirects /\ Newest.op = B.op /\ Newest.rd = B.rd
    BY <1>1, <1>3, <1>7 DEF WaitsForNewest, IsNewest
  <2>2. Elapsed = 1 /\ Bubbles(Newest) = 0
    BY <1>7, <2>1 DEF Elapsed, Bubbles
  <2>3. ~(Newest.op = "LW" /\ Newest.rd \in {A.instr.rs1, A.instr.rs2})
    BY <1>1, <1>4, <2>1 DEF RegStall
  <2> QED BY <1>2, <1>5, <2>1, <2>2, <2>3
<1>8. CASE Newest.id # 0 /\ ~Live(bTag) /\ Newest.redirects
  <2>1. Waited = 0
    BY <1>1, <1>8 DEF WaitsForNewest
  <2>2. Newest.op # "LW"
    BY <1>8 DEF HistoryTypes, IsPast, LinkOps, BranchOps
  <2>3. Elapsed = 3 /\ Bubbles(Newest) = 2
    BY <1>1, <1>8 DEF Elapsed, Bubbles
  <2> QED BY <1>2, <1>5, <2>1, <2>2, <2>3
<1>9. CASE Newest.id # 0 /\ ~Live(bTag) /\ ~Newest.redirects
  <2>1. Waited = 1 /\ Newest.op = C.op /\ Newest.rd = C.rd
    BY <1>1, <1>3, <1>9 DEF WaitsForNewest, IsNewest
  <2>2. C.op = "LW" /\ C.rd \in {A.instr.rs1, A.instr.rs2}
    BY <1>1, <1>2, <1>4, <2>1 DEF TrackInv, SingleStall
  <2>3. Elapsed = 2 /\ Bubbles(Newest) = 0
    BY <1>1, <1>9 DEF Elapsed, Bubbles
  <2> QED BY <1>2, <1>5, <2>1, <2>2, <2>3
<1> QED BY <1>6, <1>7, <1>8, <1>9

\* A falling edge moves no instruction.
LEMMA FallingSpacing ==
    ASSUME TrackTypeOK, TrackInv, LockTypes, RetainsOnlyInFlight, WaitsForNewest,
           LockFallingEdge, Newest' = Newest
    PROVE  /\ WaitsForNewest' /\ Elapsed' = Elapsed /\ Fetching' = Fetching
<1>1. /\ UNCHANGED <<A, bTag, cTag, cycle>> /\ PcSel' = PcSel
      /\ phase' = "rise" /\ ~reset'
  BY LockFallingEffect
<1>2. Elapsed' = Elapsed /\ Fetching' = Fetching
  BY <1>1 DEF Elapsed, Fetching, Live
<1>3. ~PcSel /\ A.instr # NoInstr => Waited' = Waited
  BY FallingWaits
<1>4. PcSel => Live(bTag) /\ Waited' = 0
  <2> SUFFICES ASSUME PcSel PROVE Live(bTag) /\ Waited' = 0
    OBVIOUS
  <2>1. Live(bTag)
    BY BubbleIsInert, LiveStages
  <2>2. ObservePreEdge
    BY FallingKeeps DEF LockFallingEdge
  <2>3. pending' = NoPending
    BY <2>2 DEF ObservePreEdge
  <2> QED BY <1>1, <2>1, <2>3 DEF Waited, NoPending
<1> QED BY <1>1, <1>2, <1>3, <1>4 DEF WaitsForNewest, IsNewest, Live, Fetching

\* An edge that accepts nothing is a cycle more since the last acceptance.
LEMMA BubbleSpacing ==
    ASSUME TrackTypeOK, TrackInv, LockTypes, StallsAreCounted, HistoryTypes, WaitsForNewest,
           NEW i \in Fetchable \cup {NoInstr}, LockRisingEdge(i), ~Accepts, Newest' = Newest
    PROVE  WaitsForNewest' /\ (Fetching' => Fetching /\ Elapsed' = Elapsed + 1)
<1>1. /\ phase = "rise" /\ phase' = "fall" /\ ~reset /\ cycle' = cycle + 1
      /\ bTag' = NoTag /\ cTag' = bTag /\ stallCount' = stallCount
      /\ cycle \in Nat /\ ProgramCycles \in Nat
  BY LockRisingEffect, CyclesAssumption DEF LockTypes, TrackTypeOK
<1>2. Newest.id # 0
  <2> SUFFICES ASSUME Newest.id = 0 PROVE FALSE
    OBVIOUS
  <2>1. ~Live(bTag) /\ A.instr # NoInstr
    BY DEF WaitsForNewest
  <2>2. ~PcSel /\ ~RegStall
    BY <2>1, LiveStages, BubbleIsInert
  <2> QED BY <1>1, <2>1, <2>2 DEF Accepts
<1>3. Waited' = stallCount
  BY <1>1 DEF Waited
<1>4. ~Live(bTag)' /\ (Live(cTag)' <=> Live(bTag)) /\ IsNewest(cTag)' = IsNewest(bTag)
  BY <1>1 DEF Live, IsNewest
<1>5. /\ Fetching <=> A.instr # NoInstr \/ cycle <= ProgramCycles
      /\ Fetching' <=> A'.instr # NoInstr \/ cycle + 1 <= ProgramCycles
  BY <1>1 DEF Fetching
<1>6. Elapsed' = IF Newest.redirects /\ A'.instr # NoInstr THEN 3 ELSE 2
  BY <1>2, <1>4 DEF Elapsed
<1>7. WaitsForNewest' <=>
        /\ Fetching' /\ A'.instr = NoInstr => Newest.redirects
        /\ A'.instr # NoInstr =>
             IF Newest.redirects THEN Waited' = 0 ELSE Waited' = 1 /\ IsNewest(cTag)'
  BY <1>2, <1>4 DEF WaitsForNewest
<1>8. 1 + 1 = 2 /\ 2 + 1 = 3
  OBVIOUS
<1>9. CASE PcSel
  <2>1. Live(bTag) /\ A'.instr = NoInstr
    BY <1>9, LiveStages, BubbleIsInert, RisingFetches
  <2>2. Newest.redirects /\ Elapsed = 1
    BY <1>9, <2>1 DEF WaitsForNewest, Elapsed
  <2>3. cycle + 1 <= ProgramCycles => cycle <= ProgramCycles
    BY <1>1
  <2> QED BY <1>5, <1>6, <1>7, <1>8, <2>1, <2>2, <2>3
<1>10. CASE ~PcSel /\ RegStall
  <2>1. Live(bTag) /\ A' = A
    BY <1>10, LiveStages, BubbleIsInert, RisingFetches
  <2>2. IsNewest(bTag) /\ ~Newest.redirects /\ Elapsed = 1
    BY <1>10, <2>1 DEF WaitsForNewest, Elapsed
  <2>3. A.instr # NoInstr => stallCount = 1
    BY <1>1, <1>10 DEF StallsAreCounted
  <2>4. A.instr = NoInstr => ~(cycle <= ProgramCycles)
    BY <2>1, LiveStages DEF StallsAreCounted
  <2>5. cycle + 1 <= ProgramCycles => cycle <= ProgramCycles
    BY <1>1
  <2> QED BY <1>3, <1>4, <1>5, <1>6, <1>7, <1>8, <2>1, <2>2, <2>3, <2>4, <2>5
<1>11. CASE ~PcSel /\ ~RegStall /\ A.instr = NoInstr
  <2>1. stallCount = 0
    BY <1>1, <1>11 DEF TrackInv, StallHistory
  <2>2. A'.instr # NoInstr <=> cycle < ProgramCycles
    BY <1>11, RisingFetches
  <2>3. cycle + 1 <= ProgramCycles <=> cycle < ProgramCycles
    BY <1>1
  <2>4. cycle < ProgramCycles => cycle <= ProgramCycles
    BY <1>1
  <2>5. Live(bTag) => ~(cycle <= ProgramCycles)
    BY <1>11, LiveStages DEF StallsAreCounted
  <2>6. ~Live(bTag) /\ Fetching => Newest.redirects
    BY <1>11 DEF WaitsForNewest
  <2>7. ~Live(bTag) => Elapsed = 2
    BY <1>2, <1>11 DEF Elapsed
  <2> QED BY <1>3, <1>5, <1>6, <1>7, <1>8, <2>1, <2>2, <2>3, <2>4, <2>5, <2>6, <2>7
<1>12. PcSel \/ RegStall \/ A.instr = NoInstr
  BY <1>1 DEF Accepts
<1> QED BY <1>9, <1>10, <1>11, <1>12

\* The accepted instruction is the newest, and it is in B.
LEMMA AcceptIsNewest ==
    ASSUME TrackTypeOK, TrackInv, LockTypes, HistoryTypes, InOrder,
           NEW i \in Fetchable \cup {NoInstr}, L1RisingEdge(i), Accepts, ~loopError'
    PROVE  InOrder' /\ WaitsForNewest' /\ Elapsed' = 1
<1>1. /\ LockRisingEdge(i) /\ Middle' = Newest
      /\ Newest' = [id |-> event'.id, op |-> A.instr.op, rd |-> A.instr.rd,
                    stalls |-> pending.stalls, redirects |-> PcSel']
  BY HazardsAcceptEffect
<1>2. /\ Newest'.id = event'.id /\ Newest'.op = A.instr.op /\ Newest'.rd = A.instr.rd
      /\ Newest'.redirects = PcSel'
  BY <1>1
<1>3. event'.id = index + 1 /\ event'.id \in Nat \ {0} /\ ~RegStall /\ A.instr # NoInstr
  BY <1>1, AcceptedEvent DEF Accepts
<1>4. /\ phase = "rise" /\ phase' = "fall" /\ stallCount' = stallCount
      /\ bTag'.instr = A.instr /\ Live(bTag)'
  BY <1>1, LockRisingEffect
<1>5. index' = index + 1
  <2>1. TrackRisingEdge(i) /\ ~reset
    BY <1>1 DEF LockRisingEdge, LockTypes
  <2> QED BY <2>1, RisingEffect
<1>6. Waited' = 0
  BY <1>3, <1>4 DEF Waited, TrackInv, StallHistory
<1>7. InOrder'
  BY <1>1, <1>2, <1>3, <1>5 DEF InOrder
<1>8. WaitsForNewest'
  BY <1>2, <1>3, <1>4, <1>6 DEF WaitsForNewest, IsNewest
<1> QED BY <1>4, <1>7, <1>8 DEF Elapsed

-----------------------------------------------------------------------------
(* The classifier and the oracle's table.                                   *)

\* The oracle changes at an acceptance only.
LEMMA TableStays ==
    ASSUME TrackTypeOK, TrackInv, LockTypes, HistoryTypes, WritersInHistory, LoadsInFront,
           oracle' = oracle, Newest' = Newest, Middle' = Middle, Oldest' = Oldest,
           cycle \in Nat, Elapsed \in Nat,
           NEW n \in {0, 1}, cycle' = cycle + n,
           Fetching' => Fetching /\ Elapsed' = Elapsed + n
    PROVE  WritersInHistory' /\ LoadsInFront'
<1> DEFINE Entry(w, p, gap, f, el, c) ==
      w.id = p.id /\ w.op = p.op /\ (f => (w.seen + gap) + el = c)
<1>1. PICK p, q, r, wr, g, h :
         /\ p = Newest /\ q = Middle /\ r = Oldest /\ wr = oracle.writer
         /\ g = Gap(Newest, Middle) /\ h = Gap(Middle, Oldest)
  OBVIOUS
<1>2. /\ p = Newest' /\ q = Middle' /\ r = Oldest' /\ wr = oracle'.writer
      /\ g = Gap(Newest, Middle)' /\ h = Gap(Middle, Oldest)'
  <2>1. g = 1 + Newest'.stalls + (IF Middle'.redirects THEN 2 ELSE 0)
    BY <1>1 DEF Gap, Bubbles
  <2>2. h = 1 + Middle'.stalls + (IF Oldest'.redirects THEN 2 ELSE 0)
    BY <1>1 DEF Gap, Bubbles
  <2>3. Gap(Newest, Middle)' = 1 + Newest'.stalls + (IF Middle'.redirects THEN 2 ELSE 0)
    BY DEF Gap, Bubbles
  <2>4. Gap(Middle, Oldest)' = 1 + Middle'.stalls + (IF Oldest'.redirects THEN 2 ELSE 0)
    BY DEF Gap, Bubbles
  <2> QED BY <1>1, <2>1, <2>2, <2>3, <2>4
<1>3. /\ WritesRd(p.op) /\ p.rd # 0 => Entry(wr[p.rd], p, 0, Fetching, Elapsed, cycle)
      /\ WritesRd(q.op) /\ q.rd # 0 /\ ~(WritesRd(p.op) /\ p.rd # 0 /\ p.rd = q.rd) =>
           Entry(wr[q.rd], q, g, Fetching, Elapsed, cycle)
      /\ WritesRd(r.op) /\ r.rd # 0 /\ ~(WritesRd(p.op) /\ p.rd # 0 /\ p.rd = r.rd)
           /\ ~(WritesRd(q.op) /\ q.rd # 0 /\ q.rd = r.rd) =>
           Entry(wr[r.rd], r, g + h, Fetching, Elapsed, cycle)
  BY <1>1 DEF WritersInHistory, IsWriter, Positive, Shadows
<1>4. WritersInHistory' <=>
      /\ WritesRd(p.op) /\ p.rd # 0 => Entry(wr[p.rd], p, 0, Fetching', Elapsed', cycle')
      /\ WritesRd(q.op) /\ q.rd # 0 /\ ~(WritesRd(p.op) /\ p.rd # 0 /\ p.rd = q.rd) =>
           Entry(wr[q.rd], q, g, Fetching', Elapsed', cycle')
      /\ WritesRd(r.op) /\ r.rd # 0 /\ ~(WritesRd(p.op) /\ p.rd # 0 /\ p.rd = r.rd)
           /\ ~(WritesRd(q.op) /\ q.rd # 0 /\ q.rd = r.rd) =>
           Entry(wr[r.rd], r, g + h, Fetching', Elapsed', cycle')
  BY <1>2 DEF WritersInHistory, IsWriter, Positive, Shadows
<1>5. /\ p.rd \in Reg /\ q.rd \in Reg /\ r.rd \in Reg /\ g \in Nat /\ h \in Nat
  <2>1. /\ Newest.rd \in Reg /\ Middle.rd \in Reg /\ Oldest.rd \in Reg
        /\ Newest.stalls \in Nat /\ Middle.stalls \in Nat
    BY DEF HistoryTypes, IsPast, PastEvent
  <2> QED BY <1>1, <2>1 DEF Gap, Bubbles
<1>6. \A k \in Reg : wr[k].seen \in Nat
  BY <1>1 DEF LockTypes, Writer
<1>7. \A w, e, gap : w.seen \in Nat /\ gap \in Nat
          /\ Entry(w, e, gap, Fetching, Elapsed, cycle) =>
          Entry(w, e, gap, Fetching', Elapsed', cycle')
  <2> SUFFICES ASSUME NEW w, NEW gap \in Nat, w.seen \in Nat,
                      Fetching => (w.seen + gap) + Elapsed = cycle, Fetching'
               PROVE  (w.seen + gap) + Elapsed' = cycle'
    OBVIOUS
  <2>1. PICK s \in Nat, el \in Nat, c \in Nat : s = w.seen /\ el = Elapsed /\ c = cycle
    OBVIOUS
  <2>2. (s + gap) + el = c /\ Elapsed' = el + n /\ cycle' = c + n
    BY <2>1
  <2>3. n \in Nat
    OBVIOUS
  <2>4. (s + gap) + (el + n) = c + n
    BY ONLY <2>2, <2>3, s \in Nat, gap \in Nat, el \in Nat, c \in Nat
  <2> QED BY <2>1, <2>2, <2>4
<1>8. 0 \in Nat /\ g + h \in Nat
  BY <1>5
<1>9. LoadsInFront'
  BY DEF LoadsInFront, Positive
<1> HIDE DEF Entry
<1> QED BY <1>3, <1>4, <1>5, <1>6, <1>7, <1>8, <1>9

\* What the oracle's table becomes.
LEMMA AcceptTable ==
    ASSUME TrackTypeOK, TrackInv, LockTypes, HistoryTypes,
           NEW i \in Fetchable \cup {NoInstr}, L1RisingEdge(i), Accepts, ~loopError'
    PROVE  /\ expectation'.accept = oracle.next + expectation'.stalls
           /\ expectation'.accept \in Nat /\ expectation'.stalls \in {0, 1}
           /\ expectation'.accept >= oracle.next
           /\ \E n \in Nat :
                /\ oracle'.next = expectation'.accept + 1 + n
                /\ n = IF A.instr.op \in LinkOps \/ BranchTaken(gold, A.instr)
                       THEN RedirectBubbles ELSE 0
           /\ \A r \in Reg :
                oracle'.writer[r] =
                  IF WritesRd(A.instr.op) /\ r # 0 /\ r = A.instr.rd
                  THEN [id |-> event'.id, op |-> A.instr.op, cycle |-> expectation'.accept,
                        seen |-> cycle]
                  ELSE oracle.writer[r]
<1>1. /\ LockRisingEdge(i) /\ Accept(event') /\ event'.pc = gold.pc
      /\ expectation' = NextExpectation(event')
  BY HazardsAcceptEffect
<1>2. event'.instr = A.instr /\ event'.cycle = cycle
  BY <1>1, AcceptedEvent
<1>3. oracle' = [next   |-> NextExpectation(event').accept + 1
                            + (IF event'.instr.op \in {"JAL", "JALR"}
                                  \/ BranchTaken(gold, event'.instr)
                               THEN RedirectBubbles ELSE 0),
                 writer |-> IF WritesRd(event'.instr.op) /\ event'.instr.rd # 0
                            THEN [oracle.writer EXCEPT ![event'.instr.rd] =
                                    [id |-> event'.id, op |-> event'.instr.op,
                                     cycle |-> NextExpectation(event').accept,
                                     seen |-> event'.cycle]]
                            ELSE oracle.writer]
  BY <1>1, AcceptEffect
<1>4. PICK e, x, taken : e = event' /\ x = expectation' /\ taken = BranchTaken(gold, A.instr)
  OBVIOUS
<1>5. /\ x.accept = oracle.next + x.stalls /\ x.accept \in Nat /\ x.stalls \in {0, 1}
  BY <1>1, <1>4, ExpectationType
<1>6. oracle.next \in Nat /\ oracle.writer \in [Reg -> Writer] /\ RedirectBubbles \in Nat
  BY OracleAssumption DEF LockTypes
<1>7. x.accept >= oracle.next
  BY <1>5, <1>6
<1>8. PICK n \in Nat : n = IF A.instr.op \in LinkOps \/ BranchTaken(gold, A.instr)
                           THEN RedirectBubbles ELSE 0
  BY <1>6
<1>9. oracle'.next = x.accept + 1 + n
  BY <1>1, <1>2, <1>3, <1>4, <1>8 DEF LinkOps
<1>10. \A r \in Reg :
         oracle'.writer[r] =
           IF WritesRd(A.instr.op) /\ r # 0 /\ r = A.instr.rd
           THEN [id |-> e.id, op |-> A.instr.op, cycle |-> x.accept, seen |-> cycle]
           ELSE oracle.writer[r]
  <2>1. oracle'.writer = IF WritesRd(A.instr.op) /\ A.instr.rd # 0
                         THEN [oracle.writer EXCEPT ![A.instr.rd] =
                                 [id |-> e.id, op |-> A.instr.op, cycle |-> x.accept,
                                  seen |-> cycle]]
                         ELSE oracle.writer
    BY <1>1, <1>2, <1>3, <1>4
  <2> QED BY <1>6, <2>1
<1> QED BY <1>4, <1>5, <1>7, <1>8, <1>9, <1>10

\* The table still knows the last three, and their distances have grown.
LEMMA AcceptHistory ==
    ASSUME TrackTypeOK, TrackInv, LockTypes, HistoryTypes, InOrder, WaitsForNewest,
           WritersInHistory,
           NEW i \in Fetchable \cup {NoInstr}, L1RisingEdge(i), Accepts, ~loopError'
    PROVE  WritersInHistory'
<1> DEFINE Entry(w, p, gap, f, el, c) ==
      w.id = p.id /\ w.op = p.op /\ (f => (w.seen + gap) + el = c)
<1>1. /\ LockRisingEdge(i) /\ Middle' = Newest /\ Oldest' = Middle
      /\ Newest' = [id |-> event'.id, op |-> A.instr.op, rd |-> A.instr.rd,
                    stalls |-> pending.stalls, redirects |-> PcSel']
  BY HazardsAcceptEffect
<1>2. PICK n, p, q, wr, ww, g, h, x :
         /\ n = Newest' /\ p = Newest /\ q = Middle /\ wr = oracle.writer
         /\ ww = oracle'.writer /\ x = expectation'
         /\ g = Gap(Newest, Middle) /\ h = 1 + pending.stalls + Bubbles(Newest)
  OBVIOUS
<1>3. /\ n.id = event'.id /\ n.op = A.instr.op /\ n.rd = A.instr.rd
      /\ n.stalls = pending.stalls
  BY <1>1, <1>2
<1>4. phase = "rise" /\ cycle' = cycle + 1 /\ cycle \in Nat /\ A.instr # NoInstr
  BY <1>1, LockRisingEffect DEF TrackTypeOK, Accepts
<1>5. Elapsed = h /\ h \in Nat /\ g \in Nat
  <2>1. Newest.stalls \in Nat /\ pending.stalls \in {0, 1}
    BY <1>4, AcceptSpacing DEF HistoryTypes, IsPast, PastEvent
  <2> QED BY <1>2, <1>4, <2>1, AcceptSpacing DEF Gap, Bubbles
<1>6. Elapsed' = 1 /\ Fetching
  BY <1>4, AcceptIsNewest DEF Fetching
<1>7. /\ WritesRd(p.op) /\ p.rd # 0 => Entry(wr[p.rd], p, 0, TRUE, h, cycle)
      /\ WritesRd(q.op) /\ q.rd # 0 /\ ~(WritesRd(p.op) /\ p.rd # 0 /\ p.rd = q.rd) =>
           Entry(wr[q.rd], q, g, TRUE, h, cycle)
  BY <1>2, <1>5, <1>6 DEF WritersInHistory, IsWriter, Positive, Shadows
<1>8. g = Gap(Middle, Oldest)' /\ h = Gap(Newest, Middle)'
  <2>1. g = 1 + Newest.stalls + (IF Middle.redirects THEN 2 ELSE 0)
    BY <1>2 DEF Gap, Bubbles
  <2>2. h = 1 + n.stalls + (IF Newest.redirects THEN 2 ELSE 0)
    BY <1>2, <1>3 DEF Gap, Bubbles
  <2>3. Gap(Newest, Middle)' = 1 + Newest'.stalls + (IF Middle'.redirects THEN 2 ELSE 0)
    BY DEF Gap, Bubbles
  <2>4. Gap(Middle, Oldest)' = 1 + Middle'.stalls + (IF Oldest'.redirects THEN 2 ELSE 0)
    BY DEF Gap, Bubbles
  <2> QED BY <1>1, <1>2, <2>1, <2>2, <2>3, <2>4
<1>9. WritersInHistory' <=>
      /\ WritesRd(n.op) /\ n.rd # 0 => Entry(ww[n.rd], n, 0, Fetching', 1, cycle + 1)
      /\ WritesRd(p.op) /\ p.rd # 0 /\ ~(WritesRd(n.op) /\ n.rd # 0 /\ n.rd = p.rd) =>
           Entry(ww[p.rd], p, h, Fetching', 1, cycle + 1)
      /\ WritesRd(q.op) /\ q.rd # 0 /\ ~(WritesRd(n.op) /\ n.rd # 0 /\ n.rd = q.rd)
           /\ ~(WritesRd(p.op) /\ p.rd # 0 /\ p.rd = q.rd) =>
           Entry(ww[q.rd], q, h + g, Fetching', 1, cycle + 1)
  BY <1>1, <1>2, <1>4, <1>6, <1>8 DEF WritersInHistory, IsWriter, Positive, Shadows
<1>10. \A r \in Reg :
         ww[r] = IF WritesRd(n.op) /\ r # 0 /\ r = n.rd
                 THEN [id |-> n.id, op |-> n.op, cycle |-> x.accept, seen |-> cycle]
                 ELSE wr[r]
  BY <1>2, <1>3, AcceptTable
<1>11. n.rd \in Reg /\ p.rd \in Reg /\ q.rd \in Reg /\ \A r \in Reg : wr[r].seen \in Nat
  BY <1>1, <1>2, <1>3, AcceptedEvent DEF HistoryTypes, IsPast, PastEvent, LockTypes, Writer
<1>12. WritesRd(n.op) /\ n.rd # 0 => Entry(ww[n.rd], n, 0, Fetching', 1, cycle + 1)
  <2> SUFFICES ASSUME WritesRd(n.op), n.rd # 0
               PROVE  ww[n.rd].id = n.id /\ ww[n.rd].op = n.op /\ ww[n.rd].seen = cycle
    BY <1>4
  <2> QED BY <1>10, <1>11
<1>13. \A e, gap, r : r \in Reg /\ gap \in Nat /\ Entry(wr[r], e, gap, TRUE, h, cycle) =>
          Entry(wr[r], e, h + gap, Fetching', 1, cycle + 1)
  <2> SUFFICES ASSUME NEW r \in Reg, NEW gap \in Nat, (wr[r].seen + gap) + h = cycle
               PROVE  (wr[r].seen + (h + gap)) + 1 = cycle + 1
    OBVIOUS
  <2>1. PICK s \in Nat : s = wr[r].seen
    BY <1>11
  <2>2. (s + (h + gap)) + 1 = ((s + gap) + h) + 1
    BY <1>5, <2>1
  <2> QED BY <2>1, <2>2
<1>14. h + 0 = h
  BY <1>5
<1> HIDE DEF Entry
<1>15. WritesRd(p.op) /\ p.rd # 0 /\ ~(WritesRd(n.op) /\ n.rd # 0 /\ n.rd = p.rd) =>
           Entry(ww[p.rd], p, h, Fetching', 1, cycle + 1)
  <2> SUFFICES ASSUME WritesRd(p.op), p.rd # 0, ~(WritesRd(n.op) /\ n.rd # 0 /\ n.rd = p.rd)
               PROVE  Entry(ww[p.rd], p, h, Fetching', 1, cycle + 1)
    OBVIOUS
  <2>1. ww[p.rd] = wr[p.rd]
    BY <1>10, <1>11
  <2>2. Entry(wr[p.rd], p, 0, TRUE, h, cycle)
    BY <1>7
  <2>3. Entry(wr[p.rd], p, h + 0, Fetching', 1, cycle + 1)
    BY <1>11, <1>13, <2>2
  <2> QED BY <1>14, <2>1, <2>3
<1>16. WritesRd(q.op) /\ q.rd # 0 /\ ~(WritesRd(n.op) /\ n.rd # 0 /\ n.rd = q.rd)
           /\ ~(WritesRd(p.op) /\ p.rd # 0 /\ p.rd = q.rd) =>
           Entry(ww[q.rd], q, h + g, Fetching', 1, cycle + 1)
  <2> SUFFICES ASSUME WritesRd(q.op), q.rd # 0, ~(WritesRd(n.op) /\ n.rd # 0 /\ n.rd = q.rd),
                      ~(WritesRd(p.op) /\ p.rd # 0 /\ p.rd = q.rd)
               PROVE  Entry(ww[q.rd], q, h + g, Fetching', 1, cycle + 1)
    OBVIOUS
  <2>1. ww[q.rd] = wr[q.rd]
    BY <1>10, <1>11
  <2>2. Entry(wr[q.rd], q, g, TRUE, h, cycle)
    BY <1>7
  <2> QED BY <1>5, <1>11, <1>13, <2>1, <2>2
<1> QED BY <1>9, <1>12, <1>15, <1>16

\* Only the newest instruction can be a load right in front.
LEMMA AcceptLoadsInFront ==
    ASSUME TrackTypeOK, TrackInv, LockTypes, HistoryTypes, LoadsInFront,
           NEW i \in Fetchable \cup {NoInstr}, L1RisingEdge(i), Accepts, ~loopError'
    PROVE  LoadsInFront'
<1>1. PICK n, wr, ww, x :
         n = Newest' /\ wr = oracle.writer /\ ww = oracle'.writer /\ x = expectation'
  OBVIOUS
<1>2. n.op = A.instr.op /\ n.rd = A.instr.rd /\ n.rd \in Reg
  BY <1>1, HazardsAcceptEffect, AcceptedEvent
<1>3. PICK k \in Nat : /\ oracle'.next = x.accept + 1 + k
                       /\ k = IF A.instr.op \in LinkOps \/ BranchTaken(gold, A.instr)
                              THEN RedirectBubbles ELSE 0
  BY <1>1, AcceptTable
<1>4. x.accept \in Nat /\ x.accept >= oracle.next /\ oracle.next \in Nat
  BY <1>1, AcceptTable DEF LockTypes
<1>5. \A r \in Reg :
         ww[r] = IF WritesRd(n.op) /\ r # 0 /\ r = n.rd
                 THEN [id |-> event'.id, op |-> n.op, cycle |-> x.accept, seen |-> cycle]
                 ELSE wr[r]
  BY <1>1, <1>2, AcceptTable
<1>6. \A r \in Reg \ {0} : wr[r].cycle \in Nat /\ wr[r].cycle < oracle.next
  BY <1>1 DEF LoadsInFront, LockTypes, Writer
<1>7. n.op = "LW" => k = 0
  BY <1>2, <1>3 DEF LinkOps, BranchTaken, BranchOps
<1>8. \A r \in Reg \ {0} :
         /\ ww[r].cycle < x.accept + 1 + k
         /\ (x.accept + 1 + k) - ww[r].cycle = 1 => WritesRd(n.op) /\ n.rd # 0 /\ n.rd = r
  <2> TAKE r \in Reg \ {0}
  <2>1. CASE WritesRd(n.op) /\ r = n.rd
    <3>1. ww[r].cycle = x.accept
      BY <1>5, <2>1
    <3> QED BY <1>3, <1>4, <2>1, <3>1
  <2>2. CASE ~(WritesRd(n.op) /\ r = n.rd)
    <3>1. ww[r] = wr[r]
      BY <1>5, <2>2
    <3>2. PICK c \in Nat, a \in Nat, nx \in Nat : c = wr[r].cycle /\ a = x.accept /\ nx = oracle.next
      BY <1>4, <1>6
    <3>3. c < nx /\ a >= nx
      BY <1>4, <1>6, <3>2
    <3>4. c < a + 1 + k /\ (a + 1 + k) - c # 1
      BY ONLY <3>3, k \in Nat, c \in Nat, a \in Nat, nx \in Nat
    <3> QED BY <3>1, <3>2, <3>4
  <2> QED BY <2>1, <2>2
<1>9. WritesRd(n.op) /\ n.rd # 0 /\ n.op = "LW" => (x.accept + 1 + k) - ww[n.rd].cycle = 1
  <2> SUFFICES ASSUME WritesRd(n.op), n.rd # 0, n.op = "LW"
               PROVE  (x.accept + 1 + k) - ww[n.rd].cycle = 1
    OBVIOUS
  <2>1. ww[n.rd].cycle = x.accept /\ k = 0
    BY <1>2, <1>5, <1>7
  <2> QED BY <1>4, <2>1
<1> QED BY <1>1, <1>3, <1>8, <1>9 DEF LoadsInFront, Positive

-----------------------------------------------------------------------------
(* Producers.                                                               *)

\* The rows, without their contents.
LEMMA RowShape ==
    \A b \in DOMAIN Rows :
        /\ Rows[b].d \in 1 .. 3 /\ Rows[b].roles \subseteq {"RS1", "RS2"}
        /\ b \notin {"H10", "H17", "H18", "H19", "H20"}
<1>1. DOMAIN Rows = {"H01", "H02", "H03", "H04", "H05", "H06", "H07", "H08", "H09", "H11",
                     "H12", "H13", "H14", "H15", "H16"}
  BY DEF Rows
<1>2. SUFFICES ASSUME NEW b \in DOMAIN Rows
               PROVE  Rows[b].d \in 1 .. 3 /\ Rows[b].roles \subseteq {"RS1", "RS2"}
  BY <1>1
<1>3. CASE b \in {"H01", "H02", "H03", "H04", "H05"}
  BY <1>3 DEF Rows, Row
<1>4. CASE b \in {"H06", "H07", "H08", "H09", "H11"}
  BY <1>4 DEF Rows, Row
<1>5. CASE b \in {"H12", "H13", "H14", "H15", "H16"}
  BY <1>5 DEF Rows, Row
<1> QED BY <1>1, <1>3, <1>4, <1>5

\* The oracle's writer of a register is the nearest of the last three that writes it.
LEMMA NearestIsWriter ==
    ASSUME HistoryTypes, WritersInHistory, NEW d \in 1 .. 3, Nearest(d)
    PROVE  /\ Past(d).rd \in Reg \ {0} /\ Past(d).id \in Nat \ {0} /\ Positive(Past(d))
           /\ oracle.writer[Past(d).rd].id = Past(d).id
           /\ oracle.writer[Past(d).rd].op = Past(d).op
<1>1. Newest = Past(1) /\ Middle = Past(2) /\ Oldest = Past(3)
  BY DEF Newest, Middle, Oldest
<1>2. /\ Positive(Past(d))
      /\ \A k \in 1 .. d - 1 : ~(Positive(Past(k)) /\ Past(k).rd = Past(d).rd)
  BY DEF Nearest
<1>3. /\ d >= 2 => ~(Positive(Past(1)) /\ Past(1).rd = Past(d).rd)
      /\ d >= 3 => ~(Positive(Past(2)) /\ Past(2).rd = Past(d).rd)
  BY <1>2
<1>4. d = 1 \/ d = 2 \/ d = 3
  OBVIOUS
<1>5. IsPast(Past(d))
  BY <1>1, <1>4 DEF HistoryTypes
<1>6. Past(d).rd \in Reg \ {0} /\ Past(d).id \in Nat \ {0}
  BY <1>2, <1>5 DEF IsPast, PastEvent, Positive, WritesRd
<1>7. CASE d = 1
  BY <1>1, <1>2, <1>6, <1>7 DEF WritersInHistory, IsWriter
<1>8. CASE d = 2
  BY <1>1, <1>2, <1>3, <1>6, <1>8 DEF WritersInHistory, IsWriter, Shadows
<1>9. CASE d = 3
  BY <1>1, <1>2, <1>3, <1>6, <1>9 DEF WritersInHistory, IsWriter, Shadows
<1> QED BY <1>4, <1>7, <1>8, <1>9

\* The oracle's producers of an instruction are its writers, for semantic operands.
LEMMA ProducersAre ==
    ASSUME LockTypes, NEW e
    PROVE  /\ NextExpectation(e).a =
                IF UsesRs1(e.instr.op) /\ e.instr.rs1 # 0
                THEN oracle.writer[e.instr.rs1] ELSE NoWriter
           /\ NextExpectation(e).b =
                IF UsesRs2(e.instr.op) /\ e.instr.rs2 # 0
                THEN oracle.writer[e.instr.rs2] ELSE NoWriter
<1> QED BY ExpectationType DEF Producer

\* A hit of a row names the oracle's producer, in every role.
LEMMA RowHitsMatch ==
    ASSUME LockTypes, HistoryTypes, WritersInHistory, NEW e, NEW h \in RowHits(e)
    PROVE  ProducersMatch(h, NextExpectation(e))
<1>1. PICK b \in DOMAIN Rows :
         /\ Nearest(Rows[b].d)
         /\ h = Hit(b, e.id, {Past(Rows[b].d).id},
                    UsedRoles(e.instr, Past(Rows[b].d).rd) \cap Rows[b].roles)
  BY DEF RowHits
<1>2. PICK d \in 1 .. 3 : d = Rows[b].d
  BY RowShape
<1>3. b \notin {"H10", "H17", "H18", "H19", "H20"}
  BY RowShape
<1>4. PICK q, w, x : q = Past(d) /\ w = oracle.writer /\ x = NextExpectation(e)
  OBVIOUS
<1>5. q.rd # 0 /\ w[q.rd].id = q.id
  BY <1>1, <1>2, <1>4, NearestIsWriter
<1>6. h.bin = b /\ h.producers = {q.id} /\ h.roles \subseteq UsedRoles(e.instr, q.rd)
  BY <1>1, <1>2, <1>4 DEF Hit
<1>7. ASSUME NEW role \in h.roles
      PROVE  ProducerIn(x, role) = q.id
  <2>1. role \in UsedRoles(e.instr, q.rd)
    BY <1>6, <1>7
  <2>2. /\ role \in {"RS1", "RS2"}
        /\ role = "RS1" => UsesRs1(e.instr.op) /\ e.instr.rs1 = q.rd
        /\ role # "RS1" => UsesRs2(e.instr.op) /\ e.instr.rs2 = q.rd
    BY <2>1 DEF UsedRoles
  <2> QED BY <1>4, <1>5, <2>2, ProducersAre DEF ProducerIn
<1>8. \A role \in h.roles : ProducerIn(x, role) \in h.producers
  BY <1>6, <1>7
<1> QED BY <1>3, <1>4, <1>6, <1>8 DEF ProducersMatch

\* A pair names both.
LEMMA DualHitsMatch ==
    ASSUME LockTypes, HistoryTypes, WritersInHistory, NEW e, NEW h \in DualHits(e)
    PROVE  ProducersMatch(h, NextExpectation(e))
<1>1. PICK p, q, w, x : /\ p = Past(1) /\ q = Past(2) /\ w = oracle.writer
                        /\ x = NextExpectation(e)
  OBVIOUS
<1>2. /\ Positive(p) /\ Positive(q) /\ p.rd # q.rd
      /\ e.instr.op \in Rs1Rs2Ops /\ {e.instr.rs1, e.instr.rs2} = {p.rd, q.rd}
      /\ h = Hit("H10", e.id, {p.id, q.id}, {"RS1", "RS2"})
  BY <1>1 DEF DualHits, When
<1>3. Nearest(1) /\ Nearest(2)
  <2>1. Nearest(1)
    BY <1>1, <1>2 DEF Nearest
  <2>2. \A k \in 1 .. 2 - 1 : k = 1
    OBVIOUS
  <2> QED BY <1>1, <1>2, <2>1, <2>2 DEF Nearest
<1>4. 1 \in 1 .. 3 /\ 2 \in 1 .. 3
  OBVIOUS
<1>5. /\ p.rd # 0 /\ p.id # 0 /\ w[p.rd].id = p.id
      /\ q.rd # 0 /\ q.id # 0 /\ w[q.rd].id = q.id
  BY <1>1, <1>3, <1>4, NearestIsWriter
<1>6. UsesRs1(e.instr.op) /\ UsesRs2(e.instr.op)
  BY <1>2 DEF Rs1Rs2Ops, UsesRs1, UsesRs2
<1>7. \/ e.instr.rs1 = p.rd /\ e.instr.rs2 = q.rd
      \/ e.instr.rs1 = q.rd /\ e.instr.rs2 = p.rd
  BY <1>2
<1>8. {x.a.id, x.b.id} = {p.id, q.id}
  <2>1. CASE e.instr.rs1 = p.rd /\ e.instr.rs2 = q.rd
    BY <1>1, <1>5, <1>6, <2>1, ProducersAre
  <2>2. CASE e.instr.rs1 = q.rd /\ e.instr.rs2 = p.rd
    BY <1>1, <1>5, <1>6, <2>2, ProducersAre
  <2> QED BY <1>7, <2>1, <2>2
<1>9. {x.a.id, x.b.id} \ {0} = {p.id, q.id}
  BY <1>5, <1>8
<1>10. h.bin = "H10" /\ h.producers = {p.id, q.id}
  BY <1>2 DEF Hit
<1> QED BY <1>1, <1>9, <1>10 DEF ProducersMatch

\* Of two that wrote the register, the oracle names the younger one.
LEMMA ShadowHitsMatch ==
    ASSUME TrackTypeOK, LockTypes, HistoryTypes, InOrder, WritersInHistory,
           NEW e, NEW h \in ShadowHits(e)
    PROVE  ProducersMatch(h, NextExpectation(e))
<1>1. PICK p, q, w, x : /\ p = Past(1) /\ q = Past(2) /\ w = oracle.writer
                        /\ x = NextExpectation(e)
  OBVIOUS
<1>2. /\ Positive(p) /\ Positive(q) /\ p.rd = q.rd
      /\ h = Hit("H17", e.id, {p.id, q.id}, UsedRoles(e.instr, p.rd))
  BY <1>1 DEF ShadowHits, When
<1>3. Nearest(1) /\ 1 \in 1 .. 3
  BY <1>1, <1>2 DEF Nearest
<1>4. p.rd # 0 /\ p.id \in Nat /\ w[p.rd].id = p.id
  BY <1>1, <1>3, NearestIsWriter
<1>5. q.id \in Nat /\ q.id + 1 = p.id
  <2>1. p = Newest /\ q = Middle /\ IsPast(q)
    BY <1>1 DEF Newest, Middle, HistoryTypes
  <2>2. q.id \in Nat \ {0}
    BY <1>2, <2>1 DEF IsPast, PastEvent, Positive, WritesRd
  <2> QED BY <2>1, <2>2 DEF InOrder
<1>6. NewestOf({p.id, q.id}) = p.id
  <2>1. p.id \in {p.id, q.id} /\ \A k \in {p.id, q.id} : k <= p.id
    BY <1>4, <1>5
  <2>2. \A id \in {p.id, q.id} : (\A k \in {p.id, q.id} : k <= id) => id = p.id
    BY <1>4, <1>5
  <2> QED BY <2>1, <2>2 DEF NewestOf
<1>7. h.bin = "H17" /\ h.producers = {p.id, q.id} /\ h.roles = UsedRoles(e.instr, p.rd)
  BY <1>2 DEF Hit
<1>8. ASSUME NEW role \in h.roles
      PROVE  ProducerIn(x, role) = NewestOf(h.producers)
  <2>1. /\ role \in {"RS1", "RS2"}
        /\ role = "RS1" => UsesRs1(e.instr.op) /\ e.instr.rs1 = p.rd
        /\ role # "RS1" => UsesRs2(e.instr.op) /\ e.instr.rs2 = p.rd
    BY <1>7, <1>8 DEF UsedRoles
  <2>2. ProducerIn(x, role) = p.id
    BY <1>1, <1>4, <2>1, ProducersAre DEF ProducerIn
  <2> QED BY <1>6, <1>7, <2>2
<1> QED BY <1>1, <1>7, <1>8 DEF ProducersMatch

\* A read of x0, and a field that is no operand, have no producer.
LEMMA NegativeHitsMatch ==
    ASSUME LockTypes, NEW e, NEW h \in NegativeHits(e)
    PROVE  ProducersMatch(h, NextExpectation(e))
<1>1. PICK p, x : p = Past(1) /\ x = NextExpectation(e)
  OBVIOUS
<1>2. \/ h = Hit("H18", e.id, {p.id}, UsedRoles(e.instr, 0))
      \/ h = Hit("H19", e.id, {p.id}, UsedRoles(e.instr, 0))
      \/ h = Hit("H20", e.id, {p.id}, {}) /\ ~UsesRs2(e.instr.op)
  BY <1>1 DEF NegativeHits, When
<1>3. NoWriter.id = 0
  BY DEF NoWriter
<1>4. \A role \in UsedRoles(e.instr, 0) : ProducerIn(x, role) = 0
  <2> TAKE role \in UsedRoles(e.instr, 0)
  <2>1. /\ role = "RS1" => e.instr.rs1 = 0
        /\ role # "RS1" => e.instr.rs2 = 0
    BY DEF UsedRoles
  <2> QED BY <1>1, <1>3, <2>1, ProducersAre DEF ProducerIn
<1>5. ~UsesRs2(e.instr.op) => x.b.id = 0
  BY <1>1, <1>3, ProducersAre
<1>6. \/ h.bin \in {"H18", "H19"} /\ h.roles = UsedRoles(e.instr, 0)
      \/ h.bin = "H20" /\ ~UsesRs2(e.instr.op)
  BY <1>2 DEF Hit
<1> QED BY <1>1, <1>4, <1>5, <1>6 DEF ProducersMatch

\* The classifier looks back three instructions, the oracle into its table: they name
\* the same producers.
LEMMA HitsMatch ==
    ASSUME TrackTypeOK, LockTypes, HistoryTypes, InOrder, WritersInHistory,
           NEW e, NEW h \in Classify(e)
    PROVE  ProducersMatch(h, NextExpectation(e))
<1> QED BY RowHitsMatch, DualHitsMatch, ShadowHitsMatch, NegativeHitsMatch DEF Classify

-----------------------------------------------------------------------------
(* What is on record.                                                       *)

\* A step that puts nothing on record.
LEMMA RecordStays ==
    ASSUME AwaitingFollows, index \in Nat, index' \in Nat, index' >= index,
           DOMAIN awaiting' \subseteq DOMAIN awaiting,
           \A id \in DOMAIN awaiting' : awaiting'[id] = awaiting[id],
           ~loopError' => /\ ~loopError
                          /\ \A t \in {bTag', cTag', dTag'} : t \in {NoTag, bTag, cTag, dTag}
    PROVE  AwaitingFollows'
<1>1. PICK w, ww : w = awaiting /\ ww = awaiting'
  OBVIOUS
<1>2. DOMAIN ww \subseteq 1 .. index'
  <2>1. DOMAIN ww \subseteq 1 .. index
    BY <1>1 DEF AwaitingFollows
  <2> QED BY <2>1
<1>3. \A id \in DOMAIN ww : \A h \in ww[id].hits : ProducersMatch(h, ww[id].x)
  BY <1>1 DEF AwaitingFollows
<1>4. ASSUME ~loopError', NEW t \in {bTag', cTag', dTag'}, t # NoTag, t.id \in DOMAIN ww
      PROVE  ww[t.id].o.cycle = t.cycle
  <2>1. t \in {bTag, cTag, dTag} /\ ~loopError
    BY <1>4
  <2>2. w[t.id].o.cycle = t.cycle
    BY <1>1, <1>4, <2>1 DEF AwaitingFollows, Follows, Live
  <2> QED BY <1>1, <1>4, <2>2
<1>5. AwaitingFollows' <=>
        /\ DOMAIN ww \subseteq 1 .. index'
        /\ ~loopError' =>
             /\ bTag' # NoTag /\ bTag'.id \in DOMAIN ww => ww[bTag'.id].o.cycle = bTag'.cycle
             /\ cTag' # NoTag /\ cTag'.id \in DOMAIN ww => ww[cTag'.id].o.cycle = cTag'.cycle
             /\ dTag' # NoTag /\ dTag'.id \in DOMAIN ww => ww[dTag'.id].o.cycle = dTag'.cycle
        /\ \A id \in DOMAIN ww : \A h \in ww[id].hits : ProducersMatch(h, ww[id].x)
  BY <1>1 DEF AwaitingFollows, Follows, Live
<1> QED BY <1>2, <1>3, <1>4, <1>5

\* A retirement is correlated with what its acceptance put on record.
LEMMA FallingRecord ==
    ASSUME TrackTypeOK, TrackInv, LockTypes, RetainsOnlyInFlight, AwaitingFollows,
           ~orderError, L1FallingEdge
    PROVE  /\ AwaitingFollows' /\ ProducersAgree'
           /\ DOMAIN awaiting' \subseteq DOMAIN awaiting
           /\ \A id \in DOMAIN awaiting' : awaiting'[id] = awaiting[id]
           /\ \A a \in attributions' :
                /\ Live(dTag) /\ dTag.id \in DOMAIN awaiting
                /\ awaiting[dTag.id].o.cycle = dTag.cycle
                /\ \E h \in awaiting[dTag.id].hits :
                     a = Correlate(h, awaiting[dTag.id], cycle)
<1>1. LockFallingEdge /\ ~loopError /\ ~loopError' /\ orderError' = orderError
  BY HazardsFallingEffect DEF L1FallingEdge
<1>2. 0 \notin DOMAIN awaiting /\ index \in Nat
  BY DEF AwaitingFollows, TrackTypeOK
<1>3. IF Live(dTag) /\ dTag.id \in DOMAIN awaiting
      THEN /\ attributions' = {Correlate(h, awaiting[dTag.id], cycle) :
                                   h \in awaiting[dTag.id].hits}
           /\ awaiting' = Without(awaiting, dTag.id)
      ELSE attributions' = {} /\ awaiting' = awaiting
  BY <1>2, HazardsFallingEffect
<1>4. /\ DOMAIN awaiting' \subseteq DOMAIN awaiting
      /\ \A id \in DOMAIN awaiting' : awaiting'[id] = awaiting[id]
  BY <1>3 DEF Without
<1>5. /\ bTag' = bTag /\ cTag' = cTag /\ dTag' = NoTag
  BY <1>1, LockFallingEffect
<1>6. index' = index
  BY <1>1, FallingKeeps DEF LockFallingEdge
<1>7. AwaitingFollows'
  BY <1>1, <1>2, <1>4, <1>5, <1>6, RecordStays
<1>8. \A a \in attributions' :
        /\ Live(dTag) /\ dTag.id \in DOMAIN awaiting
        /\ awaiting[dTag.id].o.cycle = dTag.cycle
        /\ \E h \in awaiting[dTag.id].hits : a = Correlate(h, awaiting[dTag.id], cycle)
  BY <1>1, <1>3 DEF AwaitingFollows, Follows
<1>9. \A a \in attributions' : a.producers
  <2> SUFFICES ASSUME NEW a \in attributions' PROVE a.producers
    OBVIOUS
  <2>1. PICK h \in awaiting[dTag.id].hits :
          dTag.id \in DOMAIN awaiting /\ a = Correlate(h, awaiting[dTag.id], cycle)
    BY <1>8
  <2>2. ProducersMatch(h, awaiting[dTag.id].x)
    BY <2>1 DEF AwaitingFollows
  <2>3. a.producers = ProducersMatch(h, awaiting[dTag.id].x)
    BY <2>1 DEF Correlate
  <2> QED BY <2>2, <2>3
<1> QED BY <1>1, <1>4, <1>7, <1>8, <1>9 DEF ProducersAgree

\* An edge that is not classified changes no record.
LEMMA BubbleRecord ==
    ASSUME TrackTypeOK, TrackInv, LockTypes, AwaitingFollows,
           NEW i \in Fetchable \cup {NoInstr}, L1RisingEdge(i), ~Accepts \/ loopError'
    PROVE  AwaitingFollows' /\ ProducersAgree' /\ RejectionsExplained' /\ TimingExplained'
<1>1. /\ LockRisingEdge(i) /\ attributions' = {} /\ controls' = {} /\ ~orderError
      /\ UNCHANGED <<history, awaiting, orderError, misled>>
  BY HazardsBubbleEffect
<1>2. /\ ~loopError /\ dTag' = cTag /\ cTag' = bTag /\ (~Accepts => bTag' = NoTag)
  BY <1>1, LockRisingEffect
<1>3. index \in Nat /\ index' \in Nat /\ index' >= index
  <2>1. TrackRisingEdge(i) /\ ~reset
    BY <1>1 DEF LockRisingEdge, LockTypes
  <2>2. index' = index \/ index' = index + 1
    BY <2>1, RisingEffect
  <2> QED BY <2>2 DEF TrackTypeOK
<1>4. AwaitingFollows'
  BY <1>1, <1>2, <1>3, RecordStays
<1> QED BY <1>1, <1>4 DEF ProducersAgree, RejectionsExplained, TimingExplained

\* An acceptance puts its hits on record, with the oracle's expectation.
LEMMA AcceptRecord ==
    ASSUME TrackTypeOK, TrackInv, LockTypes, HistoryTypes, InOrder, WritersInHistory,
           AwaitingFollows,
           NEW i \in Fetchable \cup {NoInstr}, L1RisingEdge(i), Accepts, ~loopError'
    PROVE  AwaitingFollows' /\ ProducersAgree' /\ TimingExplained'
<1>1. /\ LockRisingEdge(i) /\ attributions' = {} /\ L1Accept(event')
      /\ expectation' = NextExpectation(event')
  BY HazardsAcceptEffect
<1>2. /\ ~loopError /\ dTag' = cTag /\ cTag' = bTag
      /\ bTag' = [id |-> index + 1, cycle |-> cycle, pc |-> A.pc, instr |-> A.instr]
  BY <1>1, LockRisingEffect
<1>3. event'.id = index + 1 /\ event'.cycle = cycle /\ index \in Nat
  BY <1>1, AcceptedEvent DEF TrackTypeOK
<1>4. index' = index + 1
  <2>1. TrackRisingEdge(i) /\ ~reset
    BY <1>1 DEF LockRisingEdge, LockTypes
  <2> QED BY <2>1, RisingEffect
<1>5. /\ orderError' = (event'.id # Past(1).id + 1)
      /\ awaiting' = IF Classify(event') = {} THEN awaiting
                     ELSE With(awaiting, event'.id,
                               [hits |-> Classify(event'), o |-> event', x |-> expectation',
                                falseStalls |-> falseStalls'])
  BY <1>1 DEF L1Accept
<1>6. ~orderError'
  BY <1>3, <1>5 DEF InOrder, Newest
<1>7. PICK w, ww, e, hits, x, f : /\ w = awaiting /\ ww = awaiting' /\ e = event'
                                  /\ hits = Classify(event') /\ x = expectation'
                                  /\ f = falseStalls'
  OBVIOUS
<1>8. ww = IF hits = {} THEN w
           ELSE With(w, e.id, [hits |-> hits, o |-> e, x |-> x, falseStalls |-> f])
  BY <1>5, <1>7
<1>9. /\ DOMAIN w \subseteq 1 .. index
      /\ \A id \in DOMAIN w : \A h \in w[id].hits : ProducersMatch(h, w[id].x)
      /\ bTag # NoTag /\ bTag.id \in DOMAIN w => w[bTag.id].o.cycle = bTag.cycle
      /\ cTag # NoTag /\ cTag.id \in DOMAIN w => w[cTag.id].o.cycle = cTag.cycle
  BY <1>2, <1>7 DEF AwaitingFollows, Follows, Live
<1>10. e.id \notin 1 .. index /\ e.id \in 1 .. index' /\ \A k \in 1 .. index : k \in 1 .. index'
  BY <1>3, <1>4, <1>7
<1>11. /\ DOMAIN ww \subseteq DOMAIN w \cup {e.id}
       /\ \A id \in DOMAIN w : ww[id] = w[id]
       /\ e.id \in DOMAIN ww =>
            ww[e.id] = [hits |-> hits, o |-> e, x |-> x, falseStalls |-> f]
  BY <1>8, <1>9, <1>10 DEF With
<1>12. \A h \in hits : ProducersMatch(h, x)
  BY <1>1, <1>7, HitsMatch
<1>13. DOMAIN ww \subseteq 1 .. index'
  BY <1>9, <1>10, <1>11
<1>14. \A id \in DOMAIN ww : \A h \in ww[id].hits : ProducersMatch(h, ww[id].x)
  BY <1>9, <1>11, <1>12
<1>15. \A t \in {bTag, cTag} : t # NoTag /\ t.id \in DOMAIN ww => ww[t.id].o.cycle = t.cycle
  <2>1. bTag # NoTag => bTag.id # e.id
    BY <1>3, <1>7, TagNumbers DEF Live
  <2>2. cTag # NoTag => cTag.id # e.id
    BY <1>3, <1>7, TagNumbers DEF Live
  <2> QED BY <1>9, <1>11, <2>1, <2>2
<1>16. bTag'.id \in DOMAIN ww => ww[bTag'.id].o.cycle = bTag'.cycle
  BY <1>2, <1>3, <1>7, <1>11
<1>17. AwaitingFollows' <=>
        /\ DOMAIN ww \subseteq 1 .. index'
        /\ ~loopError' =>
             /\ bTag' # NoTag /\ bTag'.id \in DOMAIN ww => ww[bTag'.id].o.cycle = bTag'.cycle
             /\ cTag' # NoTag /\ cTag'.id \in DOMAIN ww => ww[cTag'.id].o.cycle = cTag'.cycle
             /\ dTag' # NoTag /\ dTag'.id \in DOMAIN ww => ww[dTag'.id].o.cycle = dTag'.cycle
        /\ \A id \in DOMAIN ww : \A h \in ww[id].hits : ProducersMatch(h, ww[id].x)
  BY <1>7 DEF AwaitingFollows, Follows, Live
<1>18. AwaitingFollows'
  BY <1>2, <1>13, <1>14, <1>15, <1>16, <1>17
<1> QED BY <1>1, <1>6, <1>18 DEF ProducersAgree, TimingExplained

-----------------------------------------------------------------------------
(* What the control check sees.                                             *)

\* Cycles from the instruction d places back to e.
Spread(d, e) ==
    LET one == 1 + e.stalls + Bubbles(Newest) IN
    IF d = 1 THEN one
    ELSE IF d = 2 THEN one + Gap(Newest, Middle)
    ELSE one + (Gap(Newest, Middle) + Gap(Middle, Oldest))

AtDistance(n) == IF n = 1 THEN "EX_MEM" ELSE IF n = 2 THEN "MEM_WB" ELSE "RF"

LoadInFront == Newest.op = "LW"

\* The stall of e follows from its raw fields, the oracle's from its operands; the
\* forwarding from the distance in cycles.
SeenBy(e, x) ==
    /\ e.stalls \in {0, 1} /\ x.stalls \in {0, 1}
    /\ e.stalls = 1 <=> LoadInFront /\ Newest.rd \in {e.instr.rs1, e.instr.rs2}
    /\ x.stalls = 1 <=> LoadInFront /\ Positive(Newest) /\ UsedRoles(e.instr, Newest.rd) # {}
    /\ \A d \in 1 .. 3 : Nearest(d) =>
         \A role \in UsedRoles(e.instr, Past(d).rd) :
             ForwardOf(e, role) = AtDistance(Spread(d, e))
    /\ \A role \in UsedRoles(e.instr, 0) : ForwardOf(e, role) = "RF"

\* The oracle stalls for an operand that the load in front produces.
LEMMA OracleStalls ==
    ASSUME LockTypes, HistoryTypes, WritersInHistory, LoadsInFront, NEW e,
           e.instr.rs1 \in Reg, e.instr.rs2 \in Reg
    PROVE  NextExpectation(e).stalls = 1 <=>
             LoadInFront /\ Positive(Newest) /\ UsedRoles(e.instr, Newest.rd) # {}
<1>1. PICK a, b, x, w, p, nx : /\ a = NextExpectation(e).a /\ b = NextExpectation(e).b
                              /\ x = NextExpectation(e) /\ w = oracle.writer /\ p = Newest
                              /\ nx = oracle.next
  OBVIOUS
<1>2. x.stalls = IF \/ a.op = "LW" /\ nx - a.cycle = 1
                    \/ b.op = "LW" /\ nx - b.cycle = 1
                 THEN 1 ELSE 0
  BY <1>1 DEF NextExpectation
<1>3. /\ a = IF UsesRs1(e.instr.op) /\ e.instr.rs1 # 0 THEN w[e.instr.rs1] ELSE NoWriter
      /\ b = IF UsesRs2(e.instr.op) /\ e.instr.rs2 # 0 THEN w[e.instr.rs2] ELSE NoWriter
  BY <1>1, ProducersAre
<1>4. NoWriter.op # "LW"
  BY DEF NoWriter
<1>5. \A r \in Reg \ {0} : w[r].op = "LW" /\ nx - w[r].cycle = 1 => Positive(p) /\ p.rd = r
  BY <1>1 DEF LoadsInFront
<1>6. Positive(p) /\ p.op = "LW" => w[p.rd].op = "LW" /\ nx - w[p.rd].cycle = 1
  BY <1>1 DEF LoadsInFront, WritersInHistory, IsWriter
<1>7. Positive(p) => p.rd # 0
  BY DEF Positive
<1>8. /\ "RS1" \in UsedRoles(e.instr, p.rd) <=> UsesRs1(e.instr.op) /\ e.instr.rs1 = p.rd
      /\ "RS2" \in UsedRoles(e.instr, p.rd) <=> UsesRs2(e.instr.op) /\ e.instr.rs2 = p.rd
      /\ UsedRoles(e.instr, p.rd) \subseteq {"RS1", "RS2"}
  BY DEF UsedRoles
<1>9. Positive(p) => WritesRd(p.op)
  BY DEF Positive
<1>10. p.op = "LW" <=> LoadInFront
  BY <1>1 DEF LoadInFront
<1>11. ASSUME x.stalls = 1
       PROVE  p.op = "LW" /\ Positive(p) /\ UsedRoles(e.instr, p.rd) # {}
  <2>1. PICK role \in {"RS1", "RS2"}, r \in Reg \ {0} :
          /\ role \in UsedRoles(e.instr, r) /\ w[r].op = "LW" /\ nx - w[r].cycle = 1
    <3>1. CASE a.op = "LW" /\ nx - a.cycle = 1
      <4>1. UsesRs1(e.instr.op) /\ e.instr.rs1 # 0 /\ a = w[e.instr.rs1]
        BY <1>3, <1>4, <3>1
      <4>2. "RS1" \in UsedRoles(e.instr, e.instr.rs1)
        BY <4>1 DEF UsedRoles
      <4> QED BY <3>1, <4>1, <4>2
    <3>2. CASE b.op = "LW" /\ nx - b.cycle = 1
      <4>1. UsesRs2(e.instr.op) /\ e.instr.rs2 # 0 /\ b = w[e.instr.rs2]
        BY <1>3, <1>4, <3>2
      <4>2. "RS2" \in UsedRoles(e.instr, e.instr.rs2)
        BY <4>1 DEF UsedRoles
      <4> QED BY <3>2, <4>1, <4>2
    <3> QED BY <1>2, <1>11, <3>1, <3>2
  <2>2. Positive(p) /\ p.rd = r
    BY <1>5, <2>1
  <2>3. w[p.rd].op = p.op
    BY <1>1, <2>2 DEF WritersInHistory, IsWriter
  <2> QED BY <2>1, <2>2, <2>3
<1>12. ASSUME p.op = "LW", Positive(p), UsedRoles(e.instr, p.rd) # {}
       PROVE  x.stalls = 1
  <2>1. w[p.rd].op = "LW" /\ nx - w[p.rd].cycle = 1 /\ p.rd # 0
    BY <1>6, <1>7, <1>12
  <2>2. a = w[p.rd] \/ b = w[p.rd]
    BY <1>3, <1>8, <1>12, <2>1
  <2> QED BY <1>2, <2>1, <2>2
<1> QED BY <1>1, <1>10, <1>11, <1>12

\* The oracle's writer, the hardware's ages and the history's gaps fit together.
LEMMA ForwardOfNearest ==
    ASSUME TrackTypeOK, TrackInv, LockTypes, WritersAreYoungest, HistoryTypes, InOrder,
           WaitsForNewest, WritersInHistory,
           NEW i \in Fetchable \cup {NoInstr}, L1RisingEdge(i), Accepts, ~loopError',
           NEW d \in 1 .. 3, Nearest(d), NEW role \in UsedRoles(A.instr, Past(d).rd)
    PROVE  ForwardOf(event', role) = AtDistance(Spread(d, event'))
<1>1. LockRisingEdge(i) /\ phase = "rise" /\ B'.rs1 = A.instr.rs1 /\ B'.rs2 = A.instr.rs2
  <2>1. LockRisingEdge(i)
    BY HazardsAcceptEffect
  <2> QED BY <2>1, LockRisingEffect
<1>2. /\ event'.fa = ForwardA' /\ event'.fb = ForwardB' /\ cycle \in Nat
      /\ event'.stalls = pending.stalls /\ event'.instr = A.instr /\ A.instr # NoInstr
  BY <1>1, AcceptedEvent DEF Accepts
<1>3. PICK p, w, e, s : /\ p = Past(d) /\ w = oracle.writer[Past(d).rd] /\ e = event'
                        /\ s = Spread(d, event')
  OBVIOUS
<1>4. p.rd \in Reg \ {0} /\ w.id = p.id /\ w.id # 0
  BY <1>3, NearestIsWriter
<1>5. w \in Writer /\ w # NoWriter
  BY <1>3, <1>4 DEF LockTypes, NoWriter
<1>6. PICK seen \in Nat : seen = w.seen
  BY <1>5 DEF Writer
<1>7. s \in Nat /\ cycle - seen = s
  <2>1. Elapsed = (1 + pending.stalls) + Bubbles(Newest) /\ pending.stalls \in {0, 1}
    BY <1>1, AcceptSpacing
  <2>2. PICK b \in {0, 2} : b = Bubbles(Newest)
    BY DEF Bubbles
  <2>3. PICK t \in {0, 1} : t = pending.stalls
    BY <2>1
  <2>4. PICK one \in Nat : one = (1 + t) + b
    OBVIOUS
  <2>5. Elapsed = one /\ one = 1 + e.stalls + Bubbles(Newest)
    BY <1>2, <1>3, <2>1, <2>2, <2>3, <2>4
  <2>6. PICK g \in Nat, h \in Nat : g = Gap(Newest, Middle) /\ h = Gap(Middle, Oldest)
    BY DEF Gap, Bubbles, HistoryTypes, IsPast, PastEvent
  <2>7. s = IF d = 1 THEN one ELSE IF d = 2 THEN one + g ELSE one + (g + h)
    BY <1>3, <2>5, <2>6 DEF Spread
  <2>8. /\ Positive(p)
        /\ \A k \in 1 .. d - 1 : ~(Positive(Past(k)) /\ Past(k).rd = p.rd)
    BY <1>3 DEF Nearest
  <2>9. /\ d >= 2 => ~(Positive(Past(1)) /\ Past(1).rd = p.rd)
        /\ d >= 3 => ~(Positive(Past(2)) /\ Past(2).rd = p.rd)
    BY <2>8
  <2>10. Fetching /\ Newest = Past(1) /\ Middle = Past(2) /\ Oldest = Past(3)
    BY <1>2 DEF Fetching, Newest, Middle, Oldest
  <2>11. CASE d = 1
    <3>1. (seen + 0) + one = cycle
      BY <1>3, <1>6, <2>5, <2>8, <2>10, <2>11 DEF WritersInHistory, IsWriter
    <3> QED BY <1>2, <2>7, <2>11, <3>1
  <2>12. CASE d = 2
    <3>1. (seen + g) + one = cycle
      BY <1>3, <1>6, <2>5, <2>6, <2>8, <2>9, <2>10, <2>12
         DEF WritersInHistory, IsWriter, Shadows
    <3> QED BY <1>2, <2>7, <2>12, <3>1
  <2>13. CASE d = 3
    <3>1. (seen + (g + h)) + one = cycle
      BY <1>3, <1>6, <2>5, <2>6, <2>8, <2>9, <2>10, <2>13
         DEF WritersInHistory, IsWriter, Shadows
    <3> QED BY <1>2, <2>7, <2>13, <3>1
  <2> QED BY <2>11, <2>12, <2>13
<1>8. \A sel : (B'.rs1 = p.rd /\ sel = ForwardA') \/ (B'.rs2 = p.rd /\ sel = ForwardB')
         => sel = AtDistance(s)
  <2> SUFFICES ASSUME NEW sel,
                      (B'.rs1 = p.rd /\ sel = ForwardA') \/ (B'.rs2 = p.rd /\ sel = ForwardB')
               PROVE  sel = AtDistance(s)
    OBVIOUS
  <2>1. PICK r \in Reg : r = p.rd /\ r # 0
    BY <1>4
  <2>2. w = IF r # 0 THEN oracle.writer[r] ELSE NoWriter
    BY <1>3, <2>1
  <2>3. (B'.rs1 = r /\ sel = ForwardA') \/ (B'.rs2 = r /\ sel = ForwardB')
    BY <2>1
  <2>4. /\ w # NoWriter /\ cycle - w.seen = 1 => sel = "EX_MEM"
        /\ w # NoWriter /\ cycle - w.seen = 2 => sel = "MEM_WB"
        /\ w # NoWriter /\ cycle - w.seen # 1 /\ cycle - w.seen # 2 => sel = "RF"
    BY <1>1, <2>2, <2>3, ForwardByAge
  <2> QED BY <1>5, <1>6, <1>7, <2>4 DEF AtDistance
<1>9. /\ role = "RS1" => A.instr.rs1 = p.rd
      /\ role # "RS1" => A.instr.rs2 = p.rd
  BY <1>3 DEF UsedRoles
<1>10. CASE role = "RS1"
  <2>1. ForwardA' = AtDistance(s)
    BY <1>1, <1>8, <1>9, <1>10
  <2> QED BY <1>2, <1>3, <1>10, <2>1 DEF ForwardOf
<1>11. CASE role # "RS1"
  <2>1. ForwardB' = AtDistance(s)
    BY <1>1, <1>8, <1>9, <1>11
  <2> QED BY <1>2, <1>3, <1>11, <2>1 DEF ForwardOf
<1> QED BY <1>10, <1>11

\* So an acceptance is seen as it is.
LEMMA AcceptSeen ==
    ASSUME TrackTypeOK, TrackInv, LockTypes, WritersAreYoungest, HistoryTypes, InOrder,
           WaitsForNewest, WritersInHistory, LoadsInFront,
           NEW i \in Fetchable \cup {NoInstr}, L1RisingEdge(i), Accepts, ~loopError'
    PROVE  SeenBy(event', expectation')
<1>1. /\ LockRisingEdge(i) /\ phase = "rise" /\ B'.rs1 = A.instr.rs1 /\ B'.rs2 = A.instr.rs2
      /\ expectation' = NextExpectation(event')
  <2>1. LockRisingEdge(i) /\ expectation' = NextExpectation(event')
    BY HazardsAcceptEffect
  <2> QED BY <2>1, LockRisingEffect
<1>2. /\ event'.instr = A.instr /\ A.instr.rs1 \in Reg /\ A.instr.rs2 \in Reg
      /\ event'.stalls = pending.stalls
      /\ event'.fa = ForwardA' /\ event'.fb = ForwardB'
  BY <1>1, AcceptedEvent
<1>3. /\ pending.stalls \in {0, 1}
      /\ pending.stalls = 1 <=> Newest.op = "LW" /\ Newest.rd \in {A.instr.rs1, A.instr.rs2}
  BY <1>1, AcceptSpacing
<1>4. PICK e, x : e = event' /\ x = expectation'
  OBVIOUS
<1>5. e.instr.rs1 \in Reg /\ e.instr.rs2 \in Reg /\ x = NextExpectation(e)
  BY <1>1, <1>2, <1>4
<1>6. /\ x.stalls \in {0, 1}
      /\ x.stalls = 1 <=> LoadInFront /\ Positive(Newest) /\ UsedRoles(e.instr, Newest.rd) # {}
  BY <1>5, OracleStalls, ExpectationType
<1>7. \A d \in 1 .. 3 : Nearest(d) =>
         \A role \in UsedRoles(e.instr, Past(d).rd) :
             ForwardOf(e, role) = AtDistance(Spread(d, e))
  BY <1>2, <1>4, ForwardOfNearest
<1>8. ASSUME NEW role \in UsedRoles(e.instr, 0)
      PROVE  ForwardOf(e, role) = "RF"
  <2>1. /\ role = "RS1" => A.instr.rs1 = 0
        /\ role # "RS1" => A.instr.rs2 = 0
    BY <1>2, <1>4, <1>8 DEF UsedRoles
  <2>2. PICK r, w : /\ r \in Reg /\ r = 0 /\ w = NoWriter
                    /\ w = IF r # 0 THEN oracle.writer[r] ELSE NoWriter
    BY ZeroTypes
  <2>3. \A sel : (B'.rs1 = r /\ sel = ForwardA') \/ (B'.rs2 = r /\ sel = ForwardB')
           => sel = "RF"
    BY <1>1, <2>2, ForwardByAge
  <2>4. role = "RS1" => ForwardA' = "RF"
    BY <1>1, <2>1, <2>2, <2>3
  <2>5. role # "RS1" => ForwardB' = "RF"
    BY <1>1, <2>1, <2>2, <2>3
  <2> QED BY <1>2, <1>4, <2>4, <2>5 DEF ForwardOf
<1>9. SeenBy(e, x)
  BY <1>2, <1>3, <1>4, <1>6, <1>7, <1>8 DEF SeenBy, LoadInFront
<1> QED BY <1>4, <1>9

\* The verdict of the control check is the one that RejectionsExplained gives.
Explained(h, e, x) ==
    ControlPassed(h, e) <=>
        /\ e.stalls = x.stalls
        /\ x.stalls = 1 => h.bin \in {"H06", "H07"}
        /\ ReadsAcross(h.bin) => Newest.stalls = 0 /\ ~Newest.redirects
        /\ h.bin = "H17" => Newest.op \notin LinkOps

\* The oracle stalls for less than the hardware.
LEMMA OracleStallsLess ==
    ASSUME NEW e, NEW x, SeenBy(e, x)
    PROVE  /\ x.stalls <= e.stalls /\ (x.stalls = 1 => e.stalls = 1)
           /\ e.stalls = 0 => x.stalls = 0
<1>1. UsedRoles(e.instr, Newest.rd) # {} => Newest.rd \in {e.instr.rs1, e.instr.rs2}
  BY DEF UsedRoles
<1>2. x.stalls = 1 => e.stalls = 1
  BY <1>1 DEF SeenBy
<1> QED BY <1>2 DEF SeenBy

\* Who redirects.
LEMMA Redirecting ==
    ASSUME HistoryTypes, NEW p \in {Newest, Middle, Oldest}
    PROVE  /\ p.stalls \in Nat
           /\ p.op \in AluOps \cup {"LW", "LUI", "AUIPC"} => ~p.redirects /\ Bubbles(p) = 0
           /\ p.op \in LinkOps => p.redirects
           /\ WritesRd(p.op) /\ p.op \notin LinkOps => ~p.redirects
           /\ p.redirects => Bubbles(p) = 2
           /\ ~p.redirects => Bubbles(p) = 0
<1>1. IsPast(p)
  BY DEF HistoryTypes
<1> QED BY <1>1 DEF IsPast, PastEvent, AluOps, LinkOps, BranchOps, Bubbles, WritesRd

\* The rows, by distance and producer.
LEMMA RowContents ==
    /\ \A b \in {"H01", "H02", "H16"} : Rows[b].d = 1 /\ Rows[b].producers = AluOps
    /\ \A b \in {"H03", "H04"} : Rows[b].d = 2 /\ Rows[b].producers = AluOps
    /\ Rows["H05"].d = 3
    /\ \A b \in {"H06", "H07"} : Rows[b].d = 1 /\ Rows[b].producers = {"LW"}
    /\ \A b \in {"H08", "H09"} : Rows[b].d = 2 /\ Rows[b].producers = {"LW"}
    /\ Rows["H11"].d = 1 /\ Rows["H11"].producers = {"LUI"}
    /\ Rows["H12"].d = 2 /\ Rows["H12"].producers = {"LUI"}
    /\ Rows["H13"].d = 1 /\ Rows["H13"].producers = {"AUIPC"}
    /\ Rows["H14"].d = 2 /\ Rows["H14"].producers = {"AUIPC"}
    /\ Rows["H15"].d = 1 /\ Rows["H15"].producers = LinkOps
    /\ DOMAIN Rows = {"H01", "H02", "H03", "H04", "H05", "H06", "H07", "H08", "H09", "H11",
                      "H12", "H13", "H14", "H15", "H16"}
<1> QED BY DEF Rows, Row

\* Every row, whatever stalled or redirected.
LEMMA RowExplained ==
    ASSUME HistoryTypes, NEW e, NEW x, SeenBy(e, x), NEW h \in RowHits(e)
    PROVE  Explained(h, e, x)
<1>1. PICK b \in DOMAIN Rows :
         /\ Nearest(Rows[b].d) /\ Past(Rows[b].d).op \in Rows[b].producers
         /\ UsedRoles(e.instr, Past(Rows[b].d).rd) \cap Rows[b].roles # {}
         /\ h = Hit(b, e.id, {Past(Rows[b].d).id},
                    UsedRoles(e.instr, Past(Rows[b].d).rd) \cap Rows[b].roles)
  BY DEF RowHits
<1>2. PICK d \in 1 .. 3 : d = Rows[b].d
  BY RowShape
<1>3. PICK p, s : p = Past(d) /\ s = Spread(d, e)
  OBVIOUS
<1>4. /\ Nearest(d) /\ p.op \in Rows[b].producers
      /\ h.bin = b /\ h.roles # {} /\ h.roles \subseteq UsedRoles(e.instr, p.rd)
  BY <1>1, <1>2, <1>3 DEF Hit
<1>5. \A role \in h.roles : ForwardOf(e, role) = AtDistance(s)
  BY <1>3, <1>4 DEF SeenBy
<1>6. /\ e.stalls \in {0, 1} /\ x.stalls \in {0, 1} /\ (x.stalls = 1 => e.stalls = 1)
  BY OracleStallsLess DEF SeenBy
<1>7. \A sel : (\A role \in h.roles : ForwardOf(e, role) = sel) <=> AtDistance(s) = sel
  BY <1>4, <1>5
<1>8. ControlPassed(h, e) <=>
        /\ e.stalls = StallExpected(b)
        /\ \A role \in h.roles : ForwardOf(e, role) = ForwardExpected(h, e, role)
  <2>1. b \notin {"H19", "H20"}
    BY RowShape
  <2> QED BY <1>4, <2>1 DEF ControlPassed
<1>9. Newest = Past(1) /\ Middle = Past(2)
  BY DEF Newest, Middle
<1>10. Newest.stalls \in Nat /\ Middle.stalls \in Nat
  BY Redirecting
<1>11. PICK t \in {0, 1}, nb \in {0, 2}, mb \in {0, 2}, ns \in Nat :
         t = e.stalls /\ nb = Bubbles(Newest) /\ mb = Bubbles(Middle) /\ ns = Newest.stalls
  BY <1>6, <1>10 DEF Bubbles
<1>12. CASE b \in {"H01", "H02", "H16", "H11", "H13"}
  <2>1. d = 1 /\ p = Newest /\ p.op \in AluOps \cup {"LUI", "AUIPC"}
    BY <1>2, <1>3, <1>4, <1>9, <1>12, RowContents
  <2>2. t = 0 /\ nb = 0
    BY <1>11, <2>1, Redirecting DEF SeenBy, LoadInFront, AluOps
  <2>3. s = 1
    BY <1>3, <1>11, <2>1, <2>2 DEF Spread
  <2>4. \A role : ForwardExpected(h, e, role) = "EX_MEM"
    BY <1>4, <1>12 DEF ForwardExpected
  <2>5. StallExpected(b) = 0 /\ ~ReadsAcross(b) /\ b # "H17" /\ b \notin {"H06", "H07"}
    BY <1>12 DEF StallExpected, ReadsAcross
  <2> QED BY <1>4, <1>6, <1>7, <1>8, <1>11, <2>2, <2>3, <2>4, <2>5 DEF Explained, AtDistance
<1>13. CASE b = "H05"
  <2>1. d = 3
    BY <1>2, <1>13, RowContents
  <2>2. PICK g \in Nat, k \in Nat : /\ g = Gap(Newest, Middle) /\ k = Gap(Middle, Oldest)
                                   /\ g >= 1 /\ k >= 1
    BY <1>10 DEF Gap, Bubbles
  <2>3. s = 1 + t + nb + (g + k)
    BY <1>3, <1>11, <2>1, <2>2 DEF Spread
  <2>4. s # 1 /\ s # 2
    BY ONLY <2>2, <2>3, t \in {0, 1}, nb \in {0, 2}, g \in Nat, k \in Nat
  <2>5. \A role : ForwardExpected(h, e, role) = "RF"
    BY <1>4, <1>13 DEF ForwardExpected
  <2>6. StallExpected(b) = 0 /\ ~ReadsAcross(b) /\ b # "H17" /\ b \notin {"H06", "H07"}
    BY <1>13 DEF StallExpected, ReadsAcross
  <2> QED BY <1>4, <1>6, <1>7, <1>8, <2>4, <2>5, <2>6 DEF Explained, AtDistance
<1>14. CASE b = "H15"
  <2>1. d = 1 /\ p = Newest /\ p.op \in LinkOps
    BY <1>2, <1>3, <1>4, <1>9, <1>14, RowContents
  <2>2. t = 0 /\ nb = 2
    BY <1>11, <2>1, Redirecting DEF SeenBy, LoadInFront, LinkOps
  <2>3. s = 3
    BY <1>3, <1>11, <2>1, <2>2 DEF Spread
  <2>4. \A role : ForwardExpected(h, e, role) = "RF"
    BY <1>4, <1>14 DEF ForwardExpected
  <2>5. StallExpected(b) = 0 /\ ~ReadsAcross(b) /\ b # "H17" /\ b \notin {"H06", "H07"}
    BY <1>14 DEF StallExpected, ReadsAcross
  <2> QED BY <1>4, <1>6, <1>7, <1>8, <1>11, <2>2, <2>3, <2>4, <2>5 DEF Explained, AtDistance
<1>15. CASE b \in {"H06", "H07"}
  <2>1. d = 1 /\ p = Newest /\ p.op = "LW"
    BY <1>2, <1>3, <1>4, <1>9, <1>15, RowContents
  <2>2. Positive(Newest) /\ UsedRoles(e.instr, Newest.rd) # {}
    BY <1>3, <1>4, <2>1 DEF Nearest
  <2>3. x.stalls = 1 /\ t = 1 /\ nb = 0
    BY <1>6, <1>11, <2>1, <2>2, Redirecting DEF SeenBy, LoadInFront
  <2>4. s = 2
    BY <1>3, <1>11, <2>1, <2>3 DEF Spread
  <2>5. \A role : ForwardExpected(h, e, role) = "MEM_WB"
    BY <1>4, <1>15 DEF ForwardExpected
  <2>6. StallExpected(b) = 1 /\ ~ReadsAcross(b) /\ b # "H17"
    BY <1>15 DEF StallExpected, ReadsAcross
  <2> QED BY <1>4, <1>7, <1>8, <1>11, <1>15, <2>3, <2>4, <2>5, <2>6 DEF Explained, AtDistance
<1>16. CASE b \in {"H03", "H04", "H08", "H09", "H12", "H14"}
  <2>1. d = 2 /\ p = Middle /\ p.op \in AluOps \cup {"LW", "LUI", "AUIPC"}
    BY <1>2, <1>3, <1>4, <1>9, <1>16, RowContents
  <2>2. mb = 0
    BY <1>11, <2>1, Redirecting
  <2>3. s = 1 + t + nb + (1 + ns + 0)
    BY <1>3, <1>11, <2>1, <2>2 DEF Spread, Gap
  <2>4. s = 2 <=> t = 0 /\ nb = 0 /\ ns = 0
    BY ONLY <2>3, t \in {0, 1}, nb \in {0, 2}, ns \in Nat
  <2>5. nb = 0 <=> ~Newest.redirects
    BY <1>11, Redirecting
  <2>6. AtDistance(s) = "MEM_WB" <=> s = 2
    BY DEF AtDistance
  <2>7. \A role : ForwardExpected(h, e, role) = "MEM_WB"
    BY <1>4, <1>16 DEF ForwardExpected
  <2>8. StallExpected(b) = 0 /\ ReadsAcross(b) /\ b # "H17" /\ b \notin {"H06", "H07"}
    BY <1>16 DEF StallExpected, ReadsAcross
  <2> QED BY <1>4, <1>6, <1>7, <1>8, <1>11, <2>4, <2>5, <2>6, <2>7, <2>8 DEF Explained
<1> QED BY <1>12, <1>13, <1>14, <1>15, <1>16, RowContents

\* A pair of ALU instructions: the older one must not have been late.
LEMMA DualExplained ==
    ASSUME HistoryTypes, NEW e, NEW x, SeenBy(e, x), NEW h \in DualHits(e)
    PROVE  Explained(h, e, x)
<1>1. PICK p, q, s, z : /\ p = Newest /\ q = Middle /\ s = Spread(1, e) /\ z = Spread(2, e)
  OBVIOUS
<1>2. Newest = Past(1) /\ Middle = Past(2)
  BY DEF Newest, Middle
<1>3. /\ Positive(p) /\ Positive(q) /\ p.op \in AluOps /\ q.op \in AluOps /\ p.rd # q.rd
      /\ e.instr.op \in Rs1Rs2Ops /\ {e.instr.rs1, e.instr.rs2} = {p.rd, q.rd}
      /\ h = Hit("H10", e.id, {p.id, q.id}, {"RS1", "RS2"})
  BY <1>1, <1>2 DEF DualHits, When
<1>4. Nearest(1) /\ Nearest(2) /\ 1 \in 1 .. 3 /\ 2 \in 1 .. 3
  <2>1. Nearest(1)
    BY <1>1, <1>2, <1>3 DEF Nearest
  <2>2. \A k \in 1 .. 2 - 1 : k = 1
    OBVIOUS
  <2> QED BY <1>1, <1>2, <1>3, <2>1, <2>2 DEF Nearest
<1>5. UsesRs1(e.instr.op) /\ UsesRs2(e.instr.op)
  BY <1>3 DEF Rs1Rs2Ops, UsesRs1, UsesRs2
<1>6. PICK t \in {0, 1}, ns \in Nat : t = e.stalls /\ ns = Newest.stalls
  BY Redirecting DEF SeenBy
<1>7. t = 0 /\ x.stalls = 0 /\ ~Newest.redirects /\ Bubbles(Newest) = 0 /\ Bubbles(Middle) = 0
  <2>1. t = 0
    BY <1>1, <1>3, <1>6 DEF SeenBy, LoadInFront, AluOps
  <2> QED BY <1>1, <1>3, <1>6, <2>1, OracleStallsLess, Redirecting
<1>8. s = 1 /\ z = 1 + (1 + ns + 0)
  BY <1>1, <1>6, <1>7 DEF Spread, Gap
<1>9. AtDistance(s) = "EX_MEM" /\ (AtDistance(z) = "MEM_WB" <=> ns = 0)
  <2>1. z # 1 /\ (z = 2 <=> ns = 0)
    BY <1>8
  <2> QED BY <1>8, <2>1 DEF AtDistance
<1>10. /\ "RS1" \in UsedRoles(e.instr, e.instr.rs1) /\ "RS2" \in UsedRoles(e.instr, e.instr.rs2)
  BY <1>5 DEF UsedRoles
<1>11. /\ \A role \in UsedRoles(e.instr, p.rd) : ForwardOf(e, role) = AtDistance(s)
       /\ \A role \in UsedRoles(e.instr, q.rd) : ForwardOf(e, role) = AtDistance(z)
  BY <1>1, <1>2, <1>4 DEF SeenBy
<1>12. h.bin = "H10" /\ h.roles = {"RS1", "RS2"}
  BY <1>3 DEF Hit
<1>13. /\ ForwardExpected(h, e, "RS1") = IF e.instr.rs1 = p.rd THEN "EX_MEM" ELSE "MEM_WB"
       /\ ForwardExpected(h, e, "RS2") = IF e.instr.rs2 = p.rd THEN "EX_MEM" ELSE "MEM_WB"
  BY <1>1, <1>2, <1>12 DEF ForwardExpected, RegOf
<1>14. (\A role \in h.roles : ForwardOf(e, role) = ForwardExpected(h, e, role)) <=> ns = 0
  <2>1. (\A role \in h.roles : ForwardOf(e, role) = ForwardExpected(h, e, role)) <=>
          /\ ForwardOf(e, "RS1") = ForwardExpected(h, e, "RS1")
          /\ ForwardOf(e, "RS2") = ForwardExpected(h, e, "RS2")
    BY <1>12
  <2>2. CASE e.instr.rs1 = p.rd /\ e.instr.rs2 = q.rd
    <3>1. ForwardOf(e, "RS1") = "EX_MEM" /\ ForwardOf(e, "RS2") = AtDistance(z)
      BY <1>9, <1>10, <1>11, <2>2
    <3> QED BY <1>3, <1>9, <1>13, <2>1, <2>2, <3>1
  <2>3. CASE e.instr.rs1 = q.rd /\ e.instr.rs2 = p.rd
    <3>1. ForwardOf(e, "RS2") = "EX_MEM" /\ ForwardOf(e, "RS1") = AtDistance(z)
      BY <1>9, <1>10, <1>11, <2>3
    <3> QED BY <1>3, <1>9, <1>13, <2>1, <2>3, <3>1
  <2> QED BY <1>3, <2>2, <2>3
<1>15. StallExpected("H10") = 0 /\ ReadsAcross("H10") /\ "H10" \notin {"H17", "H19", "H20"}
  BY DEF StallExpected, ReadsAcross
<1>16. ControlPassed(h, e) <=> ns = 0
  BY <1>6, <1>7, <1>12, <1>14, <1>15 DEF ControlPassed
<1> QED BY <1>6, <1>7, <1>12, <1>15, <1>16 DEF Explained

\* A shadowed writer: the younger one must not have redirected, and only links do.
LEMMA ShadowExplained ==
    ASSUME HistoryTypes, NEW e, NEW x, SeenBy(e, x), NEW h \in ShadowHits(e)
    PROVE  Explained(h, e, x)
<1>1. PICK p, s : p = Newest /\ s = Spread(1, e)
  OBVIOUS
<1>2. Newest = Past(1) /\ 1 \in 1 .. 3
  BY DEF Newest
<1>3. /\ Positive(p) /\ UsedRoles(e.instr, p.rd) # {}
      /\ h.bin = "H17" /\ h.roles = UsedRoles(e.instr, p.rd)
  BY <1>1, <1>2 DEF ShadowHits, When, Hit
<1>4. Nearest(1)
  BY <1>1, <1>2, <1>3 DEF Nearest
<1>5. \A role \in h.roles : ForwardOf(e, role) = AtDistance(s)
  BY <1>1, <1>2, <1>3, <1>4 DEF SeenBy
<1>6. PICK t \in {0, 1}, nb \in {0, 2} : t = e.stalls /\ nb = Bubbles(Newest)
  BY DEF SeenBy, Bubbles
<1>7. s = 1 + t + nb
  BY <1>1, <1>6 DEF Spread
<1>8. s = 1 <=> t = 0 /\ nb = 0
  BY ONLY <1>7, t \in {0, 1}, nb \in {0, 2}
<1>9. nb = 0 <=> Newest.op \notin LinkOps
  <2>1. WritesRd(Newest.op)
    BY <1>1, <1>3 DEF Positive
  <2> QED BY <1>6, <2>1, Redirecting
<1>10. AtDistance(s) = "EX_MEM" <=> s = 1
  BY DEF AtDistance
<1>11. \A role : ForwardExpected(h, e, role) = "EX_MEM"
  BY <1>3 DEF ForwardExpected
<1>12. StallExpected("H17") = 0 /\ ~ReadsAcross("H17") /\ "H17" \notin {"H06", "H07", "H19", "H20"}
  BY DEF StallExpected, ReadsAcross
<1>13. ControlPassed(h, e) <=> t = 0 /\ s = 1
  BY <1>3, <1>5, <1>6, <1>10, <1>11, <1>12 DEF ControlPassed
<1>14. t = 0 => x.stalls = 0
  BY <1>6, OracleStallsLess
<1>15. x.stalls \in {0, 1}
  BY DEF SeenBy
<1> QED BY <1>3, <1>6, <1>8, <1>9, <1>12, <1>13, <1>14, <1>15 DEF Explained

\* What is no dependence passes without a stall.
LEMMA NegativeExplained ==
    ASSUME HistoryTypes, NEW e, NEW x, SeenBy(e, x), NEW h \in NegativeHits(e)
    PROVE  Explained(h, e, x)
<1>1. \/ h.bin = "H18" /\ h.roles = UsedRoles(e.instr, 0)
      \/ h.bin \in {"H19", "H20"}
  BY DEF NegativeHits, When, Hit
<1>2. h.bin = "H18" => \A role \in h.roles : ForwardOf(e, role) = ForwardExpected(h, e, role)
  <2> SUFFICES ASSUME h.bin = "H18", NEW role \in h.roles
               PROVE  ForwardOf(e, role) = ForwardExpected(h, e, role)
    OBVIOUS
  <2>1. ForwardOf(e, role) = "RF"
    BY <1>1 DEF SeenBy
  <2>2. ForwardExpected(h, e, role) = "RF"
    BY DEF ForwardExpected
  <2> QED BY <2>1, <2>2
<1>3. \A b \in {"H18", "H19", "H20"} :
        StallExpected(b) = 0 /\ ~ReadsAcross(b) /\ b # "H17" /\ b \notin {"H06", "H07"}
  BY DEF StallExpected, ReadsAcross
<1>4. ControlPassed(h, e) <=> e.stalls = 0
  BY <1>1, <1>2, <1>3 DEF ControlPassed
<1>5. x.stalls \in {0, 1} /\ (e.stalls = 0 => x.stalls = 0)
  BY OracleStallsLess DEF SeenBy
<1> QED BY <1>1, <1>3, <1>4, <1>5 DEF Explained

\* Each verdict of the control check is explained.
LEMMA AcceptExplained ==
    ASSUME TrackTypeOK, TrackInv, LockTypes, WritersAreYoungest, HistoryTypes, InOrder,
           WaitsForNewest, WritersInHistory, LoadsInFront,
           NEW i \in Fetchable \cup {NoInstr}, L1RisingEdge(i), Accepts, ~loopError'
    PROVE  RejectionsExplained'
<1>1. SeenBy(event', expectation')
  BY AcceptSeen
<1>2. /\ Middle' = Newest
      /\ controls' = {[hit |-> h, passed |-> ControlPassed(h, event')] : h \in Classify(event')}
  BY HazardsAcceptEffect DEF L1Accept
<1>3. PICK e, x, cs : e = event' /\ x = expectation' /\ cs = controls'
  OBVIOUS
<1>4. \A h \in Classify(e) : Explained(h, e, x)
  BY <1>1, <1>3, RowExplained, DualExplained, ShadowExplained, NegativeExplained DEF Classify
<1>5. Between' = Newest
  BY <1>2 DEF Middle, Between
<1>6. RejectionsExplained' <=>
        \A c \in cs :
            c.passed <=>
                /\ e.stalls = x.stalls
                /\ x.stalls = 1 => c.hit.bin \in {"H06", "H07"}
                /\ ReadsAcross(c.hit.bin) => Newest.stalls = 0 /\ ~Newest.redirects
                /\ c.hit.bin = "H17" => Newest.op \notin LinkOps
  BY <1>3, <1>5 DEF RejectionsExplained, ReadsAcross
<1>7. \A c \in cs : \E h \in Classify(e) : c.hit = h /\ (c.passed <=> ControlPassed(h, e))
  BY <1>2, <1>3
<1> QED BY <1>4, <1>6, <1>7 DEF Explained

-----------------------------------------------------------------------------
(* The oracle's clock.                                                      *)

\* A false stall is never taken back.
LEMMA FalseStallsGrow ==
    ASSUME TrackTypeOK, TrackInv, LockTypes, WritersAreYoungest, HistoryTypes, InOrder,
           WaitsForNewest, WritersInHistory, LoadsInFront, falseStalls \in Nat,
           NEW i \in Fetchable \cup {NoInstr}, L1RisingEdge(i), Accepts, ~loopError'
    PROVE  /\ falseStalls' \in Nat
           /\ falseStalls' = falseStalls + (event'.stalls - expectation'.stalls)
           /\ falseStalls' = 0 => falseStalls = 0 /\ event'.stalls = expectation'.stalls
           /\ event'.stalls \in {0, 1} /\ expectation'.stalls \in {0, 1}
<1>1. SeenBy(event', expectation')
  BY AcceptSeen
<1>2. falseStalls' = falseStalls + (event'.stalls - expectation'.stalls)
  BY HazardsAcceptEffect, AcceptEffect
<1>3. PICK e, x, f, ff : e = event' /\ x = expectation' /\ f = falseStalls /\ ff = falseStalls'
  OBVIOUS
<1>4. e.stalls \in {0, 1} /\ x.stalls \in {0, 1} /\ x.stalls <= e.stalls
  BY <1>1, <1>3, OracleStallsLess DEF SeenBy
<1>5. PICK t \in {0, 1}, y \in {0, 1} : t = e.stalls /\ y = x.stalls /\ y <= t
  BY <1>4
<1>6. ff = f + (t - y) /\ f \in Nat
  BY <1>2, <1>3, <1>5
<1>7. ff \in Nat /\ (ff = 0 => f = 0 /\ t = y)
  <2>1. PICK t1 \in Int, y1 \in Int : t1 = t /\ y1 = y /\ y1 <= t1
    BY <1>5
  <2>2. ff = f + (t1 - y1)
    BY <1>6, <2>1
  <2>3. ff \in Nat /\ (ff = 0 => f = 0 /\ t1 = y1)
    BY ONLY <1>6, <2>1, <2>2, t1 \in Int, y1 \in Int
  <2> QED BY <2>1, <2>3
<1>8. falseStalls' \in Nat /\ event'.stalls \in {0, 1} /\ expectation'.stalls \in {0, 1}
  BY <1>3, <1>4, <1>7
<1>9. falseStalls' = 0 => falseStalls = 0 /\ event'.stalls = expectation'.stalls
  BY <1>3, <1>5, <1>7, Zenon
<1> QED BY <1>2, <1>8, <1>9, Zenon

\* While no branch has been turned by a wrong operand, the oracle's slot and the
\* hardware's cycle differ by the false stalls.
LEMMA AcceptOnSlot ==
    ASSUME TrackTypeOK, TrackInv, LockTypes, WritersAreYoungest, HistoryTypes, InOrder,
           WaitsForNewest, WritersInHistory, LoadsInFront, falseStalls \in Nat,
           KeepsUp, ~misled,
           NEW i \in Fetchable \cup {NoInstr}, L1RisingEdge(i), Accepts, ~loopError'
    PROVE  cycle = expectation'.accept + falseStalls'
<1>1. LockRisingEdge(i)
  BY HazardsAcceptEffect
<1>2. phase = "rise" /\ A.instr # NoInstr /\ cycle \in Nat /\ event'.stalls = pending.stalls
  BY <1>1, LockRisingEffect, AcceptedEvent DEF Accepts
<1>3. Elapsed = (1 + pending.stalls) + Bubbles(Newest)
  BY <1>2, AcceptSpacing
<1>4. (oracle.next + falseStalls) + Elapsed = (cycle + 1) + Bubbles(Newest)
  BY <1>2 DEF KeepsUp, Fetching
<1>5. /\ falseStalls' = falseStalls + (event'.stalls - expectation'.stalls)
      /\ event'.stalls \in {0, 1} /\ expectation'.stalls \in {0, 1}
      /\ expectation'.accept = oracle.next + expectation'.stalls
  BY FalseStallsGrow, AcceptTable
<1>6. PICK t \in {0, 1}, y \in {0, 1}, b \in {0, 2}, f \in Nat, nx \in Nat, c \in Nat :
         /\ t = event'.stalls /\ y = expectation'.stalls /\ b = Bubbles(Newest)
         /\ f = falseStalls /\ nx = oracle.next /\ c = cycle
  BY <1>2, <1>5 DEF Bubbles, LockTypes
<1>7. (nx + f) + ((1 + t) + b) = (c + 1) + b
  BY <1>2, <1>3, <1>4, <1>6
<1>8. c = (nx + y) + (f + (t - y))
  BY ONLY <1>7, t \in {0, 1}, y \in {0, 1}, b \in {0, 2}, f \in Nat, nx \in Nat, c \in Nat
<1> QED BY <1>5, <1>6, <1>8

\* The next slot follows the acceptance as the hardware will.
LEMMA AcceptKeepsUp ==
    ASSUME TrackTypeOK, TrackInv, LockTypes, WritersAreYoungest, HistoryTypes, InOrder,
           WaitsForNewest, WritersInHistory, LoadsInFront, falseStalls \in Nat,
           misled \in BOOLEAN, KeepsUp, RedirectBubbles = 2,
           NEW i \in Fetchable \cup {NoInstr}, L1RisingEdge(i), Accepts, ~loopError'
    PROVE  KeepsUp'
<1> SUFFICES ASSUME ~misled'
             PROVE  /\ (oracle'.next + falseStalls') + Elapsed'
                         = (cycle' + 1) + Bubbles(Newest)'
                    /\ falseStalls' = 0 =>
                         \A r \in Reg : oracle'.writer[r].seen = oracle'.writer[r].cycle
  BY DEF KeepsUp
<1>1. LockRisingEdge(i) /\ L1Accept(event')
  BY HazardsAcceptEffect
<1>2. event'.instr = A.instr /\ cycle' = cycle + 1 /\ cycle \in Nat
  BY <1>1, LockRisingEffect, AcceptedEvent
<1>3. ~misled /\ (PcSel' <=> A.instr.op \in LinkOps \/ BranchTaken(gold, A.instr))
  <2>1. misled' = (misled \/ (PcSel' # (event'.instr.op \in LinkOps
                                        \/ BranchTaken(gold, event'.instr))))
    BY <1>1 DEF L1Accept
  <2>2. PcSel' \in BOOLEAN
    BY DEF PcSel
  <2>3. BranchTaken(gold, A.instr) \in BOOLEAN
    BY DEF BranchTaken
  <2>4. PICK s, t : s = PcSel' /\ t = (A.instr.op \in LinkOps \/ BranchTaken(gold, A.instr))
    OBVIOUS
  <2>5. s \in BOOLEAN /\ t \in BOOLEAN /\ ~misled /\ ~(s # t)
    BY <1>2, <2>1, <2>2, <2>3, <2>4
  <2> QED BY <2>4, <2>5
<1>4. Elapsed' = 1 /\ cycle = expectation'.accept + falseStalls'
  BY <1>3, AcceptIsNewest, AcceptOnSlot
<1>5. Bubbles(Newest)' = IF PcSel' THEN 2 ELSE 0
  <2>1. Newest' = [id |-> event'.id, op |-> A.instr.op, rd |-> A.instr.rd,
                   stalls |-> pending.stalls, redirects |-> PcSel']
    BY HazardsAcceptEffect
  <2>2. Newest'.redirects = PcSel'
    BY <2>1
  <2> QED BY <2>2 DEF Bubbles
<1>6. PICK n \in Nat : /\ oracle'.next = expectation'.accept + 1 + n
                       /\ n = IF A.instr.op \in LinkOps \/ BranchTaken(gold, A.instr)
                              THEN RedirectBubbles ELSE 0
  BY AcceptTable
<1>7. Bubbles(Newest)' = n
  BY <1>3, <1>5, <1>6
<1>8. expectation'.accept \in Nat /\ falseStalls' \in Nat
  BY AcceptTable, FalseStallsGrow
<1>9. (oracle'.next + falseStalls') + Elapsed' = (cycle' + 1) + Bubbles(Newest)'
  <2>1. PICK a \in Nat, f \in Nat, c \in Nat :
          a = expectation'.accept /\ f = falseStalls' /\ c = cycle
    BY <1>2, <1>8
  <2>2. c = a + f
    BY <1>4, <2>1
  <2>3. ((a + 1 + n) + f) + 1 = ((c + 1) + 1) + n
    BY ONLY <2>2, a \in Nat, f \in Nat, c \in Nat, n \in Nat
  <2> QED BY <1>2, <1>4, <1>6, <1>7, <2>1, <2>3
<1>10. ASSUME falseStalls' = 0, NEW r \in Reg
       PROVE  oracle'.writer[r].seen = oracle'.writer[r].cycle
  <2>1. oracle.writer[r].seen = oracle.writer[r].cycle
    BY <1>3, <1>10, FalseStallsGrow DEF KeepsUp
  <2>2. cycle = expectation'.accept
    BY <1>4, <1>8, <1>10
  <2>3. oracle'.writer[r] =
          IF WritesRd(A.instr.op) /\ r # 0 /\ r = A.instr.rd
          THEN [id |-> event'.id, op |-> A.instr.op, cycle |-> expectation'.accept,
                seen |-> cycle]
          ELSE oracle.writer[r]
    BY AcceptTable
  <2>4. CASE WritesRd(A.instr.op) /\ r # 0 /\ r = A.instr.rd
    BY <2>2, <2>3, <2>4
  <2>5. CASE ~(WritesRd(A.instr.op) /\ r # 0 /\ r = A.instr.rd)
    BY <2>1, <2>3, <2>5
  <2> QED BY <2>4, <2>5
<1> QED BY <1>9, <1>10

\* The oracle's select is the hardware's, when the clocks agree.
LEMMA ForwardOnTime ==
    ASSUME TrackTypeOK, TrackInv, LockTypes, WritersAreYoungest,
           NEW i \in Fetchable \cup {NoInstr}, LockRisingEdge(i),
           NEW r \in Reg, NEW w, w = IF r # 0 THEN oracle.writer[r] ELSE NoWriter,
           w.seen = w.cycle,
           NEW sel, \/ B'.rs1 = r /\ sel = ForwardA'
                    \/ B'.rs2 = r /\ sel = ForwardB'
    PROVE  sel = ForwardForAge(w, cycle)
<1>1. /\ w = NoWriter => sel = "RF"
      /\ w # NoWriter /\ cycle - w.seen = 1 => sel = "EX_MEM"
      /\ w # NoWriter /\ cycle - w.seen = 2 => sel = "MEM_WB"
      /\ w # NoWriter /\ cycle - w.seen # 1 /\ cycle - w.seen # 2 => sel = "RF"
  BY ForwardByAge
<1>2. cycle - w.cycle = 1 => cycle - w.cycle # 2
  OBVIOUS
<1>3. CASE w = NoWriter
  BY <1>1, <1>3 DEF ForwardForAge
<1>4. CASE w # NoWriter /\ cycle - w.cycle = 1
  BY <1>1, <1>2, <1>4 DEF ForwardForAge
<1>5. CASE w # NoWriter /\ cycle - w.cycle = 2
  BY <1>1, <1>2, <1>5 DEF ForwardForAge
<1>6. CASE w # NoWriter /\ cycle - w.cycle # 1 /\ cycle - w.cycle # 2
  BY <1>1, <1>6 DEF ForwardForAge
<1> QED BY <1>3, <1>4, <1>5, <1>6

\* What is put on record is late by the false stalls, and otherwise on time.
LEMMA AcceptIsTimed ==
    ASSUME TrackTypeOK, TrackInv, LockTypes, WritersAreYoungest, HistoryTypes, InOrder,
           WaitsForNewest, WritersInHistory, LoadsInFront, falseStalls \in Nat,
           KeepsUp, ~misled,
           NEW i \in Fetchable \cup {NoInstr}, L1RisingEdge(i), Accepts, ~loopError',
           NEW w, w.o = event', w.x = expectation', w.falseStalls = falseStalls'
    PROVE  IsTimed(w)
<1>1. LockRisingEdge(i) /\ expectation' = NextExpectation(event')
  BY HazardsAcceptEffect
<1>2. /\ event'.cycle = cycle /\ cycle \in Nat /\ event'.instr = A.instr
      /\ A.instr.rs1 \in Reg /\ A.instr.rs2 \in Reg
      /\ event'.fa = ForwardA' /\ event'.fb = ForwardB'
      /\ B'.rs1 = A.instr.rs1 /\ B'.rs2 = A.instr.rs2
  BY <1>1, AcceptedEvent, LockRisingEffect
<1>3. cycle = expectation'.accept + falseStalls' /\ expectation'.accept \in Nat
  BY AcceptOnSlot, AcceptTable
<1>4. /\ falseStalls' \in Nat
      /\ falseStalls' = 0 => falseStalls = 0 /\ event'.stalls = expectation'.stalls
  BY FalseStallsGrow
<1>5. PICK e, x, op : e = event' /\ x = expectation' /\ op = A.instr.op
  OBVIOUS
<1>6. /\ x.fa = ForwardForAge(x.a, x.accept) /\ x.fb = ForwardForAge(x.b, x.accept)
      /\ x.a = IF UsesRs1(op) /\ A.instr.rs1 # 0 THEN oracle.writer[A.instr.rs1] ELSE NoWriter
      /\ x.b = IF UsesRs2(op) /\ A.instr.rs2 # 0 THEN oracle.writer[A.instr.rs2] ELSE NoWriter
  <2>1. x = NextExpectation(e) /\ e.instr = A.instr
    BY <1>1, <1>2, <1>5
  <2>2. x.fa = ForwardForAge(x.a, x.accept) /\ x.fb = ForwardForAge(x.b, x.accept)
    BY <2>1 DEF NextExpectation
  <2> QED BY <1>5, <2>1, <2>2, ProducersAre
<1>7. \A c : ForwardForAge(NoWriter, c) = "RF"
  BY DEF ForwardForAge
<1>8. ~UsesRs1(op) => x.fa = "RF"
  BY <1>6, <1>7
<1>9. ~UsesRs2(op) => x.fb = "RF"
  BY <1>6, <1>7
<1>10. ASSUME falseStalls' = 0
       PROVE  /\ UsesRs1(op) => e.fa = x.fa
              /\ UsesRs2(op) => e.fb = x.fb
  <2>1. x.accept = cycle
    BY <1>3, <1>4, <1>5, <1>10
  <2>2. \A r \in Reg : oracle.writer[r].seen = oracle.writer[r].cycle
    BY <1>4, <1>10 DEF KeepsUp
  <2>3. NoWriter.seen = NoWriter.cycle
    BY DEF NoWriter
  <2>4. ASSUME UsesRs1(op) PROVE e.fa = x.fa
    <3>1. PICK r \in Reg, a \in {x.a} : r = A.instr.rs1
      BY <1>2
    <3>2. a = IF r # 0 THEN oracle.writer[r] ELSE NoWriter
      BY <1>6, <2>4, <3>1
    <3>3. a.seen = a.cycle
      BY <2>2, <2>3, <3>2
    <3>4. PICK sel : sel = ForwardA'
      OBVIOUS
    <3>5. B'.rs1 = r /\ sel = ForwardA'
      BY <1>2, <3>1, <3>4
    <3>6. sel = ForwardForAge(a, cycle)
      BY <1>1, <3>2, <3>3, <3>5, ForwardOnTime
    <3> QED BY <1>2, <1>5, <1>6, <2>1, <3>4, <3>6
  <2>5. ASSUME UsesRs2(op) PROVE e.fb = x.fb
    <3>1. PICK r \in Reg, a \in {x.b} : r = A.instr.rs2
      BY <1>2
    <3>2. a = IF r # 0 THEN oracle.writer[r] ELSE NoWriter
      BY <1>6, <2>5, <3>1
    <3>3. a.seen = a.cycle
      BY <2>2, <2>3, <3>2
    <3>4. PICK sel : sel = ForwardB'
      OBVIOUS
    <3>5. B'.rs2 = r /\ sel = ForwardB'
      BY <1>2, <3>1, <3>4
    <3>6. sel = ForwardForAge(a, cycle)
      BY <1>1, <3>2, <3>3, <3>5, ForwardOnTime
    <3> QED BY <1>2, <1>5, <1>6, <2>1, <3>4, <3>6
  <2> QED BY <2>4, <2>5
<1>11. /\ w.falseStalls \in Nat /\ w.o.cycle \in Nat /\ w.x.accept \in Nat
       /\ w.o.cycle = w.x.accept + w.falseStalls /\ w.o.instr.op = op
       /\ w.falseStalls = 0 => w.o.stalls = w.x.stalls
  BY <1>2, <1>3, <1>4, <1>5
<1>12. w.o = e /\ w.x = x /\ w.falseStalls = falseStalls'
  BY <1>5
<1> QED BY <1>8, <1>9, <1>10, <1>11, <1>12 DEF IsTimed

\* A correlated hit fails its timing as TimingExplained says.
LEMMA TimedCorrelation ==
    ASSUME NEW w, IsTimed(w), NEW h, NEW c \in Nat, c = w.o.cycle + 3, RetireLatencyCycles = 3
    PROVE  LET a == Correlate(h, w, c) IN
           (a.failed # {}) <=> (a.falseStalls # 0 \/ UnusedForward(a))
<1>1. PICK a : a = Correlate(h, w, c)
  OBVIOUS
<1>2. /\ a.op = w.o.instr.op /\ a.fa = w.o.fa /\ a.fb = w.o.fb
      /\ a.falseStalls = w.falseStalls /\ a.failed = FailedChecks(w.o, w.x, c)
  BY <1>1 DEF Correlate
<1>3. PICK o, x, f, failed : o = w.o /\ x = w.x /\ f = w.falseStalls /\ failed = a.failed
  OBVIOUS
<1>4. PICK oc \in Nat, xa \in Nat : oc = o.cycle /\ xa = x.accept
  BY <1>3 DEF IsTimed
<1>5. f \in Nat /\ oc = xa + f /\ c = oc + 3
  BY <1>3, <1>4 DEF IsTimed
<1>6. (oc = xa <=> f = 0) /\ (c = xa + 3 <=> f = 0)
  BY <1>5
<1>7. /\ "accept_cycle" \in failed <=> f # 0
      /\ "stalls" \in failed <=> o.stalls # x.stalls
      /\ "forward_a" \in failed <=> o.fa # x.fa
      /\ "forward_b" \in failed <=> o.fb # x.fb
      /\ "retire_cycle" \in failed <=> f # 0
      /\ failed \subseteq {"accept_cycle", "stalls", "forward_a", "forward_b", "retire_cycle"}
  BY <1>2, <1>3, <1>4, <1>6 DEF FailedChecks
<1>8. CASE f # 0
  BY <1>1, <1>2, <1>3, <1>7, <1>8
<1>9. CASE f = 0
  <2>1. /\ o.stalls = x.stalls
        /\ IF UsesRs1(o.instr.op) THEN o.fa = x.fa ELSE x.fa = "RF"
        /\ IF UsesRs2(o.instr.op) THEN o.fb = x.fb ELSE x.fb = "RF"
    BY <1>3, <1>9 DEF IsTimed
  <2>2. failed # {} <=> o.fa # x.fa \/ o.fb # x.fb
    BY <1>7, <1>9, <2>1
  <2>3. UnusedForward(a) <=> \/ ~UsesRs1(o.instr.op) /\ o.fa # "RF"
                             \/ ~UsesRs2(o.instr.op) /\ o.fb # "RF"
    BY <1>2, <1>3 DEF UnusedForward
  <2>4. o.fa # x.fa \/ o.fb # x.fb <=> UnusedForward(a)
    BY <2>1, <2>3
  <2> QED BY <1>1, <1>2, <1>3, <1>9, <2>2, <2>4
<1> QED BY <1>8, <1>9

-----------------------------------------------------------------------------
(* The invariant.                                                           *)

\* It holds at reset, where nothing is past.
LEMMA HazardsInitInv == L1Init => HazardsInv
<1> SUFFICES ASSUME L1Init PROVE HazardsInv
  OBVIOUS
<1>1. LockInit /\ history = <<>> /\ awaiting = NoEntries /\ controls = {} /\ attributions = {}
      /\ orderError = FALSE /\ misled = FALSE
  BY DEF L1Init
<1>2. /\ index = 0 /\ bTag = NoTag /\ cTag = NoTag /\ dTag = NoTag /\ stallCount = 0
      /\ phase = "fall" /\ cycle = 1 /\ B.op = "NONE" /\ A.instr \in Fetchable
      /\ oracle = [next |-> 1, writer |-> [r \in Reg |-> NoWriter]] /\ falseStalls = 0
      /\ loopError = FALSE
  BY <1>1 DEF LockInit, TrackInit, PipeInit, BubbleB
<1>3. A.instr # NoInstr
  <2>1. A.instr \in InstrOrNone /\ A.instr.op \in Op
    BY <1>2, FetchableAssumption DEF Instr, InstrOrNone
  <2>2. A.instr.op # "NONE"
    BY <2>1 DEF Op, BranchOps
  <2> QED BY <2>1, <2>2, InstrIsNotNone
<1>4. Len(history) = 0 /\ history \in Seq(PastEvent)
  BY <1>1
<1>5. Newest = NoPast /\ Middle = NoPast /\ Oldest = NoPast
  BY <1>4 DEF Newest, Middle, Oldest, Past
<1>6. IsPast(NoPast)
  BY ZeroTypes DEF IsPast, PastEvent, NoPast, LinkOps
<1>7. HistoryTypes
  BY <1>4, <1>5, <1>6 DEF HistoryTypes
<1>8. /\ NoPast.id = 0 /\ NoPast.op = "NONE" /\ NoPast.redirects = FALSE /\ ~Positive(NoPast)
  BY DEF NoPast, Positive, WritesRd
<1>9. InOrder
  BY <1>2, <1>5, <1>8 DEF InOrder
<1>10. ~Live(bTag) /\ ~Live(cTag) /\ ~Live(dTag) /\ Waited = 0
  BY <1>2 DEF Live, Waited
<1>11. WaitsForNewest
  BY <1>2, <1>3, <1>5, <1>8, <1>10 DEF WaitsForNewest
<1>12. WritersInHistory
  BY <1>5, <1>8 DEF WritersInHistory
<1>13. \A r \in Reg : oracle.writer[r] = NoWriter
  BY <1>2
<1>14. NoWriter.cycle = 0 /\ NoWriter.seen = 0 /\ NoWriter.op = "NONE" /\ oracle.next = 1
  BY <1>2 DEF NoWriter
<1>15. LoadsInFront
  BY <1>5, <1>8, <1>13, <1>14 DEF LoadsInFront
<1>16. DOMAIN awaiting = {}
  BY <1>1 DEF NoEntries
<1>17. AwaitingFollows
  BY <1>10, <1>16 DEF AwaitingFollows, Follows
<1>18. ProducersAgree /\ RejectionsExplained /\ TimingExplained
  BY <1>1 DEF ProducersAgree, RejectionsExplained, TimingExplained
<1>19. KeepsUp
  <2>1. Elapsed = 1 /\ Bubbles(Newest) = 0
    BY <1>5, <1>8 DEF Elapsed, Bubbles
  <2> QED BY <1>2, <1>13, <1>14, <2>1 DEF KeepsUp
<1>20. Timing
  BY <1>16, <1>18, <1>19 DEF Timing
<1> QED BY <1>1, <1>2, <1>7, <1>9, <1>11, <1>12, <1>15, <1>17, <1>18, <1>20 DEF HazardsInv

\* A falling edge moves no instruction, and correlates what retires.
LEMMA HazardsFallingInv ==
    ASSUME TrackTypeOK, TrackInv, LockInv, HazardsInv, L1FallingEdge
    PROVE  HazardsInv'
<1>1. LockTypes /\ RetainsOnlyInFlight
  BY DEF LockInv
<1>2. /\ LockFallingEdge /\ controls' = {} /\ ~loopError /\ ~loopError'
      /\ UNCHANGED <<history, orderError, misled>>
      /\ Newest' = Newest /\ Middle' = Middle /\ Oldest' = Oldest
  BY <1>1, HazardsFallingEffect DEF L1FallingEdge
<1>3. UNCHANGED <<A, bTag, cTag, cycle, oracle, falseStalls>> /\ dTag' = NoTag
      /\ phase = "fall"
  BY <1>1, <1>2, LockFallingEffect
<1>4. index' = index
  BY <1>2, FallingKeeps DEF LockFallingEdge
<1>5. /\ HistoryTypes /\ InOrder /\ WaitsForNewest /\ WritersInHistory /\ LoadsInFront
      /\ AwaitingFollows /\ ProducersAgree /\ falseStalls \in Nat /\ misled \in BOOLEAN
  BY <1>2 DEF HazardsInv
<1>6. WaitsForNewest' /\ Elapsed' = Elapsed /\ Fetching' = Fetching
  BY <1>1, <1>2, <1>5, FallingSpacing
<1>7. Elapsed \in Nat /\ cycle \in Nat
  BY DEF Elapsed, TrackTypeOK
<1>8. WritersInHistory' /\ LoadsInFront'
  <2>1. PICK n \in {0, 1} : n = 0
    OBVIOUS
  <2>2. cycle' = cycle + n /\ (Fetching' => Fetching /\ Elapsed' = Elapsed + n)
    BY <1>3, <1>6, <1>7, <2>1
  <2>3. oracle' = oracle
    BY <1>3
  <2> QED BY <1>1, <1>2, <1>5, <1>7, <2>2, <2>3, TableStays
<1>9. HistoryTypes' /\ InOrder'
  BY <1>2, <1>4, <1>5 DEF HistoryTypes, InOrder
<1>10. ~orderError
  BY <1>5 DEF ProducersAgree
<1>11. /\ AwaitingFollows' /\ ProducersAgree'
       /\ DOMAIN awaiting' \subseteq DOMAIN awaiting
       /\ \A id \in DOMAIN awaiting' : awaiting'[id] = awaiting[id]
       /\ \A a \in attributions' :
            /\ Live(dTag) /\ dTag.id \in DOMAIN awaiting
            /\ awaiting[dTag.id].o.cycle = dTag.cycle
            /\ \E h \in awaiting[dTag.id].hits :
                 a = Correlate(h, awaiting[dTag.id], cycle)
  BY <1>1, <1>5, <1>10, FallingRecord
<1>12. RejectionsExplained'
  BY <1>2 DEF RejectionsExplained
<1>13. ASSUME RedirectBubbles = 2, RetireLatencyCycles = 3
       PROVE  Timing'
  <2>1. KeepsUp /\ (~misled => \A id \in DOMAIN awaiting : IsTimed(awaiting[id]))
    BY <1>2, <1>13 DEF HazardsInv, Timing
  <2>2. KeepsUp'
    BY <1>2, <1>3, <1>6, <2>1 DEF KeepsUp, Bubbles
  <2>3. ~misled' => \A id \in DOMAIN awaiting' : IsTimed(awaiting'[id])
    BY <1>2, <1>11, <2>1
  <2>4. TimingExplained'
    <3> SUFFICES ASSUME ~misled', NEW a \in attributions'
                 PROVE  (a.failed # {}) <=> (a.falseStalls # 0 \/ UnusedForward(a))
      BY DEF TimingExplained, UnusedForward
    <3>1. PICK w : w = awaiting[dTag.id]
      OBVIOUS
    <3>2. PICK h : a = Correlate(h, w, cycle)
      BY <1>11, <3>1
    <3>3. Live(dTag) /\ dTag.id \in DOMAIN awaiting /\ w.o.cycle = dTag.cycle /\ IsTimed(w)
      BY <1>2, <1>11, <2>1, <3>1
    <3>4. dTag.cycle = cycle - 3
      BY <3>3 DEF TrackInv, TagAges
    <3>5. cycle = w.o.cycle + 3
      BY <1>7, <3>3, <3>4
    <3> QED BY <1>7, <1>13, <3>2, <3>3, <3>5, TimedCorrelation
  <2>5. (~misled' => \A id \in DOMAIN awaiting' : IsTimed(awaiting'[id])) <=>
        (~misled => \A id \in DOMAIN awaiting : IsTimed(awaiting[id]))'
    BY DEF IsTimed
  <2> QED BY <2>2, <2>3, <2>4, <2>5 DEF Timing
<1> QED BY <1>2, <1>3, <1>5, <1>6, <1>8, <1>9, <1>11, <1>12, <1>13 DEF HazardsInv

\* A bubble is a cycle more since the last acceptance.
LEMMA HazardsBubbleInv ==
    ASSUME TrackTypeOK, TrackInv, LockInv, HazardsInv,
           NEW i \in Fetchable \cup {NoInstr}, L1RisingEdge(i), ~Accepts \/ loopError'
    PROVE  HazardsInv'
<1>1. LockTypes /\ RetainsOnlyInFlight /\ StallsAreCounted
  BY DEF LockInv
<1>2. /\ LockRisingEdge(i) /\ attributions' = {} /\ controls' = {}
      /\ UNCHANGED <<history, awaiting, orderError, misled>>
      /\ Newest' = Newest /\ Middle' = Middle /\ Oldest' = Oldest
  BY <1>1, HazardsBubbleEffect
<1>3. ~loopError /\ cycle' = cycle + 1
  BY <1>1, <1>2, LockRisingEffect
<1>4. /\ HistoryTypes /\ InOrder /\ WaitsForNewest /\ WritersInHistory /\ LoadsInFront
      /\ AwaitingFollows /\ falseStalls \in Nat /\ misled \in BOOLEAN
  BY <1>3 DEF HazardsInv
<1>5. AwaitingFollows' /\ ProducersAgree' /\ RejectionsExplained' /\ TimingExplained'
  BY <1>1, <1>4, BubbleRecord
<1>6. HistoryTypes' /\ misled' \in BOOLEAN
  BY <1>2, <1>4 DEF HistoryTypes
<1>7. falseStalls' = falseStalls
  <2>1. CASE ~Accepts
    BY <1>1, <1>2, <2>1, LockRisingEffect
  <2>2. CASE Accepts
    <3>1. loopError' /\ Accept(event')
      BY <1>1, <1>2, <2>2, LockRisingEffect
    <3>2. event'.pc # gold.pc
      BY <1>3, <3>1, AcceptEffect
    <3> QED BY <3>1, <3>2, RejectEffect
  <2> QED BY <2>1, <2>2
<1>8. ASSUME ~loopError'
      PROVE  /\ InOrder' /\ WaitsForNewest' /\ WritersInHistory' /\ LoadsInFront'
             /\ oracle' = oracle /\ (Fetching' => Fetching /\ Elapsed' = Elapsed + 1)
  <2>1. ~Accepts
    BY <1>8
  <2>2. oracle' = oracle
    BY <1>1, <1>2, <2>1, LockRisingEffect
  <2>3. index' = index
    <3>1. TrackRisingEdge(i) /\ ~reset
      BY <1>1, <1>2 DEF LockRisingEdge, LockTypes
    <3> QED BY <2>1, <3>1, RisingEffect
  <2>4. WaitsForNewest' /\ (Fetching' => Fetching /\ Elapsed' = Elapsed + 1)
    BY <1>1, <1>2, <1>4, <2>1, BubbleSpacing
  <2>5. Elapsed \in Nat /\ cycle \in Nat
    BY DEF Elapsed, TrackTypeOK
  <2>6. WritersInHistory' /\ LoadsInFront'
    <3>1. PICK n \in {0, 1} : n = 1
      OBVIOUS
    <3>2. cycle' = cycle + n /\ (Fetching' => Fetching /\ Elapsed' = Elapsed + n)
      BY <1>3, <2>4, <3>1
    <3> QED BY <1>1, <1>2, <1>4, <2>2, <2>5, <3>2, TableStays
  <2>7. InOrder'
    BY <1>2, <1>4, <2>3 DEF InOrder
  <2> QED BY <2>2, <2>4, <2>6, <2>7
<1>9. ASSUME RedirectBubbles = 2, RetireLatencyCycles = 3
      PROVE  Timing'
  <2>1. KeepsUp /\ (~misled => \A id \in DOMAIN awaiting : IsTimed(awaiting[id]))
    BY <1>3, <1>9 DEF HazardsInv, Timing
  <2>2. ~loopError' => KeepsUp'
    <3> SUFFICES ASSUME ~loopError', ~misled'
                 PROVE  /\ Fetching' => (oracle'.next + falseStalls') + Elapsed'
                                          = (cycle' + 1) + Bubbles(Newest)'
                        /\ falseStalls' = 0 =>
                             \A r \in Reg : oracle'.writer[r].seen = oracle'.writer[r].cycle
      BY DEF KeepsUp
    <3>1. oracle' = oracle /\ (Fetching' => Fetching /\ Elapsed' = Elapsed + 1)
      BY <1>8
    <3>2. Bubbles(Newest)' = Bubbles(Newest)
      BY <1>2 DEF Bubbles
    <3>3. PICK f \in Nat, nx \in Nat, el \in Nat, c \in Nat, b \in Nat :
            /\ f = falseStalls /\ nx = oracle.next /\ el = Elapsed /\ c = cycle
            /\ b = Bubbles(Newest)
      BY <1>1, <1>4 DEF LockTypes, Elapsed, TrackTypeOK, Bubbles
    <3>4. Fetching => (nx + f) + el = (c + 1) + b
      BY <1>2, <2>1, <3>3 DEF KeepsUp
    <3>5. (nx + f) + el = (c + 1) + b => (nx + f) + (el + 1) = ((c + 1) + 1) + b
      BY ONLY nx \in Nat, f \in Nat, el \in Nat, c \in Nat, b \in Nat
    <3>6. falseStalls = 0 => \A r \in Reg : oracle.writer[r].seen = oracle.writer[r].cycle
      BY <1>2, <2>1 DEF KeepsUp
    <3> QED BY <1>3, <1>7, <3>1, <3>2, <3>3, <3>4, <3>5, <3>6
  <2>3. (~misled => \A id \in DOMAIN awaiting : IsTimed(awaiting[id]))'
    BY <1>2, <2>1 DEF IsTimed
  <2> QED BY <1>5, <2>2, <2>3 DEF Timing
<1> QED BY <1>4, <1>5, <1>6, <1>7, <1>8, <1>9 DEF HazardsInv

\* An acceptance enters the history, the table and the record.
LEMMA HazardsAcceptInv ==
    ASSUME TrackTypeOK, TrackInv, LockInv, HazardsInv,
           NEW i \in Fetchable \cup {NoInstr}, L1RisingEdge(i), Accepts, ~loopError'
    PROVE  HazardsInv'
<1>1. LockTypes /\ WritersAreYoungest
  BY DEF LockInv
<1>2. LockRisingEdge(i) /\ L1Accept(event') /\ HistoryTypes' /\ ~loopError
  <2>1. HistoryTypes
    BY DEF HazardsInv
  <2>2. LockRisingEdge(i) /\ L1Accept(event') /\ HistoryTypes'
    BY <1>1, <2>1, HazardsAcceptEffect
  <2> QED BY <1>1, <2>2, LockRisingEffect
<1>3. /\ HistoryTypes /\ InOrder /\ WaitsForNewest /\ WritersInHistory /\ LoadsInFront
      /\ AwaitingFollows /\ falseStalls \in Nat /\ misled \in BOOLEAN
  BY <1>2 DEF HazardsInv
<1>4. InOrder' /\ WaitsForNewest'
  BY <1>1, <1>3, AcceptIsNewest
<1>5. WritersInHistory' /\ LoadsInFront'
  BY <1>1, <1>3, AcceptHistory, AcceptLoadsInFront
<1>6. AwaitingFollows' /\ ProducersAgree' /\ TimingExplained'
  BY <1>1, <1>3, AcceptRecord
<1>7. RejectionsExplained'
  BY <1>1, <1>3, AcceptExplained
<1>8. falseStalls' \in Nat
  BY <1>1, <1>3, FalseStallsGrow
<1>9. /\ misled' = (misled \/ (PcSel' # (event'.instr.op \in LinkOps
                                         \/ BranchTaken(gold, event'.instr))))
      /\ awaiting' = IF Classify(event') = {} THEN awaiting
                     ELSE With(awaiting, event'.id,
                               [hits |-> Classify(event'), o |-> event', x |-> expectation',
                                falseStalls |-> falseStalls'])
  BY <1>2 DEF L1Accept
<1>10. misled' \in BOOLEAN /\ (~misled' => ~misled)
  BY <1>3, <1>9
<1>11. ASSUME RedirectBubbles = 2, RetireLatencyCycles = 3
       PROVE  Timing'
  <2>1. KeepsUp /\ (~misled => \A id \in DOMAIN awaiting : IsTimed(awaiting[id]))
    BY <1>2, <1>11 DEF HazardsInv, Timing
  <2>2. KeepsUp'
    BY <1>1, <1>3, <1>11, <2>1, AcceptKeepsUp
  <2>3. ASSUME ~misled', NEW id \in DOMAIN awaiting'
        PROVE  IsTimed(awaiting'[id])
    <3>1. PICK w : w = [hits |-> Classify(event'), o |-> event', x |-> expectation',
                        falseStalls |-> falseStalls']
      OBVIOUS
    <3>2. w.o = event' /\ w.x = expectation' /\ w.falseStalls = falseStalls'
      BY <3>1
    <3>3. IsTimed(w)
      BY <1>1, <1>3, <1>10, <2>1, <2>3, <3>2, AcceptIsTimed
    <3>4. awaiting' = awaiting \/ awaiting' = With(awaiting, event'.id, w)
      BY <1>9, <3>1
    <3>5. awaiting'[id] = w \/ (id \in DOMAIN awaiting /\ awaiting'[id] = awaiting[id])
      BY <2>3, <3>4 DEF With
    <3>6. \A k \in DOMAIN awaiting : IsTimed(awaiting[k])
      BY <1>10, <2>1, <2>3
    <3>7. PICK v : v = awaiting'[id]
      OBVIOUS
    <3>8. IsTimed(v)
      BY <3>3, <3>5, <3>6, <3>7
    <3> QED BY <3>7, <3>8
  <2>4. (~misled => \A id \in DOMAIN awaiting : IsTimed(awaiting[id]))'
    BY <2>3 DEF IsTimed
  <2> QED BY <1>6, <2>2, <2>4 DEF Timing
<1> QED BY <1>2, <1>4, <1>5, <1>6, <1>7, <1>8, <1>10, <1>11 DEF HazardsInv

\* A stuttering step changes nothing it speaks of.
LEMMA HazardsStutterInv ==
    ASSUME TrackTypeOK, TrackInv, LockInv, HazardsInv, UNCHANGED l1Vars
    PROVE  HazardsInv'
<1>1. /\ UNCHANGED <<history, awaiting, controls, attributions, orderError, misled>>
      /\ UNCHANGED lockVars
  BY DEF l1Vars
<1>2. /\ UNCHANGED <<phase, A, B, C, D, cycle, pending, stallCount, index, event, bTag, cTag, dTag>>
      /\ UNCHANGED <<oracle, expectation, loopError, falseStalls>>
  BY <1>1 DEF lockVars, checkVars, vars, pipeVars, adapterVars, monitorVars
<1>3. Newest' = Newest /\ Middle' = Middle /\ Oldest' = Oldest
  BY <1>1 DEF Newest, Middle, Oldest, Past
<1>4. /\ PcSel' = PcSel /\ Fetching' = Fetching /\ Waited' = Waited /\ Elapsed' = Elapsed
      /\ Between' = Between /\ Bubbles(Newest)' = Bubbles(Newest)
  BY <1>1, <1>2, <1>3, StableWires
     DEF Fetching, Waited, Elapsed, Live, Between, Past, Bubbles
<1>5. HistoryTypes'
  BY <1>1, <1>3 DEF HazardsInv, HistoryTypes
<1>6. ASSUME ~loopError
      PROVE  InOrder' /\ WaitsForNewest' /\ WritersInHistory' /\ LoadsInFront'
  <2>1. /\ HistoryTypes /\ InOrder /\ WaitsForNewest /\ WritersInHistory /\ LoadsInFront
        /\ LockTypes
    BY <1>6 DEF HazardsInv, LockInv
  <2>2. PICK n \in {0, 1} : n = 0
    OBVIOUS
  <2>3. cycle \in Nat /\ Elapsed \in Nat
    BY DEF TrackTypeOK, Elapsed
  <2>4. cycle' = cycle + n /\ (Fetching' => Fetching /\ Elapsed' = Elapsed + n)
    BY <1>2, <1>4, <2>2, <2>3
  <2>5. oracle' = oracle
    BY <1>2
  <2>6. WritersInHistory' /\ LoadsInFront'
    BY <1>3, <2>1, <2>3, <2>4, <2>5, TableStays
  <2>7. InOrder' /\ WaitsForNewest'
    BY <1>2, <1>3, <1>4, <2>1 DEF InOrder, WaitsForNewest, IsNewest, Live
  <2> QED BY <2>6, <2>7
<1>7. AwaitingFollows'
  BY <1>1, <1>2 DEF HazardsInv, AwaitingFollows, Follows, Live
<1>8. ProducersAgree'
  BY <1>1 DEF HazardsInv, ProducersAgree
<1>9. RejectionsExplained'
  BY <1>1, <1>2, <1>4 DEF HazardsInv, RejectionsExplained, ReadsAcross
<1>10. ASSUME RedirectBubbles = 2, RetireLatencyCycles = 3
       PROVE  Timing'
  <2>1. Timing
    BY <1>10 DEF HazardsInv
  <2>2. KeepsUp => KeepsUp'
    BY <1>1, <1>2, <1>4 DEF KeepsUp
  <2>3. (~misled => \A id \in DOMAIN awaiting : IsTimed(awaiting[id]))'
    BY <1>1, <2>1 DEF Timing, IsTimed
  <2>4. TimingExplained'
    BY <1>1, <2>1 DEF Timing, TimingExplained, UnusedForward
  <2> QED BY <1>2, <2>1, <2>2, <2>3, <2>4 DEF Timing
<1> QED BY <1>1, <1>2, <1>5, <1>6, <1>7, <1>8, <1>9, <1>10 DEF HazardsInv

\* Every step keeps it.
LEMMA HazardsStepInv ==
    ASSUME TrackTypeOK, TrackInv, LockInv, HazardsInv, [L1Next]_l1Vars
    PROVE  HazardsInv'
<1>1. CASE L1FallingEdge
  BY <1>1, HazardsFallingInv
<1>2. ASSUME NEW i \in Fetchable \cup {NoInstr}, L1RisingEdge(i)
      PROVE  HazardsInv'
  <2>1. CASE ~Accepts \/ loopError'
    BY <1>2, <2>1, HazardsBubbleInv
  <2>2. CASE Accepts /\ ~loopError'
    BY <1>2, <2>2, HazardsAcceptInv
  <2> QED BY <2>1, <2>2
<1>3. CASE UNCHANGED l1Vars
  BY <1>3, HazardsStutterInv
<1> QED BY <1>1, <1>2, <1>3 DEF L1Next

\* The classifier's history, the oracle's table and clock, and the hardware's stages
\* correspond, for every program and from every acceptance to the next.
THEOREM HazardsInvariantHolds == L1Spec => []HazardsInv
<1>1. L1Init => HazardsInv
  BY HazardsInitInv
<1>2. TrackTypeOK /\ TrackInv /\ LockInv /\ HazardsInv /\ [L1Next]_l1Vars => HazardsInv'
  BY HazardsStepInv
<1> QED BY <1>1, <1>2, LoopInv, PTL DEF L1Spec

-----------------------------------------------------------------------------
(* What follows from it.                                                    *)

\* ProducersAgree: the classifier and the oracle name the same producers for every hit,
\* and observe never raises on the order of its events.
THEOREM ProducersAlwaysAgree == L1Spec => []ProducersAgree
<1>1. HazardsInv => ProducersAgree
  BY DEF HazardsInv
<1> QED BY <1>1, HazardsInvariantHolds, PTL

\* RejectionsExplained: the control check rejects a hit in the listed cases and in no
\* other, for every value of the latency constants.
THEOREM RejectionsAreExplained == L1Spec => []RejectionsExplained
<1>1. HazardsInv => RejectionsExplained
  BY DEF HazardsInv
<1> QED BY <1>1, HazardsInvariantHolds, PTL

\* TimingExplained: with the source's constants, the correlation fails on timing for a
\* false stall or an unused field, and for nothing else.
THEOREM TimingIsExplained ==
    ASSUME RedirectBubbles = 2, RetireLatencyCycles = 3
    PROVE  L1Spec => []TimingExplained
<1>1. HazardsInv => TimingExplained
  BY DEF HazardsInv, Timing
<1> QED BY <1>1, HazardsInvariantHolds, PTL

\* What the oracle has expected of the next acceptance, the interlock does.
LEMMA InterlockStep ==
    ASSUME TrackTypeOK, TrackInv, LockInv, HazardsInv, L1Next
    PROVE  falseStalls' >= falseStalls
<1>1. LockTypes /\ RetainsOnlyInFlight /\ WritersAreYoungest /\ HistoryTypes /\ falseStalls \in Nat
  BY DEF LockInv, HazardsInv
<1>2. CASE L1FallingEdge
  <2>1. falseStalls' = falseStalls
    BY <1>1, <1>2, LockFallingEffect DEF L1FallingEdge
  <2> QED BY <1>1, <2>1
<1>3. ASSUME NEW i \in Fetchable \cup {NoInstr}, L1RisingEdge(i)
      PROVE  falseStalls' >= falseStalls
  <2>1. LockRisingEdge(i) /\ ~loopError
    BY <1>1, <1>3, LockRisingEffect DEF L1RisingEdge
  <2>2. CASE ~Accepts
    <3>1. falseStalls' = falseStalls
      BY <1>1, <2>1, <2>2, LockRisingEffect
    <3> QED BY <1>1, <3>1
  <2>3. CASE Accepts /\ loopError'
    <3>1. Accept(event')
      BY <1>1, <2>1, <2>3, LockRisingEffect
    <3>2. event'.pc # gold.pc
      BY <2>1, <2>3, <3>1, AcceptEffect
    <3>3. falseStalls' = falseStalls
      BY <3>1, <3>2, RejectEffect
    <3> QED BY <1>1, <3>3
  <2>4. CASE Accepts /\ ~loopError'
    <3>1. InOrder /\ WaitsForNewest /\ WritersInHistory /\ LoadsInFront
      BY <2>1 DEF HazardsInv
    <3>2. SeenBy(event', expectation')
      BY <1>1, <1>3, <2>4, <3>1, AcceptSeen
    <3>3. falseStalls' = falseStalls + (event'.stalls - expectation'.stalls)
      BY <1>1, <1>3, <2>4, <3>1, FalseStallsGrow
    <3>4. PICK e, x, f : e = event' /\ x = expectation' /\ f = falseStalls
      OBVIOUS
    <3>5. e.stalls \in {0, 1} /\ x.stalls \in {0, 1} /\ x.stalls <= e.stalls
      BY <3>2, <3>4, OracleStallsLess DEF SeenBy
    <3>6. PICK t \in Int, y \in Int : t = e.stalls /\ y = x.stalls /\ y <= t
      BY <3>5
    <3>7. f \in Nat /\ f + (t - y) >= f
      BY <1>1, <3>4, <3>6
    <3> QED BY <3>3, <3>4, <3>6, <3>7
  <2> QED BY <2>2, <2>3, <2>4
<1> QED BY <1>2, <1>3 DEF L1Next

\* The interlock stalls at every acceptance at least as long as the oracle expects, for
\* every program and also after a defect: no load-use dependence slips through.
THEOREM InterlockCoversOracle == L1Spec => [][falseStalls' >= falseStalls]_l1Vars
<1>1. TrackTypeOK /\ TrackInv /\ LockInv /\ HazardsInv /\ [L1Next]_l1Vars =>
        [falseStalls' >= falseStalls]_l1Vars
  BY InterlockStep
<1> QED BY <1>1, LoopInv, HazardsInvariantHolds, PTL DEF L1Spec
=============================================================================
