----------------------------- MODULE L1Hazards -----------------------------
(***************************************************************************)
(* L1 coverage: twenty hazard scenarios, H01 to H20.  At each acceptance   *)
(* L1CoverageCollector classifies the instruction against the three before *)
(* it, and L1ControlRealizationChecker compares the stall and forwarding   *)
(* that the DUT really did with the frozen row of the scenario.  At the    *)
(* retirement correlate_hazard compares the same observation with the      *)
(* timing oracle, and the classifier's producers with the oracle's.        *)
(*                                                                         *)
(* Three views of one dependence are thus held against each other: program *)
(* distance, the oracle's cycles, and the hardware's.                      *)
(***************************************************************************)
EXTENDS GoldenLockstep, Sequences

VARIABLES
    history,      \* L1CoverageCollector._history: the last three events
    awaiting,     \* id -> hits_by_consumer with the timing_observation and expectation
    controls,     \* ControlRealizationResults of this acceptance
    attributions, \* HazardAttributions of this retirement
    orderError,   \* _check_instruction_order raised
    misled        \* ghost: a wrong operand has turned a branch of the DUT

l1Vars == <<lockVars, history, awaiting, controls, attributions, orderError, misled>>

L1Init ==
    /\ LockInit
    /\ history = <<>> /\ awaiting = NoEntries
    /\ controls = {} /\ attributions = {}
    /\ orderError = FALSE /\ misled = FALSE

-----------------------------------------------------------------------------
(* decode_instruction: what an operation produces, and how it reads.        *)

AluOps == {"ADD", "ADDI"}
LinkOps == {"JAL", "JALR"}
Rs1OnlyOps == {"LW", "ADDI", "JALR"}
Rs1Rs2Ops == {"ADD", "SW"} \cup BranchOps

-----------------------------------------------------------------------------
(* L1CoverageCollector.                                                     *)

\* The rows of one producer: distance in executed instructions, the producer's
\* and the consumer's operations, and the roles in which it must be read.
Row(d, producers, consumers, roles) ==
    [d |-> d, producers |-> producers, consumers |-> consumers, roles |-> roles]

Rows ==
    [H01 |-> Row(1, AluOps, Rs1OnlyOps, {"RS1"}),
     H02 |-> Row(1, AluOps, Rs1Rs2Ops, {"RS2"}),
     H03 |-> Row(2, AluOps, Rs1OnlyOps, {"RS1"}),
     H04 |-> Row(2, AluOps, Rs1Rs2Ops, {"RS2"}),
     H05 |-> Row(3, Op, Op, {"RS1", "RS2"}),
     H06 |-> Row(1, {"LW"}, Rs1OnlyOps, {"RS1"}),
     H07 |-> Row(1, {"LW"}, Rs1Rs2Ops, {"RS2"}),
     H08 |-> Row(2, {"LW"}, Rs1OnlyOps, {"RS1"}),
     H09 |-> Row(2, {"LW"}, Rs1Rs2Ops, {"RS2"}),
     H11 |-> Row(1, {"LUI"}, Op, {"RS1"}),
     H12 |-> Row(2, {"LUI"}, Op, {"RS1"}),
     H13 |-> Row(1, {"AUIPC"}, Op, {"RS1"}),
     H14 |-> Row(2, {"AUIPC"}, Op, {"RS1"}),
     H15 |-> Row(1, LinkOps, Op, {"RS1", "RS2"}),
     H16 |-> Row(1, AluOps, {"SW"}, {"RS2"})]

NoPast == [id |-> 0, op |-> "NONE", rd |-> 0, stalls |-> 0, redirects |-> FALSE]

\* _producer_at_distance
Past(d) == IF d <= Len(history) THEN history[Len(history) + 1 - d] ELSE NoPast

\* _is_positive_producer
Positive(p) == WritesRd(p.op) /\ p.rd # 0

\* _used_source_roles
UsedRoles(i, r) ==
    {role \in {"RS1", "RS2"} :
        IF role = "RS1" THEN UsesRs1(i.op) /\ i.rs1 = r
        ELSE UsesRs2(i.op) /\ i.rs2 = r}

\* Fault: a producer that a younger one shadows still counts.
NearestOrShadowed(d) == Positive(Past(d))

\* _is_nearest_writer
Nearest(d) ==
    /\ Positive(Past(d))
    /\ \A k \in 1 .. d - 1 : ~(Positive(Past(k)) /\ Past(k).rd = Past(d).rd)

When(condition, hits) == IF condition THEN hits ELSE {}

Hit(bin, consumer, producers, roles) ==
    [bin |-> bin, consumer |-> consumer, producers |-> producers, roles |-> roles]

RowHits(e) ==
    {Hit(bin, e.id, {Past(Rows[bin].d).id},
         UsedRoles(e.instr, Past(Rows[bin].d).rd) \cap Rows[bin].roles) :
        bin \in {b \in DOMAIN Rows :
                    /\ Nearest(Rows[b].d)
                    /\ Past(Rows[b].d).op \in Rows[b].producers
                    /\ e.instr.op \in Rows[b].consumers
                    /\ UsedRoles(e.instr, Past(Rows[b].d).rd) \cap Rows[b].roles # {}}}

\* H10: both operands come from the two ALU instructions in front, either way round.
DualHits(e) ==
    LET p1 == Past(1)
        p2 == Past(2)
        i == e.instr
    IN  When(/\ Positive(p1) /\ Positive(p2)
             /\ p1.op \in AluOps /\ p2.op \in AluOps /\ p1.rd # p2.rd
             /\ i.op \in Rs1Rs2Ops /\ {i.rs1, i.rs2} = {p1.rd, p2.rd},
             {Hit("H10", e.id, {p1.id, p2.id}, {"RS1", "RS2"})})

\* H17: both wrote the register that is read.
ShadowHits(e) ==
    LET p1 == Past(1)
        p2 == Past(2)
        roles == UsedRoles(e.instr, p1.rd)
    IN  When(Positive(p1) /\ Positive(p2) /\ p1.rd = p2.rd /\ roles # {},
             {Hit("H17", e.id, {p1.id, p2.id}, roles)})

\* H18, H19: a write to x0 in front of a read of x0.  H20: a load whose register
\* is named by raw bits that are no operand.
NegativeHits(e) ==
    LET p == Past(1)
        i == e.instr
        WritesX0 == WritesRd(p.op) /\ p.rd = 0 /\ UsedRoles(i, 0) # {}
        RawOnly == /\ p.op = "LW" /\ Positive(p)
                   /\ ~UsesRs2(i.op) /\ i.rs2 = p.rd /\ UsedRoles(i, p.rd) = {}
    IN  When(WritesX0, {Hit("H18", e.id, {p.id}, UsedRoles(i, 0))})
        \cup When(WritesX0 /\ p.op = "LW", {Hit("H19", e.id, {p.id}, UsedRoles(i, 0))})
        \cup When(RawOnly, {Hit("H20", e.id, {p.id}, {})})

Classify(e) == RowHits(e) \cup DualHits(e) \cup ShadowHits(e) \cup NegativeHits(e)

\* The end of observe: the deque keeps three events.
Remember(e) ==
    LET past == [id |-> e.id, op |-> e.instr.op, rd |-> e.instr.rd, stalls |-> e.stalls,
                 redirects |-> PcSel']
        all == Append(history, past)
    IN  SubSeq(all, IF Len(all) > 3 THEN 2 ELSE 1, Len(all))

-----------------------------------------------------------------------------
(* L1ControlRealizationChecker.check, on the event of the consumer.         *)

ForwardOf(e, role) == IF role = "RS1" THEN e.fa ELSE e.fb
RegOf(e, role) == IF role = "RS1" THEN e.instr.rs1 ELSE e.instr.rs2

\* _STALL_EXPECTED
StallExpected(bin) == IF bin \in {"H06", "H07"} THEN 1 ELSE 0

\* Fault: in a pair the older producer is expected at EX/MEM.
ForwardExpectedSwapped(hit, e, role) ==
    CASE hit.bin \in {"H01", "H02", "H11", "H13", "H16", "H17"} -> "EX_MEM"
      [] hit.bin \in {"H05", "H15", "H18"}                     -> "RF"
      [] hit.bin = "H10" -> IF RegOf(e, role) = Past(2).rd THEN "EX_MEM" ELSE "MEM_WB"
      [] OTHER                                                 -> "MEM_WB"

\* _FIXED_FORWARD and the rows that depend on the role.
ForwardExpected(hit, e, role) ==
    CASE hit.bin \in {"H01", "H02", "H11", "H13", "H16", "H17"} -> "EX_MEM"
      [] hit.bin \in {"H05", "H15", "H18"}                     -> "RF"
      [] hit.bin = "H10" -> IF RegOf(e, role) = Past(1).rd THEN "EX_MEM" ELSE "MEM_WB"
      [] OTHER                                                 -> "MEM_WB"

ControlPassed(hit, e) ==
    /\ e.stalls = StallExpected(hit.bin)
    /\ hit.bin \notin {"H19", "H20"} =>
          \A role \in hit.roles : ForwardOf(e, role) = ForwardExpected(hit, e, role)

-----------------------------------------------------------------------------
(* correlate_hazard.                                                        *)

\* The AttributionChecks of timing that fail.
FailedChecks(o, x, retireCycle) ==
    {c \in {"accept_cycle", "stalls", "forward_a", "forward_b", "retire_cycle"} :
        CASE c = "accept_cycle" -> o.cycle # x.accept
          [] c = "stalls"       -> o.stalls # x.stalls
          [] c = "forward_a"    -> o.fa # x.fa
          [] c = "forward_b"    -> o.fb # x.fb
          [] c = "retire_cycle" -> retireCycle # x.accept + RetireLatencyCycles}

ProducerIn(x, role) == IF role = "RS1" THEN x.a.id ELSE x.b.id
NewestOf(ids) == CHOOSE id \in ids : \A k \in ids : k <= id

\* The AttributionChecks of producer identity; 0 is None.
ProducersMatch(hit, x) ==
    CASE hit.bin \in {"H18", "H19"} -> \A role \in hit.roles : ProducerIn(x, role) = 0
      [] hit.bin = "H20" -> x.b.id = 0
      [] hit.bin = "H10" -> hit.producers = {x.a.id, x.b.id} \ {0}
      [] hit.bin = "H17" -> \A role \in hit.roles :
                               ProducerIn(x, role) = NewestOf(hit.producers)
      [] OTHER -> \A role \in hit.roles : ProducerIn(x, role) \in hit.producers

Correlate(hit, w, retireCycle) ==
    [hit |-> hit, op |-> w.o.instr.op, fa |-> w.o.fa, fb |-> w.o.fb,
     failed |-> FailedChecks(w.o, w.x, retireCycle),
     producers |-> ProducersMatch(hit, w.x), falseStalls |-> w.falseStalls]

-----------------------------------------------------------------------------
(* The two halves of the live loop.                                         *)

\* At the retirement of a consumer, its hits are popped and correlated.
L1FallingEdge ==
    /\ LockFallingEdge
    /\ controls' = {}
    /\ LET id == retired'.tag.id IN
       IF loopError' \/ id \notin DOMAIN awaiting
       THEN attributions' = {} /\ UNCHANGED awaiting
       ELSE /\ attributions' = {Correlate(h, awaiting[id], cycle) : h \in awaiting[id].hits}
            /\ awaiting' = Without(awaiting, id)
    /\ UNCHANGED <<history, orderError, misled>>

\* At an acceptance, after the golden step: observe, check.
L1Accept(e) ==
    LET hits == Classify(e) IN
    /\ orderError' = (e.id # Past(1).id + 1)
    /\ history' = Remember(e)
    /\ misled' = (misled \/ (PcSel' # (e.instr.op \in LinkOps \/ BranchTaken(gold, e.instr))))
    /\ controls' = {[hit |-> h, passed |-> ControlPassed(h, e)] : h \in hits}
    /\ awaiting' = IF hits = {} THEN awaiting
                   ELSE With(awaiting, e.id, [hits |-> hits, o |-> e, x |-> expectation',
                                              falseStalls |-> falseStalls'])

L1RisingEdge(i) ==
    /\ ~orderError
    /\ LockRisingEdge(i)
    /\ attributions' = {}
    /\ IF event' = NoEvent \/ loopError'
       THEN controls' = {} /\ UNCHANGED <<history, awaiting, orderError, misled>>
       ELSE L1Accept(event')

L1Next ==
    \/ L1FallingEdge
    \/ \E i \in Fetchable \cup {NoInstr} : L1RisingEdge(i)

L1Spec == L1Init /\ [][L1Next]_l1Vars

-----------------------------------------------------------------------------
(* What the three views must agree on.                                      *)

\* The classifier looks back three instructions and has no writer table; the
\* oracle has one and no history.  They name the same producers for every hit:
\* correlate_hazard never fails on an identity, and observe never raises.
ProducersAgree == ~orderError /\ \A a \in attributions : a.producers

\* The control check knows distances and not cycles.  It rejects a hit whose
\* forwarding was right in exactly these cases: a false stall of the consumer, a
\* true stall for another operand than the row's, an instruction in between that
\* came late (its own stall, or the bubbles it caused), and a link shadowing an
\* older writer.  In all others the frozen DUT passes every row, also those whose
\* value it gets wrong (H11, H13).
ReadsAcross(bin) == bin \in {"H03", "H04", "H08", "H09", "H10", "H12", "H14"}
Between == Past(2)

RejectionsExplained ==
    \A c \in controls :
        c.passed <=>
            /\ event.stalls = expectation.stalls
            /\ expectation.stalls = 1 => c.hit.bin \in {"H06", "H07"}
            /\ ReadsAcross(c.hit.bin) => Between.stalls = 0 /\ ~Between.redirects
            /\ c.hit.bin = "H17" => Between.op \notin LinkOps

\* correlate_hazard compares absolute cycles and all forwarding selects.  Unless a
\* wrong value has turned a branch, a hit fails its timing exactly when a false stall
\* happened before it, whatever it belonged to, or a field that is no operand matched
\* a destination in flight: values alone, right or wrong, never decide it.
UnusedForward(a) ==
    \/ ~UsesRs1(a.op) /\ a.fa # "RF"
    \/ ~UsesRs2(a.op) /\ a.fb # "RF"

TimingExplained ==
    ~misled => \A a \in attributions :
        (a.failed # {}) <=> (a.falseStalls # 0 \/ UnusedForward(a))
=============================================================================
