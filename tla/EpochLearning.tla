---------------------------- MODULE EpochLearning ----------------------------
(***************************************************************************)
(* What an adaptive campaign learns from (week10).  For each epoch the     *)
(* decision engine picks an arm, the register policy the L2 bins it aims   *)
(* at, and the template realizer the words whose dependences are to hit    *)
(* them; every intended dependence is registered as a witness.  Accepted   *)
(* instructions turn into L2 hits by what they really read and wrote.  A   *)
(* hit that is a witness's is attributed to the arm; when the epoch ends,  *)
(* the attributed bins that are new become its reward.                     *)
(*                                                                         *)
(* Words are their register operands.  The ring, the instruction memory    *)
(* and the fetch are CampaignStream's; here entries are laid out at any    *)
(* time and accepted in order.                                             *)
(***************************************************************************)
EXTENDS Integers, Sequences, FiniteSets, FiniteSetsExt

CONSTANTS
    NReg,           \* POSITIVE_REGISTERS is 1 .. NReg (31 in the code)
    Arms,           \* the ArmIDs in use
    Configs,        \* campaign configurations: [nominal, budget, explores]
    Interval,       \* checkpoint_interval
    AlphaTenths,    \* alpha, in tenths
    QFloor,         \* q_floor
    Ahead           \* bound: words laid out and not yet accepted

Registers == 1 .. NReg
L2Bins == {1, 2} \X Registers             \* <<distance, register>>

D1Arms == {"A0", "A2", "A5", "A7", "A8", "A9"}
D2Arms == {"A1", "A3", "A6"}
ArmIDs == D1Arms \cup D2Arms \cup {"A4"}

\* The target, the destination of its consumer and a structural filler differ.
ASSUME NRegAssumption == NReg \in Nat /\ NReg >= 3
ASSUME LearningArmsAssumption == Arms \subseteq ArmIDs /\ Arms # {}
ASSUME ConfigsAssumption ==
    Configs \subseteq [nominal : Nat \ {0}, budget : Nat \ {0}, explores : BOOLEAN]
ASSUME EngineAssumption ==
    AlphaTenths \in 0 .. 10 /\ QFloor \in Nat /\ Interval \in Nat \ {0} /\ Ahead \in Nat

VARIABLES
    config,        \* ProductionCampaignConfig; explores is epsilon > 0
    plan,          \* AdaptiveEpochStreamPlanner and CampaignFillerScheduler
    stream,        \* words laid out and not yet accepted
    accepted,      \* window.accepted_count
    witnesses,     \* AttributionRegistry
    lastWriter,    \* L2CoverageCollector._last_writer; 0 is None
    intentFirst,   \* bin -> instruction of intent_first; 0: not seen
    engine,        \* BanditDecisionEngine: [epoch, q]
    epoch,         \* AdaptiveEpochCoordinator._active
    bridge,        \* CheckpointTelemetryBridge._active_epoch_index
    loop,          \* accepted_before_epoch and current_planned_executed
    records,       \* EpochTelemetryRecords
    checkpoints,   \* CampaignCheckpointRecords
    status         \* "run", "stopped" or "raised"

vars == <<config, plan, stream, accepted, witnesses, lastWriter, intentFirst, engine,
          epoch, bridge, loop, records, checkpoints, status>>

NoEpoch == [index |-> -1]
None == 0                              \* current_planned_executed is None

-----------------------------------------------------------------------------
(* RegisterTargetPolicy: a target is the set of bins attribution_targets_for *)
(* makes of it.                                                             *)

Pairs == {p \in Registers \X Registers : p[1] # p[2]}

LegalTargets(arm) ==
    CASE arm \in D1Arms -> {{<<1, r>>} : r \in Registers}
      [] arm \in D2Arms -> {{<<2, r>>} : r \in Registers}
      [] OTHER -> {{<<1, p[1]>>, <<2, p[2]>>} : p \in Pairs}

\* Fault: targets are drawn from all registers.
SelectAny(arm, covered) == LegalTargets(arm)

\* select: uncovered first; the best pairs of A4 are those that score highest.
Select(arm, covered) ==
    {t \in LegalTargets(arm) :
        \A u \in LegalTargets(arm) : Cardinality(u \ covered) <= Cardinality(t \ covered)}

-----------------------------------------------------------------------------
(* TemplateRealizer and filler_policy.                                      *)

\* Fault: x1 always.
LowestUnprotected(protected) == Min(Registers)

\* _positive_auxiliary_register, select_auxiliary_register
Lowest(protected) == Min(Registers \ protected)

Writes(r) == [rd |-> r, reads |-> {}]
RegistersOf(target) == {b[2] : b \in target}
RegisterAt(target, d) == CHOOSE r \in Registers : <<d, r>> \in target

EBD == [rd |-> 0, reads |-> {}]                 \* bne x0,x0
BackgroundFiller(target) == Writes(Lowest(RegistersOf(target)))

Consumer(target) == [rd |-> Lowest(RegistersOf(target)), reads |-> RegistersOf(target)]

\* The executed words of the templates.  RS1 and RS2 variants, LUI and AUIPC, JAL and
\* JALR only differ in what is not modelled.
PairBody(target) == <<Writes(Min(RegistersOf(target))), Consumer(target)>>

\* With _structural_filler in between, which spares target and destination.
SpacedBody(target) ==
    LET filler == Lowest(RegistersOf(target) \cup {Consumer(target).rd})
    IN  <<Writes(Min(RegistersOf(target))), Writes(filler), Consumer(target)>>

DualBody(target) ==
    <<Writes(RegisterAt(target, 2)), Writes(RegisterAt(target, 1)), Consumer(target)>>

StoreBody(target) ==
    <<Writes(Min(RegistersOf(target))), [rd |-> 0, reads |-> RegistersOf(target)]>>

PriorityBody(target) ==
    <<Writes(Min(RegistersOf(target))), Writes(Min(RegistersOf(target))), Consumer(target)>>

\* realize
Body(arm, target) ==
    CASE arm \in D2Arms -> SpacedBody(target)
      [] arm = "A4"     -> DualBody(target)
      [] arm = "A8"     -> StoreBody(target)
      [] arm = "A9"     -> PriorityBody(target)
      [] OTHER          -> PairBody(target)

\* The two words a link flushes are in the image.
ImageWords(arm, target) == Len(Body(arm, target)) + (IF arm = "A7" THEN 2 ELSE 0)

\* schedule_after_template
FillersDue(p) == (p.targeted + ImageWords(epoch.arm, epoch.targets)) \div 4 - p.fillers

\* build_next_block
Block(p) ==
    Body(epoch.arm, epoch.targets)
        \o [k \in 1 .. FillersDue(p) |-> BackgroundFiller(epoch.targets)]

\* build_template_witnesses: the consumer is the template's last executed word.
WitnessesOf(first) ==
    LET last == first + Len(Body(epoch.arm, epoch.targets)) - 1
    IN  {[bin |-> b, producer |-> last - b[1], consumer |-> last] : b \in epoch.targets}

-----------------------------------------------------------------------------
(* BanditDecisionEngine, in whole units of reward (the code has floats).    *)

MaxQ(e) == Max({e.q[a] : a \in Arms})

\* select_arm
Candidates(e) ==
    IF (e.epoch > 0 /\ MaxQ(e) <= QFloor) \/ config.explores THEN Arms
    ELSE {a \in Arms : e.q[a] = MaxQ(e)}

\* update
Update(e, arm, reward) ==
    [epoch |-> e.epoch + 1,
     q |-> [e.q EXCEPT ![arm] = (10 * @ + AlphaTenths * (reward - @)) \div 10]]

-----------------------------------------------------------------------------
(* AdaptiveEpochCoordinator and EpochRewardTracker.                         *)

Covered(first) == {b \in L2Bins : first[b] # 0}

\* Fault: the hits of the instruction that ends an epoch are not in it yet.
SnapshotEarly(first) == {b \in L2Bins : first[b] \notin {0, accepted'}}

\* _snapshot_global_intent
Snapshot(first) == Covered(first)

\* begin_epoch: the EpochStarts the random choices allow.
Begins(e, covered) ==
    UNION {{[index |-> e.epoch, arm |-> a, targets |-> t, start |-> covered,
             observed |-> {}, attributed |-> {}] : t \in Select(a, covered)} :
           a \in Candidates(e)}

\* finalize
GlobalNew(e) == e.observed \ e.start
AttributableNew(e) == (e.attributed \ e.start) \cap e.targets
Reward(e, actual) == (1000 * Cardinality(AttributableNew(e))) \div actual

\* record_epoch; whole: the epoch ran to its planned end.
Closed == IF records = <<>> THEN 0 ELSE records[Len(records)].last
RecordOf(e, actual, whole) ==
    [arm |-> e.arm, targets |-> e.targets, start |-> e.start, new |-> AttributableNew(e),
     globalNew |-> GlobalNew(e),
     first |-> Closed + 1, last |-> Closed + actual, whole |-> whole]

-----------------------------------------------------------------------------
(* The loop.  Laying out entries touches only what is not yet accepted.     *)

PlanComplete(p) == p.planned >= config.nominal

\* build_next_block, patched and registered: another block until the plan is complete.
\* A nominal size of one is reached by the delimiter, and no template is laid out then.
PlanBlock ==
    /\ status = "run" /\ plan.active /\ ~PlanComplete(plan)
    /\ Len(stream) + Len(Block(plan)) < Ahead
    /\ plan' = [plan EXCEPT !.inst = @ + Len(Block(plan)),
                            !.planned = @ + Len(Block(plan)),
                            !.targeted = @ + ImageWords(epoch.arm, epoch.targets),
                            !.fillers = @ + FillersDue(plan)]
    /\ stream' = stream \o Block(plan)
    /\ witnesses' = witnesses \cup WitnessesOf(plan.inst)
    /\ status' = IF WitnessesOf(plan.inst) \cap witnesses # {} THEN "raised" ELSE "run"
    /\ UNCHANGED <<config, accepted, lastWriter, intentFirst, engine, epoch, bridge, loop,
                   records, checkpoints>>

\* close_planning_epoch: from here on the loop knows where the epoch ends.
ClosePlan(p) ==
    /\ status = "run" /\ plan.active /\ PlanComplete(plan)
    /\ plan' = [p EXCEPT !.active = FALSE]
    /\ loop' = [loop EXCEPT !.planned = plan.planned]
    /\ status' = IF loop.planned # None THEN "raised" ELSE "run"
    /\ UNCHANGED <<config, accepted, witnesses, lastWriter, intentFirst, engine, epoch, bridge,
                   records, checkpoints>>

\* The next EBD, unless it would lie beyond the budget.
PlanBoundary ==
    /\ plan.inst <= config.budget /\ ~plan.boundary
    /\ ClosePlan([plan EXCEPT !.inst = @ + 1, !.boundary = TRUE])
    /\ stream' = Append(stream, EBD)

\* No epoch can begin any more.
PlanLast ==
    /\ plan.inst > config.budget
    /\ ClosePlan(plan)
    /\ stream' = stream

\* The clock is held from the completion of a plan until it is closed: the room for
\* the EBD is reserved with that for the block.
ClockRuns == status = "run" /\ ~(plan.active /\ PlanComplete(plan))

Word == Head(stream)
Id == accepted + 1

\* L2CoverageCollector.observe
Hits ==
    {[bin |-> <<Id - lastWriter[r], r>>, producer |-> lastWriter[r], consumer |-> Id] :
        r \in {x \in Word.reads : lastWriter[x] # 0 /\ Id - lastWriter[x] <= 2}}
HitBins == {h.bin : h \in Hits}

\* register_l2_hit: every hit is observed, that of a witness is attributed.
EpochAfterHits ==
    [epoch EXCEPT !.observed = @ \cup HitBins,
                  !.attributed = @ \cup {h.bin : h \in Hits \cap witnesses}]
HitRaises ==
    Hits # {} /\ (epoch = NoEpoch \/ \E h \in Hits \cap witnesses : h.bin \notin epoch.targets)

\* consume_match, then prune of what has no future consumer, without a word.
WitnessesAfter == {w \in witnesses \ Hits : w.consumer > Id}

\* Fault: the instruction is recorded before it is observed.
CheckpointBefore == [at |-> Id, intents |-> Cardinality(Covered(intentFirst)), epoch |-> bridge]

\* _emit_checkpoint, from record_instruction, after every observer of the instruction.
Checkpoint == [at |-> Id, intents |-> Cardinality(Covered(intentFirst')), epoch |-> bridge]

\* complete_post_instruction_cut
Cut ==
    /\ accepted' = Id
    /\ stream' = Tail(stream)
    /\ intentFirst' = [b \in L2Bins |-> IF b \in HitBins /\ intentFirst[b] = 0
                                        THEN Id ELSE intentFirst[b]]
    /\ lastWriter' = [r \in Registers |-> IF r = Word.rd THEN Id ELSE lastWriter[r]]
    /\ checkpoints' = IF Id % Interval = 0 THEN Append(checkpoints, Checkpoint) ELSE checkpoints
    /\ config' = config

CutRaises == HitRaises \/ (Id % Interval = 0 /\ bridge = -1)

EpochExecuted == Id - loop.before              \* accepted_this_epoch
AtBudget == Id = config.budget
EpochEnds == loop.planned # None /\ EpochExecuted = loop.planned

Accept ==
    /\ ClockRuns /\ stream # <<>> /\ ~AtBudget /\ ~EpochEnds
    /\ Cut
    /\ witnesses' = WitnessesAfter
    /\ epoch' = EpochAfterHits
    /\ status' = IF CutRaises THEN "raised" ELSE "run"
    /\ UNCHANGED <<plan, engine, bridge, loop, records>>

\* finish_epoch of the coordinator and of the bridge, record_epoch.
Finish(whole) ==
    /\ records' = Append(records, RecordOf(EpochAfterHits, EpochExecuted, whole))
    /\ engine' = Update(engine, epoch.arm, Reward(EpochAfterHits, EpochExecuted))

FinishRaises(pending) ==
    \/ epoch = NoEpoch \/ pending # {} \/ EpochExecuted <= 0
    \/ bridge # epoch.index \/ epoch.index # Len(records)

\* The epoch is over; the next one begins at once, its EBD already fetched.
AcceptEpochEnd ==
    /\ ClockRuns /\ stream # <<>> /\ ~AtBudget /\ EpochEnds
    /\ Cut
    /\ witnesses' = WitnessesAfter
    /\ Finish(TRUE)
    /\ epoch' \in Begins(engine', Snapshot(intentFirst'))
    /\ bridge' = epoch'.index
    /\ plan' = [plan EXCEPT !.active = TRUE, !.planned = 1, !.boundary = FALSE]
    /\ loop' = [before |-> Id, planned |-> None]
    /\ status' = IF CutRaises \/ FinishRaises(WitnessesAfter) \/ ~plan.boundary \/ plan.active
                 THEN "raised" ELSE "run"

\* Fault: the suffix that is never executed keeps its witnesses.
FutureKept(pending) == pending

\* discard_future_after
FutureDiscarded(pending) == {}

\* The hard cap: the suffix is discarded, the last epoch closed, the run summarised.
AcceptBudget ==
    /\ ClockRuns /\ stream # <<>> /\ AtBudget
    /\ Cut
    /\ witnesses' = FutureDiscarded(WitnessesAfter)
    /\ Finish(EpochEnds)
    /\ epoch' = NoEpoch /\ bridge' = -1
    /\ plan' = [plan EXCEPT !.active = FALSE, !.planned = 0, !.boundary = FALSE]
    /\ loop' = loop
    /\ status' = IF \/ CutRaises \/ FinishRaises(witnesses')
                    \/ records'[Len(records')].last # Id \/ engine'.epoch # Len(records')
                 THEN "raised" ELSE "stopped"

Finished == status # "run" /\ UNCHANGED vars

-----------------------------------------------------------------------------
FreshEngine == [epoch |-> 0, q |-> [a \in Arms |-> 0]]

\* Epoch 0 has begun, EBD_0 is laid out.
Init ==
    /\ config \in Configs
    /\ plan = [active |-> TRUE, planned |-> 1, inst |-> 2, targeted |-> 0, fillers |-> 0,
               boundary |-> FALSE]
    /\ stream = <<EBD>>
    /\ accepted = 0 /\ witnesses = {}
    /\ lastWriter = [r \in Registers |-> 0]
    /\ intentFirst = [b \in L2Bins |-> 0]
    /\ engine = FreshEngine
    /\ epoch \in Begins(FreshEngine, {})
    /\ bridge = 0
    /\ loop = [before |-> 0, planned |-> None]
    /\ records = <<>> /\ checkpoints = <<>>
    /\ status = "run"

Next ==
    \/ PlanBlock \/ PlanBoundary \/ PlanLast
    \/ Accept \/ AcceptEpochEnd \/ AcceptBudget
    \/ Finished

LearningSpec == Init /\ [][Next]_vars

-----------------------------------------------------------------------------
(* Properties.                                                              *)

\* No assertion or exception of the learning side ends a campaign: when an epoch is
\* finished no witness is pending, wherever in a block the budget falls.
LearningNeverRaises == status # "raised"

\* The words that are generated do what they were generated for, and nothing else: the
\* L2 hits of an instruction are exactly the witnesses registered for it.  A missing
\* hit would go unnoticed (prune drops its witness without a word and the arm loses
\* its reward), an incidental one would cover a bin no arm is paid for.
HitsAreTheWitnesses ==
    status = "run" /\ stream # <<>> => Hits = {w \in witnesses : w.consumer = Id}

\* Novelty is paid for once and to the arm that made it: no bin is in the reward of two
\* epochs, every covered bin is in the reward of a finished epoch or will be in that of
\* the active one, and no epoch saw a new bin it is not paid for.
NoveltyIsPaidOnce ==
    /\ \A m, n \in DOMAIN records : m # n => records[m].new \cap records[n].new = {}
    /\ Covered(intentFirst) = (UNION {records[n].new : n \in DOMAIN records})
                                \cup (IF epoch = NoEpoch THEN {} ELSE AttributableNew(epoch))
    /\ \A n \in DOMAIN records : records[n].globalNew = records[n].new

\* An epoch that runs to its planned end has earned the most its arm could earn from
\* what was covered when it began: nothing only if its bins were all covered.  With a
\* nominal size of one an epoch is its delimiter, and no epoch ever earns anything.
WholeEpochsEarnTheMost ==
    \A n \in DOMAIN records :
        LET r == records[n] IN
        r.whole =>
          IF config.nominal = 1 THEN r.new = {}
          ELSE /\ r.new = r.targets \ r.start
               /\ \A t \in LegalTargets(r.arm) :
                      Cardinality(t \ r.start) <= Cardinality(r.new)

\* A checkpoint at N shows the coverage that the first N instructions made, and is
\* filed under the epoch whose record spans N.
CheckpointsAreConsistentCuts ==
    \A k \in DOMAIN checkpoints :
        LET c == checkpoints[k] IN
        /\ c.intents = Cardinality({b \in L2Bins : intentFirst[b] \in 1 .. c.at})
        /\ IF c.epoch + 1 \in DOMAIN records
           THEN c.at \in records[c.epoch + 1].first .. records[c.epoch + 1].last
           ELSE c.epoch = Len(records) /\ c.at > Closed
=============================================================================
