------------------------- MODULE LearningInvariant -------------------------
(***************************************************************************)
(* An inductive invariant of EpochLearning: how the words laid out, the    *)
(* registered witnesses and the last writers fit together, what the plan   *)
(* and the loop know of the epoch's end, and what the active epoch has     *)
(* seen so far.                                                            *)
(***************************************************************************)
EXTENDS EpochLearning

Words == [rd : Nat, reads : SUBSET Registers]
Witnesses == [bin : L2Bins, producer : Int, consumer : Nat]
Plans == [active : BOOLEAN, planned : Nat, inst : Nat, targeted : Nat, fillers : Nat,
          boundary : BOOLEAN]
Epochs == [index : Nat, arm : Arms, targets : SUBSET L2Bins, start : SUBSET L2Bins,
           observed : SUBSET L2Bins, attributed : SUBSET L2Bins]
EpochRecords == [arm : Arms, targets : SUBSET L2Bins, start : SUBSET L2Bins,
                 new : SUBSET L2Bins, globalNew : SUBSET L2Bins,
                 first : Nat, last : Nat, whole : BOOLEAN]
Checkpoints == [at : Nat, intents : Nat, epoch : Int]

LearningTypes ==
    /\ config \in Configs /\ plan \in Plans /\ stream \in Seq(Words)
    /\ accepted \in Nat /\ witnesses \subseteq Witnesses
    /\ lastWriter \in [Registers -> Nat] /\ intentFirst \in [L2Bins -> Nat]
    /\ loop \in [before : Nat, planned : Nat]
    /\ records \in Seq(EpochRecords) /\ checkpoints \in Seq(Checkpoints)
    /\ status \in {"run", "stopped"}

\* Nothing is younger than the last accepted instruction.
NothingYounger ==
    /\ \A r \in Registers : lastWriter[r] <= accepted
    /\ \A b \in L2Bins : intentFirst[b] <= accepted
    /\ \A k \in DOMAIN checkpoints : checkpoints[k].at <= accepted

PaidFor == UNION {records[n].new : n \in DOMAIN records}

\* The active epoch is the one the engine, the telemetry and the bridge count, aims at
\* the best targets there were, and has seen only what it aims at.
EpochActive ==
    /\ epoch \in Epochs
    /\ epoch.index = Len(records) /\ bridge = Len(records) /\ engine.epoch = Len(records)
    /\ epoch.targets \in Select(epoch.arm, epoch.start)
    /\ epoch.start = PaidFor
    /\ epoch.observed = epoch.attributed /\ epoch.attributed \subseteq epoch.targets
    /\ Covered(intentFirst) = epoch.start \cup epoch.attributed

\* The loop, the plan and the stream agree on where the epoch begins and ends.
PlanFits ==
    /\ accepted < config.budget
    /\ loop.before = Closed /\ loop.before <= accepted
    /\ plan.inst = accepted + Len(stream) + 1
    /\ plan.fillers = plan.targeted \div 4
    /\ plan.planned # 0
    /\ plan.inst = loop.before + plan.planned + (IF plan.boundary THEN 2 ELSE 1)
    /\ plan.active => loop.planned = None /\ ~plan.boundary
    /\ PlanComplete(plan) => accepted < loop.before + plan.planned
    /\ ~plan.active =>
         /\ loop.planned = plan.planned /\ PlanComplete(plan)
         /\ plan.boundary <=> loop.before + plan.planned < config.budget
         /\ plan.boundary => stream[Len(stream)].reads = {}

\* A witness is of the active epoch and of a word that is laid out.
WitnessesAhead ==
    \A w \in witnesses :
        /\ w.bin \in epoch.targets /\ w.producer = w.consumer - w.bin[1]
        /\ w.consumer > accepted /\ w.consumer <= accepted + Len(stream)

\* The word at k of the stream reads nothing and has no witness; or it reads the
\* registers of the targets, each written last by the producer of its witness.
WordHits(k) ==
    \/ /\ stream[k].reads = {}
       /\ \A w \in witnesses : w.consumer # accepted + k
    \/ /\ stream[k].reads = RegistersOf(epoch.targets)
       /\ \A b \in epoch.targets :
            /\ [bin |-> b, producer |-> accepted + k - b[1], consumer |-> accepted + k]
                 \in witnesses
            /\ accepted + k > b[1]
            /\ b[1] < k => stream[k - b[1]].rd = b[2]
            /\ b[1] >= k => lastWriter[b[2]] = accepted + k - b[1]
            /\ b[1] = 2 /\ k >= 2 => stream[k - 1].rd # b[2]

StreamHits == \A k \in DOMAIN stream : WordHits(k)

\* Once a block is laid out every target has been hit or has a witness.
TargetsServed ==
    plan.planned > 1 => \A b \in epoch.targets :
                            b \in epoch.attributed \/ \E w \in witnesses : w.bin = b

\* No block is laid out for an epoch of one instruction.
DelimiterAlone == config.nominal = 1 => witnesses = {} /\ epoch.attributed = {}

Running ==
    /\ EpochActive /\ PlanFits /\ WitnessesAhead /\ StreamHits /\ TargetsServed
    /\ DelimiterAlone

LearningInv ==
    /\ LearningTypes /\ NothingYounger /\ NoveltyIsPaidOnce /\ WholeEpochsEarnTheMost
    /\ CheckpointsAreConsistentCuts
    /\ status = "run" => Running
=============================================================================
