# A formal model of the RISC-V pipeline verification stack

The repository verifies a frozen five-stage RV32I pipeline (`src/design/`) with a
Python/cocotb stack that has grown over eleven project weeks (`src/research/`).
The stack observes the pipeline clock edge by clock edge, gives its instructions
an identity, predicts what and when each of them must retire, collects validated
coverage, and finally *generates* the instruction stream itself while the
pipeline runs, under an adaptive campaign.

This directory holds TLA+ modules for the parts where something can go wrong
between components, the TLC configurations that check them, and machine-checked
proofs. Paths below are relative to `src/`.

## 1. Inventory

| part | source | state | operations |
|---|---|---|---|
| Pipeline (DUT) | `design/Datapath.sv`, `HazardDetection`, `ForwardingUnit`, `BranchUnit`, `Controller`, `ALUController`, `alu`, `RegFile` | PC, IF/ID (A), ID/EX (B), EX/MEM (C), MEM/WB (D), register file | falling edge (register file, memory), rising edge (stage registers, PC), stall, flush, forward, reset |
| Memories | `design/datamemory.sv`, `Memoria32Data.sv`, `instructionmemory.sv` | four byte banks; instruction words | load, store, fetch |
| Event adapter | `research/week5/impl/signal_adapter.py` | pending admission, stall history, index | `observe_pre_edge`, `finalize_post_edge`, `reset` |
| Retire monitor | `research/week7/retire_monitor.py` | tags of B, C, D, last retired id | `observe_falling_edge`, `advance_pipeline`, `reset` |
| Golden model | `research/week5/impl/architectural_model.py`, `week10/adaptive/wrap_aware_architectural_model.py` | registers, memory, PC | `step` |
| Timing oracle | `research/week9/benchmark/streaming_timing.py`, `week10/adaptive/wrap_aware_timing_oracle.py` | next slot, latest writers, program image | `next_expectation`, `observe_accept`, `append_program`, `release_logical_words` |
| Scoreboards | `research/week9/benchmark/streaming_functional.py` | expectations and store observations by id | `register_expected`, `observe_store_stage`, `observe_retire` |
| L2 coverage and validation | `research/week5/impl/coverage_model.py`, `week10/l2_realization.py`, `week10/l2_live_coordinator.py` | last writers, evidence, pending hits, bins, counters | `observe`, `register_hit`, `record_architectural_result`, `prune` |
| Planner, ring, tracker, window, feeder | `research/week10/adaptive/campaign_runner.py`, `intra_epoch_feeder.py` | logical program cursors, resident entries, progress | `plan_next_boundary_delimiter`, `begin_epoch`, `build_next_block`, `append`, `release_oldest`, `enqueue`, `observe`, `discard_unexecuted_suffix` |
| Attribution registry, epoch coordinator | `research/week10/adaptive/provenance.py`, `epoch_coordinator.py` | future witnesses; the active epoch | `register_many`, `consume_match`, `prune`; `begin_epoch`, `finish_epoch` |
| Decision and reward engine, register policy, template realizer | `research/week10/adaptive/decision_engine.py`, `reward_engine.py`, `register_policy.py`, `template_realizer.py` | Q values, observed and attributed bins | `select_arm`, `update`; `record_intent_hit`, `record_attributable_intent_hit`, `finalize`; `select`; `realize` |
| Campaign telemetry, checkpoint bridge | `research/week10/adaptive/campaign_telemetry.py`, `production_campaign.py`, `post_instruction_cut.py` | closed instructions, active epoch index | `record_epoch`, `record_checkpoint`, `finalize`; `begin_epoch`, `finish_epoch` |
| L1 coverage, control check, timing attribution | `research/week5/impl/l1_coverage.py`, `realization_checker.py`, `week7/hazard_attribution.py` | the last three events | `observe`, `check`, `correlate_hazard` |
| L1 validation and promotion | `research/week5/impl/validated_coverage.py`, `week9/live_coverage_coordinator.py`, `coverage_promotion.py`, `validated_attribution.py` | results, two tables of open hits, performance results | `register_hit`, `record_architectural_result`, `prune`; `register_l1_intent`, `record_validation`, `record_hazard`, `record_performance` |
| Telemetry files | `research/week9/telemetry_writer.py` and others | buffer, files | not modelled |
| Scripts, reports | `verif/assembler.py`, `research/week3`, `research/week11`, `research/week5/impl/directed_cases.py` | none of their own | not modelled |

**How they interact.** One coroutine is the loop. After a falling edge it reads
MEM (store stage) and MEM/WB (retirement), lets the scoreboards judge, and
samples IF/ID for the instruction about to be accepted. After the rising edge it
turns that sample into an event, shifts the monitor's tags, advances the oracle
and the golden model by the accepted instruction, and feeds coverage. In the
adaptive campaign the same acceptance also advances the stream window: it
reclaims memory words, and may stop the clock to plan and patch more program.
Everything is synchronous Python; the concurrency is between that coroutine and
the hardware it samples, between the two clock edges, and between the program
counter and the memory that is being rewritten under it.

**What is hard.** (`hazards` of `PROJECT.json` lists each at its line.)
- *Identity without valid bits.* The pipeline has no valid bit; the monitor must
  infer bubbles from stall, flush and zero words, by other rules than the
  hardware's.
- *Edges.* PC clears at once on reset, stage registers at the next rising edge,
  the register file at the next falling edge, the trackers afterwards.
- *Forwarding and interlock*, each with known defects in the frozen RTL, which a
  checking loop must neither hide nor confuse with new ones.
- *A ring under a running fetch.* 128 words, reused; a block that is planned
  cannot be unplanned; five objects are told of every entry one after the other.
- *An epoch boundary nobody can delay.* The delimiter of the next epoch must be
  in IF/ID before the current epoch's last instruction is accepted, and before
  anyone knows which arm follows.
- *Late evidence.* A coverage hit is validated by results that arrive at three
  different times, and pruning runs in between.
- *Three views of one dependence.* The classifier counts instructions, the oracle
  counts cycles, the hardware matches register fields; each hit is judged by all three.
- *Paying for novelty.* Reward is for bins that are new, snapshots of what is covered are
  taken while hits are still coming in, and a witness that is never hit disappears silently.

**What makes each part correct.** Trackers: the ids are those of the instructions
physically in the stages, contiguous, on time. Golden loop: in a program without
a documented defect nothing fails, and the timing differs only by false stalls.
Stream: no assertion fires, no word still to be executed is overwritten, the next
word is always there, every instruction belongs to one epoch, the campaign ends
at its budget. L2: what a hit needs survives, the hit resolves when its last
evidence arrives, the cache is bounded. L1: classifier and oracle name the same producers, what
the checks reject is never the hazard itself, every hit gets one record that says what its
evidence says. Learning: generated words hit exactly what they were generated for, each
bin is paid for once, a checkpoint is a cut that belongs to one epoch.

## 2. Modules

| module | models | extends |
|---|---|---|
| `RV32Isa` | decoded instructions, raw fields, controls, ALU | |
| `RV32Pipeline` | the datapath, both clock edges, reset | `RV32Isa` |
| `ExecutionTracking` | event adapter and retire monitor around the pipeline | `RV32Pipeline` |
| `TrackingInvariant` | the inductive invariant of `ExecutionTracking` | `ExecutionTracking` |
| `TrackingProofs` | theorems and proofs | `TrackingInvariant`, `TLAPS` |
| `GoldenLockstep` | golden model, timing oracle, scoreboards, live loop | `ExecutionTracking` |
| `CampaignStream` | planner, ring, tracker, image, registry, memory, campaign loop | |
| `EpochAccounting` | the abstract promise of a campaign | |
| `CampaignProperties` | properties of `CampaignStream`, its refinement of `EpochAccounting` | `CampaignStream` |
| `L2Validation` | L2 collector, validation checker, the two loops that drive them | |
| `L1Hazards` | L1 classifier, control check, timing attribution | `GoldenLockstep` |
| `L1Validation` | validated collector and live coordinator of one test loop | |
| `EpochLearning` | decision, targeting, template registers, attribution, reward, checkpoints | |
| `LockInvariant`, `LockProofs` | the inductive invariant of `GoldenLockstep`; theorems and proofs | `GoldenLockstep`, `TrackingInvariant`, `TrackingProofs` |
| `StreamInvariant`, `StreamProofs` | the inductive invariant of `CampaignStream`; theorems and proofs | `CampaignProperties` |
| `L2Invariant`, `L2Proofs` | the same for `L2Validation` | `L2Validation` |
| `L1Invariant`, `L1Proofs` | the same for `L1Validation` | `L1Validation` |
| `LearningInvariant`, `LearningProofs` | the same for `EpochLearning` | `EpochLearning` |
| `HazardsInvariant`, `HazardsProofs` | the same for `L1Hazards` | `L1Hazards`, `LockInvariant`, `LockProofs` |
| `MC*` | instances for TLC | |

### RV32Isa, RV32Pipeline
An instruction is a record of its operation, `rd`, the *raw* `rs1` and `rs2` fields
and the immediate. The raw fields matter: `HazardDetection.sv` compares them whether
or not the instruction reads a register, so immediate bits can cause a stall. A
word is four lanes of `LaneSize` values (`LaneSize = 256` in the hardware); the
width of the fetch PC and of the data address are constants of their own because
the hardware cuts both to nine bits. `A`, `B`, `C`, `D` are the four pipeline
registers under the names `Datapath.sv` gives them. An edge is an action:
`FallingEdge` writes register file and memory, and drives reset; `RisingEdge(i)`
latches the stages with `i` the fetched word. The fetched word is chosen at every
rising edge from `Fetchable`, so the model covers all programs over it, also those
that are rewritten while they run; properties that need a fixed program at a fixed
address are not stated here. The operations are those the whole stack accepts
(ADD, ADDI, LW, SW, LUI, AUIPC, JAL, JALR, branches). The other ALU operations are left
out because `isa_decode.py` rejects them; LB/LH/SB/SH, which it decodes as loads and
stores, because the timing oracle (`timing_oracle_v1.py`) and the golden model
(`architectural_model.py`) reject them.

### ExecutionTracking
`TrackFallingEdge` is the falling edge followed by `observe_falling_edge` and
`observe_pre_edge`; `TrackRisingEdge` the rising edge followed by
`finalize_post_edge` and `advance_pipeline`, or, under reset, by the resets of the
trackers as `test_reset_boundary_live.py` does them. `protocolError` is
`RetireProtocolError`. `resume` is a ghost: the PC at which the DUT's own control
flow continues.

### GoldenLockstep
Adds `gold` (`RV32ArchitecturalModel`, cut to the fetch PC as in the wrap-aware
model), `oracle` (`StreamingTimingOracleV1`), `expected` and `stores` (the two
dictionaries of the streaming scoreboard) and `verdict`. The RTL's documented
defects are kept in the model, and two ghosts say what the program has provoked:
`defects` is computed from the *program* (the golden values and the distance of
producers), never from what the DUT made of it, and `falseStalls` counts the stalls
no semantic dependency asks for. The properties then say that nothing else goes
wrong.

### CampaignStream
One variable per object: `plan` (`AdaptiveEpochStreamPlanner` with its filler
scheduler), `ring` (`BoundedProgramRing`), `tracker` (`AcceptedStreamTracker`),
`image` (`program_image` of the wrap-aware oracle), `witnesses`
(`AttributionRegistry`), `learner` (`AdaptiveEpochCoordinator`), `loop` (locals of
`test_production_engineering_campaign`), `imem`, and `hw` (PC, IF/ID, ID/EX of the
DUT). A word is known by its index in the logical program; where the code compares
encoded words and PCs, the model compares that index, which is stricter. Of what
the word does, only its kind matters: a link jumps over two words, a load may stall
its successor. An acceptance is one of `AcceptWithin`, `AcceptEpochEnd`,
`AcceptBudget`, in the order in which the loop tests; the whole handler (window,
image, registry, coordinator, the choice of the next arm) is in the action. A
refill is a phase of its own with the clock held: `FillPayload`, `FillBoundary`,
`FillLast`, `FillStops` are the outcomes of one turn of `fill_available_capacity`.
Every assertion and every `raise` on these paths is a condition; when it is false
the action goes to `phase = "aborted"`. A running sum (`ring.used`,
`tracker.pending`) stands for the sum the code computes over the entries.

### L2Validation
`Accept` is the accepting half of a loop iteration (collector, `register_hit`, PC
and next-PC evidence, prune), `Retire` the retiring half (write-back, store and x0
evidence). `Retires` chooses the loop: the week 9 benchmark has both halves, the
week 10 campaign only the first. Whether a check passes is nondeterministic.

### L1Hazards
`Rows` is the table of the fifteen scenarios with one producer; `DualHits`,
`ShadowHits` and `NegativeHits` are the others. `L1RisingEdge` is the rising edge of the
golden loop followed by `observe` and `check`, `L1FallingEdge` the falling edge followed
by `correlate_hazard` for each hit of the instruction that retires. The checks are *not*
assumed to pass: the properties say exactly which of them fail on this DUT.
- The control check rejects a hit whose forwarding was right when the spacing in cycles is
  not the one its row has in mind: a false stall of the consumer, a stall for its other
  operand, a late instruction between producer and consumer, or a link over an older writer
  (`RejectionsExplained`). It passes H11 and H13, whose forwarded value is wrong.
- `correlate_hazard` compares absolute cycles. After the first false stall of a run every
  hit fails, and so does one whose unused operand field happens to match (`TimingExplained`).
- The next PC of a branch or JALR is compared by nothing at L1. The ghost `misled` excludes
  the runs where a wrong operand has already turned a branch.

### L1Validation
The same loop with its verdicts left open, to look at the protocol instead: `Falling` and
`Accept` are one clock edge each, in the order of the test's body; a negative verdict may
come at any place, a bubble at any time. `results` is `_architectural_results`, `waiting`
and `live` are the open hits of the collector and of the coordinator, `hitsBy` those the
loop itself keeps. Every `raise` on these paths is a disjunct of `raised`. Which hits an
instruction can have together is taken from the classifier (`PossibleHits`).

### EpochLearning
A word is the register it writes and those it reads. `Body` gives the words of every
template (RS1 and RS2 variants, LUI and AUIPC, JAL and JALR differ in nothing that is
modelled), `Lowest` is the one function that chooses filler registers and consumer
destinations, `Select` the register policy with its uncovered-first rule. The stream is
laid out at any time, up to `Ahead` words, and accepted in order. `PlanBlock` adds a block
while the plan is not complete (`build_next_block` refuses a complete one); a complete plan
is closed with the next delimiter (`PlanBoundary`) or, where no epoch can begin any more,
without one (`PlanLast`), and the clock is held until then (`ClockRuns`), as it is in the
refill. With a nominal size of one the delimiter alone completes the plan: no template is
laid out and the epoch earns nothing. `Cut` is what
`complete_post_instruction_cut` and the observers of one instruction do, `Accept`,
`AcceptEpochEnd` and `AcceptBudget` the three outcomes of the loop's body, as in
`CampaignStream`, whose subject (memory and fetch) is left out here. Q values are in
whole units, alpha in tenths; every tie and every exploring draw is a free choice.
An exception is `status = "raised"`.

## 3. Runs

| run | instance | what it shows |
|---|---|---|
| `track_stall` | loads, false and true dependents, stores, a branch | ids follow the hardware, are contiguous, a stall lasts one cycle |
| `track_control` | jumps and a branch behind loads and stores, two warm resets | no wrong-path acceptance or side effect, latency three, nothing survives a reset |
| `lock_data` | a defect-free program with registers as addresses | golden and physical registers and memory agree at every edge |
| `lock_control` | branches of both signs, jumps, links, fetch PC narrower than a word | values, path and cycles agree up to false stalls |
| `lock_defects` | every documented defect next to what exposes it | every failure is one of them |
| `stream_small` | ring of 11 words, four template shapes, three epoch sizes, eight budgets | section 2's promises and the refinement of `EpochAccounting` |
| `l2_benchmark` | two registers, eight instructions, one failing check | evidence survives, hits resolve, the cache is bounded |
| `l1_hazards` | one instruction of every class, two registers, no resets | classifier and oracle agree on producers; every rejection is one of section 2's |
| `l1_validation` | H05, H10 and H18, seven instructions, one negative verdict | no protocol error, nothing retained, records follow evidence, every hit is resolved |
| `epoch_learning` | three registers, five arms, three epoch sizes, four budgets, greedy and exploring | hits are the witnesses, epochs earn what they can, novelty is paid once, checkpoints are cuts |
| `defect_forward` | ADDI, LW, LUI, ADD | *violated*: the neighbour of LUI gets the ALU result |
| `defect_cache` | the campaign loop | *violated*: hits never resolve, the cache grows |

**Bounds.**
- `track_*`, `lock_*`: `LaneSize = 2`, so a word has 16 values in four lanes, `NReg = 3`
  (x0 and two registers; a producer, a second producer and a consumer), `PcSize` 16
  or 8 and `DmSize` 8 or 16, so addresses and PCs wrap. `ProgramCycles` bounds the
  cycles that fetch: six to ten, more than twice the depth of the pipeline; `NCycles`
  leaves it time to drain. `MaxResets = 2`, at any cycles. Deadlock is not checked
  there: the loop ends after `NCycles`, or when it raises.
- `stream_small`: `Capacity = 11` is the smallest the assumption of the module allows
  (two blocks of the largest size and a delimiter), where every limit is hit. The
  arms are one of each shape: distance one, behind a load, two producers, and the
  jump over two words. A nominal size of 1 makes epochs of a delimiter alone, 5 puts the end
  of an epoch into the middle of the memory, 9 beyond its end; budgets 13 to 20 wrap the
  ring at least once and cut the stream at every position of a block.
  Deadlock is checked.
- `l2_benchmark`: eight instructions exceed the evidence window (five) plus the largest
  distance (two); x0 and one other register. Deadlock is not checked: the run ends at
  `MaxInstr`, or when the loop raises.
- `l1_hazards`: six fetching cycles hold a producer, two instructions between and the
  consumer with a redirect or a stall among them; `NCycles` lets all hits retire. The
  program has every class that a row distinguishes and almost only zero values: the
  classification depends on operations and registers.
- `l1_validation`: the bin with the longest distance, that with two producers and that with
  an additional requirement; seven instructions are the window of five and two more. One
  negative verdict, which may be any: each is recorded on its own. (The status of a hit that
  fails in timing and function needs two and is not reached.) Deadlock is checked: the clock never stops.
- `epoch_learning`: three registers are the fewest a spaced template needs (target,
  destination, structural filler), so every register collides as soon as one is not
  protected; six bins are covered within a run, so arms run out of novelty. Nominal 3 is
  one block, 5 two; budgets 14 to 16 end the campaign at every word of a block. Nominal 1
  makes epochs of a delimiter alone; budget 3 runs three of them, the last without a next
  delimiter (all longer campaigns of that kind repeat the second). `Ahead`
  is more than a block with the next delimiter. Deadlock is checked.

**Fairness.** `L1ValSpec` has `WF` of its next-state relation: the simulator delivers the
next clock edge to the coroutine that awaits it. Nothing is assumed about what is fetched:
bubbles may go on for ever, and the hits must be resolved all the same. `StreamSpec` has `WF(ClockEdge)`, because the clock coroutine
toggles for as long as it is not killed, and `WF(Fill)`, because while it is killed the
filling coroutine is the only thing that runs and it does not wait for anything else.
Those two make the campaign's end (in `EpochAccounting`) a consequence. The other
specifications are safety only.

## 4. What is proved

`TrackingProofs` proves, for every lane size, PC and data-memory size, register count,
immediate set, program, reset pattern and number of cycles that satisfy the named
assumptions of the constants:

| theorem | statement |
|---|---|
| `TypeCorrect` | `TrackSpec => []TrackTypeOK` |
| `IdentityCorrect`, `OrderCorrect`, `NeverRaises` | `[]StageIdentity`, `[]ProgramOrder`, `[]MonitorAccepts` |
| `StallCorrect`, `LatencyCorrect` | `[]SingleStall`, `[]RetireLatency` |
| `ControlCorrect` | `[]ControlContinuity` |
| `ResetCorrect` | `[]ResetForgets` |
| `SideEffectsCorrect` | `TrackSpec => NoSilentSideEffect`, an action property |

*Argument.* None of these is inductive alone. `TrackInv` adds: how old the tag of each
stage is (`TagAges`, from which the latency follows); what each edge has just decided
(`EdgeOrder`: after the falling edge `dTag` is empty and `pending` is exactly what the
rising edge will accept); that a recorded stall has a bubble right in front of it and the
load behind that (`StallHistory`, which limits a stall to one cycle); that IF/ID and PC
continue at the successor of the instruction in B unless B redirects (`FetchContinues`);
and how far a reset has progressed (`ResetProgress`, which bounds `held` and says that
IF/ID is already empty after the first reset edge). Types are proved first, then one
lemma per edge, split by conjunct and, for the rising edge, by reset, flush, stall and
acceptance.

`StreamProofs` proves, for every capacity, nominal size, budget and set of arms that the
assumptions of `CampaignStream` allow (each theorem is `StreamSpec => []...` unless it says
otherwise):

| theorem | statement |
|---|---|
| `StreamInvIsInvariant` | the inductive invariant, `[](StreamTypes /\ ... )` |
| `CampaignNeverAborts` | `NeverAborts`: no assertion and no `raise` of the campaign loop fires |
| `CursorsAlwaysAgree`, `ImageIsAlwaysMemory` | `CursorsAgree`, `ImageIsMemory` |
| `NextWordIsAlwaysThere` | `NextWordIsThere` |
| `WitnessesAreAlwaysFuture`, `BoundariesAlwaysFollowEpochs` | `WitnessesAreFuture`, `BoundariesFollowEpochs` |
| `LiveIsNeverOverwritten` | `NoLiveOverwrite`, an action property |
| `AccountsAreKept` | every initial state and step is one of `EpochAccounting` (or stutters) under the refinement mapping: the safety part of `ImplementsAccounting` |

*Argument.* `StreamInv` says that the entries are well formed and follow each other in words
and in instructions (`StreamFits`); that owners and memory hold exactly the resident words
(`MemoryFits`); that the DUT holds the next word, or the PC points at it, or a link has yet
to skip two words (`FetchFits`); that two instructions are laid out while the clock runs,
or the budget ends the campaign first (`LaidOutAhead`); and when the end of the epoch is
known (`EpochFits`, `BoundariesKnown`). The arithmetic it rests on: two words less than a
capacity apart have different cells, so a patch of a freed word cannot hit a resident one;
an entry has at most five words, so that with more words than one entry laid out there is a
second; and an epoch that ends leaves exactly the delimiter that is pending in front of the
next. Each outcome of an acceptance (within an entry, at its end, at the end of an epoch, at
the budget) and each outcome of a refill is a lemma per part.

`L2Proofs`, `L1Proofs`, `LearningProofs` prove for every number of registers, any length of
the campaign and any verdicts:

| theorem | statement |
|---|---|
| `L2InvIsInvariant` | the inductive invariant of `L2Validation` |
| `LoopNeverStops`, `EvidenceAlwaysSurvives`, `HitsAreResolved` | `LoopGoesOn`, `EvidenceSurvives`, `ResolvedWhenDue` |
| `CacheStaysBounded` | `Retires` implies `L2Spec => []CacheIsBounded` |
| `ValidationFollowsRetirement` | `ValidatedAfterRetirement`, an action property |
| `L1InvIsInvariant` | the inductive invariant of `L1Validation` |
| `LiveLoopNeverRaises`, `RetentionIsBounded`, `RecordsAreRight` | `LoopNeverRaises`, `RetainsInFlight`, `RecordsFollowEvidence` |
| `LearningInvIsInvariant` | the inductive invariant of `EpochLearning` |
| `LearningRaisesNothing`, `HitsAreAlwaysTheWitnesses` | `LearningNeverRaises`, `HitsAreTheWitnesses` |
| `NoveltyIsAlwaysPaidOnce`, `WholeEpochsAreBest` | `NoveltyIsPaidOnce`, `WholeEpochsEarnTheMost` |
| `CheckpointsAreAlwaysCuts` | `CheckpointsAreConsistentCuts` |

*Arguments.* `L2Inv`: every piece of evidence that a pending hit, or a hit that may still
come, asks for is stored or not yet produced (`EvidenceKept`), and a pending hit lacks
something (`PendingOpen`). That the cache is bounded needs that retirement follows
acceptance within the pipeline, hence the hypothesis `Retires`: without it, in the loop of
the production campaign, the property is false, which is the finding `defect_cache`.
`L1Inv`: collector, coordinator and loop hold the same open hits (`TablesAgree`), all about
instructions that have not retired (`HitsOpen`), whose evidence is kept. `LearningInv`: the
word at each place of the stream either reads nothing or reads the registers of the active
targets, each written last by the producer of a registered witness (`StreamHits`), once a
block is laid out every target has been hit or has a witness (`TargetsServed`), and coverage
is what was there at the start of the epoch together with what it has attributed since
(`EpochActive`). The plan is closed exactly when it is complete (`PlanFits`). That a whole
epoch has earned all it could follows for nominal sizes above one, where a block is laid out
before the plan is closed; at nominal size one nothing has a witness (`DelimiterAlone`),
and the theorem says that no epoch earns anything.

`LockProofs` proves about the golden loop, for every word size, register count and program
that the assumptions allow:

| theorem | statement |
|---|---|
| `LoopTracks` | `LockSpec => TrackSpec`: what `TrackingProofs` proves holds in this loop too |
| `LockInvariantHolds` | `LockSpec => []LockInv` |
| `PipelineComputesGold` | `[]StateAgrees`: without a documented defect, the golden registers and memory are the physical ones together with what is in flight |
| `FailuresHaveDefects` | `[]FailuresAreDocumented`: a functional failure needs a documented defect |
| `LoopEndsOnDefectsOnly` | `[]LoopRunsToTheEnd` |
| `ForwardingIsByAge` | `[]ForwardingFollowsAge`: the forwarding paths the RTL takes are those of the oracle's producers |
| `LatenessIsExact` | `RedirectBubbles = 2` (the source's `REDIRECT_BUBBLES`) implies `LockSpec => []LatenessIsFalseStalls` |
| `RetentionFollowsPipeline` | `[]RetainsOnlyInFlight` |

*Argument.* Some parts of `LockInv` hold in every run: types; that the scoreboard holds
entries of instructions in flight only; that the oracle's writer of a register is the
youngest tag of B and C that writes it, or beyond the reach of forwarding
(`WritersAreYoungest`); that a stall has been counted when it is seen (`StallsAreCounted`).
The others hold in a run whose program provokes no documented defect (`Clean`), because what
they say is false behind a defect. `InStep` states what each stage has still to do to
arrive at the golden model, which has executed an instruction when the DUT has only
accepted it: the operands the forwarding paths give to B make the ALU compute the
expected result or address (`BFollows`); C holds the result or the address, and the memory
*after the store in C* holds what a load reads (`CFollows`); D holds what will be written
(`DFollows`); the store that was observed is the expected one (`StoresFollow`); a golden
register is the youngest write in flight, a golden byte that of the store in B or of the
memory after the store in C (`RegistersFollow`, `MemoryFollows`); and the golden PC is where
the DUT goes on (`PathFollows`). `OnTime` relates the oracle's next slot to the DUT's cycle
and to the false stalls so far (`SlotsFollow`), and says that only the last accepted
instruction can be right in front of that slot (`WritersHaveSlots`). The lemmas that carry
it are `WritersAgree` (the controller writes registers for exactly the operations the oracle
counts), `ForwardFromTags` and `ForwardByAge` (from record fields to instructions),
`AcceptAlu` (same operands, same result, for each operation), `AlignedBytes`,
`RisingMemory` and `AcceptSlot`. The proof showed that two guards of the forwarding rule in
the model were not exclusive, so that a `CASE` left open which of two equal choices was
meant; they are exclusive now.

`HazardsProofs` proves about the classifier beside that loop, for every word size, register
count and program:

| theorem | statement |
|---|---|
| `HazardsWatchTheLoop` | `L1Spec => LockSpec`: what `TrackingProofs` and `LockProofs` prove holds in this loop too |
| `HazardsInvariantHolds` | `L1Spec => []HazardsInv` |
| `ProducersAlwaysAgree` | `[]ProducersAgree`: classifier and oracle name the same producers, defects or not |
| `RejectionsAreExplained` | `[]RejectionsExplained`: the control check rejects in four cases and in no other |
| `TimingIsExplained` | `RedirectBubbles = 2` and `RetireLatencyCycles = 3` (the source's constants) imply `L1Spec => []TimingExplained` |
| `InterlockCoversOracle` | `[][falseStalls' >= falseStalls]_l1Vars`: the interlock stalls whenever the oracle expects it |

*Argument.* The three views count in different units, and `HazardsInv` converts between them.
The history is the last three acceptances (`HistoryTypes`, `InOrder`). Since the last one a
known number of cycles has passed: one while it is in B, two behind a stall or a flush, three
when the target of a redirect has been fetched (`Elapsed`, `WaitsForNewest`); so `Gap` turns
the stalls and redirects in the history into cycles. The oracle's writer of the register of a
past instruction that no later one shadows is that instruction, accepted exactly so many
cycles ago (`WritersInHistory`), and a load is right in front of the oracle's next slot
exactly when it is the newest (`LoadsInFront`). From these, `NearestIsWriter`, `OracleStalls`
and `ForwardOfNearest` say what the oracle expects in terms of the history, and `RowExplained`,
`DualExplained`, `ShadowExplained`, `NegativeExplained` go through the rows of the classifier.
For the timing, `KeepsUp` says that the oracle's slot together with the false stalls so far is
the hardware's cycle, and `IsTimed` says it of every acceptance still on record until the
correlation judges it (`TimedCorrelation`). That what is on record follows the tags
(`AwaitingFollows`) is inductive only with a bound on its ids: without it, an entry could be
there for an instruction that is yet to come.

*Only model-checked.* Liveness: `EndsResolved` and the fairness half of
`ImplementsAccounting`, because their proofs need ENABLED. The two properties that are
expected to be violated. Every other property of the runs, invariant or action property, is
the statement of a theorem above.
## 5. Findings

- `defect_forward`: `Datapath.sv:185` forwards the ALU result from EX/MEM for every
  producer; behind LUI and AUIPC that is not what they write back. Known to the
  repository as a static risk (H11, H13 of `HAZARD_TRUTH_TABLE.md`); the run reaches it.
- `defect_cache`: `test_adaptive_campaign.py` never records store and write-back
  evidence, which `L2ValidatedCoverageChecker` requires. No L2 hit is ever validated in
  the production campaign, and pending hits with their evidence grow with it, against
  section 17 of `L2_REALIZATION_CONTRACT.md`.

Other documented defects of the frozen RTL are part of `GoldenLockstep` (the ghost
`defects`: a physical x0, ADDI that selects SUB, JALR that keeps bit 0, unaligned data
addresses; and false stalls, the ghost `falseStalls`): `lock_defects` shows that nothing
else is needed to explain a failure.

## 6. Not modelled, and why

- Whole-log scoreboards and oracles of weeks 5 to 8: they judge as the streaming forms
  do, after the run.
- Floating point: `EpochLearning` rounds rewards and Q values down to whole units. Only
  which arm has the largest Q, and the floor, depend on it.
- The seeded generators of `campaign_seed.py`: every draw is a free choice, which covers
  every seed.
- Immediates and operand variants of a template: they change no dependence.
- The value of a memory word a template loads, and address generation: `GoldenLockstep`
  has values, `EpochLearning` dependences.
- Whether the assertions of a loop hold for states nobody reaches: Init and the inputs
  are those of the loops named above. The earlier loops of `test_adaptive_campaign.py`
  (one epoch, two epochs, checkpoints) drive the same objects and add nothing.
- The cycle budget of the campaign loop (12 cycles per instruction plus 4096): acceptances
  are at most three cycles apart here.
- A warm reset with a golden model attached: the golden reset clears memory
  (`architectural_model.py:136`), the data memory keeps it; no loop does it.
- Row formats, the batched CSV writer and report files: formatting and I/O. Writing is
  synchronous, so the buffer has no concurrency to get wrong.
- Directed programs (`directed_cases.py`): a table of programs; `l1_hazards` ranges over all
  programs of its instruction classes instead.
- The week 9 loop calls `record_instruction` *before* its observers: its checkpoint at N
  leaves out the hits of instruction N. Week 10 turned the order round
  (`post_instruction_cut.py`); the model has week 10's, and the other order is the mutant of
  `CheckpointsAreConsistentCuts`.
- The ALU operations that the decoder rejects, and LB, LH, SB, SH, which the timing oracle and
  the golden model reject.

## 7. Plan

Done: the modules above, in the order trackers, golden loop, stream, L2, L1, learning.

Next, models:
1. `EpochLearning` and `CampaignStream` in one specification, so that the words of one are
   laid out under the memory limits of the other. Today both have the same plan, block and
   epoch actions, each with the part the other leaves out.
2. A sequential ISA machine as the abstract specification that the golden loop in a
   defect-free program refines.

Next, proofs:
1. The golden loop in a defect-free program refines the sequential machine of item 2 above:
   `RegistersFollow`, `MemoryFollows` and `PathFollows` of `LockInv` are its refinement mapping.
2. The inductive invariants of `StreamProofs` and `LearningProofs` carried over to the
   composition of item 1.
3. Action properties that no run checks yet: no id is judged twice by a scoreboard, and the
   oracle's slots only grow.

## 8. Running it

    tlc -config track_stall.cfg MCExecutionTracking.tla
    tlc -config stream_small.cfg MCCampaignStream.tla
    tlc -config epoch_learning.cfg MCEpochLearning.tla
    tlapm TrackingProofs.tla      # a minute; so L2Proofs and L1Proofs
    tlapm LearningProofs.tla      # two minutes
    tlapm StreamProofs.tla        # four minutes
    tlapm LockProofs.tla          # ten minutes
    tlapm HazardsProofs.tla       # four minutes

Definitions marked `Fault:` are variants of a definition with a plausible bug;
`mutants` in `PROJECT.json` says which property must notice which of them.
