---------------------------- MODULE CampaignStream ----------------------------
(***************************************************************************)
(* The instruction stream of an adaptive campaign (week10): a planner      *)
(* lays out entries -- one epoch boundary delimiter (EBD), then complete   *)
(* template blocks -- in an unbounded logical program; RuntimeStreamWindow *)
(* keeps those that are resident in the 128-word instruction memory, which *)
(* is reused as a ring; the DUT fetches ahead of what has been accepted;   *)
(* every acceptance is checked against the plan, reclaims what it          *)
(* completes and may stop the clock to patch more entries into memory.     *)
(*                                                                         *)
(* The loop is test_production_engineering_campaign.  An assertion or an   *)
(* exception of any of its parts sets phase to "aborted".                  *)
(*                                                                         *)
(* A word is known by its index in the logical program; what the DUT does  *)
(* with it only depends on its kind: a link jumps over two words, a load   *)
(* may hold its successor back for a cycle.                                *)
(***************************************************************************)
EXTENDS Integers, Sequences, FiniteSets, SequencesExt

CONSTANTS
    Capacity,       \* IMEM_WORD_CAPACITY
    Arms,           \* the ArmIDs in use
    Nominals,       \* the values of nominal_batch
    Budgets         \* the values of instruction_budget

MaxBackgroundFillers == 1                \* MAX_BACKGROUND_FILLERS_PER_TEMPLATE
MaxBlockWords == 4 + MaxBackgroundFillers          \* MAX_STREAM_BLOCK_WORDS
EbdReserveWords == 1
TargetedPerFiller == 4                   \* TARGETED_INSTRUCTIONS_PER_FILLER

ArmIDs == {"A0", "A1", "A2", "A3", "A4", "A5", "A6", "A7", "A8", "A9"}

ASSUME CapacityAssumption == Capacity \in Nat /\ Capacity > 2 * MaxBlockWords
ASSUME ArmsAssumption == Arms \subseteq ArmIDs
ASSUME ConfigAssumption ==
    Nominals \subseteq Nat \ {0} /\ Budgets \subseteq Nat \ {0}

VARIABLES
    config,      \* ProductionCampaignConfig: [nominal, budget]
    phase,       \* "run": clock running; "fill": clock held HIGH; "done"; "aborted"
    plan,        \* AdaptiveEpochStreamPlanner
    ring,        \* BoundedProgramRing: [entries, used]
    tracker,     \* AcceptedStreamTracker: [entries, progress, next, accepted, pending]
    witnesses,   \* AttributionRegistry
    image,       \* program image of the timing oracle
    learner,     \* AdaptiveEpochCoordinator: [active, arm, epochs]
    loop,        \* locals of the loop and telemetry: [before, planned, closed]
    imem,        \* cell -> word in the instruction memory
    hw           \* PC, IF/ID and ID/EX of the DUT

vars == <<config, phase, plan, ring, tracker, witnesses, image, learner, loop,
          imem, hw>>

-----------------------------------------------------------------------------
(* Words and entries.                                                      *)

Cell == 0 .. Capacity - 1
\* physical_pc_for_logical_word, in words.
CellOf(word) == word % Capacity

NoWord == -1
None == 0                              \* current_planned_executed is None
Bubble == [cell |-> 0, word |-> NoWord, kind |-> "none"]
EmptyCell == [word |-> NoWord, kind |-> "none"]

\* The templates of TemplateRealizer: the kinds of their words, the offsets
\* that are executed, and the intended dependencies as positions in the latter.
Template(arm) ==
    CASE arm \in {"A0", "A5", "A8"} ->
           [kinds |-> <<"plain", "plain">>, offsets |-> <<0, 1>>, deps |-> {<<0, 1>>}]
      [] arm = "A2" ->
           [kinds |-> <<"load", "plain">>, offsets |-> <<0, 1>>, deps |-> {<<0, 1>>}]
      [] arm \in {"A1", "A6"} ->
           [kinds |-> <<"plain", "plain", "plain">>, offsets |-> <<0, 1, 2>>,
            deps |-> {<<0, 2>>}]
      [] arm = "A3" ->
           [kinds |-> <<"load", "plain", "plain">>, offsets |-> <<0, 1, 2>>,
            deps |-> {<<0, 2>>}]
      [] arm = "A4" ->
           [kinds |-> <<"plain", "plain", "plain">>, offsets |-> <<0, 1, 2>>,
            deps |-> {<<0, 2>>, <<1, 2>>}]
      [] arm = "A9" ->
           [kinds |-> <<"plain", "plain", "plain">>, offsets |-> <<0, 1, 2>>,
            deps |-> {<<1, 2>>}]
      [] OTHER ->      \* A7
           [kinds |-> <<"link", "plain", "plain", "plain">>, offsets |-> <<0, 3>>,
            deps |-> {<<0, 1>>}]

\* PlannedBoundaryDelimiter: bne x0,x0,+4, executed and never taken.
Delimiter(p) ==
    [key |-> <<"EBD", p.boundary>>, start |-> p.word, first |-> p.inst,
     kinds |-> <<"plain">>, offsets |-> <<0>>, witnesses |-> {}]

NoEntry == [key |-> <<"none", 0>>, start |-> 0, first |-> 0,
            kinds |-> <<>>, offsets |-> <<>>, witnesses |-> {}]

\* CampaignFillerScheduler.schedule_after_template
FillersDue(p) ==
    (p.targeted + Len(Template(p.arm).kinds)) \div TargetedPerFiller - p.fillers

\* build_next_block: a template and the fillers that fall due behind it.
Block(p) ==
    LET t == Template(p.arm)
        n == Len(t.kinds)
        fillers == [k \in 1 .. FillersDue(p) |-> n + k - 1]
    IN  [key |-> <<"TEMPLATE", p.template>>, start |-> p.word, first |-> p.inst,
         kinds |-> t.kinds \o [k \in DOMAIN fillers |-> "plain"],
         offsets |-> t.offsets \o fillers,
         witnesses |-> {[producer |-> p.inst + d[1], consumer |-> p.inst + d[2]] :
                           d \in t.deps}]

Words(entry) == Len(entry.kinds)
Executed(entry) == Len(entry.offsets)
EndOf(entry) == entry.start + Words(entry)
WordsOf(entry) == entry.start .. EndOf(entry) - 1
WordAt(entry, progress) == entry.start + entry.offsets[progress + 1]

-----------------------------------------------------------------------------
(* AdaptiveEpochStreamPlanner.  Nothing it plans is ever taken back.       *)

\* Fault: the next delimiter counts towards the nominal size.
PlanCompleteEarly == plan.active /\ plan.planned + 1 >= config.nominal

PlanComplete == plan.active /\ plan.planned >= config.nominal

\* plan_next_boundary_delimiter
PlanBoundary(p) ==
    [p EXCEPT !.pending = Delimiter(p), !.word = @ + 1, !.inst = @ + 1, !.boundary = @ + 1]

\* Fault: the EBD is not counted.
BeginEpochUncounted(p, arm) ==
    [p EXCEPT !.active = TRUE, !.arm = arm, !.planned = 0, !.pending = NoEntry,
              !.toBegin = @ + 1]

\* begin_epoch: the EBD laid out earlier becomes the epoch's first instruction.
BeginEpoch(p, arm) ==
    [p EXCEPT !.active = TRUE, !.arm = arm, !.planned = Executed(p.pending),
              !.pending = NoEntry, !.toBegin = @ + 1]

\* Fault: flushed words are counted as executed.
PlanBlockByImage(p) ==
    LET b == Block(p) IN
    [p EXCEPT !.word = EndOf(b), !.inst = @ + Words(b), !.template = @ + 1,
              !.planned = @ + Executed(b),
              !.targeted = @ + Len(Template(p.arm).kinds),
              !.fillers = @ + FillersDue(p)]

\* build_next_block
PlanBlock(p) ==
    LET b == Block(p) IN
    [p EXCEPT !.word = EndOf(b), !.inst = @ + Executed(b), !.template = @ + 1,
              !.planned = @ + Executed(b),
              !.targeted = @ + Len(Template(p.arm).kinds),
              !.fillers = @ + FillersDue(p)]

\* close_planning_epoch
ClosePlanning(p) == [p EXCEPT !.active = FALSE, !.planned = 0]

\* terminate_campaign_planning
TerminatePlanning(p) ==
    [p EXCEPT !.active = FALSE, !.planned = 0, !.pending = NoEntry, !.terminated = TRUE]

-----------------------------------------------------------------------------
(* BoundedProgramRing, AcceptedStreamTracker and the timing oracle's image. *)
(* Each has its own checks, and each is told separately.                    *)

FreeWords(r) == Capacity - r.used

\* validate_append
AppendLegal(r, entry) ==
    /\ Words(entry) <= FreeWords(r)
    /\ r.entries # <<>> => entry.start = EndOf(Last(r.entries))

RingAppend(r, entry) == [entries |-> Append(r.entries, entry), used |-> r.used + Words(entry)]

\* release_oldest
ReleaseOldest(r) ==
    [entries |-> Tail(r.entries), used |-> r.used - Words(Head(r.entries))]

\* validate_enqueue.  tracker.pending is the sum it computes, over every pending
\* entry: the executed part of the head counts again.
EnqueueLegal(t, entry) ==
    /\ t.entries # <<>> => entry.start = EndOf(Last(t.entries))
    /\ entry.first = t.next + t.pending

Enqueue(t, entry) ==
    [t EXCEPT !.entries = Append(@, entry), !.pending = @ + Executed(entry)]

Completes(t) == t.progress + 1 = Executed(Head(t.entries))

\* observe, of an instruction at the expected PC and with the expected word.
Observe(t) ==
    IF Completes(t)
    THEN [entries |-> Tail(t.entries), progress |-> 0, next |-> t.next + 1,
          accepted |-> t.accepted + 1, pending |-> t.pending - Executed(Head(t.entries))]
    ELSE [t EXCEPT !.progress = @ + 1, !.next = @ + 1, !.accepted = @ + 1]

Resident(m) == m.append - m.release          \* resident_word_count
OwnerOf(m, cell) == m.owner[cell]             \* logical_owner_for_pc

\* append_program
ImageAppendLegal(m, entry) ==
    /\ entry.start = m.append
    /\ \A w \in WordsOf(entry) : OwnerOf(m, CellOf(w)) = NoWord

ImageAppend(m, entry) ==
    [m EXCEPT !.owner = [c \in Cell |-> IF \E w \in WordsOf(entry) : CellOf(w) = c
                                        THEN CHOOSE w \in WordsOf(entry) : CellOf(w) = c
                                        ELSE @[c]],
              !.append = @ + Words(entry)]

\* release_logical_words
ImageReleaseLegal(m, first, count) ==
    /\ first = m.release
    /\ \A w \in first .. first + count - 1 : OwnerOf(m, CellOf(w)) = w

\* Fault: the owners stay.
ImageReleaseCursorOnly(m, first, count) == [m EXCEPT !.release = @ + count]

ImageRelease(m, first, count) ==
    [m EXCEPT !.owner = [c \in Cell |-> IF \E w \in first .. first + count - 1 : CellOf(w) = c
                                        THEN NoWord ELSE @[c]],
              !.release = @ + count]

-----------------------------------------------------------------------------
(* The DUT, seen from the stream: IMEM is read at the falling edge, IF/ID   *)
(* and ID/EX latch at the rising edge, a link redirects from ID/EX.         *)

Fetched == [cell |-> hw.pc, word |-> imem[hw.pc].word, kind |-> imem[hw.pc].kind]

Advanced == [pc |-> CellOf(hw.pc + 1), a |-> Fetched, b |-> hw.a]

\* A load in ID/EX may hold the instruction behind it back for one cycle.
Stall ==
    /\ phase = "run" /\ hw.b.kind = "load" /\ hw.a.word # NoWord
    /\ hw' = [hw EXCEPT !.b = Bubble]
    /\ UNCHANGED <<config, phase, plan, ring, tracker, witnesses, image, learner, loop, imem>>

\* Fault: the jump falls one word short.
FlushShort ==
    /\ phase = "run" /\ hw.b.kind = "link"
    /\ hw' = [pc |-> CellOf(hw.b.cell + 2), a |-> Bubble, b |-> Bubble]
    /\ UNCHANGED <<config, phase, plan, ring, tracker, witnesses, image, learner, loop, imem>>

\* The jump of template A7 goes three words ahead; the word in IF/ID is flushed.
Flush ==
    /\ phase = "run" /\ hw.b.kind = "link"
    /\ hw' = [pc |-> CellOf(hw.b.cell + 3), a |-> Bubble, b |-> Bubble]
    /\ UNCHANGED <<config, phase, plan, ring, tracker, witnesses, image, learner, loop, imem>>

\* An empty IF/ID moves on; nothing is accepted.
Idle ==
    /\ phase = "run" /\ hw.b.kind # "link" /\ hw.a.word = NoWord
    /\ hw' = Advanced
    /\ UNCHANGED <<config, phase, plan, ring, tracker, witnesses, image, learner, loop, imem>>

-----------------------------------------------------------------------------
(* One iteration of the loop for an accepted instruction: the objects after *)
(* observe_accept, the post-instruction cut and finalize_accepted_event.    *)

Accepts == phase = "run" /\ hw.b.kind # "link" /\ hw.a.word # NoWord
Index == tracker.next                  \* ExecutionEvent.instruction_index
HeadEntry == Head(tracker.entries)
Released == Completes(tracker)

\* Fault: prune is one instruction late.
WitnessesAfterLate == {w \in witnesses : w.consumer >= Index}

\* Hits consume their witness, prune_validation_state drops the others.
WitnessesAfter == {w \in witnesses : w.consumer > Index}

TrackerAfter == Observe(tracker)
RingAfter == IF Released THEN ReleaseOldest(ring) ELSE ring
ImageAfter ==
    LET m == [image EXCEPT !.expected = IF hw.a.kind = "link" THEN CellOf(@ + 3)
                                        ELSE CellOf(@ + 1)]
    IN  IF Released THEN ImageRelease(m, HeadEntry.start, Words(HeadEntry)) ELSE m

\* No assertion or exception up to the end of finalize_accepted_event.
EventIsPlanned ==
    /\ Index <= config.budget
    /\ hw.a.cell = image.expected /\ OwnerOf(image, hw.a.cell) = hw.a.word
    /\ tracker.entries # <<>>
    /\ hw.a.word = WordAt(HeadEntry, tracker.progress)
    /\ Released =>
         /\ ring.entries # <<>> /\ Head(ring.entries).key = HeadEntry.key
         /\ ImageReleaseLegal(image, HeadEntry.start, Words(HeadEntry))
         /\ Resident(ImageAfter) = RingAfter.used

EpochExecuted == tracker.accepted + 1 - loop.before       \* accepted_this_epoch
AtBudget == Index = config.budget
EpochEnds == loop.planned # 0 /\ EpochExecuted = loop.planned

\* The conditions of discard_unexecuted_suffix.  Entries are contiguous: the
\* words they occupy are those between the first and the end of the last.
SuffixDiscardable ==
    LET suffix == RingAfter.entries IN
    IF suffix = <<>>
    THEN WitnessesAfter = {} /\ RingAfter.used = 0 /\ Resident(ImageAfter) = 0
    ELSE /\ suffix = TrackerAfter.entries
         /\ TrackerAfter.progress < Executed(Head(suffix))
         /\ EndOf(Last(suffix)) - Head(suffix).start = RingAfter.used
         /\ TrackerAfter.pending - TrackerAfter.progress > 0
         /\ \A w \in WitnessesAfter : w.consumer > config.budget
         /\ ImageReleaseLegal(ImageAfter, Head(suffix).start, RingAfter.used)

CampaignClosable ==
    /\ SuffixDiscardable
    /\ ~plan.terminated /\ learner.active /\ EpochExecuted > 0

\* The next EBD is resident, alone, and already in IF/ID.
BoundaryReady ==
    /\ WitnessesAfter = {} /\ learner.active
    /\ plan.pending # NoEntry /\ ~plan.active /\ ~plan.terminated
    /\ plan.pending.key = <<"EBD", plan.toBegin>>
    /\ Len(RingAfter.entries) = 1 /\ RingAfter.used = Words(plan.pending)
    /\ Resident(ImageAfter) = RingAfter.used
    /\ Fetched.cell = CellOf(plan.pending.start) /\ Fetched.word = plan.pending.start

RefillThreshold == MaxBlockWords + EbdReserveWords       \* refill_threshold_words
Refills == Released /\ plan.active /\ FreeWords(RingAfter) >= RefillThreshold

-----------------------------------------------------------------------------
(* What becomes of an accepted instruction: the hard cap comes first, then  *)
(* the end of the epoch, then a refill.                                      *)

\* An assertion fails or an exception is raised: the coroutine is gone.
Abort ==
    /\ phase' = "aborted"
    /\ UNCHANGED <<config, plan, ring, tracker, witnesses, image, learner, loop, imem, hw>>

Accepted ==
    /\ hw' = Advanced
    /\ tracker' = TrackerAfter /\ ring' = RingAfter /\ image' = ImageAfter
    /\ witnesses' = WitnessesAfter
    /\ UNCHANGED <<config, imem>>

AcceptWithin ==
    /\ Accepts /\ ~AtBudget /\ ~EpochEnds
    /\ IF EventIsPlanned
       THEN /\ Accepted
            /\ phase' = IF Refills THEN "fill" ELSE "run"
            /\ UNCHANGED <<plan, learner, loop>>
       ELSE Abort

\* finish_epoch, record_epoch, then begin_epoch with the clock held.
AcceptEpochEnd ==
    /\ Accepts /\ ~AtBudget /\ EpochEnds
    /\ IF EventIsPlanned /\ BoundaryReady
       THEN /\ Accepted
            /\ phase' = "fill"
            /\ \E arm \in Arms :
                 /\ plan' = BeginEpoch(plan, arm)
                 /\ learner' = [active |-> TRUE, arm |-> arm, epochs |-> learner.epochs + 1]
            /\ loop' = [before |-> tracker.accepted + 1, planned |-> None,
                        closed |-> loop.closed + EpochExecuted]
       ELSE Abort

\* The hard cap: what was planned beyond it is discarded.
AcceptBudget ==
    /\ Accepts /\ AtBudget
    /\ IF EventIsPlanned /\ CampaignClosable
       THEN /\ hw' = Advanced
            /\ tracker' = [TrackerAfter EXCEPT !.entries = <<>>, !.progress = 0, !.pending = 0]
            /\ ring' = [entries |-> <<>>, used |-> 0]
            /\ image' = ImageRelease(ImageAfter, ImageAfter.release, RingAfter.used)
            /\ witnesses' = {}
            /\ plan' = TerminatePlanning(plan)
            /\ learner' = [learner EXCEPT !.active = FALSE, !.epochs = @ + 1]
            /\ loop' = [loop EXCEPT !.closed = @ + EpochExecuted]
            /\ phase' = "done"
            /\ UNCHANGED <<config, imem>>
       ELSE Abort

-----------------------------------------------------------------------------
(* fill_available_capacity, one entry at a time, with the clock held HIGH:  *)
(* plan_next_capacity_safe_entry, then patch_stream_entries.                 *)

PayloadDue == ~PlanComplete /\ FreeWords(ring) >= RefillThreshold
\* Fault: an epoch is laid out behind the budget.
BoundaryDueUnbounded ==
    /\ PlanComplete /\ plan.pending = NoEntry
    /\ FreeWords(ring) >= EbdReserveWords

\* The budget bounds where an epoch may begin, never a template of the last one.
BoundaryDue ==
    /\ PlanComplete /\ plan.pending = NoEntry
    /\ plan.inst <= config.budget
    /\ FreeWords(ring) >= EbdReserveWords

\* patch_stream_entries, commit_patched_block and register_many accept it.
PatchLegal(entry) ==
    /\ ring.used + Words(entry) <= Capacity
    /\ ImageAppendLegal(image, entry)
    /\ AppendLegal(ring, entry) /\ EnqueueLegal(tracker, entry)
    /\ entry.witnesses # {} => learner.active /\ learner.arm = plan.arm
    /\ entry.witnesses \cap witnesses = {}

\* Fault: the words land one address low.
PatchOneLow(entry) ==
    /\ imem' = [c \in Cell |->
                  IF \E w \in WordsOf(entry) : CellOf(w + Capacity - 1) = c
                  THEN LET w == CHOOSE w \in WordsOf(entry) : CellOf(w + Capacity - 1) = c
                       IN  [word |-> w, kind |-> entry.kinds[w - entry.start + 1]]
                  ELSE imem[c]]
    /\ ring' = RingAppend(ring, entry)
    /\ tracker' = Enqueue(tracker, entry)
    /\ image' = ImageAppend(image, entry)
    /\ witnesses' = witnesses \cup entry.witnesses

Patch(entry) ==
    /\ imem' = [c \in Cell |->
                  IF \E w \in WordsOf(entry) : CellOf(w) = c
                  THEN LET w == CHOOSE w \in WordsOf(entry) : CellOf(w) = c
                       IN  [word |-> w, kind |-> entry.kinds[w - entry.start + 1]]
                  ELSE imem[c]]
    /\ ring' = RingAppend(ring, entry)
    /\ tracker' = Enqueue(tracker, entry)
    /\ image' = ImageAppend(image, entry)
    /\ witnesses' = witnesses \cup entry.witnesses

FillPayload ==
    /\ phase = "fill" /\ plan.active /\ PayloadDue
    /\ IF FillersDue(plan) <= MaxBackgroundFillers /\ PatchLegal(Block(plan))
       THEN /\ Patch(Block(plan))
            /\ plan' = PlanBlock(plan)
            /\ UNCHANGED <<config, phase, learner, loop, hw>>
       ELSE Abort

\* Planning of the epoch closes; its size is known from here on.
CloseEpochPlan(p) ==
    /\ plan' = ClosePlanning(p)
    /\ loop' = [loop EXCEPT !.planned = p.planned]

\* The next EBD closes the plan of the epoch.
FillBoundary ==
    /\ phase = "fill" /\ plan.active /\ BoundaryDue
    /\ IF PatchLegal(Delimiter(plan)) /\ loop.planned = None
       THEN /\ Patch(Delimiter(plan))
            /\ CloseEpochPlan(PlanBoundary(plan))
            /\ phase' = "run"
            /\ UNCHANGED <<config, learner, hw>>
       ELSE Abort

\* The last epoch is planned and no other may begin.
FillLast ==
    /\ phase = "fill" /\ plan.active /\ PlanComplete /\ plan.inst > config.budget
    /\ IF loop.planned = None
       THEN /\ CloseEpochPlan(plan)
            /\ phase' = "run"
            /\ UNCHANGED <<config, ring, tracker, witnesses, image, learner, imem, hw>>
       ELSE Abort

\* The memory is full.
FillStops ==
    /\ phase = "fill" /\ plan.active /\ ~PayloadDue /\ ~BoundaryDue
    /\ ~(PlanComplete /\ plan.inst > config.budget)
    /\ phase' = "run"
    /\ UNCHANGED <<config, plan, ring, tracker, witnesses, image, learner, loop, imem, hw>>

Finished == phase \in {"done", "aborted"} /\ UNCHANGED vars

-----------------------------------------------------------------------------
FreshPlan ==
    [word |-> 0, inst |-> 1, template |-> 1, boundary |-> 0, toBegin |-> 0,
     pending |-> NoEntry, active |-> FALSE, arm |-> "A0", planned |-> 0,
     terminated |-> FALSE, targeted |-> 0, fillers |-> 0]

EBD0 == Delimiter(FreshPlan)

\* Epoch 0 has begun and EBD_0 is the whole image; the DUT comes out of reset.
Init ==
    /\ config \in [nominal : Nominals, budget : Budgets]
    /\ phase = "fill"
    /\ \E arm \in Arms :
         /\ plan = BeginEpoch(PlanBoundary(FreshPlan), arm)
         /\ learner = [active |-> TRUE, arm |-> arm, epochs |-> 0]
    /\ ring = [entries |-> <<EBD0>>, used |-> 1]
    /\ tracker = [entries |-> <<EBD0>>, progress |-> 0, next |-> 1, accepted |-> 0,
                  pending |-> 1]
    /\ witnesses = {}
    /\ image = [owner |-> [c \in Cell |-> IF c = 0 THEN 0 ELSE NoWord],
                append |-> 1, release |-> 0, expected |-> 0]
    /\ loop = [before |-> 0, planned |-> None, closed |-> 0]
    /\ imem = [c \in Cell |-> IF c = 0 THEN [word |-> 0, kind |-> "plain"] ELSE EmptyCell]
    /\ hw = [pc |-> 0, a |-> Bubble, b |-> Bubble]

ClockEdge ==
    Stall \/ Flush \/ Idle \/ AcceptWithin \/ AcceptEpochEnd \/ AcceptBudget
Fill == FillPayload \/ FillBoundary \/ FillLast \/ FillStops

Next == ClockEdge \/ Fill \/ Finished

\* The clock process toggles for as long as it is not killed, and the coroutine
\* that killed it is the only thing that runs until it starts it again.
StreamSpec == Init /\ [][Next]_vars /\ WF_vars(ClockEdge) /\ WF_vars(Fill)
=============================================================================
