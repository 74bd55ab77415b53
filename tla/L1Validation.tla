---------------------------- MODULE L1Validation ----------------------------
(***************************************************************************)
(* The life of an L1 hit in the live loop of week 9, from the acceptance   *)
(* of its consumer to its final record.  Five kinds of evidence arrive at  *)
(* different times and places:                                             *)
(*                                                                         *)
(*   acceptance      the hit itself, its control check, the consumer's PC  *)
(*   one stage on    the store result                                      *)
(*   retirement      write-back and x0 results, retire timing, hazard      *)
(*                   attribution                                           *)
(*                                                                         *)
(* L1ValidatedCoverageCollector (week5) waits for the architectural        *)
(* results of all participants and decides; LiveCoverageCoordinator        *)
(* (week9) promotes the bin and waits for the two timing verdicts before   *)
(* it emits one record.  Each has its own table of open hits, and each     *)
(* raises when it is told something it did not expect.                     *)
(*                                                                         *)
(* Verdicts are free choices here; L1Hazards derives them.                 *)
(***************************************************************************)
EXTENDS Integers, FiniteSets, FiniteSetsExt

CONSTANTS
    Bins,           \* the L1 bins in play
    MaxInstr,       \* bound: instructions accepted
    MaxFailures     \* bound: verdicts that are negative

\* Distances of the producers, for the bins that differ in it.
Distances == [H02 |-> {1}, H04 |-> {2}, H05 |-> {3}, H10 |-> {1, 2}, H18 |-> {1}]

ASSUME BinsAssumption == Bins \subseteq DOMAIN Distances
ASSUME BoundsAssumption == MaxInstr \in Nat /\ MaxFailures \in Nat

VARIABLES
    tags,           \* RetireMonitor: the ids in b, c and d; 0 is an empty slot
    edge,           \* the clock edge the loop waits for
    accepted,       \* accepted_count
    events,         \* ids in events_by_index
    hitsBy,         \* the hits in hits_by_consumer
    results,        \* _architectural_results
    waiting,        \* _pending_by_consumer
    validatedSeen,  \* bins with validated_seen of the week-5 collector
    live,           \* LiveCoverageCoordinator._pending
    performance,    \* _performance_by_consumer
    coverage,       \* [intent, validated]: l1_state of the week-9 collector
    emitted,        \* ValidatedAttributionRecords of this edge
    failures,       \* negative verdicts so far
    raised          \* an exception ended the loop

vars == <<tags, edge, accepted, events, hitsBy, results, waiting, validatedSeen,
          live, performance, coverage, emitted, failures, raised>>

None == "none"                       \* evidence that has not arrived

-----------------------------------------------------------------------------
(* L1ValidatedCoverageCollector.                                            *)

Participants(hit) == {hit.consumer} \cup {hit.consumer - d : d \in Distances[hit.bin]}

\* Fault: a store is nobody's business.
RequiredWithoutStore(hit) ==
    Participants(hit) \X ({"pc", "writeback"} \cup (IF hit.bin = "H18" THEN {"x0"} ELSE {}))

\* _required_checks: x0 for the bins that are about it only.
Required(hit) ==
    Participants(hit) \X ({"pc", "store", "writeback"}
                          \cup (IF hit.bin = "H18" THEN {"x0"} ELSE {}))

Recorded(rs) == {<<r.id, r.kind>> : r \in rs}
Ids(rs) == {r.id : r \in rs}

\* record_architectural_result: the first result stands, a different one raises.
New(more) == {r \in more : <<r.id, r.kind>> \notin Recorded(results)}
Conflicts(more) == \E r \in more, s \in results :
                       r.id = s.id /\ r.kind = s.kind /\ r.passed # s.passed

\* _evaluate_architecture of a hit whose evidence is complete.
Verdict(hit, rs) ==
    IF \A c \in Required(hit) : [id |-> c[1], kind |-> c[2], passed |-> TRUE] \in rs
    THEN "validated" ELSE "architecture_fail"

\* _try_finalize_all
Ready(hits, rs) == {h \in hits : Required(h) \subseteq Recorded(rs)}

\* Fault: what the open hits still need is pruned with the rest.
PruneTooEarly(rs, open, latest) == {r \in rs : r.id >= latest - 1}

\* Fault: nothing is ever forgotten.
PruneNothing(rs, open, latest) == rs

\* prune
Prune(rs, open, latest) ==
    {r \in rs : r.id >= Max({1, latest - 4}) \/ r.id \in UNION {Participants(h) : h \in open}}

-----------------------------------------------------------------------------
(* LiveCoverageCoordinator.                                                 *)

HitsOf(entries) == {e.hit : e \in entries}

\* register_l1_intent, and for a hit whose control check failed the immediate
\* outcome of register_hit.
Entry(hit, controlled) ==
    [hit |-> hit, validation |-> IF controlled THEN None ELSE "control_fail", hazard |-> None]

\* record_validation for the hits decided now: every outcome finds its entry, which
\* had none before, and promotion needs prior intent.  (While other evidence is
\* missing the record given to _validate_record is UNRESOLVED, always consistent.)
WithValidation(entries, decided, rs) ==
    {IF e.hit \in decided THEN [e EXCEPT !.validation = Verdict(e.hit, rs)] ELSE e : e \in entries}

ValidationRaises(entries, decided, intent) ==
    \E h \in decided : h.bin \notin intent \/ ~\E e \in entries : e.hit = h /\ e.validation = None

PromotedBy(decided, rs) == {h.bin : h \in {x \in decided : Verdict(x, rs) = "validated"}}

\* _try_finalize
Complete(e, perf) ==
    e.validation # None /\ e.hazard # None /\ e.hit.consumer \in Ids(perf)

\* attribute_l1_hit with all three layers present.
StatusOf(e, onTime) ==
    LET timing == e.validation = "control_fail" \/ e.hazard = "fail" \/ ~onTime
        functional == e.validation = "architecture_fail"
    IN  CASE timing /\ functional -> "TIMING_AND_FUNCTIONAL_MISMATCH"
          [] timing /\ ~functional -> "TIMING_MISMATCH"
          [] ~timing /\ functional -> "FUNCTIONAL_MISMATCH"
          [] OTHER -> "REALIZED_CORRECTLY"

RecordOf(e, perf) ==
    [hit |-> e.hit, validated |-> e.validation = "validated",
     control |-> e.validation # "control_fail",
     status |-> StatusOf(e, \E p \in perf : p.id = e.hit.consumer /\ p.passed)]

\* _maybe_release_performance
Retained(perf, entries) == {p \in perf : \E e \in entries : e.hit.consumer = p.id}

-----------------------------------------------------------------------------
(* The loop.                                                                *)

Negative(rs) == Cardinality({r \in rs : ~r.passed})

\* Falling edge: results of the stages D and C, then the retirement from D with its
\* performance result (observe_retire) and one hazard attribution per hit.
Falling(stageResults, onTime, timely) ==
    LET decided == waiting \ waiting'
        hits == {h \in hitsBy : h.consumer = tags.d}
        perf == IF hits = {} THEN performance
                ELSE performance \cup {[id |-> tags.d, passed |-> onTime]}
        attributed == {IF e.hit \in hits
                       THEN [e EXCEPT !.hazard = IF e.hit \in timely THEN "pass" ELSE "fail"]
                       ELSE e : e \in WithValidation(live, decided, results')}
        final == {e \in attributed : Complete(e, perf)}
    IN  /\ failures' = failures + Negative(New(stageResults)) + Cardinality(hits \ timely)
                                + (IF hits # {} /\ ~onTime THEN 1 ELSE 0)
        /\ failures' <= MaxFailures
        /\ results' = results \cup New(stageResults)
        /\ waiting' = waiting \ Ready(waiting, results')
        /\ validatedSeen' = validatedSeen \cup PromotedBy(decided, results')
        /\ coverage' = [coverage EXCEPT !.validated = @ \cup PromotedBy(decided, results')]
        /\ live' = attributed \ final
        /\ hitsBy' = hitsBy \ hits
        /\ emitted' = {RecordOf(e, perf) : e \in final}
        /\ performance' = Retained(perf, live')
        /\ raised' = \/ Conflicts(stageResults)
                     \/ ValidationRaises(live, decided, coverage.intent)
                     \/ ~(hits \subseteq HitsOf({e \in live : e.hazard = None}))
                     \/ hits # {} /\ tags.d \in Ids(performance)

StageResults(passes) ==
    {[id |-> IF k = "store" THEN tags.c ELSE tags.d, kind |-> k, passed |-> passes[k]] :
        k \in {s \in DOMAIN passes : (IF s = "store" THEN tags.c ELSE tags.d) # 0}}

FallingEdge ==
    /\ ~raised /\ edge = "falling"
    /\ \E passes \in [{"writeback", "x0", "store"} -> BOOLEAN], onTime \in BOOLEAN,
          timely \in SUBSET {h \in hitsBy : h.consumer = tags.d} :
            Falling(StageResults(passes), onTime, timely)
    /\ edge' = "rising"
    /\ UNCHANGED <<tags, accepted, events>>

\* Fault: an event is forgotten as soon as its successor is there.
StaleEventEarly(id) == id - 1

\* stale_event_index
StaleEvent(id) == id - 4

\* What the classifier can find about instruction id: one hit per bin, and H10, which
\* takes both operands from the last two instructions, leaves none for H05 or H18.
PossibleHits(id) ==
    {hits \in SUBSET {[bin |-> b, consumer |-> id] : b \in Bins} :
        LET bins == {h.bin : h \in hits} IN
        /\ \A b \in bins : \A d \in Distances[b] : id - d >= 1
        /\ "H10" \in bins => bins \cap {"H05", "H18"} = {}}

\* Rising edge with an accepted instruction: its PC result, and for every hit
\* register_l1_intent, the control check, register_hit, record_validation; then
\* what no later hit can need is dropped.
Accept(hits, controlled) ==
    LET id == accepted + 1
        known == results \cup {[id |-> id, kind |-> "pc", passed |-> TRUE]}
        seen == events \cup {id}
        decided == (waiting \cup controlled) \ waiting'
        entries == live \cup {Entry(h, h \in controlled) : h \in hits}
        intent == coverage.intent \cup {h.bin : h \in hits}
    IN  /\ failures' = failures + Cardinality(hits \ controlled)
        /\ failures' <= MaxFailures
        /\ accepted' = id
        /\ hitsBy' = hitsBy \cup hits
        /\ waiting' = (waiting \cup controlled) \ Ready(waiting \cup controlled, known)
        /\ validatedSeen' = validatedSeen \cup PromotedBy(decided, known)
        /\ coverage' = [intent |-> intent,
                        validated |-> coverage.validated \cup PromotedBy(decided, known)]
        /\ live' = WithValidation(entries, decided, known)
        /\ events' = seen \ {StaleEvent(id)}
        /\ results' = Prune(known, waiting', id)
        /\ tags' = [b |-> id, c |-> tags.b, d |-> tags.c]
        /\ raised' = \/ \E h \in hits : h \in HitsOf(live)
                     \/ \E h \in hits : h.bin = "H10" /\ ~(Participants(h) \subseteq seen)
                     \/ ValidationRaises(entries, decided, intent)

\* Rising edge with a bubble: nothing was accepted, the tags move on.
Bubble ==
    /\ tags' = [b |-> 0, c |-> tags.b, d |-> tags.c]
    /\ UNCHANGED <<accepted, events, hitsBy, results, waiting, validatedSeen, live, coverage,
                   failures, raised>>

RisingEdge ==
    /\ ~raised /\ edge = "rising"
    /\ edge' = "falling"
    /\ emitted' = {} /\ UNCHANGED performance
    /\ \/ accepted < MaxInstr
          /\ \E hits \in PossibleHits(accepted + 1) :
                \E controlled \in SUBSET hits : Accept(hits, controlled)
       \/ Bubble

L1ValInit ==
    /\ tags = [b |-> 0, c |-> 0, d |-> 0] /\ edge = "falling"
    /\ accepted = 0 /\ events = {} /\ hitsBy = {}
    /\ results = {} /\ waiting = {} /\ validatedSeen = {}
    /\ live = {} /\ performance = {}
    /\ coverage = [intent |-> {}, validated |-> {}]
    /\ emitted = {} /\ failures = 0 /\ raised = FALSE

L1ValNext == FallingEdge \/ RisingEdge

\* The clock ticks: await FallingEdge and await RisingEdge return.
L1ValSpec == L1ValInit /\ [][L1ValNext]_vars /\ WF_vars(L1ValNext)

-----------------------------------------------------------------------------
(* Properties.                                                              *)

\* No protocol check of the collector, the control checker or the coordinator ever
\* stops the loop: no evidence comes twice, too late or for a hit that is not there.
LoopNeverRaises == ~raised

\* Retained state is that of the instructions in flight, as the docstrings of both
\* classes claim: the two tables of open hits agree, no performance result outlives
\* its retirement, and the cache holds evidence about six instructions at most.
RetainsInFlight ==
    /\ \A e \in live : e.hit.consumer \in {tags.b, tags.c, tags.d}
    /\ hitsBy = HitsOf(live)
    /\ waiting = HitsOf({e \in live : e.validation = None})
    /\ performance = {}
    /\ Cardinality(Ids(results)) <= 6

\* A record says validated exactly when the control check passed and no result about
\* a producer or the consumer was negative, x0 results counting for H18 only -- with
\* what was known when the consumer retired, also about producers retired long
\* before.  Both collectors have then seen the same bins.
RecordsFollowEvidence ==
    /\ \A r \in emitted :
         /\ r.validated <=>
              /\ r.control
              /\ \A x \in results : ~x.passed /\ x.id \in Participants(r.hit)
                                       => x.kind = "x0" /\ r.hit.bin # "H18"
         /\ r.validated => r.status \in {"REALIZED_CORRECTLY", "TIMING_MISMATCH"}
         /\ r.validated => r.hit.bin \in coverage.validated
    /\ validatedSeen = coverage.validated
    /\ coverage.validated \subseteq coverage.intent

\* Every hit gets its record: once the program is over the pipeline drains, and the
\* live test's final assertions hold, whatever the verdicts and bubbles were.
EndsResolved == <>[](hitsBy = {} /\ waiting = {} /\ live = {} /\ performance = {})
=============================================================================
