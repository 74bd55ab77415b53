---------------------------- MODULE L2Validation ----------------------------
(***************************************************************************)
(* L2 coverage: which register dependences at distance one and two the     *)
(* executed program has, and which of them are proven to have been         *)
(* executed correctly.  A dependence (a hit) is found when its consumer is *)
(* accepted; the evidence that its producer and consumer were right comes  *)
(* later and from several places -- the PC at acceptance, the next PC when *)
(* the successor is accepted, write-back, store and x0 at retirement -- so *)
(* the checker keeps hits and evidence until they meet, and prunes what no *)
(* hit can need.                                                           *)
(*                                                                         *)
(* Two loops drive it: the streaming benchmark (week9), which retires      *)
(* instructions, and the adaptive campaign (week10), which does not.       *)
(***************************************************************************)
EXTENDS Integers, FiniteSets, FiniteSetsExt

CONSTANTS
    NReg,           \* registers; x0 is register 0
    Retires,        \* TRUE: test_week9_streaming_benchmark; FALSE: the campaign
    MaxInstr,       \* bound: instructions accepted
    MaxFailures     \* bound: checks that fail

ASSUME RegistersAssumption == NReg \in Nat \ {0} /\ Retires \in BOOLEAN
ASSUME BoundsAssumption == MaxInstr \in Nat /\ MaxFailures \in Nat

VARIABLES
    accepted,       \* last instruction_index
    retired,        \* last retired instruction_id
    lastWriter,     \* L2CoverageCollector._last_writer; 0 is None
    events,         \* events_by_index of the loop
    results,        \* L2ValidatedCoverageChecker._architectural_results
    pending,        \* _pending_by_consumer
    bins,           \* [intent, validated] of the collectors
    count,          \* [attempts, validated, rejected] of the checker
    failures,       \* how many checks have failed so far
    raised          \* an exception ended the loop

vars == <<accepted, retired, lastWriter, events, results, pending, bins, count,
          failures, raised>>

Reg == 0 .. NReg - 1
NoReg == -1
D1 == 1
D2 == 2
Kinds == {"pc", "next_pc", "store", "writeback", "x0"}    \* _ARCHITECTURAL_KINDS
InFlight == 3                        \* acceptance to retirement, in instructions
EvidenceWindow == 5                  \* prune keeps latest - 5 onwards

Ids(rs) == {r.id : r \in rs}
Recorded(rs) == {<<r.id, r.kind>> : r \in rs}
\* l2_bin_index
BinOf(hit) == <<hit.consumer - hit.producer, hit.register>>

-----------------------------------------------------------------------------
(* L2CoverageCollector.observe: reads first, then the writer.              *)

Hits(id, sources) ==
    {[producer |-> lastWriter[r], consumer |-> id, register |-> r] :
        r \in {s \in sources \ {0} : lastWriter[s] # 0 /\ id - lastWriter[s] \in {D1, D2}}}

WriterAfter(id, rd) ==
    IF rd \notin {NoReg, 0} THEN [lastWriter EXCEPT ![rd] = id] ELSE lastWriter

-----------------------------------------------------------------------------
(* L2ValidatedCoverageChecker.                                             *)

\* Fault: the next PC is not asked for.
RequirementsWithoutNextPc(event) ==
    {<<event.id, k>> : k \in {"pc", "store", "writeback"}}

\* _participant_requirements
Requirements(event) ==
    {<<event.id, k>> : k \in {"pc", "store", "writeback", "next_pc"}
                             \cup (IF event.rd = 0 THEN {"x0"} ELSE {})}

EventOf(id, seen) == CHOOSE e \in seen : e.id = id

\* register_hit of a hit whose control check passed.
PendingHit(hit, seen) ==
    [hit |-> hit,
     required |-> Requirements(EventOf(hit.producer, seen))
                  \cup Requirements(EventOf(hit.consumer, seen))]

\* _evaluate
Complete(p, rs) == p.required \subseteq Recorded(rs)
Succeeds(p, rs) == \A c \in p.required : [id |-> c[1], kind |-> c[2], passed |-> TRUE] \in rs

\* record_architectural_result: the first result stands, a different one raises.
New(rs, more) == {r \in more : <<r.id, r.kind>> \notin Recorded(rs)}
Conflicts(rs, more) == \E r \in more : \E s \in rs :
                          s.id = r.id /\ s.kind = r.kind /\ s.passed # r.passed

CountAfter(waiting, resolved, good, rejected) ==
    [attempts |-> count.attempts + Cardinality(waiting \ pending) + rejected,
     validated |-> count.validated + Cardinality(good),
     rejected |-> count.rejected + rejected + Cardinality(resolved \ good)]

\* _try_finalize_all, promote_validated, record_l2_validated: what is complete
\* leaves the pending hits and is counted.  rejected: hits whose control failed.
Finalize(waiting, rs, intent, rejected) ==
    LET resolved == {p \in waiting : Complete(p, rs)}
        good == {p \in resolved : Succeeds(p, rs)}
    IN  /\ pending' = waiting \ resolved
        /\ bins' = [intent |-> intent,
                    validated |-> bins.validated \cup {BinOf(p.hit) : p \in good}]
        /\ count' = CountAfter(waiting, resolved, good, rejected)

\* Fault: evidence is kept for the latest instruction only.
PruneTooEarly(rs, waiting, latest) ==
    {r \in rs : r.id >= latest \/ r.id \in {c[1] : c \in UNION {p.required : p \in waiting}}}

\* Fault: evidence is kept for ever.
PruneNothing(rs, waiting, latest) == rs

\* prune
Prune(rs, waiting, latest) ==
    {r \in rs : \/ r.id >= Max({1, latest - EvidenceWindow})
                \/ r.id \in {c[1] : c \in UNION {p.required : p \in waiting}}}

-----------------------------------------------------------------------------
(* The loops.                                                              *)

Failed(more) == Cardinality({r \in more : ~r.passed})

\* An event's successor has been seen: its PC, and the next PC before it.
AcceptanceEvidence(id, nextPcPasses) ==
    {[id |-> id, kind |-> "pc", passed |-> TRUE]} \cup
    (IF id = 1 THEN {} ELSE {[id |-> id - 1, kind |-> "next_pc", passed |-> nextPcPasses]})

\* Fault: the producer at distance two is forgotten first.
StaleEventEarly(id) == id - 1

\* stale_event_id
StaleEvent(id) == id - 2

\* The accepting half of an iteration.  The PC match is asserted; the next PC may
\* differ, because the golden next PC is not cut to the width of the DUT's.
Accept ==
    /\ ~raised /\ accepted < MaxInstr
    /\ Retires => accepted - retired < InFlight
    /\ \E rd \in Reg \cup {NoReg}, sources \in SUBSET Reg, nextPcPasses \in BOOLEAN :
         LET id == accepted + 1
             hits == Hits(id, sources)
             evidence == AcceptanceEvidence(id, nextPcPasses)
             known == results \cup New(results, evidence)
             seen == events \cup {[id |-> id, rd |-> rd]}
         IN  /\ Cardinality(sources) <= 2
             /\ accepted' = id
             /\ lastWriter' = WriterAfter(id, rd)
             /\ events' = {e \in seen : e.id # StaleEvent(id)}
             /\ \E controlled \in SUBSET hits :
                  LET waiting == pending \cup {PendingHit(h, seen) : h \in controlled} IN
                  /\ failures' = failures + Failed(New(results, evidence))
                                          + Cardinality(hits \ controlled)
                  /\ failures' <= MaxFailures
                  /\ IF \/ Conflicts(results, evidence)
                        \/ \E h \in hits : h.producer \notin Ids(seen)
                        \/ \E h \in controlled : \E p \in pending : p.hit = h
                     THEN raised' = TRUE /\ UNCHANGED <<results, pending, bins, count>>
                     ELSE /\ raised' = FALSE
                          /\ Finalize(waiting, known,
                                      bins.intent \cup {BinOf(h) : h \in hits},
                                      Cardinality(hits \ controlled))
                          /\ results' = Prune(known, pending', id)
    /\ UNCHANGED retired

\* The retiring half, in the benchmark only: the functional verdicts.
Retire ==
    /\ ~raised /\ Retires /\ retired < accepted
    /\ \E passes \in [{"writeback", "store", "x0"} -> BOOLEAN] :
         LET id == retired + 1
             evidence == {[id |-> id, kind |-> k, passed |-> passes[k]] : k \in DOMAIN passes}
             known == results \cup New(results, evidence)
         IN  /\ failures' = failures + Failed(New(results, evidence))
             /\ failures' <= MaxFailures
             /\ retired' = id
             /\ IF Conflicts(results, evidence)
                THEN raised' = TRUE /\ UNCHANGED <<results, pending, bins, count>>
                ELSE /\ raised' = FALSE
                     /\ Finalize(pending, known, bins.intent, 0)
                     /\ results' = known
    /\ UNCHANGED <<accepted, lastWriter, events>>

Init ==
    /\ accepted = 0 /\ retired = 0
    /\ lastWriter = [r \in Reg |-> 0]
    /\ events = {} /\ results = {} /\ pending = {}
    /\ bins = [intent |-> {}, validated |-> {}]
    /\ count = [attempts |-> 0, validated |-> 0, rejected |-> 0]
    /\ failures = 0 /\ raised = FALSE

Next == Accept \/ Retire

L2Spec == Init /\ [][Next]_vars

-----------------------------------------------------------------------------
(* Properties.                                                             *)

Produced(id, kind) ==
    CASE kind = "pc" -> id <= accepted
      [] kind = "next_pc" -> id < accepted
      [] OTHER -> id <= retired

\* No exception of the checker and no missing producer event ends a loop: what is
\* forgotten (events, evidence) is never asked for, nothing is recorded twice.
LoopGoesOn == ~raised

\* Evidence is not lost to pruning: what has been produced about an instruction
\* that a pending hit, or a hit of the next acceptance, depends on is still there.
EvidenceSurvives ==
    \A c \in (UNION {p.required : p \in pending})
             \cup (UNION {Requirements(e) : e \in events}) :
        Produced(c[1], c[2]) => c \in Recorded(results)

\* A hit is pending only as long as evidence can still come: its consumer has not
\* retired, or its successor has not been accepted.
ResolvedWhenDue ==
    Retires => \A p \in pending : p.hit.consumer > retired \/ p.hit.consumer = accepted

\* A bin is validated only by a hit of that bin whose producer and consumer have
\* both retired and whose successor's PC has confirmed the control flow.
ValidatedAfterRetirement ==
    [][\A b \in bins'.validated \ bins.validated :
         \E p \in pending : /\ BinOf(p.hit) = b
                            /\ p.hit.consumer <= retired' /\ p.hit.consumer < accepted']_vars

\* Retained state does not grow with the campaign: after an acceptance there is
\* evidence about at most six instructions (test_week9_benchmark.py:860,
\* L2_REALIZATION_CONTRACT.md section 17).
CacheIsBounded == Cardinality(Ids(results)) <= 6
=============================================================================
