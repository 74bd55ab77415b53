----------------------------- MODULE L1Proofs -----------------------------
(***************************************************************************)
(* Theorems about L1Validation, for any set of the bins whose hits have    *)
(* producers, programs of any length and any verdicts.                     *)
(***************************************************************************)
EXTENDS L1Invariant, FiniteSetTheorems, TLAPS

-----------------------------------------------------------------------------
(* Hits.                                                                    *)

\* A producer is one to three instructions before its consumer.
LEMMA DistanceBounds == \A b \in Bins : Distances[b] \subseteq {1, 2, 3}
<1>1. \A b \in {"H02", "H04", "H05", "H10", "H18"} : Distances[b] \subseteq {1, 2, 3}
  BY DEF Distances
<1>2. DOMAIN Distances = {"H02", "H04", "H05", "H10", "H18"}
  BY DEF Distances
<1> QED BY <1>1, <1>2, BinsAssumption

\* The participants of a hit are its consumer and instructions just before it.
LEMMA ParticipantBounds ==
    ASSUME NEW h, h.bin \in Bins, h.consumer \in Nat \ {0},
           \A d \in Distances[h.bin] : h.consumer - d >= 1
    PROVE  /\ h.consumer \in Participants(h)
           /\ \A i \in Participants(h) : /\ i \in Nat \ {0} /\ i <= h.consumer
                                         /\ i >= h.consumer - 3
<1>1. \A d \in Distances[h.bin] : d \in {1, 2, 3} /\ h.consumer - d >= 1
  BY DistanceBounds
<1>2. ASSUME NEW i \in Participants(h)
      PROVE  i \in Nat \ {0} /\ i <= h.consumer /\ i >= h.consumer - 3
  <2>1. i = h.consumer \/ \E d \in Distances[h.bin] : i = h.consumer - d
    BY DEF Participants
  <2> QED BY <2>1, <1>1
<1> QED BY <1>2 DEF Participants

\* What a hit asks for is about its participants; the write-back is always asked for.
LEMMA RequiredKinds ==
    ASSUME NEW h
    PROVE  /\ \A c \in Required(h) : \E i \in Participants(h) : \E k \in Kinds : c = <<i, k>>
           /\ \A i \in Participants(h) : \A k \in {"pc", "store", "writeback"} :
                  <<i, k>> \in Required(h)
           /\ h.bin = "H18" => \A i \in Participants(h) : <<i, "x0">> \in Required(h)
           /\ \A i \in Participants(h) : <<i, "x0">> \in Required(h) => h.bin = "H18"
<1>1. CASE h.bin = "H18"
  BY <1>1 DEF Required, Kinds
<1>2. CASE h.bin # "H18"
  BY <1>2 DEF Required, Kinds
<1> QED BY <1>1, <1>2

\* A pair is recorded when a result carries it.
LEMMA RecordedIff ==
    ASSUME NEW rs, NEW i, NEW k
    PROVE  <<i, k>> \in Recorded(rs) <=> \E r \in rs : r.id = i /\ r.kind = k
BY DEF Recorded

\* A hit whose evidence is complete is validated unless a result about a participant
\* is negative, where x0 results count for H18 only.
LEMMA VerdictFollows ==
    ASSUME NEW rs, rs \subseteq [id : Nat \ {0}, kind : Kinds, passed : BOOLEAN],
           \A r, s \in rs : r.id = s.id /\ r.kind = s.kind => r = s,
           NEW h, Required(h) \subseteq Recorded(rs)
    PROVE  /\ Verdict(h, rs) \in {"validated", "architecture_fail"}
           /\ Verdict(h, rs) = "validated"
                <=> \A x \in rs : ~x.passed /\ x.id \in Participants(h)
                                     => x.kind = "x0" /\ h.bin # "H18"
<1> DEFINE Good(c) == [id |-> c[1], kind |-> c[2], passed |-> TRUE] \in rs
<1>1. Verdict(h, rs) = IF \A c \in Required(h) : Good(c) THEN "validated"
                       ELSE "architecture_fail"
  BY DEF Verdict
<1>2. ASSUME \A c \in Required(h) : Good(c),
             NEW x \in rs, ~x.passed, x.id \in Participants(h)
      PROVE  x.kind = "x0" /\ h.bin # "H18"
  <2>1. x.kind \in Kinds
    OBVIOUS
  <2>2. ASSUME <<x.id, x.kind>> \in Required(h) PROVE FALSE
    <3>1. [id |-> x.id, kind |-> x.kind, passed |-> TRUE] \in rs
      BY <1>2, <2>2
    <3>2. x = [id |-> x.id, kind |-> x.kind, passed |-> TRUE]
      BY <3>1
    <3> QED BY <3>2, <1>2
  <2> QED BY <2>1, <2>2, <1>2, RequiredKinds DEF Kinds
<1>3. ASSUME \A x \in rs : ~x.passed /\ x.id \in Participants(h)
                              => x.kind = "x0" /\ h.bin # "H18",
             NEW c \in Required(h)
      PROVE  Good(c)
  <2>1. PICK i \in Participants(h) : \E k \in Kinds : c = <<i, k>>
    BY RequiredKinds
  <2>2. PICK k \in Kinds : c = <<i, k>>
    BY <2>1
  <2>3. PICK r \in rs : r.id = i /\ r.kind = k
    BY <2>2, RecordedIff
  <2>4. r.passed
    BY <1>3, <2>2, <2>3, RequiredKinds
  <2>5. r = [id |-> i, kind |-> k, passed |-> TRUE]
    BY <2>3, <2>4
  <2> QED BY <2>2, <2>5
<1> QED BY <1>1, <1>2, <1>3

-----------------------------------------------------------------------------
(* Consequences of the invariant.                                           *)

\* The ids in the stages are different and in order.
LEMMA TagFacts ==
    ASSUME L1Types, TagsInOrder
    PROVE  /\ tags.b \in Nat /\ tags.c \in Nat /\ tags.d \in Nat
           /\ tags.b <= accepted /\ tags.c <= accepted /\ tags.d <= accepted
           /\ tags.b # 0 => tags.b > tags.c /\ tags.b > tags.d /\ tags.b = accepted
           /\ tags.c # 0 => tags.c > tags.d /\ tags.c >= accepted - 1
           /\ tags.d # 0 => tags.d >= accepted - 2
<1>1. tags.b \in Nat /\ tags.c \in Nat /\ tags.d \in Nat /\ accepted \in Nat
  BY DEF L1Types
<1> QED BY <1>1 DEF TagsInOrder

\* The hits in the tables are well formed and their participants recent.
LEMMA OpenHits ==
    ASSUME L1Inv, NEW h \in hitsBy
    PROVE  /\ h.bin \in Bins /\ h.consumer \in Nat \ {0} /\ h.consumer <= accepted
           /\ h.consumer >= accepted - 2
           /\ \A i \in Participants(h) : /\ i \in Nat \ {0} /\ i <= h.consumer
                                         /\ i >= h.consumer - 3
           /\ h.consumer \in Participants(h)
<1>1. h.bin \in Bins /\ h.consumer \in Nat
  BY DEF L1Inv, L1Types, TablesAgree, HitsOf
<1>2. /\ h.consumer \in Unretired /\ h.consumer # 0
      /\ \A d \in Distances[h.bin] : h.consumer - d >= 1
  BY DEF L1Inv, HitsOpen
<1>3. h.consumer <= accepted /\ h.consumer >= accepted - 2
  BY <1>2, TagFacts DEF L1Inv, L1Types, Unretired
<1> QED BY <1>1, <1>2, <1>3, ParticipantBounds

\* Waiting hits are open.
LEMMA WaitingIsOpen == ASSUME L1Inv PROVE waiting \subseteq hitsBy
BY DEF L1Inv, TablesAgree, HitsOf

-----------------------------------------------------------------------------
(* The falling edge: what the stages tell.                                  *)

\* The store result of c, write-back and x0 results of d, when they are occupied.
LEMMA StagesTell ==
    ASSUME L1Types, NEW passes \in [{"writeback", "x0", "store"} -> BOOLEAN]
    PROVE  /\ \A r \in StageResults(passes) :
                 /\ r = [id |-> r.id, kind |-> r.kind, passed |-> passes[r.kind]]
                 /\ r.id \in Nat \ {0} /\ r.kind \in {"writeback", "x0", "store"}
                 /\ r.kind = "store" => r.id = tags.c
                 /\ r.kind # "store" => r.id = tags.d
           /\ tags.c # 0 => \E r \in StageResults(passes) : r.id = tags.c /\ r.kind = "store"
           /\ tags.d # 0 => \A k \in {"writeback", "x0"} :
                               \E r \in StageResults(passes) : r.id = tags.d /\ r.kind = k
<1> DEFINE Stage(k) == IF k = "store" THEN tags.c ELSE tags.d
           told == {k \in {"writeback", "x0", "store"} : Stage(k) # 0}
           Result(k) == [id |-> Stage(k), kind |-> k, passed |-> passes[k]]
<1>1. tags.c \in Nat /\ tags.d \in Nat
  BY DEF L1Types
<1>2. StageResults(passes) = {Result(k) : k \in told}
  BY DEF StageResults
<1>3. ASSUME NEW r \in StageResults(passes)
      PROVE  \E k \in {"writeback", "x0", "store"} : Stage(k) # 0 /\ r = Result(k)
  BY <1>2
<1>4. \A k \in {"writeback", "x0", "store"} : Stage(k) # 0 => Result(k) \in StageResults(passes)
  BY <1>2
<1>5. \A k : Result(k).id = Stage(k) /\ Result(k).kind = k
             /\ Result(k) = [id |-> Result(k).id, kind |-> Result(k).kind,
                             passed |-> passes[Result(k).kind]]
  OBVIOUS
<1> HIDE DEF told, Result
<1>6. \A r \in StageResults(passes) :
         /\ r = [id |-> r.id, kind |-> r.kind, passed |-> passes[r.kind]]
         /\ r.id \in Nat \ {0} /\ r.kind \in {"writeback", "x0", "store"}
         /\ r.kind = "store" => r.id = tags.c
         /\ r.kind # "store" => r.id = tags.d
  BY <1>1, <1>3, <1>5
<1>7. tags.c # 0 => \E r \in StageResults(passes) : r.id = tags.c /\ r.kind = "store"
  BY <1>4, <1>5
<1>8. tags.d # 0 => \A k \in {"writeback", "x0"} :
                       \E r \in StageResults(passes) : r.id = tags.d /\ r.kind = k
  BY <1>4, <1>5
<1> QED BY <1>6, <1>7, <1>8

\* After the falling edge exactly that has been produced in addition.
LEMMA ProducedAtFalling ==
    ASSUME L1Types, TagsInOrder, edge = "falling", edge' = "rising",
           tags' = tags, accepted' = accepted, NEW i \in Nat \ {0}, NEW k \in Kinds
    PROVE  Produced(i, k)' <=> \/ Produced(i, k)
                               \/ i = tags.c /\ k = "store"
                               \/ i = tags.d /\ k \in {"writeback", "x0"}
<1>1. tags.b \in Nat /\ tags.c \in Nat /\ tags.d \in Nat /\ accepted \in Nat
      /\ tags.c <= accepted /\ tags.d <= accepted
      /\ (tags.b # 0 => tags.b > tags.c /\ tags.b > tags.d)
      /\ (tags.c # 0 => tags.c > tags.d)
  BY TagFacts DEF L1Types
<1>2. CASE k = "pc"
  BY <1>2, <1>1 DEF Produced
<1>3. CASE k = "store"
  BY <1>3, <1>1 DEF Produced
<1>4. CASE k \in {"writeback", "x0"}
  BY <1>4, <1>1 DEF Produced
<1> QED BY <1>2, <1>3, <1>4 DEF Kinds

\* The results of the stages are new: none of them was produced before.
LEMMA StagesTellNews ==
    ASSUME L1Inv, edge = "falling",
           NEW passes \in [{"writeback", "x0", "store"} -> BOOLEAN]
    PROVE  /\ ~Conflicts(StageResults(passes))
           /\ New(StageResults(passes)) = StageResults(passes)
<1>1. ASSUME NEW r \in StageResults(passes), NEW s \in results,
             r.id = s.id, r.kind = s.kind
      PROVE  FALSE
  <2>1. /\ r.kind \in {"writeback", "x0", "store"} /\ r.id \in Nat \ {0}
        /\ r.kind = "store" => r.id = tags.c
        /\ r.kind # "store" => r.id = tags.d
    BY StagesTell DEF L1Inv
  <2>2. Produced(r.id, r.kind)
    BY <1>1 DEF L1Inv, ResultsProduced
  <2> QED BY <2>1, <2>2 DEF Produced
<1>2. ~Conflicts(StageResults(passes))
  BY <1>1 DEF Conflicts
<1>3. \A r \in StageResults(passes) : <<r.id, r.kind>> \notin Recorded(results)
  BY <1>1, RecordedIff
<1> QED BY <1>2, <1>3 DEF New

-----------------------------------------------------------------------------
(* The falling edge: who is ready.                                          *)

\* What is recorded afterwards: everything produced that is recent or waited for,
\* nothing else, and nothing twice.
LEMMA RecordedAtFalling ==
    ASSUME L1Inv, edge = "falling", edge' = "rising",
           tags' = tags, accepted' = accepted,
           NEW passes \in [{"writeback", "x0", "store"} -> BOOLEAN],
           NEW rs, rs = results \cup New(StageResults(passes))
    PROVE  /\ rs \subseteq [id : Nat \ {0}, kind : Kinds, passed : BOOLEAN]
           /\ \A r \in rs : Produced(r.id, r.kind)' /\ r.id >= accepted - 5
           /\ \A r, s \in rs : r.id = s.id /\ r.kind = s.kind => r = s
           /\ \A i \in 1 .. accepted, k \in Kinds :
                 /\ i >= accepted - 4 \/ \E h \in waiting : i \in Participants(h)
                 /\ Produced(i, k)'
                 => <<i, k>> \in Recorded(rs)
<1> DEFINE stage == StageResults(passes)
<1>1. rs = results \cup stage
  BY StagesTellNews
<1>2. L1Types /\ TagsInOrder
  BY DEF L1Inv
<1>3. \A r \in stage :
         /\ r = [id |-> r.id, kind |-> r.kind, passed |-> passes[r.kind]]
         /\ r.id \in Nat \ {0} /\ r.kind \in {"writeback", "x0", "store"}
         /\ r.kind = "store" => r.id = tags.c
         /\ r.kind # "store" => r.id = tags.d
  BY <1>2, StagesTell
<1>4. \A r \in results : /\ r \in [id : Nat \ {0}, kind : Kinds, passed : BOOLEAN]
                         /\ Produced(r.id, r.kind) /\ r.id >= accepted - 5
  BY DEF L1Inv, L1Types, ResultsProduced, CacheIsRecent
<1> HIDE DEF stage
<1>5. ASSUME NEW r \in rs
      PROVE  /\ r \in [id : Nat \ {0}, kind : Kinds, passed : BOOLEAN]
             /\ Produced(r.id, r.kind)' /\ r.id >= accepted - 5
  <2>1. CASE r \in results
    <3>1. r.id \in Nat \ {0} /\ r.kind \in Kinds
      BY <2>1, <1>4
    <3> QED BY <2>1, <3>1, <1>2, <1>4, ProducedAtFalling
  <2>2. CASE r \in stage
    <3>1. r \in [id : Nat \ {0}, kind : Kinds, passed : BOOLEAN]
      BY <2>2, <1>3 DEF Kinds
    <3>2. Produced(r.id, r.kind)'
      BY <2>2, <3>1, <1>2, <1>3, ProducedAtFalling
    <3>3. r.id >= accepted - 5
      BY <2>2, <1>2, <1>3, TagFacts DEF L1Types
    <3> QED BY <3>1, <3>2, <3>3
  <2> QED BY <2>1, <2>2, <1>1
<1>6. ASSUME NEW r \in rs, NEW s \in rs, r.id = s.id, r.kind = s.kind
      PROVE  r = s
  <2>1. CASE r \in results /\ s \in results
    BY <2>1, <1>6 DEF L1Inv, ResultsProduced
  <2>2. CASE r \in stage /\ s \in stage
    BY <2>2, <1>3, <1>6
  <2>3. ASSUME NEW x \in results, NEW y \in stage, x.id = y.id, x.kind = y.kind
        PROVE  FALSE
    <3>1. Produced(y.id, y.kind)
      BY <2>3, <1>4
    <3> QED BY <3>1, <2>3, <1>3 DEF Produced
  <2> QED BY <2>1, <2>2, <2>3, <1>1, <1>6
<1>7. ASSUME NEW i \in 1 .. accepted, NEW k \in Kinds,
             i >= accepted - 4 \/ \E h \in waiting : i \in Participants(h),
             Produced(i, k)'
      PROVE  <<i, k>> \in Recorded(rs)
  <2>1. i \in Nat \ {0}
    BY <1>2 DEF L1Types
  <2>2. CASE Produced(i, k)
    <3>1. <<i, k>> \in Recorded(results)
      BY <2>2, <1>7 DEF L1Inv, EvidenceKept
    <3> QED BY <3>1, <1>1, RecordedIff
  <2>3. CASE ~Produced(i, k)
    <3>1. (i = tags.c /\ k = "store") \/ (i = tags.d /\ k \in {"writeback", "x0"})
      BY <2>1, <2>3, <1>2, <1>7, ProducedAtFalling
    <3>2. \E r \in stage : r.id = i /\ r.kind = k
      BY <3>1, <2>1, <1>2, StagesTell DEF stage
    <3> QED BY <3>2, <1>1, RecordedIff
  <2> QED BY <2>2, <2>3
<1> QED BY <1>5, <1>6, <1>7

\* The waiting hits whose evidence is complete are those of the retiring instruction.
LEMMA ReadyAtFalling ==
    ASSUME L1Inv, edge = "falling", edge' = "rising",
           tags' = tags, accepted' = accepted,
           NEW passes \in [{"writeback", "x0", "store"} -> BOOLEAN],
           NEW rs, rs = results \cup New(StageResults(passes))
    PROVE  Ready(waiting, rs) = {h \in waiting : h.consumer = tags.d}
<1>1. ASSUME NEW h \in waiting, h.consumer = tags.d
      PROVE  Required(h) \subseteq Recorded(rs)
  <2> SUFFICES ASSUME NEW c \in Required(h) PROVE c \in Recorded(rs)
    OBVIOUS
  <2>1. PICK i \in Participants(h) : \E k \in Kinds : c = <<i, k>>
    BY RequiredKinds
  <2>2. PICK k \in Kinds : c = <<i, k>>
    BY <2>1
  <2>3. i \in Nat \ {0} /\ i <= h.consumer /\ h.consumer \in Nat /\ h.consumer <= accepted
    BY <1>1, OpenHits, WaitingIsOpen
  <2>4. i \in 1 .. accepted /\ i <= tags.d
    BY <2>3, <1>1 DEF L1Inv, L1Types
  <2>5. Produced(i, k)'
    BY <2>3, <2>4, TagFacts DEF L1Inv, L1Types, Produced
  <2> QED BY <1>1, <2>2, <2>4, <2>5, RecordedAtFalling
<1>2. ASSUME NEW h \in waiting, h.consumer # tags.d, Required(h) \subseteq Recorded(rs)
      PROVE  FALSE
  <2>1. h \in hitsBy /\ h.consumer \in Participants(h) /\ h.consumer \in Nat \ {0}
    BY <1>2, OpenHits, WaitingIsOpen
  <2>2. <<h.consumer, "writeback">> \in Recorded(rs)
    BY <1>2, <2>1, RequiredKinds
  <2>3. PICK r \in rs : r.id = h.consumer /\ r.kind = "writeback"
    BY <2>2, RecordedIff
  <2>4. Produced(h.consumer, "writeback")'
    BY <2>3, RecordedAtFalling
  <2>5. h.consumer \in {tags.b, tags.c}
    BY <1>2, <2>1 DEF L1Inv, HitsOpen, Unretired
  <2> QED BY <2>4, <2>5 DEF Produced
<1> QED BY <1>1, <1>2 DEF Ready

-----------------------------------------------------------------------------
(* The falling edge as a whole.                                             *)

\* What happens to an entry of the coordinator when the ids in decided are decided
\* and those in hits are attributed.
Decide(e, decided, rs) ==
    IF e.hit \in decided THEN [e EXCEPT !.validation = Verdict(e.hit, rs)] ELSE e

Attribute(e, hits, timely) ==
    IF e.hit \in hits
    THEN [e EXCEPT !.hazard = IF e.hit \in timely THEN "pass" ELSE "fail"] ELSE e

\* Results of instructions, one of each kind at most.
OneResultEach(rs) ==
    /\ rs \subseteq [id : Nat \ {0}, kind : Kinds, passed : BOOLEAN]
    /\ \A r, s \in rs : r.id = s.id /\ r.kind = s.kind => r = s

\* What the edge decides and attributes when rs is known: the hits of the retiring
\* instruction, whose evidence is complete and whose performance result is there.
Settles(rs, decided, hits, perf) ==
    /\ OneResultEach(rs)
    /\ decided = {h \in waiting : h.consumer = tags.d}
    /\ hits = {h \in hitsBy : h.consumer = tags.d}
    /\ \A h \in decided : Required(h) \subseteq Recorded(rs)
    /\ hits # {} => tags.d \in Ids(perf)

\* The entries of the retiring instruction are complete, the others are as before.
LEMMA EntriesAtFalling ==
    ASSUME L1Inv, NEW rs, NEW decided, NEW hits, NEW timely, NEW perf,
           Settles(rs, decided, hits, perf),
           NEW e \in live,
           NEW g, g = Attribute(Decide(e, decided, rs), hits, timely)
    PROVE  /\ g.hit = e.hit
           /\ e.hit.consumer # tags.d => g = e /\ ~Complete(g, perf)
           /\ e.hit.consumer = tags.d =>
                /\ Complete(g, perf)
                /\ g.validation = IF e.hit \in decided THEN Verdict(e.hit, rs)
                                  ELSE "control_fail"
<1> DEFINE v == Decide(e, decided, rs)
<1>0. /\ OneResultEach(rs)
      /\ decided = {h \in waiting : h.consumer = tags.d}
      /\ hits = {h \in hitsBy : h.consumer = tags.d}
      /\ \A h \in decided : Required(h) \subseteq Recorded(rs)
      /\ hits # {} => tags.d \in Ids(perf)
  BY DEF Settles
<1>1. /\ e \in [hit : [bin : Bins, consumer : Nat], validation : {None, "control_fail"},
                hazard : {None}]
      /\ \A f \in live : e.hit = f.hit => e = f
      /\ performance = {}
      /\ hitsBy = HitsOf(live) /\ waiting = HitsOf({f \in live : f.validation = None})
  BY DEF L1Inv, L1Types, TablesAgree
<1>2. e.hit \in hits <=> e.hit.consumer = tags.d
  BY <1>0, <1>1 DEF HitsOf
<1>3. e.hit \in decided <=> e.hit.consumer = tags.d /\ e.validation = None
  BY <1>0, <1>1 DEF HitsOf
<1>4. CASE e.hit.consumer # tags.d
  <2>1. v = e
    BY <1>3, <1>4 DEF Decide
  <2>2. g = e
    BY <2>1, <1>2, <1>4 DEF Attribute
  <2>3. ~Complete(e, perf)
    BY <1>1 DEF Complete
  <2> QED BY <2>2, <2>3, <1>4
<1>5. CASE e.hit.consumer = tags.d
  <2>1. /\ v.hit = e.hit /\ DOMAIN v = {"hit", "validation", "hazard"}
        /\ v.validation = IF e.hit \in decided THEN Verdict(e.hit, rs) ELSE "control_fail"
        /\ v \in [hit : [bin : Bins, consumer : Nat],
                  validation : {"control_fail", "validated", "architecture_fail"},
                  hazard : {None}]
    <3>1. CASE e.hit \in decided
      <4>1. Verdict(e.hit, rs) \in {"validated", "architecture_fail"}
        BY <1>0, <3>1, VerdictFollows DEF OneResultEach
      <4> QED BY <3>1, <4>1, <1>1 DEF Decide
    <3>2. CASE e.hit \notin decided
      BY <3>2, <1>1, <1>3, <1>5 DEF Decide
    <3> QED BY <3>1, <3>2
  <2>2. v.hit \in hits
    BY <2>1, <1>2, <1>5
  <2>3. g.hit = v.hit /\ g.validation = v.validation /\ g.hazard \in {"pass", "fail"}
    <3> HIDE DEF v
    <3>1. g = [v EXCEPT !.hazard = IF v.hit \in timely THEN "pass" ELSE "fail"]
      BY <2>2 DEF Attribute, v
    <3> QED BY <3>1, <2>1
  <2>4. tags.d \in Ids(perf)
    BY <1>0, <1>2, <1>5
  <2>5. Complete(g, perf)
    BY <2>1, <2>3, <2>4, <1>5 DEF Complete, None
  <2> QED BY <2>1, <2>3, <2>5, <1>5
<1> QED BY <1>4, <1>5

\* The falling edge, spelled out: what these names stand for, and its effect.
FallingWith(passes, onTime, timely, decided, hits, perf, attributed, final) ==
    /\ edge = "falling" /\ edge' = "rising" /\ ~raised
    /\ tags' = tags /\ accepted' = accepted /\ events' = events
    /\ results' = results \cup New(StageResults(passes))
    /\ decided = {h \in waiting : h.consumer = tags.d}
    /\ \A h \in decided : Required(h) \subseteq Recorded(results')
    /\ waiting' = waiting \ decided
    /\ hits = {h \in hitsBy : h.consumer = tags.d}
    /\ hitsBy' = hitsBy \ hits
    /\ perf = IF hits = {} THEN performance
              ELSE performance \cup {[id |-> tags.d, passed |-> onTime]}
    /\ attributed = {Attribute(v, hits, timely) :
                       v \in {Decide(e, decided, results') : e \in live}}
    /\ final = {g \in attributed : Complete(g, perf)}
    /\ live' = attributed \ final
    /\ emitted' = {RecordOf(g, perf) : g \in final}
    /\ performance' = Retained(perf, live')
    /\ validatedSeen' = validatedSeen \cup PromotedBy(decided, results')
    /\ coverage' = [coverage EXCEPT !.validated = @ \cup PromotedBy(decided, results')]
    /\ raised' = \/ Conflicts(StageResults(passes))
                 \/ ValidationRaises(live, decided, coverage.intent)
                 \/ ~(hits \subseteq HitsOf({e \in live : e.hazard = None}))
                 \/ hits # {} /\ tags.d \in Ids(performance)

\* Every falling edge is of this form.
LEMMA FallingEffect ==
    ASSUME L1Inv, FallingEdge
    PROVE  \E passes \in [{"writeback", "x0", "store"} -> BOOLEAN], onTime \in BOOLEAN :
             \E timely, decided, hits, perf, attributed, final :
               FallingWith(passes, onTime, timely, decided, hits, perf, attributed, final)
<1>1. PICK passes \in [{"writeback", "x0", "store"} -> BOOLEAN], onTime \in BOOLEAN,
           timely \in SUBSET {h \in hitsBy : h.consumer = tags.d} :
             Falling(StageResults(passes), onTime, timely)
  BY DEF FallingEdge
<1>2. /\ edge = "falling" /\ edge' = "rising" /\ ~raised
      /\ tags' = tags /\ accepted' = accepted /\ events' = events
  BY DEF FallingEdge
<1>3. /\ results' = results \cup New(StageResults(passes))
      /\ waiting' = waiting \ Ready(waiting, results')
  BY <1>1 DEF Falling
<1>4. Ready(waiting, results') = {h \in waiting : h.consumer = tags.d}
  BY <1>2, <1>3, ReadyAtFalling
<1> DEFINE decided == waiting \ waiting'
           hits == {h \in hitsBy : h.consumer = tags.d}
           perf == IF hits = {} THEN performance
                   ELSE performance \cup {[id |-> tags.d, passed |-> onTime]}
           attributed == {Attribute(v, hits, timely) :
                            v \in {Decide(e, decided, results') : e \in live}}
           final == {g \in attributed : Complete(g, perf)}
<1>5. /\ decided = {h \in waiting : h.consumer = tags.d}
      /\ waiting' = waiting \ decided
      /\ \A h \in decided : Required(h) \subseteq Recorded(results')
  BY <1>3, <1>4 DEF Ready
<1>6. /\ hitsBy' = hitsBy \ hits
      /\ live' = attributed \ final
      /\ emitted' = {RecordOf(g, perf) : g \in final}
      /\ performance' = Retained(perf, live')
      /\ validatedSeen' = validatedSeen \cup PromotedBy(decided, results')
      /\ coverage' = [coverage EXCEPT !.validated = @ \cup PromotedBy(decided, results')]
      /\ raised' = \/ Conflicts(StageResults(passes))
                   \/ ValidationRaises(live, decided, coverage.intent)
                   \/ ~(hits \subseteq HitsOf({e \in live : e.hazard = None}))
                   \/ hits # {} /\ tags.d \in Ids(performance)
  BY <1>1, Zenon DEF Falling, WithValidation, Decide, Attribute
<1> HIDE DEF decided, hits, perf, attributed, final
<1>7. /\ hits = {h \in hitsBy : h.consumer = tags.d}
      /\ perf = IF hits = {} THEN performance
                ELSE performance \cup {[id |-> tags.d, passed |-> onTime]}
      /\ attributed = {Attribute(v, hits, timely) :
                         v \in {Decide(e, decided, results') : e \in live}}
      /\ final = {g \in attributed : Complete(g, perf)}
  BY DEF hits, perf, attributed, final
<1>8. FallingWith(passes, onTime, timely, decided, hits, perf, attributed, final)
  BY <1>2, <1>3, <1>5, <1>6, <1>7, Zenon DEF FallingWith
<1> QED BY <1>8, Zenon

\* The falling edge preserves the invariant.
LEMMA FallingKeepsInvariant ==
    ASSUME L1Inv, FallingEdge
    PROVE  L1Inv'
<1>1. PICK passes \in [{"writeback", "x0", "store"} -> BOOLEAN], onTime \in BOOLEAN :
        \E timely, decided, hits, perf, attributed, final :
          FallingWith(passes, onTime, timely, decided, hits, perf, attributed, final)
  BY FallingEffect, Zenon
<1>2. PICK timely, decided, hits, perf, attributed, final :
        FallingWith(passes, onTime, timely, decided, hits, perf, attributed, final)
  BY <1>1, Zenon
<1>3. /\ edge = "falling" /\ edge' = "rising"
      /\ tags' = tags /\ accepted' = accepted /\ events' = events
      /\ results' = results \cup New(StageResults(passes))
  BY <1>2 DEF FallingWith
<1>4. /\ decided = {h \in waiting : h.consumer = tags.d}
      /\ \A h \in decided : Required(h) \subseteq Recorded(results')
      /\ waiting' = waiting \ decided
      /\ hits = {h \in hitsBy : h.consumer = tags.d}
      /\ hitsBy' = hitsBy \ hits
  BY <1>2, Zenon DEF FallingWith
<1>5. /\ perf = IF hits = {} THEN performance
                ELSE performance \cup {[id |-> tags.d, passed |-> onTime]}
      /\ attributed = {Attribute(v, hits, timely) :
                         v \in {Decide(e, decided, results') : e \in live}}
      /\ final = {g \in attributed : Complete(g, perf)}
      /\ live' = attributed \ final
      /\ emitted' = {RecordOf(g, perf) : g \in final}
      /\ performance' = Retained(perf, live')
  BY <1>2, Zenon DEF FallingWith
<1>6. /\ validatedSeen' = validatedSeen \cup PromotedBy(decided, results')
      /\ coverage' = [coverage EXCEPT !.validated = @ \cup PromotedBy(decided, results')]
      /\ raised' = \/ Conflicts(StageResults(passes))
                   \/ ValidationRaises(live, decided, coverage.intent)
                   \/ ~(hits \subseteq HitsOf({e \in live : e.hazard = None}))
                   \/ hits # {} /\ tags.d \in Ids(performance)
  BY <1>2, Zenon DEF FallingWith
<1>7. L1Types /\ TagsInOrder /\ TablesAgree
  BY DEF L1Inv
\* What is known.
<1>8. /\ results' \subseteq [id : Nat \ {0}, kind : Kinds, passed : BOOLEAN]
      /\ \A r \in results' : Produced(r.id, r.kind)' /\ r.id >= accepted - 5
      /\ \A r, s \in results' : r.id = s.id /\ r.kind = s.kind => r = s
      /\ \A i \in 1 .. accepted, k \in Kinds :
            /\ i >= accepted - 4 \/ \E h \in waiting : i \in Participants(h)
            /\ Produced(i, k)'
            => <<i, k>> \in Recorded(results')
  BY <1>3, RecordedAtFalling
<1>9. ResultsProduced' /\ CacheIsRecent'
  BY <1>3, <1>8 DEF ResultsProduced, CacheIsRecent
<1>10. EvidenceKept'
  BY <1>3, <1>4, <1>8 DEF EvidenceKept, Recorded, Participants
\* What is open.
<1> DEFINE After(e) == Attribute(Decide(e, decided, results'), hits, timely)
<1>11. ASSUME NEW e \in live
       PROVE  /\ After(e).hit = e.hit
              /\ e.hit.consumer # tags.d => After(e) = e /\ ~Complete(After(e), perf)
              /\ e.hit.consumer = tags.d =>
                   /\ Complete(After(e), perf)
                   /\ After(e).validation = IF e.hit \in decided THEN Verdict(e.hit, results')
                                            ELSE "control_fail"
  <2>1. Settles(results', decided, hits, perf)
    <3>1. OneResultEach(results')
      BY <1>8 DEF OneResultEach
    <3>2. hits # {} => tags.d \in Ids(perf)
      <4>1. hits # {} => [id |-> tags.d, passed |-> onTime] \in perf
        BY <1>5
      <4> QED BY <4>1 DEF Ids
    <3> QED BY <3>1, <3>2, <1>4 DEF Settles
  <2> DEFINE g == After(e)
  <2>7. g = Attribute(Decide(e, decided, results'), hits, timely)
    OBVIOUS
  <2> HIDE DEF g
  <2>8. /\ g.hit = e.hit
        /\ e.hit.consumer # tags.d => g = e /\ ~Complete(g, perf)
        /\ e.hit.consumer = tags.d =>
             /\ Complete(g, perf)
             /\ g.validation = IF e.hit \in decided THEN Verdict(e.hit, results')
                               ELSE "control_fail"
    BY <2>1, <2>7, EntriesAtFalling
  <2> QED BY <2>8 DEF g
<1>12. attributed = {After(e) : e \in live}
  BY <1>5
<1> HIDE DEF After
<1>13. \A g : g \in final <=> \E e \in live : g = After(e) /\ e.hit.consumer = tags.d
  BY <1>5, <1>11, <1>12
<1>14. live' = {e \in live : e.hit.consumer # tags.d}
  <2>1. \A g : g \in live' <=> \E e \in live : g = After(e) /\ e.hit.consumer # tags.d
    BY <1>5, <1>11, <1>12
  <2> QED BY <2>1, <1>11
<1>15. performance' = {}
  <2>1. performance = {}
    BY <1>7 DEF TablesAgree
  <2>2. \A p \in perf : p.id = tags.d
    BY <2>1, <1>5
  <2> QED BY <2>2, <1>5, <1>14 DEF Retained
<1>16. L1Types'
  <2>1. PromotedBy(decided, results') \subseteq Bins
    <3>1. \A h \in decided : h.bin \in Bins
      BY <1>4, OpenHits, WaitingIsOpen
    <3> QED BY <3>1 DEF PromotedBy
  <2>2. coverage' \in [intent : SUBSET Bins, validated : SUBSET Bins]
    BY <2>1, <1>6, <1>7 DEF L1Types
  <2> QED BY <2>2, <1>3, <1>7, <1>8, <1>14 DEF L1Types
<1>17. TagsInOrder' /\ EventsRecent'
  BY <1>3 DEF L1Inv, TagsInOrder, EventsRecent
<1>18. TablesAgree'
  BY <1>4, <1>7, <1>14, <1>15 DEF TablesAgree, HitsOf
<1>19. coverage'.intent = coverage.intent
       /\ coverage'.validated = coverage.validated \cup PromotedBy(decided, results')
  BY <1>6, <1>7 DEF L1Types
<1>20. HitsOpen'
  <2>1. ASSUME NEW h \in hitsBy'
        PROVE  /\ h.consumer \in {tags.b, tags.c} /\ h.consumer # 0
               /\ \A d \in Distances[h.bin] : h.consumer - d >= 1
               /\ h.bin \in coverage.intent
    BY <1>4, <1>3 DEF L1Inv, HitsOpen, Unretired
  <2> QED BY <2>1, <1>3, <1>19 DEF HitsOpen, Unretired
\* What is raised: nothing.
<1>21. LoopNeverRaises'
  <2>1. ~Conflicts(StageResults(passes))
    BY <1>3, StagesTellNews
  <2>2. ~ValidationRaises(live, decided, coverage.intent)
    <3>1. ASSUME NEW h \in decided
          PROVE  h.bin \in coverage.intent /\ \E e \in live : e.hit = h /\ e.validation = None
      <4>1. h \in waiting
        BY <1>4
      <4>2. h \in hitsBy
        BY <4>1, WaitingIsOpen
      <4> QED BY <4>1, <4>2, <1>7 DEF L1Inv, HitsOpen, TablesAgree, HitsOf
    <3> QED BY <3>1 DEF ValidationRaises
  <2>3. hits \subseteq HitsOf({e \in live : e.hazard = None})
    BY <1>4, <1>7 DEF TablesAgree, HitsOf, L1Types
  <2>4. Ids(performance) = {}
    BY <1>7 DEF TablesAgree, Ids
  <2> QED BY <2>1, <2>2, <2>3, <2>4, <1>6 DEF LoopNeverRaises
\* What is emitted.
<1>22. ASSUME NEW r \in emitted'
       PROVE  /\ r.validated <=>
                   /\ r.control
                   /\ \A x \in results' : ~x.passed /\ x.id \in Participants(r.hit)
                                            => x.kind = "x0" /\ r.hit.bin # "H18"
              /\ r.validated => r.status \in {"REALIZED_CORRECTLY", "TIMING_MISMATCH"}
              /\ r.validated => r.hit.bin \in coverage'.validated
  <2>1. PICK g \in final : r = RecordOf(g, perf)
    BY <1>5
  <2>2. PICK e \in live : g = After(e) /\ e.hit.consumer = tags.d
    BY <1>13
  <2>3. /\ g.hit = e.hit
        /\ g.validation = IF e.hit \in decided THEN Verdict(e.hit, results')
                          ELSE "control_fail"
    BY <2>2, <1>11
  <2>4. /\ r.hit = e.hit
        /\ r.validated <=> g.validation = "validated"
        /\ r.control <=> g.validation # "control_fail"
        /\ r.status = StatusOf(g, \E p \in perf : p.id = g.hit.consumer /\ p.passed)
    BY <2>1, <2>3 DEF RecordOf
  <2>5. r.validated => r.status \in {"REALIZED_CORRECTLY", "TIMING_MISMATCH"}
    BY <2>4 DEF StatusOf
  <2>6. CASE e.hit \notin decided
    BY <2>3, <2>4, <2>5, <2>6
  <2>7. CASE e.hit \in decided
    <3>1. Required(e.hit) \subseteq Recorded(results')
      BY <2>7, <1>4
    <3>2. /\ g.validation \in {"validated", "architecture_fail"}
          /\ g.validation = "validated"
               <=> \A x \in results' : ~x.passed /\ x.id \in Participants(e.hit)
                                          => x.kind = "x0" /\ e.hit.bin # "H18"
      BY <2>3, <2>7, <3>1, <1>8, VerdictFollows
    <3>3. g.validation = "validated" => e.hit.bin \in coverage'.validated
      BY <2>3, <2>7, <1>19 DEF PromotedBy
    <3> QED BY <2>4, <2>5, <3>2, <3>3
  <2> QED BY <2>6, <2>7
<1>23. RecordsFollowEvidence'
  <2>1. validatedSeen' = coverage'.validated /\ coverage'.validated \subseteq coverage'.intent
    <3>1. PromotedBy(decided, results') \subseteq coverage.intent
      <4>1. \A h \in decided : h.bin \in coverage.intent
        BY <1>4, WaitingIsOpen DEF L1Inv, HitsOpen
      <4> QED BY <4>1 DEF PromotedBy
    <3> QED BY <3>1, <1>6, <1>19 DEF L1Inv, RecordsFollowEvidence
  <2> QED BY <2>1, <1>22 DEF RecordsFollowEvidence, Participants
<1> QED BY <1>9, <1>10, <1>16, <1>17, <1>18, <1>20, <1>21, <1>23 DEF L1Inv

-----------------------------------------------------------------------------
(* The rising edge.                                                         *)

\* The tags move on; only the PC of what is accepted is produced.
LEMMA ProducedAtRising ==
    ASSUME L1Types, TagsInOrder, edge = "rising", edge' = "falling",
           NEW n, tags' = [b |-> n, c |-> tags.b, d |-> tags.c],
           \/ n = 0 /\ accepted' = accepted
           \/ n = accepted + 1 /\ accepted' = n,
           NEW i \in Nat \ {0}, NEW k \in Kinds
    PROVE  Produced(i, k)' <=> Produced(i, k) \/ (i = n /\ k = "pc")
<1>1. tags.b \in Nat /\ tags.c \in Nat /\ accepted \in Nat
      /\ tags.b <= accepted /\ tags.c <= accepted
      /\ (tags.b # 0 => tags.b > tags.c)
  BY TagFacts DEF L1Types
<1>2. tags'.b = n /\ tags'.c = tags.b /\ tags'.d = tags.c
  OBVIOUS
<1>3. CASE k = "pc"
  BY <1>1, <1>2, <1>3 DEF Produced
<1>4. CASE k = "store"
  BY <1>1, <1>2, <1>4 DEF Produced
<1>5. CASE k \in {"writeback", "x0"}
  BY <1>1, <1>2, <1>5 DEF Produced
<1> QED BY <1>3, <1>4, <1>5 DEF Kinds

\* The ids in flight stay the latest ones.
LEMMA TagsAtRising ==
    ASSUME L1Types, TagsInOrder,
           NEW n, tags' = [b |-> n, c |-> tags.b, d |-> tags.c],
           \/ n = 0 /\ accepted' = accepted
           \/ n = accepted + 1 /\ accepted' = n
    PROVE  TagsInOrder' /\ tags' \in [b : Nat, c : Nat, d : Nat] /\ accepted' \in Nat
<1>1. tags.b \in Nat /\ tags.c \in Nat /\ tags.d \in Nat /\ accepted \in Nat
  BY DEF L1Types
<1>2. tags'.b = n /\ tags'.c = tags.b /\ tags'.d = tags.c
  OBVIOUS
<1> QED BY <1>1, <1>2 DEF TagsInOrder

\* The evidence window never begins before the first instruction.
LEMMA WindowStart ==
    ASSUME NEW n \in Int
    PROVE  \A i \in Int : i >= Max({1, n}) <=> i >= 1 /\ i >= n
<1>1. CASE n <= 1
  <2>1. Max({1, n}) = 1
    BY <1>1 DEF Max
  <2> QED BY <1>1, <2>1
<1>2. CASE n > 1
  <2>1. Max({1, n}) = n
    BY <1>2 DEF Max
  <2> QED BY <1>2, <2>1
<1> QED BY <1>1, <1>2

\* Pruning keeps the window and the participants of open hits, and nothing else.
LEMMA PruneKeeps ==
    ASSUME NEW rs, NEW open, NEW n \in Nat, \A r \in rs : r.id \in Nat \ {0}
    PROVE  \A r : r \in Prune(rs, open, n) <=>
                    /\ r \in rs
                    /\ r.id >= n - 4 \/ \E h \in open : r.id \in Participants(h)
<1> DEFINE start == n - 4
<1>1. start \in Int
  OBVIOUS
<1> HIDE DEF start
<1>2. \A i \in Int : i >= Max({1, start}) <=> i >= 1 /\ i >= start
  BY <1>1, WindowStart
<1>3. \A r \in rs : r.id >= Max({1, start}) <=> r.id >= start
  BY <1>1, <1>2
<1>4. \A i : i \in UNION {Participants(h) : h \in open} <=> \E h \in open : i \in Participants(h)
  OBVIOUS
<1>5. Prune(rs, open, n) =
        {r \in rs : r.id >= Max({1, start}) \/ r.id \in UNION {Participants(h) : h \in open}}
  BY DEF Prune, start
<1>6. \A r : r \in Prune(rs, open, n) <=>
               /\ r \in rs
               /\ r.id >= start \/ \E h \in open : r.id \in Participants(h)
  BY <1>3, <1>4, <1>5
<1> QED BY <1>6 DEF start

\* What the classifier finds is about the new instruction and earlier ones.
LEMMA FoundHits ==
    ASSUME NEW n \in Nat \ {0}, NEW hits \in PossibleHits(n), NEW h \in hits
    PROVE  /\ h = [bin |-> h.bin, consumer |-> n] /\ h.bin \in Bins
           /\ \A d \in Distances[h.bin] : n - d >= 1
           /\ h.consumer \in Participants(h)
           /\ \A i \in Participants(h) : i \in Nat \ {0} /\ i <= n /\ i >= n - 3
<1>1. hits \in SUBSET {[bin |-> b, consumer |-> n] : b \in Bins}
      /\ \A b \in {x.bin : x \in hits} : \A d \in Distances[b] : n - d >= 1
  BY DEF PossibleHits
<1>2. PICK b \in Bins : h = [bin |-> b, consumer |-> n]
  BY <1>1
<1>3. h.bin = b /\ h.consumer = n
  BY <1>2
<1>4. \A d \in Distances[h.bin] : n - d >= 1
  BY <1>1
<1> QED BY <1>2, <1>3, <1>4, ParticipantBounds

\* An acceptance decides nothing: every open hit waits for its consumer's write-back.
LEMMA NobodyReadyAtRising ==
    ASSUME L1Inv, edge = "rising",
           NEW hits \in PossibleHits(accepted + 1), NEW controlled \in SUBSET hits,
           NEW known, known = results \cup {[id |-> accepted + 1, kind |-> "pc", passed |-> TRUE]}
    PROVE  Ready(waiting \cup controlled, known) = {}
<1> SUFFICES ASSUME NEW h \in waiting \cup controlled, Required(h) \subseteq Recorded(known)
             PROVE  FALSE
  BY DEF Ready
<1>1. accepted \in Nat
  BY DEF L1Inv, L1Types
<1>2. /\ h.consumer \in Participants(h) /\ h.consumer \in Nat \ {0}
      /\ h.consumer \in {tags.b, tags.c} \/ h.consumer = accepted + 1
  <2>1. CASE h \in waiting
    <3>1. h \in hitsBy
      BY <2>1, WaitingIsOpen
    <3> QED BY <3>1, OpenHits DEF L1Inv, HitsOpen, Unretired
  <2>2. CASE h \in controlled
    BY <2>2, <1>1, FoundHits
  <2> QED BY <2>1, <2>2
<1>3. <<h.consumer, "writeback">> \in Recorded(known)
  BY <1>2, RequiredKinds
<1>4. PICK r \in known : r.id = h.consumer /\ r.kind = "writeback"
  BY <1>3, RecordedIff
<1>5. r \in results
  BY <1>4
<1>6. Produced(h.consumer, "writeback")
  BY <1>4, <1>5 DEF L1Inv, ResultsProduced
<1> QED BY <1>1, <1>2, <1>6 DEF Produced

\* Acceptance preserves the invariant.
LEMMA AcceptKeepsInvariant ==
    ASSUME L1Inv, edge = "rising", edge' = "falling", emitted' = {},
           performance' = performance,
           NEW hits \in PossibleHits(accepted + 1), NEW controlled \in SUBSET hits,
           Accept(hits, controlled)
    PROVE  L1Inv'
<1> DEFINE id == accepted + 1
           known == results \cup {[id |-> id, kind |-> "pc", passed |-> TRUE]}
           seen == events \cup {id}
           decided == (waiting \cup controlled) \ waiting'
           entries == live \cup {Entry(h, h \in controlled) : h \in hits}
           intent == coverage.intent \cup {h.bin : h \in hits}
<1>1. /\ accepted' = id
      /\ hitsBy' = hitsBy \cup hits
      /\ waiting' = (waiting \cup controlled) \ Ready(waiting \cup controlled, known)
      /\ validatedSeen' = validatedSeen \cup PromotedBy(decided, known)
      /\ coverage' = [intent |-> intent,
                      validated |-> coverage.validated \cup PromotedBy(decided, known)]
      /\ live' = WithValidation(entries, decided, known)
      /\ events' = seen \ {StaleEvent(id)}
      /\ results' = Prune(known, waiting', id)
      /\ tags' = [b |-> id, c |-> tags.b, d |-> tags.c]
      /\ raised' = \/ \E h \in hits : h \in HitsOf(live)
                   \/ \E h \in hits : h.bin = "H10" /\ ~(Participants(h) \subseteq seen)
                   \/ ValidationRaises(entries, decided, intent)
  BY Zenon DEF Accept
<1>2. L1Types /\ TagsInOrder /\ TablesAgree /\ accepted \in Nat
  BY DEF L1Inv, L1Types
<1>3. Ready(waiting \cup controlled, known) = {}
  BY NobodyReadyAtRising
<1> HIDE DEF entries
<1>4. waiting' = waiting \cup controlled /\ decided = {}
  BY <1>1, <1>3
<1>5. PromotedBy(decided, known) = {} /\ WithValidation(entries, decided, known) = entries
  <2> HIDE DEF known
  <2> QED BY <1>4 DEF PromotedBy, WithValidation
<1> HIDE DEF decided, known
<1>6. \A h \in hits : /\ h = [bin |-> h.bin, consumer |-> id] /\ h.bin \in Bins
                      /\ \A d \in Distances[h.bin] : id - d >= 1
                      /\ \A i \in Participants(h) : i \in Nat \ {0} /\ i <= id /\ i >= id - 3
  BY <1>2, FoundHits
<1> DEFINE pcResult == [id |-> id, kind |-> "pc", passed |-> TRUE]
<1>7. \A r : r \in known <=> r \in results \/ r = pcResult
  BY DEF known
<1>a. /\ pcResult.id = id /\ pcResult.kind = "pc"
      /\ pcResult \in [id : Nat \ {0}, kind : Kinds, passed : BOOLEAN]
  BY <1>2 DEF Kinds
<1> HIDE DEF pcResult
<1>8. TagsInOrder' /\ tags' \in [b : Nat, c : Nat, d : Nat]
  BY <1>1, <1>2, TagsAtRising
<1>9. ASSUME NEW i \in Nat \ {0}, NEW k \in Kinds
      PROVE  Produced(i, k)' <=> Produced(i, k) \/ (i = id /\ k = "pc")
  BY <1>1, <1>2, ProducedAtRising
\* The entries.
<1>10. \A e : e \in live' <=> \/ e \in live
                              \/ \E h \in hits : e = Entry(h, h \in controlled)
  BY <1>1, <1>5 DEF entries
<1>11. ASSUME NEW h \in hits
       PROVE  /\ Entry(h, h \in controlled).hit = h
              /\ Entry(h, h \in controlled).validation = None <=> h \in controlled
              /\ Entry(h, h \in controlled) \in
                   [hit : [bin : Bins, consumer : Nat], validation : {None, "control_fail"},
                    hazard : {None}]
  <2>1. h \in [bin : Bins, consumer : Nat]
    BY <1>2, <1>6
  <2>2. CASE h \in controlled
    BY <2>1, <2>2 DEF Entry
  <2>3. CASE h \notin controlled
    BY <2>1, <2>3 DEF Entry, None
  <2> QED BY <2>2, <2>3
<1>12. \A h \in hitsBy : h.consumer <= accepted /\ h.consumer \in Nat \ {0}
  BY OpenHits
<1>13. TablesAgree'
  <2>1. hitsBy' = HitsOf(live')
    <3>1. \A h : h \in HitsOf(live') <=> h \in HitsOf(live) \/ h \in hits
      BY <1>10, <1>11 DEF HitsOf
    <3> QED BY <3>1, <1>1, <1>2 DEF TablesAgree
  <2>2. waiting' = HitsOf({e \in live' : e.validation = None})
    <3>1. \A h : h \in HitsOf({e \in live' : e.validation = None})
                   <=> h \in HitsOf({e \in live : e.validation = None}) \/ h \in controlled
      BY <1>10, <1>11 DEF HitsOf
    <3> QED BY <3>1, <1>2, <1>4 DEF TablesAgree
  <2>3. performance' = {}
    BY <1>2 DEF TablesAgree
  <2>4. ASSUME NEW e \in live', NEW f \in live', e.hit = f.hit PROVE e = f
    <3>1. ASSUME NEW x \in live, NEW h \in hits PROVE x.hit # h
      <4>1. x.hit \in hitsBy
        BY <1>2 DEF TablesAgree, HitsOf
      <4> QED BY <4>1, <1>2, <1>6, <1>12
    <3> QED BY <2>4, <3>1, <1>2, <1>10, <1>11 DEF TablesAgree
  <2> QED BY <2>1, <2>2, <2>3, <2>4, <1>1 DEF TablesAgree, HitsOf
<1>14. /\ coverage'.intent = intent /\ coverage'.validated = coverage.validated
       /\ validatedSeen' = validatedSeen
  BY <1>1, <1>5
<1>15. HitsOpen'
  <2>1. ASSUME NEW h \in hitsBy'
        PROVE  /\ h.consumer \in {id, tags.b, tags.c} /\ h.consumer # 0
               /\ \A d \in Distances[h.bin] : h.consumer - d >= 1
               /\ h.bin \in intent
    <3>1. CASE h \in hitsBy
      BY <3>1 DEF L1Inv, HitsOpen, Unretired
    <3>2. CASE h \in hits
      BY <3>2, <1>2, <1>6
    <3> QED BY <3>1, <3>2, <1>1
  <2> QED BY <2>1, <1>1, <1>14 DEF HitsOpen, Unretired
\* The cache.
<1>16. ASSUME NEW h \in waiting'
       PROVE  /\ h.consumer \in Participants(h)
              /\ \A i \in Participants(h) : i \in Nat \ {0} /\ i <= id /\ i >= id - 5
  <2>1. CASE h \in waiting
    <3>1. h \in hitsBy /\ h.consumer \in {tags.b, tags.c}
      BY <2>1, WaitingIsOpen DEF L1Inv, HitsOpen, Unretired
    <3>2. h.consumer >= accepted - 1
      BY <3>1, <1>2, <1>12, TagFacts
    <3> QED BY <3>1, <3>2, <1>2, OpenHits
  <2>2. CASE h \in controlled
    <3>1. h.consumer \in Participants(h)
      BY DEF Participants
    <3> QED BY <2>2, <3>1, <1>2, <1>6
  <2> QED BY <2>1, <2>2, <1>4
<1>17. ASSUME NEW r \in known
       PROVE  /\ r \in [id : Nat \ {0}, kind : Kinds, passed : BOOLEAN]
              /\ Produced(r.id, r.kind)'
  <2>1. r \in [id : Nat \ {0}, kind : Kinds, passed : BOOLEAN]
    BY <1>2, <1>7, <1>a DEF L1Types
  <2>2. Produced(r.id, r.kind) \/ (r.id = id /\ r.kind = "pc")
    BY <1>7, <1>a DEF L1Inv, ResultsProduced
  <2> QED BY <2>1, <2>2, <1>9
<1>18. \A r : r \in results' <=>
                /\ r \in known
                /\ r.id >= id - 4 \/ \E h \in waiting' : r.id \in Participants(h)
  <2>1. id \in Nat
    BY <1>2
  <2>2. results' = Prune(known, waiting', id)
    BY <1>1
  <2>3. \A r \in known : r.id \in Nat \ {0}
    BY <1>17
  <2> HIDE DEF id
  <2> QED BY <2>1, <2>2, <2>3, PruneKeeps
<1>19. ResultsProduced'
  <2>1. ASSUME NEW r \in known, NEW s \in known, r.id = s.id, r.kind = s.kind
        PROVE  r = s
    <3>1. ASSUME NEW x \in results PROVE x.id # id
      <4>1. Produced(x.id, x.kind) /\ x.id \in Nat
        BY <1>2 DEF L1Inv, ResultsProduced, L1Types
      <4> QED BY <4>1, <1>2 DEF Produced
    <3> QED BY <2>1, <3>1, <1>7, <1>a DEF L1Inv, ResultsProduced
  <2> QED BY <2>1, <1>17, <1>18 DEF ResultsProduced
<1>20. CacheIsRecent'
  <2>1. ASSUME NEW r \in results' PROVE r.id >= id - 5
    <3>1. r.id \in Nat
      BY <1>17, <1>18
    <3> QED BY <3>1, <1>2, <1>16, <1>18
  <2>2. accepted' - 5 = id - 5
    BY <1>1
  <2> QED BY <2>1, <2>2 DEF CacheIsRecent
<1>21. EvidenceKept'
  <2> SUFFICES ASSUME NEW i \in 1 .. id, NEW k \in Kinds,
                      i >= id - 4 \/ \E h \in waiting' : i \in Participants(h),
                      Produced(i, k)'
               PROVE  <<i, k>> \in Recorded(results')
    BY <1>1 DEF EvidenceKept, Recorded, Participants
  <2>1. i \in Nat \ {0} /\ i <= id
    BY <1>2
  <2>2. <<i, k>> \in Recorded(known)
    <3>1. CASE Produced(i, k)
      <4>1. i \in 1 .. accepted
        BY <2>1, <3>1, <1>2 DEF Produced
      <4>2. i >= accepted - 4 \/ \E h \in waiting : i \in Participants(h)
        BY <2>1, <1>2, <1>4, <1>6
      <4>3. <<i, k>> \in Recorded(results)
        BY <3>1, <4>1, <4>2 DEF L1Inv, EvidenceKept
      <4> QED BY <4>3, <1>7, RecordedIff
    <3>2. CASE ~Produced(i, k)
      <4>1. i = id /\ k = "pc"
        BY <2>1, <3>2, <1>9
      <4> QED BY <4>1, <1>7, <1>a, RecordedIff
    <3> QED BY <3>1, <3>2
  <2>3. PICK r \in known : r.id = i /\ r.kind = k
    BY <2>2, RecordedIff
  <2>4. r \in results'
    BY <2>3, <1>18
  <2> QED BY <2>3, <2>4, RecordedIff
<1>22. EventsRecent'
  <2>1. events = {i \in 1 .. accepted : i >= accepted - 3}
    BY DEF L1Inv, EventsRecent
  <2>2. events' = {i \in 1 .. id : i >= id - 3}
    BY <2>1, <1>1, <1>2 DEF StaleEvent
  <2> QED BY <2>2, <1>1 DEF EventsRecent
<1>23. L1Types'
  <2>1. live' \subseteq [hit : [bin : Bins, consumer : Nat], validation : {None, "control_fail"},
                         hazard : {None}]
    BY <1>2, <1>10, <1>11 DEF L1Types
  <2>2. coverage' \in [intent : SUBSET Bins, validated : SUBSET Bins]
    <3>1. intent \subseteq Bins
      BY <1>2, <1>6 DEF L1Types
    <3> QED BY <3>1, <1>1, <1>2, <1>5 DEF L1Types
  <2>3. results' \subseteq [id : Nat \ {0}, kind : Kinds, passed : BOOLEAN]
    BY <1>17, <1>18
  <2>4. accepted' \in Nat /\ edge' \in {"falling", "rising"}
    BY <1>1, <1>2
  <2> QED BY <2>1, <2>2, <2>3, <2>4, <1>8 DEF L1Types
<1>24. LoopNeverRaises'
  <2>1. \A h \in hits : h \notin HitsOf(live)
    BY <1>2, <1>6, <1>12 DEF TablesAgree
  <2>2. \A h \in hits : Participants(h) \subseteq seen
    BY <1>2, <1>6 DEF L1Inv, EventsRecent
  <2>3. ~ValidationRaises(entries, decided, intent)
    BY <1>4 DEF ValidationRaises
  <2> QED BY <2>1, <2>2, <2>3, <1>1 DEF LoopNeverRaises
<1>25. RecordsFollowEvidence'
  BY <1>14 DEF L1Inv, RecordsFollowEvidence
<1> QED BY <1>8, <1>13, <1>15, <1>19, <1>20, <1>21, <1>22, <1>23, <1>24, <1>25 DEF L1Inv

\* A bubble preserves the invariant.
LEMMA BubbleKeepsInvariant ==
    ASSUME L1Inv, edge = "rising", edge' = "falling", emitted' = {},
           performance' = performance, Bubble
    PROVE  L1Inv'
<1>1. /\ tags' = [b |-> 0, c |-> tags.b, d |-> tags.c] /\ accepted' = accepted
      /\ UNCHANGED <<events, hitsBy, results, waiting, validatedSeen, live, coverage, raised>>
  BY DEF Bubble
<1>2. L1Types /\ TagsInOrder /\ accepted \in Nat
  BY DEF L1Inv, L1Types
<1>3. TagsInOrder' /\ L1Types'
  BY <1>1, <1>2, TagsAtRising DEF L1Types
<1>4. ASSUME NEW i \in Nat \ {0}, NEW k \in Kinds
      PROVE  Produced(i, k)' <=> Produced(i, k)
  BY <1>1, <1>2, ProducedAtRising
<1>5. ResultsProduced'
  <2>1. \A r \in results : r.id \in Nat \ {0} /\ r.kind \in Kinds
    BY <1>2 DEF L1Types
  <2> QED BY <2>1, <1>1, <1>4 DEF L1Inv, ResultsProduced
<1>6. EvidenceKept'
  <2> SUFFICES ASSUME NEW i \in 1 .. accepted, NEW k \in Kinds,
                      i >= accepted - 4 \/ \E h \in waiting : i \in Participants(h),
                      Produced(i, k)'
               PROVE  <<i, k>> \in Recorded(results)
    BY <1>1 DEF EvidenceKept, Recorded, Participants
  <2>1. Produced(i, k)
    BY <1>2, <1>4
  <2> QED BY <2>1 DEF L1Inv, EvidenceKept
<1>7. HitsOpen'
  BY <1>1 DEF L1Inv, HitsOpen, Unretired
<1>8. EventsRecent' /\ TablesAgree' /\ CacheIsRecent' /\ LoopNeverRaises' /\ RecordsFollowEvidence'
  BY <1>1 DEF L1Inv, EventsRecent, TablesAgree, CacheIsRecent, LoopNeverRaises,
              RecordsFollowEvidence, HitsOf
<1> QED BY <1>3, <1>5, <1>6, <1>7, <1>8 DEF L1Inv

-----------------------------------------------------------------------------
(* Theorems.                                                                *)

\* The invariant holds in every state of every run of the loop.
THEOREM L1InvIsInvariant == L1ValSpec => []L1Inv
<1>1. L1ValInit => L1Inv
  <2> SUFFICES ASSUME L1ValInit PROVE L1Inv
    OBVIOUS
  <2>1. /\ tags = [b |-> 0, c |-> 0, d |-> 0] /\ edge = "falling" /\ accepted = 0
        /\ events = {} /\ hitsBy = {} /\ results = {} /\ waiting = {} /\ validatedSeen = {}
        /\ live = {} /\ performance = {} /\ coverage = [intent |-> {}, validated |-> {}]
        /\ emitted = {} /\ raised = FALSE
    BY DEF L1ValInit
  <2>2. L1Types /\ TagsInOrder
    BY <2>1 DEF L1Types, TagsInOrder
  <2>3. EventsRecent /\ HitsOpen /\ TablesAgree
    BY <2>1 DEF EventsRecent, HitsOpen, TablesAgree, HitsOf
  <2>4. EvidenceKept
    BY <2>1 DEF EvidenceKept
  <2> QED BY <2>1, <2>2, <2>3, <2>4
          DEF L1Inv, ResultsProduced, CacheIsRecent, LoopNeverRaises, RecordsFollowEvidence
<1>2. L1Inv /\ [L1ValNext]_vars => L1Inv'
  <2> SUFFICES ASSUME L1Inv, [L1ValNext]_vars PROVE L1Inv'
    OBVIOUS
  <2>1. CASE FallingEdge
    BY <2>1, FallingKeepsInvariant
  <2>2. CASE RisingEdge
    <3>1. /\ edge = "rising" /\ edge' = "falling" /\ emitted' = {}
          /\ performance' = performance
      BY <2>2 DEF RisingEdge
    <3>2. CASE Bubble
      BY <3>1, <3>2, BubbleKeepsInvariant
    <3>3. CASE ~Bubble
      <4>1. PICK hits \in PossibleHits(accepted + 1) :
               \E controlled \in SUBSET hits : Accept(hits, controlled)
        BY <2>2, <3>3 DEF RisingEdge
      <4>2. PICK controlled \in SUBSET hits : Accept(hits, controlled)
        BY <4>1
      <4> QED BY <3>1, <4>2, AcceptKeepsInvariant
    <3> QED BY <3>2, <3>3
  <2>3. CASE UNCHANGED vars
    <3>1. \A i, k : Produced(i, k)' <=> Produced(i, k)
      BY <2>3 DEF vars, Produced
    <3>2. EvidenceKept' /\ ResultsProduced'
      BY <2>3, <3>1 DEF L1Inv, vars, EvidenceKept, ResultsProduced, Recorded, Participants
    <3>3. /\ L1Types' /\ TagsInOrder' /\ EventsRecent' /\ HitsOpen' /\ TablesAgree'
          /\ CacheIsRecent' /\ LoopNeverRaises' /\ RecordsFollowEvidence'
      BY <2>3 DEF L1Inv, vars, L1Types, TagsInOrder, EventsRecent, HitsOpen, TablesAgree,
                  CacheIsRecent, LoopNeverRaises, RecordsFollowEvidence, HitsOf, Unretired,
                  Participants
    <3> QED BY <3>2, <3>3 DEF L1Inv
  <2> QED BY <2>1, <2>2, <2>3 DEF L1ValNext
<1> QED BY <1>1, <1>2, PTL DEF L1ValSpec

\* No protocol check of the collector, the control checker or the coordinator ever
\* ends the loop.
THEOREM LiveLoopNeverRaises == L1ValSpec => []LoopNeverRaises
<1>1. L1Inv => LoopNeverRaises
  BY DEF L1Inv
<1> QED BY <1>1, L1InvIsInvariant, PTL

\* What is retained is about the instructions in flight, and evidence about six
\* instructions at most.
THEOREM RetentionIsBounded == L1ValSpec => []RetainsInFlight
<1>1. L1Inv => RetainsInFlight
  <2> SUFFICES ASSUME L1Inv PROVE RetainsInFlight
    OBVIOUS
  <2>1. L1Types /\ TablesAgree /\ HitsOpen /\ ResultsProduced /\ CacheIsRecent
    BY DEF L1Inv
  <2>2. \A e \in live : e.hit.consumer \in {tags.b, tags.c, tags.d}
    BY <2>1 DEF TablesAgree, HitsOpen, HitsOf, Unretired
  <2> DEFINE recent == (accepted - 5) .. accepted
  <2>3. accepted \in Nat /\ accepted - 5 \in Int
    BY <2>1 DEF L1Types
  <2>4. \A r \in results : r.id \in Nat /\ r.id <= accepted /\ r.id >= accepted - 5
    BY <2>1 DEF L1Types, ResultsProduced, Produced, CacheIsRecent
  <2>5. Ids(results) \subseteq recent
    BY <2>3, <2>4 DEF Ids
  <2>6. IsFiniteSet(recent) /\ Cardinality(recent) = 6
    BY <2>3, FS_Interval
  <2>7. Cardinality(Ids(results)) <= 6
    BY <2>5, <2>6, FS_Subset
  <2> QED BY <2>1, <2>2, <2>7 DEF RetainsInFlight, TablesAgree
<1> QED BY <1>1, L1InvIsInvariant, PTL

\* A record says what the evidence said, and both collectors have seen the same bins.
THEOREM RecordsAreRight == L1ValSpec => []RecordsFollowEvidence
<1>1. L1Inv => RecordsFollowEvidence
  BY DEF L1Inv
<1> QED BY <1>1, L1InvIsInvariant, PTL
=============================================================================
