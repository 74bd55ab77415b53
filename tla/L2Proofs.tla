----------------------------- MODULE L2Proofs -----------------------------
(***************************************************************************)
(* Theorems about L2Validation, for any number of registers and programs   *)
(* of any length.                                                          *)
(***************************************************************************)
EXTENDS L2Invariant, FiniteSetTheorems, TLAPS

-----------------------------------------------------------------------------
(* Evidence.                                                                *)

\* A pair is recorded when a result carries it.
LEMMA RecordedIff ==
    ASSUME NEW rs, NEW i, NEW k
    PROVE  <<i, k>> \in Recorded(rs) <=> \E r \in rs : r.id = i /\ r.kind = k
BY DEF Recorded

\* What is told is recorded afterwards, and so is what was recorded before; new
\* results are among those told.
LEMMA RecordingAdds ==
    ASSUME NEW rs, NEW more
    PROVE  /\ rs \subseteq rs \cup New(rs, more)
           /\ \A r \in rs \cup New(rs, more) : r \in rs \/ r \in more
           /\ \A i, k : <<i, k>> \in Recorded(rs) => <<i, k>> \in Recorded(rs \cup New(rs, more))
           /\ \A r \in more : <<r.id, r.kind>> \in Recorded(rs \cup New(rs, more))
<1>1. ASSUME NEW r \in more
      PROVE  <<r.id, r.kind>> \in Recorded(rs \cup New(rs, more))
  <2>1. CASE r \in New(rs, more)
    BY <2>1, RecordedIff
  <2>2. CASE r \notin New(rs, more)
    BY <2>2, RecordedIff DEF New
  <2> QED BY <2>1, <2>2
<1>2. ASSUME NEW i, NEW k, <<i, k>> \in Recorded(rs)
      PROVE  <<i, k>> \in Recorded(rs \cup New(rs, more))
  BY <1>2, RecordedIff
<1>3. New(rs, more) \subseteq more
  BY DEF New
<1> QED BY <1>1, <1>2, <1>3

\* What happened earlier still happened: production only grows.
LEMMA ProducedGrows ==
    ASSUME Counters, Counters', accepted' >= accepted, retired' >= retired,
           NEW i \in Nat, NEW k, Produced(i, k)
    PROVE  Produced(i, k)'
BY DEF Produced, Counters

\* Results that happened have been about nobody else's kind: what is told for the
\* first time cannot conflict.
LEMMA FirstTold ==
    ASSUME ResultsProduced, NEW more, \A r \in more : ~Produced(r.id, r.kind)
    PROVE  ~Conflicts(results, more)
BY DEF ResultsProduced, Conflicts

\* What an acceptance tells.
LEMMA AcceptanceTells ==
    ASSUME NEW n \in Nat \ {0}, NEW passes \in BOOLEAN
    PROVE  /\ [id |-> n, kind |-> "pc", passed |-> TRUE] \in AcceptanceEvidence(n, passes)
           /\ n # 1 => [id |-> n - 1, kind |-> "next_pc", passed |-> passes]
                         \in AcceptanceEvidence(n, passes)
           /\ \A r \in AcceptanceEvidence(n, passes) :
                  \/ r.id = n /\ r.kind = "pc"
                  \/ n # 1 /\ r.id = n - 1 /\ r.kind = "next_pc"
<1>1. CASE n = 1
  BY <1>1 DEF AcceptanceEvidence
<1>2. CASE n # 1
  <2>1. AcceptanceEvidence(n, passes) =
          {[id |-> n, kind |-> "pc", passed |-> TRUE],
           [id |-> n - 1, kind |-> "next_pc", passed |-> passes]}
    BY <1>2 DEF AcceptanceEvidence
  <2> QED BY <1>2, <2>1
<1> QED BY <1>1, <1>2

\* What a retirement tells.
LEMMA RetirementTells ==
    ASSUME NEW n, NEW passes \in [{"writeback", "store", "x0"} -> BOOLEAN],
           NEW told, told = {[id |-> n, kind |-> k, passed |-> passes[k]] : k \in DOMAIN passes}
    PROVE  /\ \A r \in told : r.id = n /\ r.kind \in {"writeback", "store", "x0"}
           /\ \A k \in {"writeback", "store", "x0"} :
                  [id |-> n, kind |-> k, passed |-> passes[k]] \in told
OBVIOUS

\* The evidence window never begins before the first instruction.
LEMMA WindowStart ==
    ASSUME NEW n \in Int
    PROVE  \A i \in Int : i >= Max({1, n}) <=> i >= 1 /\ i >= n
<1>1. CASE n <= 1
  <2>1. Max({1, n}) = 1
    BY <1>1 DEF Max
  <2> QED BY <1>1, <2>1
<1>2. CASE n > 1
  <2>1. Max({1, n}) = n
    BY <1>2 DEF Max
  <2> QED BY <1>2, <2>1
<1> QED BY <1>1, <1>2

\* Pruning only removes, keeps the window and keeps what pending hits ask for.
LEMMA PruneKeeps ==
    ASSUME NEW rs, NEW waiting, NEW n \in Nat, \A r \in rs : r.id \in Nat \ {0}
    PROVE  /\ Prune(rs, waiting, n) \subseteq rs
           /\ \A r \in rs : r.id >= n - EvidenceWindow => r \in Prune(rs, waiting, n)
           /\ \A p \in waiting : \A c \in p.required : \A r \in rs :
                  r.id = c[1] => r \in Prune(rs, waiting, n)
           /\ \A r \in Prune(rs, waiting, n) :
                  \/ r.id >= n - EvidenceWindow
                  \/ \E p \in waiting : \E c \in p.required : r.id = c[1]
<1>1. n - EvidenceWindow \in Int
  BY DEF EvidenceWindow
<1> DEFINE start == n - EvidenceWindow
<1>2. \A i \in Int : i >= Max({1, start}) <=> i >= 1 /\ i >= start
  BY <1>1, WindowStart
<1>3. \A r \in rs : r.id >= Max({1, start}) <=> r.id >= start
  BY <1>1, <1>2
<1> HIDE DEF start
<1>4. Prune(rs, waiting, n) =
        {r \in rs : \/ r.id >= Max({1, start})
                    \/ r.id \in {c[1] : c \in UNION {p.required : p \in waiting}}}
  BY DEF Prune, start
<1>5. ASSUME NEW i
      PROVE  i \in {c[1] : c \in UNION {p.required : p \in waiting}}
               <=> \E p \in waiting : \E c \in p.required : i = c[1]
  OBVIOUS
<1>6. Prune(rs, waiting, n) =
        {r \in rs : r.id >= start \/ \E p \in waiting : \E c \in p.required : r.id = c[1]}
  BY <1>3, <1>4, <1>5
<1> QED BY <1>6 DEF start

-----------------------------------------------------------------------------
(* Hits.                                                                    *)

\* The event found for an instruction is of that instruction, and asks for its
\* evidence only, and for the four kinds every participant is asked for.
LEMMA EventFound ==
    ASSUME NEW seen, NEW i \in Ids(seen)
    PROVE  /\ EventOf(i, seen).id = i
           /\ Requirements(EventOf(i, seen)) \subseteq {i} \X Kinds
           /\ {i} \X AlwaysRequired \subseteq Requirements(EventOf(i, seen))
<1>1. \E e \in seen : e.id = i
  BY DEF Ids
<1>2. EventOf(i, seen).id = i
  BY <1>1 DEF EventOf
<1> QED BY <1>2 DEF Requirements, Kinds, AlwaysRequired

\* The producers of the hits of the next acceptance are the two latest
\* instructions, which the loop remembers.
LEMMA HitsAreRecent ==
    ASSUME Counters, WritersPast, EventsRecent,
           NEW sources \in SUBSET Reg, NEW h \in Hits(accepted + 1, sources)
    PROVE  /\ h.consumer = accepted + 1
           /\ h.producer \in Nat \ {0}
           /\ h.producer <= accepted /\ h.producer >= accepted - 1
           /\ h.consumer - h.producer \in {D1, D2}
           /\ h.producer \in Ids(events)
<1> DEFINE from == {s \in sources \ {0} :
                     lastWriter[s] # 0 /\ (accepted + 1) - lastWriter[s] \in {D1, D2}}
           hit(r) == [producer |-> lastWriter[r], consumer |-> accepted + 1, register |-> r]
<1>0. h \in {hit(r) : r \in from}
  BY DEF Hits
<1> HIDE DEF from, hit
<1>a. PICK r \in from : h = hit(r)
  BY <1>0
<1>1. /\ h = [producer |-> lastWriter[r], consumer |-> accepted + 1, register |-> r]
      /\ r \in sources \ {0} /\ lastWriter[r] # 0
      /\ (accepted + 1) - lastWriter[r] \in {D1, D2}
  BY <1>a DEF from, hit
<1>2. lastWriter[r] \in Nat /\ accepted \in Nat
  BY <1>1 DEF WritersPast, Counters
<1>3. lastWriter[r] \in 1 .. accepted /\ lastWriter[r] >= accepted - 1
  BY <1>1, <1>2 DEF D1, D2
<1>4. lastWriter[r] \in Ids(events)
  BY <1>3 DEF EventsRecent
<1> QED BY <1>1, <1>2, <1>3, <1>4

\* What a hit of the next acceptance asks for.
LEMMA NewHitAsks ==
    ASSUME Counters, WritersPast, EventsRecent,
           NEW sources \in SUBSET Reg, NEW h \in Hits(accepted + 1, sources), NEW rd,
           NEW p, p = PendingHit(h, events \cup {[id |-> accepted + 1, rd |-> rd]})
    PROVE  /\ p.hit = h
           /\ p.required \subseteq Participants(p) \X Kinds
           /\ Participants(p) \X AlwaysRequired \subseteq p.required
<1> DEFINE seen == events \cup {[id |-> accepted + 1, rd |-> rd]}
<1>1. h.producer \in Ids(seen) /\ h.consumer \in Ids(seen)
  BY HitsAreRecent DEF Ids
<1> HIDE DEF seen
<1>2. p = [hit |-> h,
           required |-> Requirements(EventOf(h.producer, seen))
                        \cup Requirements(EventOf(h.consumer, seen))]
  BY DEF PendingHit, seen
<1>3. Requirements(EventOf(h.producer, seen)) \subseteq {h.producer} \X Kinds
      /\ {h.producer} \X AlwaysRequired \subseteq Requirements(EventOf(h.producer, seen))
  BY <1>1, EventFound
<1>4. Requirements(EventOf(h.consumer, seen)) \subseteq {h.consumer} \X Kinds
      /\ {h.consumer} \X AlwaysRequired \subseteq Requirements(EventOf(h.consumer, seen))
  BY <1>1, EventFound
<1>5. Participants(p) = {h.producer, h.consumer} /\ p.hit = h
  BY <1>2 DEF Participants
<1>6. ASSUME NEW c \in p.required PROVE c \in Participants(p) \X Kinds
  <2>1. p.required = Requirements(EventOf(h.producer, seen))
                     \cup Requirements(EventOf(h.consumer, seen))
    BY ONLY <1>2
  <2>2. c \in {h.producer} \X Kinds \/ c \in {h.consumer} \X Kinds
    BY <1>3, <1>4, <2>1
  <2> QED BY <2>2, <1>5
<1>7. ASSUME NEW c \in Participants(p) \X AlwaysRequired PROVE c \in p.required
  <2>1. c \in {h.producer} \X AlwaysRequired \/ c \in {h.consumer} \X AlwaysRequired
    BY <1>5
  <2> QED BY <2>1, <1>2, <1>3, <1>4
<1> QED BY <1>5, <1>6, <1>7

\* A pending hit whose participants have all their evidence would be complete, so
\* a pending hit still waits for its consumer.
LEMMA WaitingIsDue == Counters /\ PendingOpen /\ EvidenceKept => ResolvedWhenDue
<1> SUFFICES ASSUME Counters, PendingOpen, EvidenceKept, Retires, NEW p \in pending,
                    p.hit.consumer <= retired, p.hit.consumer # accepted
             PROVE  FALSE
  BY DEF ResolvedWhenDue, Counters, PendingOpen
<1>1. /\ p.hit.consumer \in Nat \ {0} /\ p.hit.consumer <= accepted
      /\ p.hit.producer \in Nat \ {0} /\ p.hit.consumer - p.hit.producer \in {1, 2}
      /\ p.required \subseteq Participants(p) \X Kinds
      /\ ~Complete(p, results)
  BY DEF PendingOpen, D1, D2
<1>2. accepted \in Nat /\ retired \in Nat /\ retired <= accepted
  BY DEF Counters
<1>3. ASSUME NEW c \in p.required PROVE c \in Recorded(results)
  <2>1. PICK i \in Participants(p), k \in Kinds : c = <<i, k>>
    BY <1>1
  <2>2. i \in 1 .. accepted /\ i <= retired /\ i < accepted
    BY <1>1, <1>2 DEF Participants
  <2>3. Produced(i, k)
    BY <2>2, <1>2 DEF Produced
  <2>4. \E q \in pending : i \in Participants(q)
    OBVIOUS
  <2> QED BY <2>1, <2>2, <2>3, <2>4 DEF EvidenceKept
<1> QED BY <1>1, <1>3 DEF Complete

-----------------------------------------------------------------------------
(* The two halves of an iteration.  An accepting half with these choices that *)
(* raises nothing:                                                            *)

Accepting(rd, sources, passes, controlled) ==
    LET id == accepted + 1
        hits == Hits(id, sources)
        evidence == AcceptanceEvidence(id, passes)
        known == results \cup New(results, evidence)
        seen == events \cup {[id |-> id, rd |-> rd]}
    IN  /\ accepted' = id /\ retired' = retired
        /\ Retires => accepted - retired < InFlight
        /\ lastWriter' = WriterAfter(id, rd)
        /\ events' = {e \in seen : e.id # StaleEvent(id)}
        /\ ~raised'
        /\ Finalize(pending \cup {PendingHit(h, seen) : h \in controlled}, known,
                    bins.intent \cup {BinOf(h) : h \in hits},
                    Cardinality(hits \ controlled))
        /\ results' = Prune(known, pending', id)

\* A retiring half that raises nothing.
Retiring(passes) ==
    LET id == retired + 1
        evidence == {[id |-> id, kind |-> k, passed |-> passes[k]] : k \in DOMAIN passes}
        known == results \cup New(results, evidence)
    IN  /\ UNCHANGED <<accepted, lastWriter, events>> /\ retired' = id
        /\ Retires /\ retired < accepted
        /\ ~raised'
        /\ Finalize(pending, known, bins.intent, 0)
        /\ results' = known

\* Acceptance never raises: its evidence is told for the first time, the producers
\* of its hits are remembered, and no hit of its consumer is pending yet.
LEMMA AcceptNeverRaises ==
    ASSUME L2Inv, Accept
    PROVE  \E rd \in Reg \cup {NoReg}, sources \in SUBSET Reg, passes \in BOOLEAN :
             \E controlled \in SUBSET Hits(accepted + 1, sources) :
               Accepting(rd, sources, passes, controlled)
<1> USE DEF L2Inv
<1> DEFINE id == accepted + 1
           Known(passes) == results \cup New(results, AcceptanceEvidence(id, passes))
           Seen(rd) == events \cup {[id |-> id, rd |-> rd]}
<1>0. retired' = retired /\ (Retires => accepted - retired < InFlight)
  BY DEF Accept
<1>1. PICK rd \in Reg \cup {NoReg}, sources \in SUBSET Reg, passes \in BOOLEAN :
        /\ Cardinality(sources) <= 2
        /\ accepted' = id
        /\ lastWriter' = WriterAfter(id, rd)
        /\ events' = {e \in Seen(rd) : e.id # StaleEvent(id)}
        /\ \E controlled \in SUBSET Hits(id, sources) :
             /\ failures' = failures + Failed(New(results, AcceptanceEvidence(id, passes)))
                                     + Cardinality(Hits(id, sources) \ controlled)
             /\ failures' <= MaxFailures
             /\ IF \/ Conflicts(results, AcceptanceEvidence(id, passes))
                   \/ \E h \in Hits(id, sources) : h.producer \notin Ids(Seen(rd))
                   \/ \E h \in controlled : \E p \in pending : p.hit = h
                THEN raised' = TRUE /\ UNCHANGED <<results, pending, bins, count>>
                ELSE /\ raised' = FALSE
                     /\ Finalize(pending \cup {PendingHit(h, Seen(rd)) : h \in controlled},
                                 Known(passes),
                                 bins.intent \cup {BinOf(h) : h \in Hits(id, sources)},
                                 Cardinality(Hits(id, sources) \ controlled))
                     /\ results' = Prune(Known(passes), pending', id)
  BY Zenon DEF Accept
<1>2. ~Conflicts(results, AcceptanceEvidence(id, passes))
  <2>1. \A r \in AcceptanceEvidence(id, passes) : ~Produced(r.id, r.kind)
    BY DEF AcceptanceEvidence, Produced, Counters
  <2> QED BY <2>1, FirstTold
<1>3. \A h \in Hits(id, sources) : h.producer \in Ids(Seen(rd))
  BY HitsAreRecent DEF Ids
<1>4. \A h \in Hits(id, sources) : \A p \in pending : p.hit # h
  <2>1. \A h \in Hits(id, sources) : h.consumer = id
    BY HitsAreRecent
  <2>2. \A p \in pending : p.hit.consumer # id
    BY DEF PendingOpen, Counters
  <2> QED BY <2>1, <2>2
<1>5. PICK controlled \in SUBSET Hits(id, sources) :
        /\ raised' = FALSE
        /\ Finalize(pending \cup {PendingHit(h, Seen(rd)) : h \in controlled},
                    Known(passes),
                    bins.intent \cup {BinOf(h) : h \in Hits(id, sources)},
                    Cardinality(Hits(id, sources) \ controlled))
        /\ results' = Prune(Known(passes), pending', id)
  BY <1>1, <1>2, <1>3, <1>4, Zenon
<1>6. Accepting(rd, sources, passes, controlled)
  BY <1>0, <1>1, <1>5, Zenon DEF Accepting
<1> QED BY <1>6, Zenon

\* Nor does retirement: the verdicts of an instruction are told once.
LEMMA RetireNeverRaises ==
    ASSUME L2Inv, Retire
    PROVE  \E passes \in [{"writeback", "store", "x0"} -> BOOLEAN] : Retiring(passes)
<1> USE DEF L2Inv
<1> DEFINE Told(passes) ==
             {[id |-> retired + 1, kind |-> k, passed |-> passes[k]] : k \in DOMAIN passes}
<1>1. PICK passes \in [{"writeback", "store", "x0"} -> BOOLEAN] :
        /\ retired' = retired + 1
        /\ IF Conflicts(results, Told(passes))
           THEN raised' = TRUE /\ UNCHANGED <<results, pending, bins, count>>
           ELSE /\ raised' = FALSE
                /\ Finalize(pending, results \cup New(results, Told(passes)),
                            bins.intent, 0)
                /\ results' = results \cup New(results, Told(passes))
  BY Zenon DEF Retire
<1>2. ~Conflicts(results, Told(passes))
  <2>1. \A r \in Told(passes) : ~Produced(r.id, r.kind)
    BY DEF Produced, Counters
  <2> QED BY <2>1, FirstTold
<1>3. Retiring(passes)
  BY <1>1, <1>2, Zenon DEF Retiring, Retire
<1> QED BY <1>3

\* Acceptance preserves the invariant.
LEMMA AcceptKeepsInvariant ==
    ASSUME L2Inv, Accept
    PROVE  L2Inv'
<1> USE DEF L2Inv
<1>1. PICK rd \in Reg \cup {NoReg}, sources \in SUBSET Reg, passes \in BOOLEAN :
        \E controlled \in SUBSET Hits(accepted + 1, sources) :
          Accepting(rd, sources, passes, controlled)
  BY AcceptNeverRaises
<1>2. PICK controlled \in SUBSET Hits(accepted + 1, sources) :
        Accepting(rd, sources, passes, controlled)
  BY <1>1
<1> DEFINE id == accepted + 1
           evidence == AcceptanceEvidence(id, passes)
           known == results \cup New(results, evidence)
           seen == events \cup {[id |-> id, rd |-> rd]}
           waiting == pending \cup {PendingHit(h, seen) : h \in controlled}
<1>3. /\ accepted' = id /\ retired' = retired
      /\ Retires => accepted - retired < InFlight
      /\ lastWriter' = WriterAfter(id, rd)
      /\ events' = {e \in seen : e.id # StaleEvent(id)}
      /\ ~raised'
      /\ pending' = {p \in waiting : ~Complete(p, known)}
      /\ results' = Prune(known, pending', id)
  BY <1>2, Zenon DEF Accepting, Finalize
<1>4. accepted \in Nat /\ retired \in Nat /\ retired <= accepted
      /\ (Retires => accepted - retired <= InFlight)
  BY DEF Counters
<1>a. \A e : e \in seen <=> e \in events \/ e = [id |-> id, rd |-> rd]
  OBVIOUS
<1>b. \A p \in waiting : p \in pending \/ \E h \in controlled : p = PendingHit(h, seen)
  OBVIOUS
<1>c. /\ \A r \in known : r \in results \/ r \in evidence
      /\ \A i, k : <<i, k>> \in Recorded(results) => <<i, k>> \in Recorded(known)
      /\ \A r \in evidence : <<r.id, r.kind>> \in Recorded(known)
  <2> HIDE DEF evidence
  <2> QED BY RecordingAdds
<1>d. /\ [id |-> id, kind |-> "pc", passed |-> TRUE] \in evidence
      /\ id # 1 => [id |-> id - 1, kind |-> "next_pc", passed |-> passes] \in evidence
      /\ \A r \in evidence :
            \/ r.id = id /\ r.kind = "pc"
            \/ id # 1 /\ r.id = id - 1 /\ r.kind = "next_pc"
  <2>1. id \in Nat \ {0}
    BY <1>4
  <2> HIDE DEF id
  <2> QED BY <2>1, AcceptanceTells
<1> HIDE DEF evidence, known, seen, waiting
<1>5. Counters'
  BY <1>3, <1>4 DEF Counters, InFlight
<1>6. WritersPast'
  BY <1>3, <1>4 DEF WritersPast, WriterAfter
<1>7. EventsRecent'
  <2>1. \A e \in events' : e.id \in Nat
    BY <1>3, <1>4, <1>a DEF EventsRecent
  <2>2. \A i : i \in Ids(events') <=> (i \in Ids(events) \/ i = id) /\ i # StaleEvent(id)
    <3>1. \A e : e \in events' <=> e \in seen /\ e.id # StaleEvent(id)
      BY <1>3
    <3>2. [id |-> id, rd |-> rd] \in seen /\ [id |-> id, rd |-> rd].id = id
      BY <1>a
    <3> HIDE DEF id
    <3> QED BY <3>1, <3>2, <1>a DEF Ids
  <2>3. \A i : i \in Ids(events') <=> i \in 1 .. id /\ i >= id - 1
    BY <2>2, <1>4 DEF EventsRecent, StaleEvent
  <2> QED BY <2>1, <2>3, <1>3 DEF EventsRecent, Ids
\* What is known after recording.
<1>8. ASSUME NEW r \in known
      PROVE  /\ r.id \in Nat \ {0} /\ r.id <= accepted' /\ r.kind \in Kinds
             /\ Produced(r.id, r.kind)'
  <2>1. CASE r \in results
    <3>1. /\ r.id \in Nat \ {0} /\ r.id <= accepted /\ r.kind \in Kinds
          /\ Produced(r.id, r.kind)
      BY <2>1 DEF ResultsProduced
    <3>2. Produced(r.id, r.kind)'
      BY <3>1, <1>3, <1>4, <1>5, ProducedGrows
    <3> QED BY <3>1, <3>2, <1>3, <1>4
  <2>2. CASE r \in evidence
    BY <2>2, <1>3, <1>4, <1>d DEF Produced, Kinds
  <2> QED BY <2>1, <2>2, <1>c
<1> DEFINE window == id - EvidenceWindow
<1>9. /\ results' \subseteq known
      /\ \A r \in known : r.id >= window => r \in results'
      /\ \A p \in pending' : \A c \in p.required : \A r \in known :
             r.id = c[1] => r \in results'
      /\ \A r \in results' : \/ r.id >= window
                             \/ \E p \in pending' : \E c \in p.required : r.id = c[1]
  <2>1. id \in Nat
    BY <1>4
  <2>2. \A r \in known : r.id \in Nat \ {0}
    BY <1>8
  <2>3. results' = Prune(known, pending', id)
    BY <1>3
  <2> HIDE DEF id
  <2> QED BY <2>1, <2>2, <2>3, PruneKeeps
<1>10. ResultsProduced'
  BY <1>8, <1>9 DEF ResultsProduced
\* What is waiting afterwards.
<1>11. ASSUME NEW p \in waiting
       PROVE  /\ p.hit.consumer \in Nat \ {0} /\ p.hit.consumer <= accepted'
              /\ p.hit.producer \in Nat \ {0} /\ p.hit.consumer - p.hit.producer \in {D1, D2}
              /\ p.required \subseteq Participants(p) \X Kinds
              /\ Participants(p) \X AlwaysRequired \subseteq p.required
              /\ p \in pending \/ \A i \in Participants(p) : i >= accepted - 1
  <2>1. CASE p \in pending
    BY <2>1, <1>3, <1>4 DEF PendingOpen
  <2>2. CASE p \notin pending
    <3>1. PICK h \in controlled : p = PendingHit(h, seen)
      BY <2>2, <1>b
    <3>2. /\ p.hit = h
          /\ p.required \subseteq Participants(p) \X Kinds
          /\ Participants(p) \X AlwaysRequired \subseteq p.required
      BY <3>1, NewHitAsks DEF seen
    <3>3. /\ h.consumer = accepted + 1 /\ h.producer \in Nat \ {0}
          /\ h.producer <= accepted /\ h.producer >= accepted - 1
          /\ h.consumer - h.producer \in {D1, D2}
      BY HitsAreRecent
    <3> QED BY <3>2, <3>3, <1>3, <1>4 DEF Participants
  <2> QED BY <2>1, <2>2
<1>12. pending' \subseteq waiting
  BY <1>3
<1>13. PendingOpen'
  <2>1. ASSUME NEW p \in pending' PROVE ~Complete(p, results')
    <3>1. ~Complete(p, known)
      BY <1>3
    <3>2. Recorded(results') \subseteq Recorded(known)
      BY <1>9 DEF Recorded
    <3> QED BY <3>1, <3>2 DEF Complete
  <2>2. \A p \in pending' : ~Complete(p, results)'
    BY <2>1 DEF Complete, Recorded
  <2> QED BY <2>2, <1>11, <1>12 DEF PendingOpen, Participants
<1>14. EvidenceKept'
  <2> SUFFICES ASSUME NEW i \in 1 .. accepted', NEW k \in Kinds,
                      i >= window \/ \E p \in pending' : i \in Participants(p),
                      Produced(i, k)'
               PROVE  <<i, k>> \in Recorded(results')
    BY <1>3 DEF EvidenceKept, Participants, Recorded
  <2>1. i \in Int /\ i >= 1 /\ i <= id
    BY <1>3, <1>4
  <2>2. <<i, k>> \in Recorded(known)
    <3>1. CASE Produced(i, k) /\ i <= accepted
      <4>1. i >= accepted - EvidenceWindow \/ \E p \in pending : i \in Participants(p)
        <5>1. CASE i >= window
          BY <5>1, <2>1, <1>4 DEF EvidenceWindow
        <5>2. CASE \E p \in pending' : i \in Participants(p)
          <6>1. PICK p \in pending' : i \in Participants(p)
            BY <5>2
          <6>2. p \in pending \/ i >= accepted - 1
            BY <6>1, <1>11, <1>12
          <6> QED BY <6>1, <6>2, <2>1, <1>4 DEF EvidenceWindow
        <5> QED BY <5>1, <5>2
      <4>2. i \in 1 .. accepted
        BY <2>1, <3>1, <1>4
      <4>3. <<i, k>> \in Recorded(results)
        BY <3>1, <4>1, <4>2 DEF EvidenceKept
      <4> QED BY <4>3, <1>c
    <3>2. CASE ~(Produced(i, k) /\ i <= accepted)
      <4>1. \/ i = id /\ k = "pc"
            \/ i = id - 1 /\ k = "next_pc"
        BY <3>2, <2>1, <1>3, <1>4 DEF Produced, Kinds
      <4> QED BY <4>1, <2>1, <1>4, <1>c, <1>d
    <3> QED BY <3>1, <3>2
  <2>3. PICK r \in known : r.id = i /\ r.kind = k
    BY <2>2, RecordedIff
  <2>4. r \in results'
    <3>1. CASE i >= window
      BY <3>1, <2>3, <1>9
    <3>2. CASE \E p \in pending' : i \in Participants(p)
      <4>1. PICK p \in pending' : i \in Participants(p)
        BY <3>2
      <4>2. <<i, "pc">> \in p.required
        BY <4>1, <1>11, <1>12 DEF AlwaysRequired
      <4> QED BY <4>1, <4>2, <2>3, <1>9
    <3> QED BY <3>1, <3>2
  <2> QED BY <2>3, <2>4, RecordedIff
<1>15. ResolvedWhenDue'
  <2>1. (Counters /\ PendingOpen /\ EvidenceKept => ResolvedWhenDue)'
    BY WaitingIsDue, PTL
  <2> QED BY <2>1, <1>5, <1>13, <1>14
<1>16. CacheIsRecent'
  <2> SUFFICES ASSUME Retires, NEW r \in results' PROVE r.id >= window
    BY <1>3 DEF CacheIsRecent
  <2>1. CASE \E p \in pending' : \E c \in p.required : r.id = c[1]
    <3>1. PICK p \in pending' : \E c \in p.required : r.id = c[1]
      BY <2>1
    <3>2. r.id \in Participants(p)
      BY <3>1, <1>11, <1>12
    <3>3. p.hit.consumer > retired' \/ p.hit.consumer = accepted'
      BY <1>15 DEF ResolvedWhenDue
    <3>4. /\ p.hit.consumer \in Nat /\ p.hit.producer \in Nat
          /\ p.hit.consumer - p.hit.producer \in {1, 2}
      BY <1>11, <1>12 DEF D1, D2
    <3> QED BY <3>2, <3>3, <3>4, <1>3, <1>4 DEF Participants, InFlight, EvidenceWindow
  <2> QED BY <2>1, <1>9
<1>17. LoopGoesOn'
  BY <1>3 DEF LoopGoesOn
<1> QED BY <1>5, <1>6, <1>7, <1>10, <1>13, <1>14, <1>16, <1>17

\* Retirement preserves it.
LEMMA RetireKeepsInvariant ==
    ASSUME L2Inv, Retire
    PROVE  L2Inv'
<1> USE DEF L2Inv
<1>1. PICK passes \in [{"writeback", "store", "x0"} -> BOOLEAN] : Retiring(passes)
  BY RetireNeverRaises
<1> DEFINE id == retired + 1
           evidence == {[id |-> id, kind |-> k, passed |-> passes[k]] : k \in DOMAIN passes}
           known == results \cup New(results, evidence)
<1>2. /\ accepted' = accepted /\ lastWriter' = lastWriter /\ events' = events
      /\ retired' = id /\ Retires /\ retired < accepted
      /\ ~raised'
      /\ pending' = {p \in pending : ~Complete(p, known)}
      /\ results' = known
  BY <1>1 DEF Retiring, Finalize
<1>3. accepted \in Nat /\ retired \in Nat /\ accepted - retired <= InFlight
  BY <1>2 DEF Counters
<1>4. Counters' /\ WritersPast' /\ EventsRecent' /\ LoopGoesOn'
  BY <1>2, <1>3 DEF Counters, WritersPast, EventsRecent, LoopGoesOn, InFlight
<1>5. /\ \A r \in evidence : r.id = id /\ r.kind \in {"writeback", "store", "x0"}
      /\ \A k \in {"writeback", "store", "x0"} :
            [id |-> id, kind |-> k, passed |-> passes[k]] \in evidence
  BY RetirementTells
<1> HIDE DEF evidence
<1>7. /\ results \subseteq known /\ \A r \in known : r \in results \/ r \in evidence
      /\ \A r \in evidence : <<r.id, r.kind>> \in Recorded(known)
  BY RecordingAdds
<1> HIDE DEF known
<1>6. \A k \in {"writeback", "store", "x0"} : <<id, k>> \in Recorded(known)
  BY <1>5, <1>7
<1>8. ASSUME NEW r \in results'
      PROVE  /\ r.id \in Nat \ {0} /\ r.id <= accepted' /\ r.kind \in Kinds
             /\ Produced(r.id, r.kind)'
             /\ r.id >= accepted - EvidenceWindow
  <2>1. CASE r \in results
    <3>1. /\ r.id \in Nat \ {0} /\ r.id <= accepted /\ r.kind \in Kinds
          /\ Produced(r.id, r.kind) /\ r.id >= accepted - EvidenceWindow
      BY <2>1, <1>2 DEF ResultsProduced, CacheIsRecent
    <3>2. Produced(r.id, r.kind)'
      BY <3>1, <1>2, <1>3, <1>4, ProducedGrows
    <3> QED BY <3>1, <3>2, <1>2
  <2>2. CASE r \in evidence
    BY <2>2, <1>2, <1>3, <1>5 DEF Produced, Kinds, InFlight, EvidenceWindow
  <2> QED BY <2>1, <2>2, <1>2, <1>7
<1>9. ResultsProduced' /\ CacheIsRecent'
  BY <1>8, <1>2 DEF ResultsProduced, CacheIsRecent
<1>10. PendingOpen'
  <2>1. \A p \in pending' : ~Complete(p, results')
    BY <1>2
  <2>2. \A p \in pending' : ~Complete(p, results)'
    BY <2>1 DEF Complete, Recorded
  <2> QED BY <2>2, <1>2 DEF PendingOpen, Participants
<1>11. EvidenceKept'
  <2> SUFFICES ASSUME NEW i \in 1 .. accepted, NEW k \in Kinds,
                      i >= accepted - EvidenceWindow \/ \E p \in pending' : i \in Participants(p),
                      Produced(i, k)'
               PROVE  <<i, k>> \in Recorded(known)
    BY <1>2 DEF EvidenceKept, Participants, Recorded
  <2>1. i \in Int /\ i >= 1 /\ i <= accepted
    BY <1>3
  <2>2. CASE Produced(i, k)
    <3>1. <<i, k>> \in Recorded(results)
      BY <2>2, <1>2 DEF EvidenceKept
    <3> QED BY <3>1, <1>7, RecordedIff
  <2>3. CASE ~Produced(i, k)
    <3>1. i = id /\ k \in {"writeback", "store", "x0"}
      BY <2>1, <2>3, <1>2, <1>3 DEF Produced, Kinds
    <3> QED BY <3>1, <1>6
  <2> QED BY <2>2, <2>3
<1> QED BY <1>4, <1>9, <1>10, <1>11

-----------------------------------------------------------------------------
(* Theorems.                                                                *)

\* The invariant holds in every state of every run of either loop.
THEOREM L2InvIsInvariant == L2Spec => []L2Inv
<1>1. Init => L2Inv
  <2> SUFFICES ASSUME Init PROVE L2Inv
    OBVIOUS
  <2>1. /\ accepted = 0 /\ retired = 0 /\ events = {} /\ results = {} /\ pending = {}
        /\ lastWriter = [r \in Reg |-> 0] /\ raised = FALSE
    BY DEF Init
  <2>2. Counters
    BY <2>1 DEF Counters, InFlight
  <2>3. WritersPast
    BY <2>1 DEF WritersPast
  <2>4. EventsRecent
    BY <2>1 DEF EventsRecent, Ids
  <2>5. EvidenceKept
    BY <2>1 DEF EvidenceKept
  <2> QED BY <2>1, <2>2, <2>3, <2>4, <2>5
          DEF L2Inv, ResultsProduced, PendingOpen, CacheIsRecent, LoopGoesOn
<1>2. L2Inv /\ [Next]_vars => L2Inv'
  <2> SUFFICES ASSUME L2Inv, [Next]_vars PROVE L2Inv'
    OBVIOUS
  <2>1. CASE Accept
    BY <2>1, AcceptKeepsInvariant
  <2>2. CASE Retire
    BY <2>2, RetireKeepsInvariant
  <2>3. CASE UNCHANGED vars
    <3>1. /\ Counters' /\ WritersPast' /\ EventsRecent' /\ ResultsProduced' /\ LoopGoesOn'
      BY <2>3 DEF L2Inv, vars, Counters, WritersPast, EventsRecent, ResultsProduced,
                  LoopGoesOn, Ids, Produced
    <3>2. PendingOpen' /\ EvidenceKept' /\ CacheIsRecent'
      BY <2>3 DEF L2Inv, vars, PendingOpen, EvidenceKept, CacheIsRecent, Complete,
                  Recorded, Participants, Produced
    <3> QED BY <3>1, <3>2 DEF L2Inv
  <2> QED BY <2>1, <2>2, <2>3 DEF Next
<1> QED BY <1>1, <1>2, PTL DEF L2Spec

\* Neither loop is ended by an exception of the checker or by a missing event.
THEOREM LoopNeverStops == L2Spec => []LoopGoesOn
<1>1. L2Inv => LoopGoesOn
  BY DEF L2Inv
<1> QED BY <1>1, L2InvIsInvariant, PTL

\* Pruning loses no evidence that a pending or a coming hit asks for.
THEOREM EvidenceAlwaysSurvives == L2Spec => []EvidenceSurvives
<1>1. L2Inv => EvidenceSurvives
  <2> DEFINE asked == UNION {p.required : p \in pending}
             coming == UNION {Requirements(e) : e \in events}
  <2> SUFFICES ASSUME L2Inv, NEW c, c \in asked \/ c \in coming, Produced(c[1], c[2])
               PROVE  c \in Recorded(results)
    BY Zenon DEF EvidenceSurvives
  <2>1. accepted \in Nat
    BY DEF L2Inv, Counters
  <2> HIDE DEF asked, coming
  <2>2. PICK i \in 1 .. accepted, k \in Kinds :
           /\ c = <<i, k>>
           /\ i >= accepted - EvidenceWindow \/ \E p \in pending : i \in Participants(p)
    <3>1. CASE c \in asked
      <4>1. PICK p \in pending : c \in p.required
        BY <3>1 DEF asked
      <4>2. PICK i \in Participants(p), k \in Kinds : c = <<i, k>>
        BY <4>1 DEF L2Inv, PendingOpen
      <4>3. i \in 1 .. accepted
        BY <2>1, <4>1 DEF L2Inv, PendingOpen, Participants, D1, D2
      <4> QED BY <4>1, <4>2, <4>3
    <3>2. CASE c \in coming
      <4>1. PICK e \in events : c \in Requirements(e)
        BY <3>2 DEF coming
      <4>2. e.id \in Ids(events)
        BY DEF Ids
      <4>3. e.id \in 1 .. accepted /\ e.id >= accepted - 1
        BY <4>2 DEF L2Inv, EventsRecent
      <4>4. e.id >= accepted - EvidenceWindow
        BY <4>3, <2>1 DEF EvidenceWindow
      <4>5. PICK k \in Kinds : c = <<e.id, k>>
        BY <4>1 DEF Requirements, Kinds
      <4> QED BY <4>3, <4>4, <4>5
    <3> QED BY <3>1, <3>2
  <2> QED BY <2>2 DEF L2Inv, EvidenceKept
<1> QED BY <1>1, L2InvIsInvariant, PTL

\* With retirements, no hit stays pending once everything about it has happened.
THEOREM HitsAreResolved == L2Spec => []ResolvedWhenDue
<1>1. L2Inv => ResolvedWhenDue
  BY WaitingIsDue DEF L2Inv
<1> QED BY <1>1, L2InvIsInvariant, PTL

\* In the benchmark, which retires, at most six instructions have evidence.  (The
\* campaign does not retire, and keeps what its pending hits ask for.)
THEOREM CacheStaysBounded ==
    ASSUME Retires
    PROVE  L2Spec => []CacheIsBounded
<1>1. L2Inv => CacheIsBounded
  <2> SUFFICES ASSUME L2Inv PROVE CacheIsBounded
    OBVIOUS
  <2> DEFINE recent == (accepted - EvidenceWindow) .. accepted
  <2>1. accepted \in Nat /\ accepted - EvidenceWindow \in Int
    BY DEF L2Inv, Counters, EvidenceWindow
  <2>2. Ids(results) \subseteq recent
    BY <2>1 DEF L2Inv, ResultsProduced, CacheIsRecent, Ids
  <2>3. IsFiniteSet(recent) /\ Cardinality(recent) = 6
    BY <2>1, FS_Interval DEF EvidenceWindow
  <2>4. Cardinality(Ids(results)) <= Cardinality(recent)
    BY <2>2, <2>3, FS_Subset
  <2> QED BY <2>3, <2>4 DEF CacheIsBounded
<1> QED BY <1>1, L2InvIsInvariant, PTL

\* What a step validates was pending before it, its consumer has retired by now and
\* the consumer's successor has been accepted.
THEOREM ValidationFollowsRetirement == L2Spec => ValidatedAfterRetirement
<1> DEFINE Due(p) == p.hit.consumer <= retired' /\ p.hit.consumer < accepted'
           Justified == \A b \in bins'.validated \ bins.validated :
                           \E p \in pending : /\ BinOf(p.hit) = b
                                              /\ p.hit.consumer <= retired' /\ p.hit.consumer < accepted'
<1>1. ASSUME L2Inv, Accept PROVE Justified
  <2>1. PICK rd \in Reg \cup {NoReg}, sources \in SUBSET Reg, passes \in BOOLEAN :
          \E controlled \in SUBSET Hits(accepted + 1, sources) :
            Accepting(rd, sources, passes, controlled)
    BY <1>1, AcceptNeverRaises
  <2>2. PICK controlled \in SUBSET Hits(accepted + 1, sources) :
          Accepting(rd, sources, passes, controlled)
    BY <2>1
  <2> DEFINE evidence == AcceptanceEvidence(accepted + 1, passes)
             known == results \cup New(results, evidence)
             seen == events \cup {[id |-> accepted + 1, rd |-> rd]}
             waiting == pending \cup {PendingHit(h, seen) : h \in controlled}
             good == {p \in {q \in waiting : Complete(q, known)} : Succeeds(p, known)}
  <2>3. /\ accepted' = accepted + 1 /\ retired' = retired
        /\ \E intent : bins' = [intent |-> intent,
                                validated |-> bins.validated \cup {BinOf(p.hit) : p \in good}]
    BY <2>2, Zenon DEF Accepting, Finalize
  <2>4. accepted \in Nat /\ retired \in Nat
    BY <1>1 DEF L2Inv, Counters
  <2>5. \A r \in evidence :
           \/ r.id = accepted + 1 /\ r.kind = "pc"
           \/ r.id = accepted /\ r.kind = "next_pc"
    <3>1. accepted + 1 \in Nat \ {0} /\ (accepted + 1) - 1 = accepted
      BY <2>4
    <3> DEFINE n == accepted + 1
    <3>2. \A r \in AcceptanceEvidence(n, passes) :
             \/ r.id = n /\ r.kind = "pc"
             \/ n # 1 /\ r.id = n - 1 /\ r.kind = "next_pc"
      <4> HIDE DEF n
      <4> QED BY <3>1, AcceptanceTells DEF n
    <3> QED BY <3>1, <3>2
  <2>6. \A r \in known : r \in results \/ r \in evidence
    <3> HIDE DEF evidence
    <3> QED BY RecordingAdds
  <2>7. \A p \in waiting : p \in pending \/ \E h \in controlled : p = PendingHit(h, seen)
    OBVIOUS
  <2>8. \A p \in good : p \in waiting /\ Complete(p, known)
    OBVIOUS
  <2> HIDE DEF evidence, known, good, waiting, seen
  <2>9. ASSUME NEW p \in good PROVE p \in pending /\ Due(p)
    <3>1. p \in waiting /\ Complete(p, known)
      BY <2>8
    <3>2. /\ Participants(p) \X AlwaysRequired \subseteq p.required
          /\ p \in pending \/ p.hit.consumer = accepted + 1
      <4>1. CASE p \in pending
        BY <4>1, <1>1 DEF L2Inv, PendingOpen
      <4>2. CASE p \notin pending
        <5>1. PICK h \in controlled : p = PendingHit(h, seen)
          BY <4>2, <3>1, <2>7
        <5>2. p.hit = h /\ Participants(p) \X AlwaysRequired \subseteq p.required
          BY <5>1, <1>1, NewHitAsks DEF L2Inv, seen
        <5>3. h.consumer = accepted + 1
          BY <1>1, HitsAreRecent DEF L2Inv
        <5> QED BY <5>2, <5>3
      <4> QED BY <4>1, <4>2
    <3>3. /\ <<p.hit.consumer, "writeback">> \in Recorded(known)
          /\ <<p.hit.consumer, "next_pc">> \in Recorded(known)
      BY <3>1, <3>2 DEF Complete, Participants, AlwaysRequired
    <3>4. PICK r \in known : r.id = p.hit.consumer /\ r.kind = "writeback"
      BY <3>3, RecordedIff
    <3>5. PICK s \in known : s.id = p.hit.consumer /\ s.kind = "next_pc"
      BY <3>3, RecordedIff
    <3>6. r \in results
      BY <3>4, <2>5, <2>6
    <3>7. p.hit.consumer <= retired /\ p.hit.consumer <= accepted
          /\ p.hit.consumer \in Nat
      BY <3>4, <3>6, <1>1 DEF L2Inv, ResultsProduced, Produced
    <3> QED BY <3>2, <3>7, <2>3, <2>4
  <2>10. \A b \in bins'.validated \ bins.validated : \E p \in good : BinOf(p.hit) = b
    BY <2>3
  <2> QED BY <2>9, <2>10
<1>2. ASSUME L2Inv, Retire PROVE Justified
  <2>1. PICK passes \in [{"writeback", "store", "x0"} -> BOOLEAN] : Retiring(passes)
    BY <1>2, RetireNeverRaises
  <2> DEFINE evidence == {[id |-> retired + 1, kind |-> k, passed |-> passes[k]] :
                             k \in DOMAIN passes}
             known == results \cup New(results, evidence)
             good == {p \in {q \in pending : Complete(q, known)} : Succeeds(p, known)}
  <2>2. /\ accepted' = accepted /\ retired' = retired + 1 /\ retired < accepted
        /\ \E intent : bins' = [intent |-> intent,
                                validated |-> bins.validated \cup {BinOf(p.hit) : p \in good}]
    BY <2>1, Zenon DEF Retiring, Finalize
  <2>3. accepted \in Nat /\ retired \in Nat
    BY <1>2 DEF L2Inv, Counters
  <2>4. \A r \in evidence : r.id = retired + 1 /\ r.kind \in {"writeback", "store", "x0"}
    BY RetirementTells
  <2>5. \A r \in known : r \in results \/ r \in evidence
    <3> HIDE DEF evidence
    <3> QED BY RecordingAdds
  <2>6. \A p \in good : p \in pending /\ Complete(p, known)
    OBVIOUS
  <2> HIDE DEF evidence, known, good
  <2>7. ASSUME NEW p \in good PROVE p \in pending /\ Due(p)
    <3>1. p \in pending /\ Complete(p, known)
      BY <2>6
    <3>2. Participants(p) \X AlwaysRequired \subseteq p.required
      BY <3>1, <1>2 DEF L2Inv, PendingOpen
    <3>3. /\ <<p.hit.consumer, "writeback">> \in Recorded(known)
          /\ <<p.hit.consumer, "next_pc">> \in Recorded(known)
      BY <3>1, <3>2 DEF Complete, Participants, AlwaysRequired
    <3>4. PICK r \in known : r.id = p.hit.consumer /\ r.kind = "writeback"
      BY <3>3, RecordedIff
    <3>5. PICK s \in known : s.id = p.hit.consumer /\ s.kind = "next_pc"
      BY <3>3, RecordedIff
    <3>6. s \in results /\ p.hit.consumer < accepted
      BY <3>5, <2>4, <2>5, <1>2 DEF L2Inv, ResultsProduced, Produced
    <3>7. p.hit.consumer <= retired + 1
      <4>1. CASE r \in results
        BY <4>1, <3>4, <2>3, <1>2 DEF L2Inv, ResultsProduced, Produced
      <4>2. CASE r \in evidence
        BY <4>2, <3>4, <2>3, <2>4
      <4> QED BY <4>1, <4>2, <2>5
    <3> QED BY <3>1, <3>6, <3>7, <2>2
  <2>8. \A b \in bins'.validated \ bins.validated : \E p \in good : BinOf(p.hit) = b
    BY <2>2
  <2> QED BY <2>7, <2>8
<1>3. L2Inv /\ [Next]_vars => [Justified]_vars
  BY <1>1, <1>2 DEF Next
<1>4. ValidatedAfterRetirement <=> [][Justified]_vars
  BY DEF ValidatedAfterRetirement
<1> QED BY <1>3, <1>4, L2InvIsInvariant, PTL DEF L2Spec
=============================================================================
