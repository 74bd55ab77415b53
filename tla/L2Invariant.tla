---------------------------- MODULE L2Invariant ----------------------------
(***************************************************************************)
(* An inductive invariant of L2Validation: what the checker still holds,   *)
(* and which hits wait for what, at the end of each half of an iteration.  *)
(***************************************************************************)
EXTENDS L2Validation

Participants(p) == {p.hit.producer, p.hit.consumer}

\* What every participant of a hit is asked for; x0 comes on top.
AlwaysRequired == {"pc", "store", "writeback", "next_pc"}

Counters ==
    /\ accepted \in Nat /\ retired \in Nat /\ retired <= accepted
    /\ Retires => accepted - retired <= InFlight

WritersPast == lastWriter \in [Reg -> Nat]

\* The loop remembers the last two events.
EventsRecent ==
    /\ \A e \in events : e.id \in Nat
    /\ Ids(events) = {i \in 1 .. accepted : i >= accepted - 1}

\* Nothing is recorded before it happens.
ResultsProduced ==
    \A r \in results : /\ r.id \in Nat \ {0} /\ r.id <= accepted
                       /\ r.kind \in Kinds /\ Produced(r.id, r.kind)

\* A pending hit is of the past, asks for evidence about its participants only,
\* and at least for the four kinds of both; some of it is missing.
PendingOpen ==
    \A p \in pending :
        /\ p.hit.consumer \in Nat \ {0} /\ p.hit.consumer <= accepted
        /\ p.hit.producer \in Nat \ {0} /\ p.hit.consumer - p.hit.producer \in {D1, D2}
        /\ p.required \subseteq Participants(p) \X Kinds
        /\ Participants(p) \X AlwaysRequired \subseteq p.required
        /\ ~Complete(p, results)

\* Evidence about recent instructions and about the participants of pending hits
\* is complete.
EvidenceKept ==
    \A i \in 1 .. accepted, k \in Kinds :
        /\ i >= accepted - EvidenceWindow \/ \E p \in pending : i \in Participants(p)
        /\ Produced(i, k)
        => <<i, k>> \in Recorded(results)

\* With retirements, evidence is of recent instructions only.
CacheIsRecent ==
    Retires => \A r \in results : r.id >= accepted - EvidenceWindow

L2Inv ==
    /\ Counters /\ WritersPast /\ EventsRecent /\ ResultsProduced /\ PendingOpen
    /\ EvidenceKept /\ CacheIsRecent /\ LoopGoesOn
=============================================================================
