---------------------------- MODULE L1Invariant ----------------------------
(***************************************************************************)
(* An inductive invariant of L1Validation: which evidence exists for the   *)
(* instructions in each stage, and what the two tables of open hits say of *)
(* each other.                                                             *)
(***************************************************************************)
EXTENDS L1Validation

Kinds == {"pc", "store", "writeback", "x0"}

\* The evidence that has been told so far: the PC at acceptance, the store result
\* when the instruction was in c, the others when it was in d.
Produced(i, k) ==
    /\ i <= accepted
    /\ k # "pc" => i # tags.b /\ (i = tags.c => edge = "rising" /\ k = "store")
    /\ k \in {"writeback", "x0"} => (i = tags.d => edge = "rising")

L1Types ==
    /\ accepted \in Nat /\ edge \in {"falling", "rising"}
    /\ tags \in [b : Nat, c : Nat, d : Nat]
    /\ results \subseteq [id : Nat \ {0}, kind : Kinds, passed : BOOLEAN]
    /\ live \subseteq [hit : [bin : Bins, consumer : Nat],
                       validation : {None, "control_fail"}, hazard : {None}]
    /\ coverage \in [intent : SUBSET Bins, validated : SUBSET Bins]

\* The ids in flight are the latest ones, without a gap.
TagsInOrder ==
    /\ tags.b # 0 => tags.b = accepted
    /\ tags.c # 0 => tags.c = (IF tags.b # 0 THEN accepted - 1 ELSE accepted)
    /\ tags.d # 0 => tags.d = CASE tags.b # 0 /\ tags.c # 0 -> accepted - 2
                                [] tags.b = 0 /\ tags.c = 0 -> accepted
                                [] OTHER -> accepted - 1

EventsRecent == events = {i \in 1 .. accepted : i >= accepted - 3}

\* Stages whose instruction still has to retire.
Unretired == {tags.b, tags.c} \cup (IF edge = "falling" THEN {tags.d} ELSE {})

\* An open hit is about an instruction that has not retired, and producers before it.
HitsOpen ==
    \A h \in hitsBy : /\ h.consumer \in Unretired /\ h.consumer # 0
                      /\ \A d \in Distances[h.bin] : h.consumer - d >= 1
                      /\ h.bin \in coverage.intent

\* The tables agree, and a hit has one entry.
TablesAgree ==
    /\ hitsBy = HitsOf(live)
    /\ waiting = HitsOf({e \in live : e.validation = None})
    /\ performance = {}
    /\ \A e, f \in live : e.hit = f.hit => e = f

\* Nothing is recorded before it happens, and nothing in two versions.
ResultsProduced ==
    /\ \A r \in results : Produced(r.id, r.kind)
    /\ \A r, s \in results : r.id = s.id /\ r.kind = s.kind => r = s

\* Evidence about recent instructions and participants of waiting hits is complete.
EvidenceKept ==
    \A i \in 1 .. accepted, k \in Kinds :
        /\ i >= accepted - 4 \/ \E h \in waiting : i \in Participants(h)
        /\ Produced(i, k)
        => <<i, k>> \in Recorded(results)

\* Evidence is about recent instructions only.
CacheIsRecent == \A r \in results : r.id >= accepted - 5

L1Inv ==
    /\ L1Types /\ TagsInOrder /\ EventsRecent /\ HitsOpen /\ TablesAgree
    /\ ResultsProduced /\ EvidenceKept /\ CacheIsRecent
    /\ LoopNeverRaises /\ RecordsFollowEvidence
=============================================================================
