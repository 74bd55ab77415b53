------------------------- MODULE HazardsInvariant -------------------------
(***************************************************************************)
(* An inductive invariant of L1Hazards.  The classifier knows the last     *)
(* three instructions, the oracle the last writer of each register, the    *)
(* hardware what is in its stages.  The parts below say how the three      *)
(* correspond: in identity, and in cycles.                                 *)
(***************************************************************************)
EXTENDS L1Hazards, LockInvariant

Newest == Past(1)
Middle == Past(2)
Oldest == Past(3)

PastEvent == [id : Nat, op : Op \cup {"NONE"}, rd : Reg, stalls : Nat, redirects : BOOLEAN]

\* Jumps redirect, and nothing else does but branches.
IsPast(p) ==
    /\ p \in PastEvent
    /\ p.op # "NONE" => p.id # 0
    /\ p.redirects => p.op \in LinkOps \cup BranchOps
    /\ p.op \in LinkOps => p.redirects

HistoryTypes ==
    /\ history \in Seq(PastEvent) /\ Len(history) <= 3
    /\ IsPast(Newest) /\ IsPast(Middle) /\ IsPast(Oldest)

\* The history ends with the last acceptance.
InOrder == Newest.id = index /\ (Middle.id # 0 => Middle.id + 1 = Newest.id)

-----------------------------------------------------------------------------
(* Cycles between acceptances.                                              *)

\* There is, or will be, an instruction to accept.
Fetching == A.instr # NoInstr \/ cycle <= ProgramCycles

IsNewest(t) == Live(t) /\ t.instr.op = Newest.op /\ t.instr.rd = Newest.rd

\* Cycles since the last acceptance: one when it is in B, two behind a stall or a
\* flush, three when the target of a redirect has been fetched.
Elapsed ==
    IF Live(bTag) \/ Newest.id = 0 THEN 1
    ELSE IF Newest.redirects /\ A.instr # NoInstr THEN 3 ELSE 2

Bubbles(p) == IF p.redirects THEN 2 ELSE 0

\* What keeps an instruction out of B is a redirect, or a load one cycle in front.
WaitsForNewest ==
    /\ Live(bTag) => IsNewest(bTag) /\ (Newest.redirects <=> PcSel)
    /\ Newest.id = 0 => /\ ~Live(bTag) /\ ~Live(cTag)
                        /\ A.instr # NoInstr /\ cycle = 1
    /\ Fetching /\ ~Live(bTag) /\ A.instr = NoInstr => Newest.redirects
    /\ A.instr # NoInstr =>
         IF Live(bTag) \/ Newest.redirects \/ Newest.id = 0 THEN Waited = 0
         ELSE Waited = 1 /\ IsNewest(cTag)

\* Cycles from the acceptance of q to that of p, its successor.
Gap(p, q) == 1 + p.stalls + Bubbles(q)

-----------------------------------------------------------------------------
(* The classifier and the oracle's table.                                   *)

\* The oracle's writer of p's register is p, accepted gap cycles before the last
\* acceptance.
IsWriter(p, gap) ==
    LET w == oracle.writer[p.rd] IN
    /\ w.id = p.id /\ w.op = p.op
    /\ Fetching => (w.seen + gap) + Elapsed = cycle

Shadows(p, q) == Positive(p) /\ p.rd = q.rd

WritersInHistory ==
    /\ Positive(Newest) => IsWriter(Newest, 0)
    /\ Positive(Middle) /\ ~Shadows(Newest, Middle) => IsWriter(Middle, Gap(Newest, Middle))
    /\ Positive(Oldest) /\ ~Shadows(Newest, Oldest) /\ ~Shadows(Middle, Oldest) =>
         IsWriter(Oldest, Gap(Newest, Middle) + Gap(Middle, Oldest))

\* A load is right in front of the oracle's next slot exactly when it is the newest.
LoadsInFront ==
    /\ \A r \in Reg \ {0} : LET w == oracle.writer[r] IN
        /\ w.cycle < oracle.next
        /\ w.op = "LW" /\ oracle.next - w.cycle = 1 => Positive(Newest) /\ Newest.rd = r
    /\ Positive(Newest) /\ Newest.op = "LW" => oracle.next - oracle.writer[Newest.rd].cycle = 1

-----------------------------------------------------------------------------
(* The oracle's schedule, while no wrong operand has turned a branch.       *)

KeepsUp ==
    ~misled =>
        /\ Fetching => (oracle.next + falseStalls) + Elapsed = (cycle + 1) + Bubbles(Newest)
        /\ falseStalls = 0 => \A r \in Reg : oracle.writer[r].seen = oracle.writer[r].cycle

\* An acceptance on record: late by the false stalls, and without one exactly on time.
IsTimed(w) ==
    /\ w.falseStalls \in Nat /\ w.o.cycle \in Nat /\ w.x.accept \in Nat
    /\ w.o.cycle = w.x.accept + w.falseStalls
    /\ w.falseStalls = 0 => w.o.stalls = w.x.stalls
    /\ IF UsesRs1(w.o.instr.op) THEN w.falseStalls = 0 => w.o.fa = w.x.fa ELSE w.x.fa = "RF"
    /\ IF UsesRs2(w.o.instr.op) THEN w.falseStalls = 0 => w.o.fb = w.x.fb ELSE w.x.fb = "RF"

-----------------------------------------------------------------------------
(* What is on record.                                                       *)

Follows(t) == Live(t) /\ t.id \in DOMAIN awaiting => awaiting[t.id].o.cycle = t.cycle

AwaitingFollows ==
    /\ DOMAIN awaiting \subseteq 1 .. index
    /\ ~loopError => Follows(bTag) /\ Follows(cTag) /\ Follows(dTag)
    /\ \A id \in DOMAIN awaiting : \A h \in awaiting[id].hits :
         ProducersMatch(h, awaiting[id].x)

Timing ==
    /\ ~loopError => KeepsUp
    /\ ~misled => \A id \in DOMAIN awaiting : IsTimed(awaiting[id])
    /\ TimingExplained

HazardsInv ==
    /\ HistoryTypes
    /\ falseStalls \in Nat /\ misled \in BOOLEAN
    /\ ~loopError => InOrder /\ WaitsForNewest /\ WritersInHistory /\ LoadsInFront
    /\ AwaitingFollows
    /\ ProducersAgree /\ RejectionsExplained
    /\ RedirectBubbles = 2 /\ RetireLatencyCycles = 3 => Timing
=============================================================================
