-------------------------- MODULE StreamInvariant --------------------------
(***************************************************************************)
(* An inductive invariant of CampaignStream: how planner, ring, tracker,   *)
(* image, memory and DUT describe one stream, how much of it is always     *)
(* laid out ahead, and where its epochs begin and end.                     *)
(***************************************************************************)
EXTENDS CampaignProperties

WordKinds == {"plain", "load", "link", "none"}
Witnesses == [producer : Nat, consumer : Nat]
EntryRecords ==
    [key : {"EBD", "TEMPLATE"} \X Nat, start : Nat, first : Nat \ {0}, kinds : Seq(WordKinds),
     offsets : Seq(Nat), witnesses : SUBSET Witnesses]
Plans ==
    [word : Nat, inst : Nat, template : Nat, boundary : Nat, toBegin : Nat,
     pending : EntryRecords \cup {NoEntry}, active : BOOLEAN, arm : ArmIDs, planned : Nat,
     terminated : BOOLEAN, targeted : Nat, fillers : Nat]
Rings == [entries : Seq(EntryRecords), used : Nat]
Trackers ==
    [entries : Seq(EntryRecords), progress : Nat, next : Nat, accepted : Nat, pending : Nat]
Images == [owner : [Cell -> Nat \cup {NoWord}], append : Nat, release : Nat, expected : Cell]
Latches == [cell : Cell, word : Nat \cup {NoWord}, kind : WordKinds]

StreamTypes ==
    /\ config \in [nominal : Nominals, budget : Budgets]
    /\ phase \in {"run", "fill", "done"}
    /\ plan \in Plans /\ ring \in Rings /\ tracker \in Trackers
    /\ witnesses \subseteq Witnesses /\ image \in Images
    /\ learner \in [active : BOOLEAN, arm : ArmIDs, epochs : Nat]
    /\ loop \in [before : Nat, planned : Nat, closed : Nat]
    /\ imem \in [Cell -> [word : Nat \cup {NoWord}, kind : WordKinds]]
    /\ hw \in [pc : Cell, a : Latches, b : Latches]

KindAt(e, word) == e.kinds[word - e.start + 1]

\* How far the instruction after this one is away.
Step(kind) == IF kind = "link" THEN 3 ELSE 1

\* An entry is executed from its first word to its last; links alone skip words,
\* and none ends an entry.
WellFormed(e) ==
    /\ e \in EntryRecords
    /\ Words(e) \in 1 .. MaxBlockWords /\ Executed(e) \in 1 .. Words(e)
    /\ e.offsets[1] = 0 /\ e.offsets[Executed(e)] = Words(e) - 1
    /\ \A k \in 1 .. Executed(e) : e.offsets[k] \in 0 .. Words(e) - 1
    /\ \A k \in 1 .. Executed(e) - 1 :
         e.offsets[k + 1] = e.offsets[k] + Step(e.kinds[e.offsets[k] + 1])
    /\ e.kinds[Words(e)] # "link"
    /\ \A k \in 1 .. Words(e) : e.kinds[k] # "none"
    /\ \A w \in e.witnesses :
         e.first <= w.producer /\ w.producer < w.consumer /\ w.consumer < e.first + Executed(e)
    /\ IsBoundary(e) => e.witnesses = {} /\ Executed(e) = 1

\* The entries follow each other without a gap, in words and in instructions.
Contiguous(E) ==
    /\ \A i \in DOMAIN E : WellFormed(E[i])
    /\ \A i \in 1 .. Len(E) - 1 : /\ E[i + 1].start = EndOf(E[i])
                                  /\ E[i + 1].first = E[i].first + Executed(E[i])
    /\ \A i, j \in DOMAIN E : i < j => /\ EndOf(E[i]) <= E[j].start
                                       /\ E[i].first + Executed(E[i]) <= E[j].first

\* Ring, tracker, image and plan agree on where the resident stream begins and ends.
StreamFits ==
    /\ ring.entries = Entries /\ Contiguous(Entries)
    /\ image.append = image.release + ring.used /\ ring.used <= Capacity
    /\ tracker.next = tracker.accepted + 1
    /\ phase # "done" =>
         /\ Entries # <<>>
         /\ Head(Entries).start = image.release /\ EndOf(Last(Entries)) = image.append
         /\ Head(Entries).first + tracker.progress = tracker.next
         /\ Last(Entries).first + Executed(Last(Entries)) = plan.inst
         /\ tracker.progress < Executed(Head(Entries))
         /\ image.append = plan.word
         /\ plan.inst = tracker.next - tracker.progress + tracker.pending
    /\ phase = "fill" => tracker.progress = 0
    /\ phase = "done" =>
         Entries = <<>> /\ ring.used = 0 /\ tracker.progress = 0 /\ tracker.pending = 0

\* A cell is owned by the word that is resident there, or by none.
OwnersFit(m) ==
    /\ \A w \in m.release .. m.append - 1 : m.owner[CellOf(w)] = w
    /\ \A c \in Cell : m.owner[c] # NoWord =>
         m.owner[c] \in m.release .. m.append - 1 /\ CellOf(m.owner[c]) = c

\* Every resident word is part of an entry, and the memory holds it.
MemoryFits ==
    /\ OwnersFit(image)
    /\ \A w \in image.release .. image.append - 1 : \E e \in ToSet(Entries) : w \in WordsOf(e)
    /\ \A e \in ToSet(Entries) : \A w \in WordsOf(e) :
         imem[CellOf(w)] = [word |-> w, kind |-> KindAt(e, w)]
    /\ \A c \in Cell : imem[c].word # NoWord => CellOf(imem[c].word) = c

\* What the DUT holds: right behind a link, nothing that counts; otherwise the next
\* instruction, or nothing and the PC points at it.
FetchFits ==
    phase # "done" =>
        /\ image.expected = CellOf(NextWord)
        /\ hw.b.kind = "link" => phase = "run" /\ CellOf(hw.b.cell + 3) = CellOf(NextWord)
        /\ hw.b.kind # "link" =>
             IF hw.a.word = NoWord THEN hw.pc = CellOf(NextWord) /\ hw.a.kind # "link"
             ELSE /\ hw.a.word = NextWord /\ hw.a.cell = CellOf(NextWord)
                  /\ hw.a.kind = KindAt(Head(Entries), NextWord)
                  /\ hw.pc = CellOf(NextWord + 1)

\* While the clock runs, two instructions are laid out, or the budget ends the campaign
\* first; while the plan is open the memory is full but for less than a reserve.
LaidOutAhead ==
    phase = "run" =>
        /\ tracker.next < config.budget => plan.inst >= tracker.next + 2
        /\ plan.active => ring.used > Capacity - RefillThreshold

\* Where the active epoch began, and where it ends once that is known.
EpochFits ==
    /\ learner.active <=> phase # "done"
    /\ plan.terminated <=> phase = "done"
    /\ loop.closed = (IF phase = "done" THEN tracker.accepted ELSE loop.before)
    /\ phase = "done" => tracker.accepted = config.budget /\ ~plan.active
    /\ plan.fillers = plan.targeted \div TargetedPerFiller
    /\ phase # "done" =>
         /\ loop.before <= tracker.accepted /\ loop.before < config.budget
         /\ tracker.next <= config.budget
         /\ learner.arm = plan.arm /\ learner.arm \in Arms
    /\ phase = "fill" => plan.active
    /\ plan.active =>
         /\ loop.planned = None /\ plan.planned # 0 /\ plan.pending = NoEntry
         /\ plan.inst = loop.before + plan.planned + 1
         /\ plan.boundary = plan.toBegin
    /\ phase = "run" /\ ~plan.active =>
         /\ loop.planned >= config.nominal
         /\ tracker.accepted < loop.before + loop.planned
         /\ IF plan.pending = NoEntry
            THEN plan.inst = loop.before + loop.planned + 1 /\ plan.inst > config.budget
                 /\ plan.boundary = plan.toBegin
            ELSE /\ plan.pending = Last(Entries)
                 /\ plan.pending.first = loop.before + loop.planned + 1
                 /\ plan.pending.first <= config.budget
                 /\ plan.pending.key = <<"EBD", plan.toBegin>>
                 /\ plan.boundary = plan.toBegin + 1

\* A delimiter is that of the active epoch, or the one laid out for the next.
BoundariesKnown ==
    \A e \in ToSet(Entries) : IsBoundary(e) =>
        \/ e.first = loop.before + 1 /\ e.key[2] < plan.toBegin
        \/ e = plan.pending

StreamInv ==
    /\ StreamTypes /\ StreamFits /\ MemoryFits /\ FetchFits /\ LaidOutAhead /\ EpochFits
    /\ BoundariesKnown /\ WitnessesAreFuture
=============================================================================
