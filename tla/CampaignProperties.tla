------------------------ MODULE CampaignProperties ------------------------
(***************************************************************************)
(* What the instruction stream of an adaptive campaign must guarantee.     *)
(***************************************************************************)
EXTENDS CampaignStream

Entries == tracker.entries
EntryOf(word) == {e \in ToSet(Entries) : word \in WordsOf(e)}
IsBoundary(e) == e.key[1] = "EBD"

\* The word the next acceptance must carry.
NextWord == WordAt(Head(Entries), tracker.progress)

\* No assertion of the campaign loop, of the planner, the ring, the tracker, the
\* timing oracle or the registry ever fires, whatever arms are drawn and wherever
\* the budget cuts.
NeverAborts == phase # "aborted"

\* Ring, tracker and planner describe one program: the ring and the tracker hold
\* the same entries, contiguous, and what is planned next starts, in words and in
\* executed instructions, where the last entry ends.  Entries are added between
\* two entries only: validate_enqueue would count a started one once more.
CursorsAgree ==
    /\ ring.entries = Entries
    /\ phase = "fill" => tracker.progress = 0
    /\ phase # "done" =>
        /\ image.append = plan.word
        /\ plan.inst = tracker.next + tracker.pending - tracker.progress
    /\ \A i \in 1 .. Len(Entries) - 1 :
         /\ Entries[i + 1].start = EndOf(Entries[i])
         /\ Entries[i + 1].first = Entries[i].first + Executed(Entries[i])
    /\ Entries # <<>> =>
         Head(Entries).start = image.release /\ EndOf(Last(Entries)) = image.append

\* The image of the oracle is what the memory really holds: a cell is owned by the
\* word in it exactly when that word belongs to a resident entry, and the ring
\* counts as many words as are owned.
ImageIsMemory ==
    /\ \A c \in Cell :
         image.owner[c] # NoWord <=> \E e \in ToSet(Entries) : image.owner[c] \in WordsOf(e)
    /\ \A c \in Cell : image.owner[c] # NoWord =>
         image.owner[c] = imem[c].word /\ CellOf(imem[c].word) = c
    /\ Cardinality({c \in Cell : image.owner[c] # NoWord}) = ring.used

\* The fetch lookahead never runs dry: while the clock runs, the next instruction
\* the plan expects is already in IF/ID, or in the memory where the PC will find
\* it before anything else is accepted.
NextWordIsThere ==
    phase = "run" =>
        /\ Entries # <<>> /\ imem[CellOf(NextWord)].word = NextWord
        /\ hw.b.kind # "link" =>
             IF hw.a.word = NoWord THEN hw.pc = CellOf(NextWord)
             ELSE hw.a.word = NextWord

\* A refill never replaces a word that may still be executed: a cell that is
\* patched holds no word of a resident entry, and the word in IF/ID is none of
\* those replaced.
NoLiveOverwrite ==
    [][\A c \in Cell : imem'[c] # imem[c] =>
         /\ EntryOf(imem[c].word) = {}
         /\ hw.a.word # NoWord => hw.a.word # imem[c].word]_vars

\* The registry holds exactly the dependencies of resident templates whose
\* consumer has not been accepted: none outlives its template or its epoch, none
\* is forgotten before its consumer executes.
WitnessesAreFuture ==
    /\ phase # "aborted" => witnesses =
         UNION {{w \in e.witnesses : w.consumer >= tracker.next} : e \in ToSet(Entries)}
    /\ loop.planned # None =>
         \A w \in witnesses : w.consumer <= loop.before + loop.planned

\* No epoch is laid out to begin behind the budget, and the epoch that is
\* executing began with its delimiter.
BoundariesFollowEpochs ==
    /\ \A e \in ToSet(Entries) : IsBoundary(e) =>
         /\ e.first <= config.budget
         /\ e.first = IF loop.planned = None THEN loop.before + 1
                      ELSE IF e.key[2] = plan.toBegin THEN loop.before + loop.planned + 1
                           ELSE loop.before + 1
    /\ Cardinality({e \in ToSet(Entries) : IsBoundary(e)}) <= 2

\* The campaign implements the accounting it promises: EpochAccounting.
Accounting == INSTANCE EpochAccounting WITH
    nominal <- config.nominal, budget <- config.budget,
    accepted <- tracker.accepted, charged <- loop.closed,
    epochs <- learner.epochs, finished <- phase = "done"

\* Every instruction is charged to one epoch, ordinary epochs reach the nominal
\* size, and the campaign ends at exactly the budget -- and it does end.
ImplementsAccounting == Accounting!AccountingSpec
=============================================================================
