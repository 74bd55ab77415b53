--------------------------- MODULE LearningProofs ---------------------------
(***************************************************************************)
(* Theorems about EpochLearning, for any number of registers, arms,        *)
(* budgets, epoch lengths and checkpoint intervals.                        *)
(***************************************************************************)
EXTENDS LearningInvariant, SequenceTheorems, FiniteSetTheorems, TLAPS

-----------------------------------------------------------------------------
(* Registers and targets.                                                   *)

\* One of the first three registers is free, so a free one is lowest.
LEMMA LowestIsFree ==
    ASSUME NEW P, \E r \in {1, 2, 3} : r \notin P
    PROVE  Lowest(P) \in Registers /\ Lowest(P) \notin P
<1> DEFINE S == Registers \ P
<1>1. {1, 2, 3} \subseteq Registers
  BY NRegAssumption DEF Registers
<1>2. \A y \in S : y \in Nat /\ y >= 1
  BY NRegAssumption DEF Registers
<1>3. \E x \in S : \A y \in S : x <= y
  <2>1. CASE 1 \in S
    BY <2>1, <1>2
  <2>2. CASE 1 \notin S /\ 2 \in S
    <3>1. \A y \in S : 2 <= y
      BY <2>2, <1>2
    <3> QED BY <2>2, <3>1
  <2>3. CASE 1 \notin S /\ 2 \notin S
    <3>1. 3 \in S
      BY <2>3, <1>1
    <3>2. \A y \in S : 3 <= y
      BY <2>3, <1>2
    <3> QED BY <3>1, <3>2
  <2> QED BY <2>1, <2>2, <2>3
<1>4. Min(S) \in S
  BY <1>3 DEF Min
<1> QED BY <1>4 DEF Lowest

\* The lowest register of one is that register.
LEMMA LowestOfOne == ASSUME NEW r \in Registers PROVE Min({r}) = r
BY NRegAssumption DEF Min, Registers

\* Every arm aims at one bin at distance 1, one at distance 2, or one at each.
LEMMA TargetShapes ==
    ASSUME NEW arm \in Arms, NEW t \in LegalTargets(arm)
    PROVE  \/ arm \in D1Arms /\ \E r \in Registers : t = {<<1, r>>}
           \/ arm \in D2Arms /\ \E r \in Registers : t = {<<2, r>>}
           \/ arm = "A4" /\ \E r, s \in Registers : r # s /\ t = {<<1, r>>, <<2, s>>}
<1>1. CASE arm \in D1Arms
  BY <1>1 DEF LegalTargets
<1>2. CASE arm \in D2Arms
  BY <1>2 DEF LegalTargets, D1Arms, D2Arms
<1>3. CASE arm \notin D1Arms /\ arm \notin D2Arms
  <2>1. arm = "A4"
    BY <1>3, LearningArmsAssumption DEF ArmIDs
  <2>2. PICK p \in Pairs : t = {<<1, p[1]>>, <<2, p[2]>>}
    BY <1>3 DEF LegalTargets
  <2>3. p[1] \in Registers /\ p[2] \in Registers /\ p[1] # p[2]
    BY DEF Pairs
  <2> QED BY <2>1, <2>2, <2>3
<1> QED BY <1>1, <1>2, <1>3

\* What all targets have in common.
LEMMA TargetFacts ==
    ASSUME NEW arm \in Arms, NEW t \in LegalTargets(arm)
    PROVE  /\ t \subseteq L2Bins /\ t # {} /\ RegistersOf(t) # {}
           /\ RegistersOf(t) \subseteq Registers
           /\ \A b \in t : /\ b = <<b[1], b[2]>> /\ b[1] \in {1, 2}
                           /\ b[2] \in Registers /\ b[2] \in RegistersOf(t)
           /\ \A r \in RegistersOf(t) : \E b \in t : b[2] = r
           /\ \E r \in {1, 2, 3} : r \notin RegistersOf(t)
<1>1. t \subseteq L2Bins /\ t # {} /\ \E r \in {1, 2, 3} : \A b \in t : b[2] # r
  <2>1. CASE \E r \in Registers : t = {<<1, r>>}
    BY <2>1 DEF L2Bins
  <2>2. CASE \E r \in Registers : t = {<<2, r>>}
    BY <2>2 DEF L2Bins
  <2>3. CASE \E r, s \in Registers : t = {<<1, r>>, <<2, s>>}
    <3>1. PICK r \in Registers, s \in Registers : t = {<<1, r>>, <<2, s>>}
      BY <2>3
    <3>2. PICK x \in {1, 2, 3} : x # r /\ x # s
      OBVIOUS
    <3>3. \A b \in t : b[2] = r \/ b[2] = s
      BY <3>1
    <3>4. \A b \in t : b[2] # x
      BY <3>2, <3>3
    <3>5. t # {} /\ t \subseteq L2Bins
      BY <3>1 DEF L2Bins
    <3> QED BY <3>4, <3>5
  <2> QED BY <2>1, <2>2, <2>3, TargetShapes
<1>2. \A b \in t : b = <<b[1], b[2]>> /\ b[1] \in {1, 2} /\ b[2] \in Registers
  BY <1>1 DEF L2Bins
<1>3. \A r : r \in RegistersOf(t) <=> \E b \in t : b[2] = r
  BY DEF RegistersOf
<1> QED BY <1>1, <1>2, <1>3

\* The words laid out for a target: all but the last read nothing, the last one reads
\* the target's registers, each written last at the distance its bin asks for.
Fits(body, t) ==
    /\ body \in Seq(Words) /\ Len(body) \in {2, 3}
    /\ \A k \in 1 .. Len(body) - 1 : body[k].reads = {}
    /\ body[Len(body)].reads = RegistersOf(t)
    /\ \A b \in t : /\ b[1] < Len(body)
                    /\ body[Len(body) - b[1]].rd = b[2]
                    /\ b[1] = 2 => body[Len(body) - 1].rd # b[2]

\* Words that write, and the delimiter, read nothing.
LEMMA WordTypes ==
    /\ \A r \in Registers : Writes(r) \in Words /\ Writes(r).reads = {} /\ Writes(r).rd = r
    /\ EBD \in Words /\ EBD.reads = {}
BY NRegAssumption DEF Words, Writes, EBD, Registers

\* A writer and a reader resolve bindings at distance one.
LEMMA TwoFit ==
    ASSUME NEW t, NEW u \in Words, NEW v \in Words,
           u.reads = {}, v.reads = RegistersOf(t), \A b \in t : b[1] = 1 /\ b[2] = u.rd
    PROVE  Fits(<<u, v>>, t)
<1> DEFINE s == <<u, v>>
<1>1. s \in Seq(Words) /\ Len(s) = 2 /\ s[1] = u /\ s[2] = v
  OBVIOUS
<1> HIDE DEF s
<1>2. Fits(s, t)
  <2>1. \A k \in 1 .. Len(s) - 1 : k = 1
    BY <1>1
  <2>2. \A b \in t : Len(s) - b[1] = 1 /\ b[1] < Len(s) /\ b[1] # 2
    BY <1>1
  <2>3. \A b \in t : s[Len(s) - b[1]].rd = b[2]
    BY <1>1, <2>2
  <2> QED BY <1>1, <2>1, <2>2, <2>3 DEF Fits
<1> QED BY <1>2 DEF s

\* Two writers and a reader resolve bindings at distances one and two.
LEMMA ThreeFit ==
    ASSUME NEW t, NEW u \in Words, NEW v \in Words, NEW w \in Words,
           u.reads = {}, v.reads = {}, w.reads = RegistersOf(t),
           \A b \in t : \/ b[1] = 1 /\ b[2] = v.rd
                        \/ b[1] = 2 /\ b[2] = u.rd /\ b[2] # v.rd
    PROVE  Fits(<<u, v, w>>, t)
<1> DEFINE s == <<u, v, w>>
<1>1. s \in Seq(Words) /\ Len(s) = 3 /\ s[1] = u /\ s[2] = v /\ s[3] = w
  OBVIOUS
<1> HIDE DEF s
<1>2. Fits(s, t)
  <2>1. \A k \in 1 .. Len(s) - 1 : k = 1 \/ k = 2
    BY <1>1
  <2>2. ASSUME NEW b \in t
        PROVE  /\ b[1] < Len(s) /\ s[Len(s) - b[1]].rd = b[2]
               /\ b[1] = 2 => s[Len(s) - 1].rd # b[2]
    <3>1. CASE b[1] = 1 /\ b[2] = v.rd
      BY <3>1, <1>1
    <3>2. CASE b[1] = 2 /\ b[2] = u.rd /\ b[2] # v.rd
      BY <3>2, <1>1
    <3> QED BY <3>1, <3>2
  <2> QED BY <1>1, <2>1, <2>2 DEF Fits
<1> QED BY <1>2 DEF s

\* Every template resolves the target it is realised for.
LEMMA BodyFits ==
    ASSUME NEW arm \in Arms, NEW t \in LegalTargets(arm)
    PROVE  Fits(Body(arm, t), t)
<1> DEFINE free == Lowest(RegistersOf(t))
<1>1. free \in Registers /\ free \notin RegistersOf(t)
  BY TargetFacts, LowestIsFree
<1>2. /\ Consumer(t) \in Words /\ Consumer(t).reads = RegistersOf(t)
      /\ Consumer(t).rd = free
  BY <1>1, TargetFacts, NRegAssumption DEF Consumer, Words, Registers
<1>3. CASE arm \in D1Arms
  <2>1. PICK r \in Registers : t = {<<1, r>>}
    BY <1>3, TargetShapes DEF D1Arms, D2Arms
  <2>2. RegistersOf(t) = {r}
    BY <2>1 DEF RegistersOf
  <2>3. Min(RegistersOf(t)) = r
    BY <2>2, LowestOfOne
  <2>4. [rd |-> 0, reads |-> RegistersOf(t)] \in Words
    BY TargetFacts DEF Words
  <2>5. \/ Body(arm, t) = <<Writes(r), Consumer(t)>>
        \/ Body(arm, t) = <<Writes(r), [rd |-> 0, reads |-> RegistersOf(t)]>>
        \/ Body(arm, t) = <<Writes(r), Writes(r), Consumer(t)>>
    BY <1>3, <2>3 DEF Body, PairBody, StoreBody, PriorityBody, D1Arms, D2Arms
  <2>6. \A b \in t : b[1] = 1 /\ b[2] = r
    BY <2>1
  <2> HIDE DEF free
  <2>7. CASE Body(arm, t) = <<Writes(r), Consumer(t)>>
    BY <2>7, <2>6, <1>2, WordTypes, TwoFit
  <2>8. CASE Body(arm, t) = <<Writes(r), [rd |-> 0, reads |-> RegistersOf(t)]>>
    <3>1. [rd |-> 0, reads |-> RegistersOf(t)].reads = RegistersOf(t)
      OBVIOUS
    <3> QED BY ONLY <3>1, <2>8, <2>6, <2>4, WordTypes, TwoFit
  <2>9. CASE Body(arm, t) = <<Writes(r), Writes(r), Consumer(t)>>
    <3>1. \A b \in t : b[1] = 1 /\ b[2] = Writes(r).rd
      BY <2>6, WordTypes
    <3>2. Writes(r) \in Words /\ Writes(r).reads = {}
      BY WordTypes
    <3>3. \A b \in t : \/ b[1] = 1 /\ b[2] = Writes(r).rd
                       \/ b[1] = 2 /\ b[2] = Writes(r).rd /\ b[2] # Writes(r).rd
      BY <3>1
    <3>4. Fits(<<Writes(r), Writes(r), Consumer(t)>>, t)
      BY ONLY <3>2, <3>3, <1>2, ThreeFit
    <3> QED BY <3>4, <2>9
  <2> QED BY <2>5, <2>7, <2>8, <2>9
<1>4. CASE arm \in D2Arms
  <2>1. PICK r \in Registers : t = {<<2, r>>}
    BY <1>4, TargetShapes DEF D1Arms, D2Arms
  <2>2. RegistersOf(t) = {r}
    BY <2>1 DEF RegistersOf
  <2>3. Min(RegistersOf(t)) = r
    BY <2>2, LowestOfOne
  <2> DEFINE filler == Lowest(RegistersOf(t) \cup {Consumer(t).rd})
  <2>4. filler \in Registers /\ filler # r
    <3>1. \A x : x \in RegistersOf(t) \cup {Consumer(t).rd} <=> x = r \/ x = free
      BY <2>2, <1>2
    <3>2. \E x \in {1, 2, 3} : x # r /\ x # free
      OBVIOUS
    <3> QED BY <3>1, <3>2, LowestIsFree
  <2>5. Body(arm, t) = <<Writes(r), Writes(filler), Consumer(t)>>
    BY <1>4, <2>3 DEF Body, SpacedBody, D2Arms
  <2>6. \A b \in t : b[1] = 2 /\ b[2] = r
    BY <2>1
  <2> HIDE DEF free, filler
  <2> QED BY <2>4, <2>5, <2>6, <1>2, WordTypes, ThreeFit
<1>5. CASE arm = "A4"
  <2>1. PICK r \in Registers, s \in Registers : r # s /\ t = {<<1, r>>, <<2, s>>}
    BY <1>5, TargetShapes DEF D1Arms, D2Arms
  <2>2. RegisterAt(t, 1) = r
    BY <2>1 DEF RegisterAt
  <2>3. RegisterAt(t, 2) = s
    BY <2>1 DEF RegisterAt
  <2>4. Body(arm, t) = <<Writes(s), Writes(r), Consumer(t)>>
    BY <1>5, <2>2, <2>3 DEF Body, DualBody, D2Arms
  <2>5. \A b \in t : (b[1] = 1 /\ b[2] = r) \/ (b[1] = 2 /\ b[2] = s)
    BY <2>1
  <2>6. \A b \in t : \/ b[1] = 1 /\ b[2] = Writes(r).rd
                     \/ b[1] = 2 /\ b[2] = Writes(s).rd /\ b[2] # Writes(r).rd
    BY <2>1, <2>5, WordTypes
  <2>7. /\ Writes(r) \in Words /\ Writes(r).reads = {}
        /\ Writes(s) \in Words /\ Writes(s).reads = {}
    BY WordTypes
  <2>8. Fits(<<Writes(s), Writes(r), Consumer(t)>>, t)
    BY ONLY <2>6, <2>7, <1>2, ThreeFit
  <2> QED BY <2>4, <2>8
<1> QED BY <1>3, <1>4, <1>5, LearningArmsAssumption DEF ArmIDs

-----------------------------------------------------------------------------
(* Blocks.                                                                  *)

\* A background filler reads nothing.
LEMMA BackgroundWord ==
    ASSUME NEW arm \in Arms, NEW t \in LegalTargets(arm)
    PROVE  BackgroundFiller(t) \in Words /\ BackgroundFiller(t).reads = {}
BY TargetFacts, LowestIsFree, WordTypes DEF BackgroundFiller

\* A block is the words of the template and fillers that read nothing.
BlockOf(b, t, n) ==
    /\ b \in Seq(Words) /\ n \in {2, 3} /\ Len(b) >= n
    /\ \A k \in 1 .. Len(b) : k # n => b[k].reads = {}
    /\ b[n].reads = RegistersOf(t)
    /\ \A c \in t : /\ c[1] < n /\ b[n - c[1]].rd = c[2]
                    /\ c[1] = 2 => b[n - 1].rd # c[2]

\* Fillers behind a template leave its dependencies alone.
LEMMA BlockFits ==
    ASSUME NEW arm \in Arms, NEW t \in LegalTargets(arm), NEW f \in Nat
    PROVE  LET b == Body(arm, t) \o [k \in 1 .. f |-> BackgroundFiller(t)]
           IN  BlockOf(b, t, Len(Body(arm, t))) /\ Len(b) = Len(Body(arm, t)) + f
<1> DEFINE body == Body(arm, t)
           n == Len(body)
           tail == [k \in 1 .. f |-> BackgroundFiller(t)]
           b == body \o tail
<1>1. Fits(body, t)
  BY BodyFits
<1>2. tail \in Seq(Words) /\ Len(tail) = f /\ \A k \in 1 .. f : tail[k].reads = {}
  <2>1. tail \in [1 .. f -> Words]
    BY BackgroundWord
  <2>2. tail \in Seq(Words) /\ Len(tail) = f
    BY <2>1
  <2> QED BY <2>2, BackgroundWord
<1> HIDE DEF body, tail
<1>3. body \in Seq(Words) /\ n \in {2, 3}
  BY <1>1 DEF Fits
<1>4. /\ b \in Seq(Words) /\ Len(b) = n + f
      /\ \A k \in 1 .. n : b[k] = body[k]
      /\ \A k \in n + 1 .. n + f : b[k] = tail[k - n]
  <2>1. /\ b \in Seq(Words) /\ Len(b) = n + f
        /\ \A k \in 1 .. n + f : b[k] = IF k <= n THEN body[k] ELSE tail[k - n]
    BY <1>2, <1>3, ConcatProperties
  <2> HIDE DEF b
  <2> QED BY <2>1, <1>2, <1>3
<1> HIDE DEF b
<1>5. ASSUME NEW k \in 1 .. Len(b), k # n PROVE b[k].reads = {}
  <2>1. CASE k < n
    <3>1. k \in 1 .. n - 1 /\ k \in 1 .. n
      BY <2>1, <1>3
    <3> QED BY <3>1, <1>1, <1>4 DEF Fits
  <2>2. CASE k > n
    <3>1. k \in n + 1 .. n + f /\ k - n \in 1 .. f
      BY <2>2, <1>3, <1>4
    <3> QED BY <3>1, <1>2, <1>4
  <2> QED BY <2>1, <2>2, <1>3, <1>5
<1>6. b[n].reads = RegistersOf(t)
  <2>1. n \in 1 .. n
    BY <1>3
  <2> QED BY <2>1, <1>1, <1>4 DEF Fits
<1>7. ASSUME NEW c \in t
      PROVE  /\ c[1] < n /\ b[n - c[1]].rd = c[2]
             /\ c[1] = 2 => b[n - 1].rd # c[2]
  <2>1. c[1] \in {1, 2}
    BY TargetFacts
  <2>2. c[1] < n /\ body[n - c[1]].rd = c[2] /\ (c[1] = 2 => body[n - 1].rd # c[2])
    BY <1>1 DEF Fits
  <2>3. n - c[1] \in 1 .. n /\ n - 1 \in 1 .. n
    BY <2>1, <2>2, <1>3
  <2> QED BY <2>2, <2>3, <1>4
<1>8. Len(b) >= n
  BY <1>3, <1>4
<1> HIDE DEF n
<1>9. BlockOf(b, t, n)
  BY <1>3, <1>4, <1>5, <1>6, <1>7, <1>8 DEF BlockOf
<1> QED BY <1>4, <1>9 DEF body, tail, b, n

\* The filler policy never owes less than it has laid out.
LEMMA FillersDueIsNat ==
    ASSUME NEW p \in Plans, p.fillers = p.targeted \div 4,
           NEW w \in Nat
    PROVE  /\ (p.targeted + w) \div 4 - p.fillers \in Nat
           /\ p.fillers + ((p.targeted + w) \div 4 - p.fillers) = (p.targeted + w) \div 4
<1>1. p.targeted \in Nat
  BY DEF Plans
<1> QED BY <1>1

-----------------------------------------------------------------------------
(* Consequences of the invariant.                                           *)

\* The types of what a running campaign computes with.
LEMMA TypesOfRun ==
    ASSUME LearningInv, status = "run"
    PROVE  /\ config \in Configs /\ config.nominal \in Nat \ {0} /\ config.budget \in Nat \ {0}
           /\ plan \in Plans /\ stream \in Seq(Words) /\ Len(stream) \in Nat
           /\ accepted \in Nat /\ witnesses \subseteq Witnesses
           /\ loop.before \in Nat /\ loop.planned \in Nat
           /\ plan.active \in BOOLEAN /\ plan.planned \in Nat /\ plan.inst \in Nat
           /\ plan.targeted \in Nat /\ plan.fillers \in Nat /\ plan.boundary \in BOOLEAN
           /\ Running
<1>1. LearningTypes /\ Running
  BY DEF LearningInv
<1>2. /\ config \in Configs /\ plan \in Plans /\ stream \in Seq(Words) /\ accepted \in Nat
      /\ witnesses \subseteq Witnesses /\ loop \in [before : Nat, planned : Nat]
  BY <1>1 DEF LearningTypes
<1>3. config.nominal \in Nat \ {0} /\ config.budget \in Nat \ {0}
  BY <1>2, ConfigsAssumption
<1>4. Len(stream) \in Nat
  BY <1>2
<1>5. loop.before \in Nat /\ loop.planned \in Nat
  BY <1>2
<1>6. /\ plan.active \in BOOLEAN /\ plan.planned \in Nat /\ plan.inst \in Nat
      /\ plan.targeted \in Nat /\ plan.fillers \in Nat /\ plan.boundary \in BOOLEAN
  BY <1>2 DEF Plans
<1> QED BY <1>1, <1>2, <1>3, <1>4, <1>5, <1>6

\* The active epoch aims at a target of its arm.
LEMMA ActiveTarget ==
    ASSUME EpochActive
    PROVE  /\ epoch.arm \in Arms /\ epoch.targets \in LegalTargets(epoch.arm)
           /\ epoch.index \in Nat
BY DEF EpochActive, Epochs, Select

-----------------------------------------------------------------------------
(* PlanBlock, PlanBoundary and PlanLast.                                    *)

\* The stream with words b behind it.
LEMMA LongerStream ==
    ASSUME stream \in Seq(Words), NEW b \in Seq(Words)
    PROVE  LET s == stream \o b IN
           /\ s \in Seq(Words) /\ Len(s) = Len(stream) + Len(b)
           /\ \A k \in 1 .. Len(stream) : s[k] = stream[k]
           /\ \A j \in 1 .. Len(b) : s[Len(stream) + j] = b[j]
<1> DEFINE s == stream \o b
<1>1. /\ s \in Seq(Words) /\ Len(s) = Len(stream) + Len(b)
      /\ \A k \in 1 .. Len(stream) + Len(b) :
            s[k] = IF k <= Len(stream) THEN stream[k] ELSE b[k - Len(stream)]
  BY ONLY stream \in Seq(Words), b \in Seq(Words), ConcatProperties
<1>2. Len(stream) \in Nat /\ Len(b) \in Nat
  OBVIOUS
<1> HIDE DEF s
<1>3. \A k \in 1 .. Len(stream) : s[k] = stream[k]
  BY <1>1, <1>2
<1>4. \A j \in 1 .. Len(b) : s[Len(stream) + j] = b[j]
  <2> TAKE j \in 1 .. Len(b)
  <2>1. /\ Len(stream) + j \in 1 .. Len(stream) + Len(b)
        /\ ~(Len(stream) + j <= Len(stream)) /\ Len(stream) + j - Len(stream) = j
    BY <1>2
  <2> QED BY <2>1, <1>1
<1> QED BY <1>1, <1>3, <1>4 DEF s

\* The witnesses of a block name the word at n of it, which is behind all that is laid out.
FreshWitnesses(last) ==
    {[bin |-> c, producer |-> last - c[1], consumer |-> last] : c \in epoch.targets}

\* What laying out a block does, field by field.
Planned(b, n, f, iw) ==
    LET fresh == FreshWitnesses(plan.inst + n - 1)
    IN  /\ BlockOf(b, epoch.targets, n) /\ Len(b) \in Nat /\ n \in {2, 3}
        /\ f \in Nat /\ iw \in Nat /\ plan.fillers + f = (plan.targeted + iw) \div 4
        /\ plan.active
        /\ plan' \in Plans
        /\ plan'.active = plan.active /\ plan'.boundary = plan.boundary
        /\ plan'.planned = plan.planned + Len(b)
        /\ plan'.inst = plan.inst + Len(b)
        /\ plan'.targeted = plan.targeted + iw /\ plan'.fillers = plan.fillers + f
        /\ stream' = stream \o b
        /\ witnesses' = witnesses \cup fresh
        /\ status' = IF fresh \cap witnesses # {} THEN "raised" ELSE "run"

\* Planning a block appends it to the stream, and registers its target.
LEMMA PlanEffect ==
    ASSUME LearningInv, PlanBlock
    PROVE  \E b, n, f, iw : Planned(b, n, f, iw)
<1> DEFINE body == Body(epoch.arm, epoch.targets)
           n == Len(body)
           iw == ImageWords(epoch.arm, epoch.targets)
           f == FillersDue(plan)
           b == Block(plan)
           fresh == FreshWitnesses(plan.inst + n - 1)
<1>1. status = "run"
  BY DEF PlanBlock
<1>2. /\ plan \in Plans /\ plan.planned \in Nat /\ plan.inst \in Nat /\ plan.targeted \in Nat
      /\ plan.fillers \in Nat /\ EpochActive /\ plan.fillers = plan.targeted \div 4
  BY <1>1, TypesOfRun DEF Running, PlanFits
<1>3. epoch.arm \in Arms /\ epoch.targets \in LegalTargets(epoch.arm)
  BY <1>2, ActiveTarget
<1>4. n \in {2, 3}
  BY <1>3, BodyFits DEF Fits
<1>5. iw \in Nat
  BY <1>4 DEF ImageWords
<1>6. f \in Nat /\ plan.fillers + f = (plan.targeted + iw) \div 4
  BY <1>2, <1>5, FillersDueIsNat DEF FillersDue
<1>7. BlockOf(b, epoch.targets, n) /\ Len(b) \in Nat
  <2>1. BlockOf(b, epoch.targets, n)
    BY <1>3, <1>6, BlockFits DEF Block
  <2> QED BY <2>1 DEF BlockOf
<1>8. WitnessesOf(plan.inst) = fresh
  BY DEF WitnessesOf, FreshWitnesses
<1> DEFINE p == [plan EXCEPT !.inst = @ + Len(b), !.planned = @ + Len(b),
                             !.targeted = @ + iw, !.fillers = @ + f]
<1> HIDE DEF body, n, iw, f, b
<1>9. /\ p \in Plans /\ p.planned = plan.planned + Len(b) /\ p.inst = plan.inst + Len(b)
      /\ p.targeted = plan.targeted + iw /\ p.fillers = plan.fillers + f
      /\ p.active = plan.active /\ p.boundary = plan.boundary
  <2> DEFINE i1 == plan.inst + Len(b)
             m1 == plan.planned + Len(b)
             w1 == plan.targeted + iw
             g1 == plan.fillers + f
  <2>1. i1 \in Nat /\ m1 \in Nat
    BY <1>2, <1>7
  <2>2. w1 \in Nat /\ g1 \in Nat
    <3>1. f \in Nat /\ plan.fillers \in Nat /\ plan.targeted \in Nat
      BY <1>2, <1>6
    <3> QED BY ONLY <3>1, <1>5
  <2>3. p = [plan EXCEPT !.inst = i1, !.planned = m1, !.targeted = w1, !.fillers = g1]
    OBVIOUS
  <2> HIDE DEF i1, m1, w1, g1, p
  <2>4. /\ p \in Plans /\ p.planned = m1 /\ p.inst = i1 /\ p.targeted = w1 /\ p.fillers = g1
        /\ p.active = plan.active /\ p.boundary = plan.boundary
    BY ONLY <1>2, <2>1, <2>2, <2>3 DEF Plans
  <2> QED BY <2>4 DEF i1, m1, w1, g1
<1>10. /\ plan.active /\ plan' = p
       /\ stream' = stream \o b
       /\ witnesses' = witnesses \cup fresh
       /\ status' = IF fresh \cap witnesses # {} THEN "raised" ELSE "run"
  BY <1>8 DEF PlanBlock, b, iw, f
<1>11. Planned(b, n, f, iw)
  <2> HIDE DEF p, fresh
  <2> QED BY <1>4, <1>5, <1>6, <1>7, <1>9, <1>10 DEF Planned, fresh
<1> QED BY <1>11

\* Planning a block preserves the invariant.
LEMMA PlanKeeps == ASSUME LearningInv, PlanBlock PROVE LearningInv'
<1>1. PICK b, n, f, iw : Planned(b, n, f, iw)
  BY PlanEffect
<1> DEFINE L == Len(stream)
           m == Len(b)
           last == accepted + L + n
           fresh == FreshWitnesses(last)
<1>2. /\ status = "run" /\ config' = config /\ accepted' = accepted
      /\ lastWriter' = lastWriter /\ intentFirst' = intentFirst /\ engine' = engine
      /\ epoch' = epoch /\ bridge' = bridge /\ records' = records /\ checkpoints' = checkpoints
      /\ loop' = loop /\ ~PlanComplete(plan)
  BY DEF PlanBlock
<1>3. /\ LearningTypes /\ EpochActive /\ PlanFits /\ WitnessesAhead /\ StreamHits
      /\ config.nominal \in Nat \ {0} /\ config.budget \in Nat \ {0}
      /\ stream \in Seq(Words) /\ L \in Nat /\ accepted \in Nat /\ witnesses \subseteq Witnesses
      /\ loop.before \in Nat /\ loop.planned \in Nat
      /\ plan.planned \in Nat /\ plan.inst \in Nat /\ plan.active
  <2>1. LearningTypes /\ plan.active
    BY <1>1 DEF LearningInv, Planned
  <2> QED BY <1>2, <2>1, TypesOfRun DEF Running
<1>4. epoch.arm \in Arms /\ epoch.targets \in LegalTargets(epoch.arm)
  BY <1>3, ActiveTarget
<1>5. /\ b \in Seq(Words) /\ m \in Nat /\ n \in {2, 3} /\ m >= n
      /\ \A k \in 1 .. m : k # n => b[k].reads = {}
      /\ b[n].reads = RegistersOf(epoch.targets)
      /\ \A c \in epoch.targets : /\ c[1] < n /\ b[n - c[1]].rd = c[2]
                                  /\ c[1] = 2 => b[n - 1].rd # c[2]
  BY <1>1 DEF Planned, BlockOf
<1>6. /\ plan.inst = accepted + L + 1 /\ plan.inst = loop.before + plan.planned + 1
      /\ loop.planned = None /\ ~plan.boundary /\ loop.before <= accepted
      /\ accepted < config.budget /\ loop.before = Closed
  BY <1>3 DEF PlanFits
<1>7. plan.inst + n - 1 = last /\ last \in Nat
  BY <1>3, <1>5, <1>6
<1>8. /\ plan' \in Plans /\ plan'.active = plan.active /\ plan'.boundary = plan.boundary
      /\ plan'.planned = plan.planned + m
      /\ plan'.inst = plan.inst + m
      /\ plan'.fillers = plan'.targeted \div 4
      /\ stream' = stream \o b /\ witnesses' = witnesses \cup fresh
      /\ status' = IF fresh \cap witnesses # {} THEN "raised" ELSE "run"
  BY <1>1, <1>7 DEF Planned
<1>9. \A c \in epoch.targets : /\ c \in L2Bins /\ c[1] \in {1, 2}
                               /\ c[2] \in RegistersOf(epoch.targets)
  BY <1>4, TargetFacts
<1>10. /\ \A w : w \in fresh <=> \E c \in epoch.targets :
                  w = [bin |-> c, producer |-> last - c[1], consumer |-> last]
       /\ \A w \in fresh : w.bin \in epoch.targets /\ w.producer = last - w.bin[1]
                          /\ w.consumer = last
  BY DEF FreshWitnesses
<1>11. \A w \in witnesses : /\ w.bin \in epoch.targets /\ w.producer = w.consumer - w.bin[1]
                            /\ w.consumer > accepted /\ w.consumer <= accepted + L
                            /\ w.consumer \in Nat
  BY <1>3 DEF WitnessesAhead, Witnesses
<1>13. /\ stream' \in Seq(Words) /\ Len(stream') = L + m
       /\ \A k \in 1 .. L : stream'[k] = stream[k]
       /\ \A j \in 1 .. m : stream'[L + j] = b[j]
  <2>1. stream \in Seq(Words) /\ b \in Seq(Words)
    BY <1>3, <1>5
  <2> QED BY <2>1, <1>8, LongerStream
<1> HIDE DEF L, m, last, fresh
<1>nums. /\ L \in Nat /\ m \in Nat /\ n \in {2, 3} /\ m >= n
         /\ accepted \in Nat /\ loop.before \in Nat /\ plan.planned \in Nat /\ last = accepted + L + n
         /\ plan.inst = accepted + L + 1 /\ plan.inst = loop.before + plan.planned + 1
         /\ loop.before <= accepted
  BY <1>3, <1>5, <1>6 DEF last
<1>14. status' = "run"
  <2>1. fresh \cap witnesses = {}
    <3>1. ASSUME NEW w \in fresh, w \in witnesses PROVE FALSE
      <4>1. w.consumer = last /\ w.consumer <= accepted + L
        BY <3>1, <1>10, <1>11
      <4> QED BY <4>1, <1>3, <1>5 DEF last
    <3> QED BY <3>1
  <2> QED BY <2>1, <1>6, <1>8
<1>16. LearningTypes'
  <2>1. fresh \subseteq Witnesses
    <3> SUFFICES ASSUME NEW c \in epoch.targets
                 PROVE  [bin |-> c, producer |-> last - c[1], consumer |-> last] \in Witnesses
      BY <1>10
    <3> QED BY <1>7, <1>9 DEF Witnesses
  <2>2. witnesses' \subseteq Witnesses
    BY <2>1, <1>3, <1>8
  <2> QED BY <2>2, <1>2, <1>3, <1>8, <1>13, <1>14 DEF LearningTypes
<1>17. /\ NothingYounger' /\ NoveltyIsPaidOnce' /\ WholeEpochsEarnTheMost'
       /\ CheckpointsAreConsistentCuts'
  <2>1. NothingYounger'
    BY <1>2 DEF LearningInv, NothingYounger
  <2>2. NoveltyIsPaidOnce'
    BY <1>2 DEF LearningInv, NoveltyIsPaidOnce, Covered, AttributableNew
  <2>3. WholeEpochsEarnTheMost'
    BY <1>2 DEF LearningInv, WholeEpochsEarnTheMost
  <2>4. CheckpointsAreConsistentCuts'
    BY <1>2 DEF LearningInv, CheckpointsAreConsistentCuts, Closed
  <2> QED BY <2>1, <2>2, <2>3, <2>4
<1>18. EpochActive'
  BY <1>2, <1>3 DEF EpochActive, PaidFor, Covered
<1>19. PlanFits'
  <2>1. Closed' = Closed
    BY <1>2 DEF Closed
  <2>2. /\ plan'.planned = plan.planned + m /\ plan'.inst = plan.inst + m
        /\ accepted' = accepted /\ loop' = loop /\ Len(stream') = L + m
        /\ plan'.active /\ ~plan'.boundary
    BY <1>2, <1>3, <1>6, <1>8, <1>13
  <2>3. /\ plan'.inst = accepted' + Len(stream') + 1 /\ plan'.planned # 0
        /\ plan'.inst = loop.before + plan'.planned + 1
        /\ accepted' < loop.before + plan'.planned
    BY ONLY <1>nums, <2>2
  <2> QED BY <2>1, <2>2, <2>3, <1>2, <1>6, <1>8 DEF PlanFits
<1>20. WitnessesAhead'
  <2>1. ASSUME NEW w \in witnesses'
        PROVE  /\ w.bin \in epoch.targets /\ w.producer = w.consumer - w.bin[1]
               /\ w.consumer > accepted /\ w.consumer <= accepted + Len(stream')
    <3>0. Len(stream') = L + m
      BY <1>13
    <3>1. CASE w \in witnesses
      <4>1. /\ w.bin \in epoch.targets /\ w.producer = w.consumer - w.bin[1]
            /\ w.consumer > accepted /\ w.consumer <= accepted + L /\ w.consumer \in Nat
        BY ONLY <3>1, <1>11
      <4>2. w.consumer <= accepted + Len(stream')
        BY ONLY <4>1, <3>0, <1>nums
      <4> QED BY ONLY <4>1, <4>2
    <3>2. CASE w \in fresh
      <4>1. /\ w.bin \in epoch.targets /\ w.producer = w.consumer - w.bin[1]
            /\ w.consumer = last
        BY ONLY <3>2, <1>10
      <4>2. last > accepted /\ last <= accepted + Len(stream')
        BY ONLY <3>0, <1>nums
      <4> QED BY ONLY <4>1, <4>2
    <3> QED BY <3>1, <3>2, <1>8
  <2> QED BY <2>1, <1>2 DEF WitnessesAhead
<1>21. StreamHits'
  <2> SUFFICES ASSUME NEW k \in DOMAIN stream' PROVE WordHits(k)'
    BY DEF StreamHits
  <2>0. k \in 1 .. L + m /\ k \in Nat /\ k >= 1
    BY <1>3, <1>5, <1>13
  <2>1. CASE k <= L
    <3>1. k \in DOMAIN stream /\ stream'[k] = stream[k]
      BY <2>0, <2>1, <1>3, <1>13 DEF L
    <3>2. WordHits(k)
      BY <3>1, <1>3 DEF StreamHits
    <3>3. \A w \in witnesses' : w.consumer = accepted + k => w \in witnesses
      <4>1. accepted + k # last
        BY ONLY <2>0, <2>1, <1>nums
      <4> QED BY ONLY <4>1, <1>8, <1>10
    <3>4. \A j \in 1 .. k : stream'[j] = stream[j]
      BY <2>0, <2>1, <1>3, <1>13
    <3>5. CASE stream[k].reads = {} /\ \A w \in witnesses : w.consumer # accepted + k
      BY <3>1, <3>3, <3>5, <1>2 DEF WordHits
    <3>6. ASSUME stream[k].reads = RegistersOf(epoch.targets),
                 NEW c \in epoch.targets,
                 [bin |-> c, producer |-> accepted + k - c[1], consumer |-> accepted + k]
                   \in witnesses,
                 accepted + k > c[1],
                 c[1] < k => stream[k - c[1]].rd = c[2],
                 c[1] >= k => lastWriter[c[2]] = accepted + k - c[1],
                 c[1] = 2 /\ k >= 2 => stream[k - 1].rd # c[2]
          PROVE  /\ [bin |-> c, producer |-> accepted + k - c[1], consumer |-> accepted + k]
                      \in witnesses'
                 /\ c[1] < k => stream'[k - c[1]].rd = c[2]
                 /\ c[1] = 2 /\ k >= 2 => stream'[k - 1].rd # c[2]
      <4>1. c[1] \in {1, 2}
        BY <1>9
      <4>2. (c[1] < k => k - c[1] \in 1 .. k) /\ (k >= 2 => k - 1 \in 1 .. k)
        BY <4>1, <2>0
      <4> QED BY <4>2, <3>4, <3>6, <1>8
    <3> QED BY <3>1, <3>2, <3>5, <3>6, <1>2 DEF WordHits
  <2>2. CASE k > L /\ k # L + n
    <3>1. stream'[k].reads = {}
      <4>1. k - L \in 1 .. m /\ k - L # n /\ L + (k - L) = k
        BY ONLY <2>0, <2>2, <1>nums
      <4>2. stream'[k] = b[k - L]
        BY <4>1, <1>13
      <4> QED BY <4>1, <4>2, <1>5
    <3>2. \A w \in witnesses' : w.consumer # accepted + k
      <4>0. accepted + k # last /\ accepted + k > accepted + L
        BY ONLY <2>0, <2>2, <1>nums
      <4>1. \A w \in fresh : w.consumer # accepted + k
        BY ONLY <4>0, <1>10
      <4>2. \A w \in witnesses : w.consumer # accepted + k
        <5> SUFFICES ASSUME NEW w \in witnesses, w.consumer = accepted + k PROVE FALSE
          OBVIOUS
        <5>1. w.consumer <= accepted + L /\ w.consumer \in Nat
          BY ONLY <1>11
        <5> QED BY ONLY <5>1, <4>0, w.consumer = accepted + k, <2>0, <1>nums
      <4> QED BY <4>1, <4>2, <1>8
    <3> QED BY <3>1, <3>2, <1>2 DEF WordHits
  <2>3. CASE k = L + n
    <3>1. /\ n \in 1 .. m /\ stream'[k] = b[n] /\ accepted + k = last
          /\ \A j \in 1 .. n : stream'[L + j] = b[j]
      <4>1. n \in 1 .. m /\ accepted + k = last /\ \A j \in 1 .. n : j \in 1 .. m
        BY ONLY <2>3, <1>nums
      <4> QED BY <4>1, <2>3, <1>13
    <3>2. stream'[k].reads = RegistersOf(epoch.targets)
      BY <3>1, <1>5
    <3>3. ASSUME NEW c \in epoch.targets
          PROVE  /\ [bin |-> c, producer |-> accepted + k - c[1], consumer |-> accepted + k]
                      \in witnesses'
                 /\ accepted + k > c[1]
                 /\ c[1] < k => stream'[k - c[1]].rd = c[2]
                 /\ c[1] >= k => lastWriter[c[2]] = accepted + k - c[1]
                 /\ c[1] = 2 /\ k >= 2 => stream'[k - 1].rd # c[2]
      <4>1. c[1] \in {1, 2} /\ c[1] < n /\ b[n - c[1]].rd = c[2]
            /\ (c[1] = 2 => b[n - 1].rd # c[2])
        BY <1>5, <1>9
      <4>2. accepted + k - c[1] = last - c[1] /\ accepted + k > c[1] /\ c[1] < k
        <5>1. PICK d \in {1, 2} : d = c[1]
          BY <4>1
        <5>2. k \in Nat /\ d < k /\ accepted \in Nat /\ accepted + k = last
          <6>1. d < n
            BY <4>1, <5>1
          <6> QED BY ONLY <2>3, <3>1, <6>1, d \in {1, 2}, <1>nums
        <5>3. accepted + k > d /\ accepted + k - d = (accepted + k) - d
          BY ONLY <5>2, d \in {1, 2}
        <5> QED BY <5>1, <5>2, <5>3
      <4>3. [bin |-> c, producer |-> last - c[1], consumer |-> last] \in fresh
        BY <1>10
      <4>4. [bin |-> c, producer |-> accepted + k - c[1], consumer |-> accepted + k]
                \in witnesses'
        BY <3>1, <4>2, <4>3, <1>8
      <4>5. n - c[1] \in 1 .. n /\ L + (n - c[1]) = k - c[1]
        BY ONLY <2>3, <4>1, <1>nums
      <4>6. stream'[k - c[1]].rd = c[2]
        BY <3>1, <4>1, <4>5
      <4>7. n - 1 \in 1 .. n /\ L + (n - 1) = k - 1
        BY ONLY <2>3, <1>nums
      <4>8. c[1] = 2 => stream'[k - 1].rd # c[2]
        BY <3>1, <4>1, <4>7
      <4>9. ~(c[1] >= k)
        BY <4>1, <4>2, <2>0
      <4> QED BY <4>2, <4>4, <4>6, <4>8, <4>9
    <3> QED BY <3>2, <3>3, <1>2 DEF WordHits
  <2> QED BY <2>0, <2>1, <2>2, <2>3, <1>3
<1>22. TargetsServed'
  <2>1. ASSUME NEW c \in epoch.targets PROVE \E w \in witnesses' : w.bin = c
    <3> DEFINE w == [bin |-> c, producer |-> last - c[1], consumer |-> last]
    <3>1. w \in fresh /\ w.bin = c
      BY <1>10
    <3> QED BY <3>1, <1>8
  <2> QED BY <2>1, <1>2 DEF TargetsServed
<1>23. DelimiterAlone'
  <2>1. config.nominal # 1
    BY <1>2, <1>3, <1>nums DEF PlanComplete, PlanFits
  <2> QED BY <2>1, <1>2 DEF DelimiterAlone
<1> QED BY <1>14, <1>16, <1>17, <1>18, <1>19, <1>20, <1>21, <1>22, <1>23
        DEF LearningInv, Running

\* What closing a plan does, with a delimiter behind the stream or without.
Closing(z) ==
    /\ z \in {0, 1}
    /\ plan' \in Plans /\ ~plan'.active /\ (plan'.boundary <=> z = 1)
    /\ plan'.planned = plan.planned /\ plan'.inst = plan.inst + z
    /\ plan'.targeted = plan.targeted /\ plan'.fillers = plan.fillers
    /\ stream' \in Seq(Words) /\ Len(stream') = Len(stream) + z
    /\ \A k \in 1 .. Len(stream) : stream'[k] = stream[k]
    /\ z = 1 => stream'[Len(stream')] = EBD
    /\ z = 1 <=> plan.inst <= config.budget
    /\ loop' \in [before : Nat, planned : Nat] /\ loop'.before = loop.before
    /\ loop'.planned = plan.planned

\* Both ways of closing a plan do so.
LEMMA CloseEffect ==
    ASSUME LearningInv, PlanBoundary \/ PlanLast
    PROVE  \E z : Closing(z)
<1>1. /\ status = "run" /\ plan.active /\ loop' = [loop EXCEPT !.planned = plan.planned]
  BY DEF PlanBoundary, PlanLast, ClosePlan
<1>2. /\ plan \in Plans /\ plan.planned \in Nat /\ plan.inst \in Nat /\ config.budget \in Nat
      /\ stream \in Seq(Words) /\ Len(stream) \in Nat /\ loop \in [before : Nat, planned : Nat]
      /\ ~plan.boundary
  BY <1>1, TypesOfRun DEF LearningInv, LearningTypes, Running, PlanFits
<1>3. /\ loop' \in [before : Nat, planned : Nat] /\ loop'.before = loop.before
      /\ loop'.planned = plan.planned
  BY ONLY <1>1, <1>2
<1>4. CASE PlanBoundary
  <2> DEFINE i == plan.inst + 1
  <2>1. /\ plan' = [plan EXCEPT !.inst = i, !.boundary = TRUE, !.active = FALSE]
        /\ stream' = Append(stream, EBD) /\ plan.inst <= config.budget
    BY <1>4 DEF PlanBoundary, ClosePlan
  <2>2. i \in Nat
    BY <1>2
  <2> HIDE DEF i
  <2>3. /\ plan' \in Plans /\ ~plan'.active /\ plan'.boundary /\ plan'.inst = i
        /\ plan'.planned = plan.planned /\ plan'.targeted = plan.targeted
        /\ plan'.fillers = plan.fillers
    BY ONLY <1>2, <2>1, <2>2 DEF Plans
  <2>4. EBD \in Words
    BY WordTypes
  <2>5. /\ stream' \in Seq(Words) /\ Len(stream') = Len(stream) + 1
        /\ \A k \in 1 .. Len(stream) : stream'[k] = stream[k]
        /\ stream'[Len(stream')] = EBD
    BY ONLY <1>2, <2>1, <2>4, AppendProperties
  <2>6. Closing(1)
    BY <1>3, <2>1, <2>3, <2>5 DEF Closing, i
  <2> QED BY <2>6
<1>5. CASE PlanLast
  <2>1. plan' = [plan EXCEPT !.active = FALSE] /\ stream' = stream /\ plan.inst > config.budget
    BY <1>5 DEF PlanLast, ClosePlan
  <2>2. /\ plan' \in Plans /\ ~plan'.active /\ plan'.boundary = plan.boundary
        /\ plan'.inst = plan.inst
        /\ plan'.planned = plan.planned /\ plan'.targeted = plan.targeted
        /\ plan'.fillers = plan.fillers
    BY ONLY <1>2, <2>1 DEF Plans
  <2>3. Closing(0)
    BY <1>2, <1>3, <2>1, <2>2 DEF Closing
  <2> QED BY <2>3
<1> QED BY <1>4, <1>5

\* Closing the plan preserves the invariant.
LEMMA CloseKeeps == ASSUME LearningInv, PlanBoundary \/ PlanLast PROVE LearningInv'
<1> DEFINE L == Len(stream)
<1>1. PICK z : Closing(z)
  BY CloseEffect
<1>2. /\ status = "run" /\ config' = config /\ accepted' = accepted
      /\ lastWriter' = lastWriter /\ intentFirst' = intentFirst /\ engine' = engine
      /\ epoch' = epoch /\ bridge' = bridge /\ records' = records /\ checkpoints' = checkpoints
      /\ witnesses' = witnesses /\ plan.active /\ PlanComplete(plan)
      /\ status' = IF loop.planned # None THEN "raised" ELSE "run"
  BY DEF PlanBoundary, PlanLast, ClosePlan
<1>3. /\ LearningTypes /\ EpochActive /\ PlanFits /\ WitnessesAhead /\ StreamHits
      /\ TargetsServed /\ DelimiterAlone
      /\ config.budget \in Nat /\ L \in Nat /\ accepted \in Nat /\ loop.before \in Nat
      /\ plan.planned \in Nat /\ plan.inst \in Nat /\ witnesses \subseteq Witnesses
  BY <1>2, TypesOfRun DEF LearningInv, Running
<1>4. /\ plan.inst = accepted + L + 1 /\ plan.inst = loop.before + plan.planned + 1
      /\ loop.planned = None /\ loop.before <= accepted /\ accepted < config.budget
      /\ loop.before = Closed /\ accepted < loop.before + plan.planned
      /\ plan.fillers = plan.targeted \div 4 /\ plan.planned # 0
  BY <1>2, <1>3 DEF PlanFits
<1>5. /\ z \in {0, 1} /\ (plan'.boundary <=> z = 1) /\ (z = 1 <=> plan.inst <= config.budget)
      /\ plan' \in Plans /\ ~plan'.active /\ plan'.planned = plan.planned
      /\ plan'.inst = plan.inst + z /\ plan'.fillers = plan'.targeted \div 4
      /\ stream' \in Seq(Words) /\ Len(stream') = L + z
      /\ \A k \in 1 .. L : stream'[k] = stream[k]
      /\ (z = 1 => stream'[Len(stream')].reads = {})
      /\ loop' \in [before : Nat, planned : Nat] /\ loop'.before = loop.before
      /\ loop'.planned = plan.planned
  BY <1>1, <1>4, WordTypes DEF Closing
<1> HIDE DEF L
<1>6. status' = "run"
  BY <1>2, <1>4
<1>7. LearningTypes'
  BY <1>2, <1>3, <1>5, <1>6 DEF LearningTypes
<1>8. /\ NothingYounger' /\ NoveltyIsPaidOnce' /\ WholeEpochsEarnTheMost'
      /\ CheckpointsAreConsistentCuts'
  <2>1. NothingYounger'
    BY <1>2 DEF LearningInv, NothingYounger
  <2>2. NoveltyIsPaidOnce'
    BY <1>2 DEF LearningInv, NoveltyIsPaidOnce, Covered, AttributableNew
  <2>3. WholeEpochsEarnTheMost'
    BY <1>2 DEF LearningInv, WholeEpochsEarnTheMost
  <2>4. CheckpointsAreConsistentCuts'
    BY <1>2 DEF LearningInv, CheckpointsAreConsistentCuts, Closed
  <2> QED BY <2>1, <2>2, <2>3, <2>4
<1>9. EpochActive'
  BY <1>2, <1>3 DEF EpochActive, PaidFor, Covered
<1>10. PlanFits'
  <2>1. Closed' = Closed
    BY <1>2 DEF Closed
  <2>2. plan'.inst = accepted' + Len(stream') + 1
    <3>1. /\ plan'.inst = plan.inst + z /\ Len(stream') = L + z /\ z \in {0, 1}
      BY ONLY <1>5
    <3>2. /\ accepted' = accepted /\ L \in Nat /\ accepted \in Nat
          /\ plan.inst = accepted + L + 1
      BY ONLY <1>2, <1>3, <1>4
    <3> QED BY ONLY <3>1, <3>2
  <2>3. plan'.inst = loop'.before + plan'.planned + (IF plan'.boundary THEN 2 ELSE 1)
    BY ONLY <1>3, <1>4, <1>5
  <2>4. plan'.boundary <=> loop'.before + plan'.planned < config'.budget
    BY ONLY <1>2, <1>3, <1>4, <1>5
  <2>5. PlanComplete(plan)' /\ accepted' < loop'.before + plan'.planned
    BY <1>2, <1>4, <1>5 DEF PlanComplete
  <2> QED BY <2>1, <2>2, <2>3, <2>4, <2>5, <1>2, <1>4, <1>5 DEF PlanFits
<1>11. WitnessesAhead'
  <2>1. ASSUME NEW w \in witnesses PROVE w.consumer <= accepted + Len(stream')
    <3>1. w.consumer <= accepted + L /\ w.consumer \in Nat
      BY <1>3 DEF WitnessesAhead, Witnesses, L
    <3> QED BY ONLY <3>1, <1>3, <1>5
  <2> QED BY <2>1, <1>2, <1>3 DEF WitnessesAhead
<1>12. StreamHits'
  <2> SUFFICES ASSUME NEW k \in DOMAIN stream' PROVE WordHits(k)'
    BY DEF StreamHits
  <2>0. k \in 1 .. L + z /\ k \in Nat /\ k >= 1
    BY <1>3, <1>5
  <2>1. CASE k <= L
    <3>1. k \in DOMAIN stream /\ stream'[k] = stream[k]
      BY <2>0, <2>1, <1>3, <1>5 DEF L
    <3>2. WordHits(k)
      BY <3>1, <1>3 DEF StreamHits
    <3>3. \A c \in epoch.targets : /\ c[1] < k => stream'[k - c[1]] = stream[k - c[1]]
                                   /\ c[1] = 2 /\ k >= 2 => stream'[k - 1] = stream[k - 1]
      <4> TAKE c \in epoch.targets
      <4>1. c[1] \in {1, 2}
        BY <1>3, ActiveTarget, TargetFacts
      <4>2. (c[1] < k => k - c[1] \in 1 .. L) /\ (k >= 2 => k - 1 \in 1 .. L)
        BY <4>1, <2>0, <2>1, <1>3
      <4> QED BY <4>2, <1>5
    <3> QED BY <3>1, <3>2, <3>3, <1>2 DEF WordHits
  <2>2. CASE k > L
    <3>1. z = 1 /\ k = L + 1 /\ k = Len(stream')
      BY <2>0, <2>2, <1>3, <1>5
    <3>2. stream'[k].reads = {}
      BY <3>1, <1>5
    <3>3. ASSUME NEW w \in witnesses PROVE w.consumer # accepted + k
      <4>1. w.consumer <= accepted + L /\ w.consumer \in Nat
        BY <1>3 DEF WitnessesAhead, Witnesses, L
      <4> QED BY ONLY <4>1, <3>1, <1>3
    <3> QED BY <3>2, <3>3, <1>2 DEF WordHits
  <2> QED BY <2>0, <2>1, <2>2, <1>3
<1>13. TargetsServed' /\ DelimiterAlone'
  BY <1>2, <1>3, <1>5 DEF TargetsServed, DelimiterAlone
<1> QED BY <1>6, <1>7, <1>8, <1>9, <1>10, <1>11, <1>12, <1>13 DEF LearningInv, Running

-----------------------------------------------------------------------------
(* Hits.                                                                    *)

\* What the invariant says of the word that is accepted next.
LEMMA NextWord ==
    ASSUME LearningInv, status = "run", stream # <<>>
    PROVE  /\ Word = stream[1] /\ Word \in Words /\ Len(stream) \in Nat /\ Len(stream) >= 1
           /\ Id \in Nat /\ Id = accepted + 1 /\ accepted \in Nat /\ WordHits(1)
<1>1. stream \in Seq(Words) /\ accepted \in Nat /\ StreamHits
  BY TypesOfRun DEF Running
<1>2. Len(stream) \in Nat /\ Len(stream) >= 1 /\ Head(stream) = stream[1] /\ stream[1] \in Words
  BY <1>1
<1>3. 1 \in DOMAIN stream
  BY <1>1, <1>2
<1> QED BY <1>1, <1>2, <1>3 DEF Word, Id, StreamHits

\* The hits of the next instruction are its witnesses: none, or those of all targets.
LEMMA HitsMatch ==
    ASSUME LearningInv, status = "run", stream # <<>>
    PROVE  /\ Hits = {w \in witnesses : w.consumer = Id}
           /\ HitBins = {} \/ HitBins = epoch.targets
<1>1. /\ Word = stream[1] /\ Id \in Nat /\ Id = accepted + 1 /\ accepted \in Nat /\ WordHits(1)
      /\ WitnessesAhead /\ EpochActive
  BY NextWord, TypesOfRun DEF Running
<1>2. /\ epoch.targets \subseteq L2Bins /\ RegistersOf(epoch.targets) \subseteq Registers
      /\ \A b \in epoch.targets : /\ b = <<b[1], b[2]>> /\ b[1] \in {1, 2}
                                  /\ b[2] \in Registers /\ b[2] \in RegistersOf(epoch.targets)
      /\ \A r \in RegistersOf(epoch.targets) : \E b \in epoch.targets : b[2] = r
  BY <1>1, ActiveTarget, TargetFacts
<1> DEFINE Hit(b) == [bin |-> b, producer |-> Id - b[1], consumer |-> Id]
<1>3. \A h : h \in Hits <=> \E r \in Word.reads :
             /\ lastWriter[r] # 0 /\ Id - lastWriter[r] <= 2
             /\ h = [bin |-> <<Id - lastWriter[r], r>>, producer |-> lastWriter[r],
                      consumer |-> Id]
  BY DEF Hits
<1>4. \A b : b \in HitBins <=> \E h \in Hits : h.bin = b
  BY DEF HitBins
<1>5. CASE /\ stream[1].reads = {}
           /\ \A w \in witnesses : w.consumer # accepted + 1
  <2>1. Hits = {}
    BY <1>1, <1>3, <1>5
  <2> QED BY <2>1, <1>1, <1>4, <1>5
<1>6. CASE /\ stream[1].reads = RegistersOf(epoch.targets)
           /\ \A b \in epoch.targets :
                 /\ [bin |-> b, producer |-> accepted + 1 - b[1], consumer |-> accepted + 1]
                      \in witnesses
                 /\ accepted + 1 > b[1]
                 /\ b[1] < 1 => stream[1 - b[1]].rd = b[2]
                 /\ b[1] >= 1 => lastWriter[b[2]] = accepted + 1 - b[1]
                 /\ b[1] = 2 /\ 1 >= 2 => stream[1 - 1].rd # b[2]
  <2>1. ASSUME NEW b \in epoch.targets
        PROVE  /\ lastWriter[b[2]] = Id - b[1] /\ Id - b[1] # 0 /\ Id - b[1] \in Nat
               /\ Id - (Id - b[1]) = b[1] /\ b[1] <= 2 /\ Hit(b) \in witnesses
    <3>1. /\ [bin |-> b, producer |-> accepted + 1 - b[1], consumer |-> accepted + 1]
                \in witnesses
          /\ accepted + 1 > b[1]
          /\ b[1] >= 1 => lastWriter[b[2]] = accepted + 1 - b[1]
      BY <1>6
    <3>2. b[1] \in {1, 2}
      BY <1>2
    <3>3. accepted + 1 - b[1] = Id - b[1]
      BY <3>2, <1>1
    <3> HIDE DEF Id
    <3> QED BY <3>1, <3>2, <3>3, <1>1
  <2> HIDE DEF Hit
  <2>2. \A h : h \in Hits <=> \E b \in epoch.targets : h = Hit(b)
    <3>1. ASSUME NEW b \in epoch.targets
          PROVE  /\ b[2] \in Word.reads /\ lastWriter[b[2]] # 0 /\ Id - lastWriter[b[2]] <= 2
                 /\ Hit(b) = [bin |-> <<Id - lastWriter[b[2]], b[2]>>,
                             producer |-> lastWriter[b[2]], consumer |-> Id]
      <4>1. b[2] \in Word.reads
        BY <1>1, <1>2, <1>6
      <4>2. lastWriter[b[2]] = Id - b[1] /\ Id - b[1] # 0 /\ Id - (Id - b[1]) = b[1] /\ b[1] <= 2
        BY <2>1
      <4>3. b = <<b[1], b[2]>>
        BY <1>2
      <4>4. Id - lastWriter[b[2]] = b[1]
        BY <4>2
      <4>5. Hit(b) = [bin |-> <<Id - lastWriter[b[2]], b[2]>>,
                      producer |-> lastWriter[b[2]], consumer |-> Id]
        BY ONLY <4>2, <4>3, <4>4 DEF Hit
      <4> QED BY <4>1, <4>2, <4>4, <4>5
    <3>2. ASSUME NEW b \in epoch.targets PROVE Hit(b) \in Hits
      BY <3>1, <1>3
    <3>3. ASSUME NEW h \in Hits PROVE \E b \in epoch.targets : h = Hit(b)
      <4>1. PICK r \in Word.reads :
              h = [bin |-> <<Id - lastWriter[r], r>>, producer |-> lastWriter[r], consumer |-> Id]
        BY <1>3
      <4>2. PICK b \in epoch.targets : b[2] = r
        BY <1>1, <1>2, <1>6
      <4> QED BY <4>1, <4>2, <3>1
    <3> QED BY <3>2, <3>3
  <2>3. ASSUME NEW w \in witnesses, w.consumer = Id PROVE w = Hit(w.bin)
    <3>1. w \in Witnesses
      BY DEF LearningInv, LearningTypes
    <3>2. w = [bin |-> w.bin, producer |-> w.producer, consumer |-> w.consumer]
      BY <3>1 DEF Witnesses
    <3>3. w.producer = w.consumer - w.bin[1]
      BY <1>1 DEF WitnessesAhead
    <3> QED BY <3>2, <3>3, <2>3 DEF Hit
  <2>4. \A b : Hit(b).consumer = Id /\ Hit(b).bin = b
    BY DEF Hit
  <2>5. \A w \in witnesses : w.bin \in epoch.targets
    BY <1>1 DEF WitnessesAhead
  <2>6. Hits = {w \in witnesses : w.consumer = Id}
    <3>1. ASSUME NEW h \in Hits PROVE h \in witnesses /\ h.consumer = Id
      BY <2>1, <2>2, <2>4
    <3>2. ASSUME NEW w \in witnesses, w.consumer = Id PROVE w \in Hits
      BY <3>2, <2>2, <2>3, <2>5
    <3> QED BY <3>1, <3>2
  <2>7. HitBins = epoch.targets
    <3>1. \A b \in epoch.targets : Hit(b) \in Hits
      BY <2>2
    <3>2. ASSUME NEW b \in epoch.targets PROVE b \in HitBins
      BY <3>1, <2>4, <1>4
    <3>3. ASSUME NEW b \in HitBins PROVE b \in epoch.targets
      BY <2>2, <2>4, <1>4
    <3> QED BY <3>2, <3>3
  <2> QED BY <2>6, <2>7
<1> QED BY <1>1, <1>5, <1>6 DEF WordHits

\* With a nominal size of one there is nothing to hit.
LEMMA NothingHit ==
    ASSUME LearningInv, status = "run", stream # <<>>, config.nominal = 1
    PROVE  witnesses = {} /\ epoch.attributed = {} /\ HitBins = {}
<1>1. witnesses = {} /\ epoch.attributed = {}
  BY TypesOfRun DEF Running, DelimiterAlone
<1> QED BY <1>1, HitsMatch DEF HitBins

\* What the active epoch knows after the hits.
LEMMA EpochAfter ==
    ASSUME LearningInv, status = "run", stream # <<>>
    PROVE  /\ EpochAfterHits \in Epochs
           /\ EpochAfterHits.index = epoch.index /\ EpochAfterHits.arm = epoch.arm
           /\ EpochAfterHits.targets = epoch.targets /\ EpochAfterHits.start = epoch.start
           /\ EpochAfterHits.observed = epoch.attributed \cup HitBins
           /\ EpochAfterHits.attributed = epoch.attributed \cup HitBins
           /\ HitBins \subseteq epoch.targets /\ epoch.targets \subseteq L2Bins
<1>1. /\ epoch \in Epochs /\ epoch.observed = epoch.attributed
      /\ epoch.targets \subseteq L2Bins
  <2>1. EpochActive
    BY TypesOfRun DEF Running
  <2> QED BY <2>1, ActiveTarget, TargetFacts DEF EpochActive
<1>2. {h.bin : h \in Hits \cap witnesses} = HitBins
  <2>1. Hits \cap witnesses = Hits
    BY HitsMatch
  <2> QED BY <2>1 DEF HitBins
<1>3. HitBins \subseteq epoch.targets
  BY HitsMatch
<1>4. EpochAfterHits = [epoch EXCEPT !.observed = epoch.observed \cup HitBins,
                                     !.attributed = epoch.attributed \cup HitBins]
  BY <1>2 DEF EpochAfterHits
<1> HIDE DEF EpochAfterHits
<1>5. epoch.observed \cup HitBins \subseteq L2Bins /\ epoch.attributed \cup HitBins \subseteq L2Bins
  BY <1>1, <1>3 DEF Epochs
<1> QED BY <1>1, <1>3, <1>4, <1>5 DEF Epochs

-----------------------------------------------------------------------------
(* The cut after an accepted instruction.                                   *)

\* What every accepted instruction does.
LEMMA CutFacts ==
    ASSUME LearningInv, status = "run", stream # <<>>, Cut
    PROVE  /\ config' = config /\ accepted' = accepted + 1 /\ accepted' = Id /\ Id \in Nat
           /\ stream' \in Seq(Words) /\ Len(stream') = Len(stream) - 1
           /\ \A k \in 1 .. Len(stream') : stream'[k] = stream[k + 1]
           /\ lastWriter' \in [Registers -> Nat]
           /\ \A r \in Registers : lastWriter'[r] = IF r = Word.rd THEN Id ELSE lastWriter[r]
           /\ intentFirst' \in [L2Bins -> Nat]
           /\ \A b \in L2Bins : intentFirst'[b] = IF b \in HitBins /\ intentFirst[b] = 0
                                                  THEN Id ELSE intentFirst[b]
           /\ Covered(intentFirst') = Covered(intentFirst) \cup HitBins
<1>1. /\ Word = stream[1] /\ Id \in Nat /\ Id = accepted + 1 /\ accepted \in Nat
      /\ stream \in Seq(Words) /\ lastWriter \in [Registers -> Nat]
      /\ intentFirst \in [L2Bins -> Nat]
  BY NextWord DEF LearningInv, LearningTypes
<1>2. /\ config' = config /\ accepted' = Id /\ stream' = Tail(stream)
      /\ intentFirst' = [b \in L2Bins |-> IF b \in HitBins /\ intentFirst[b] = 0
                                          THEN Id ELSE intentFirst[b]]
      /\ lastWriter' = [r \in Registers |-> IF r = Word.rd THEN Id ELSE lastWriter[r]]
  BY DEF Cut
<1>3. /\ stream' \in Seq(Words) /\ Len(stream') = Len(stream) - 1
      /\ \A k \in 1 .. Len(stream') : stream'[k] = stream[k + 1]
  BY <1>1, <1>2, HeadTailProperties
<1>4. HitBins \subseteq L2Bins
  BY EpochAfter
<1>5. Covered(intentFirst') = Covered(intentFirst) \cup HitBins
  <2>1. ASSUME NEW b \in L2Bins
        PROVE  b \in Covered(intentFirst') <=> b \in Covered(intentFirst) \cup HitBins
    BY <1>1, <1>2 DEF Covered
  <2> QED BY <2>1, <1>4 DEF Covered
<1>6. lastWriter' \in [Registers -> Nat] /\ intentFirst' \in [L2Bins -> Nat]
  BY <1>1, <1>2
<1> QED BY <1>1, <1>2, <1>3, <1>5, <1>6

\* Sets of bins are finite.
LEMMA CoveredIsFinite == ASSUME NEW S, S \subseteq L2Bins PROVE Cardinality(S) \in Nat
<1>1. IsFiniteSet(Registers) /\ IsFiniteSet({1, 2})
  <2>1. IsFiniteSet(1 .. NReg) /\ IsFiniteSet(1 .. 2)
    <3>1. NReg \in Int /\ 1 \in Int /\ 2 \in Int
      BY NRegAssumption
    <3> QED BY ONLY <3>1, FS_Interval
  <2>2. 1 .. 2 = {1, 2}
    OBVIOUS
  <2> QED BY <2>1, <2>2 DEF Registers
<1>2. IsFiniteSet(L2Bins)
  BY <1>1, FS_Product DEF L2Bins
<1> QED BY <1>2, FS_Subset, FS_CardinalityType

\* A cut takes at most one checkpoint and raises nothing.
LEMMA CutTypes ==
    ASSUME LearningInv, status = "run", stream # <<>>, Cut
    PROVE  /\ checkpoints' \in Seq(Checkpoints) /\ NothingYounger' /\ ~CutRaises
           /\ \/ checkpoints' = checkpoints
              \/ checkpoints' = Append(checkpoints, Checkpoint)
<1>1. /\ accepted' = accepted + 1 /\ accepted' = Id /\ Id \in Nat /\ accepted \in Nat
      /\ bridge = Len(records) /\ bridge \in Nat /\ checkpoints \in Seq(Checkpoints)
      /\ NothingYounger
  <2>1. EpochActive /\ LearningTypes
    BY TypesOfRun DEF Running, LearningInv
  <2>2. bridge = Len(records) /\ bridge \in Nat
    BY <2>1 DEF EpochActive, LearningTypes
  <2> QED BY <2>1, <2>2, CutFacts, NextWord DEF LearningTypes, LearningInv
<1>2. Checkpoint \in Checkpoints /\ Checkpoint.at = Id
  <2>1. Cardinality(Covered(intentFirst')) \in Nat
    BY CoveredIsFinite DEF Covered
  <2> QED BY <2>1, <1>1 DEF Checkpoint, Checkpoints
<1>3. \/ checkpoints' = checkpoints
      \/ checkpoints' = Append(checkpoints, Checkpoint)
  BY DEF Cut
<1> HIDE DEF Checkpoint
<1>4. checkpoints' \in Seq(Checkpoints)
  BY <1>1, <1>2, <1>3, AppendProperties
<1>5. \A k \in DOMAIN checkpoints' : checkpoints'[k].at <= accepted'
  <2>1. \A k \in DOMAIN checkpoints : checkpoints[k].at <= accepted /\ checkpoints[k].at \in Nat
    <3> SUFFICES ASSUME NEW k \in DOMAIN checkpoints
                 PROVE  checkpoints[k].at <= accepted /\ checkpoints[k].at \in Nat
      OBVIOUS
    <3>1. checkpoints[k] \in Checkpoints
      BY <1>1
    <3> QED BY <3>1, <1>1 DEF NothingYounger, Checkpoints
  <2>2. CASE checkpoints' = checkpoints
    BY <2>1, <2>2, <1>1
  <2>3. CASE checkpoints' = Append(checkpoints, Checkpoint)
    <3> SUFFICES ASSUME NEW k \in DOMAIN checkpoints' PROVE checkpoints'[k].at <= accepted'
      OBVIOUS
    <3>1. k \in 1 .. Len(checkpoints) + 1 /\ Len(checkpoints) \in Nat
      BY <2>3, <1>1, <1>2, AppendProperties
    <3>2. CASE k = Len(checkpoints) + 1
      BY <2>3, <3>2, <1>1, <1>2, AppendProperties
    <3>3. CASE k # Len(checkpoints) + 1
      <4>1. k \in 1 .. Len(checkpoints)
        BY <3>1, <3>3
      <4>2. k \in DOMAIN checkpoints /\ checkpoints'[k] = checkpoints[k]
        BY <4>1, <2>3, <1>1, <1>2, AppendProperties
      <4> QED BY <4>2, <2>1, <1>1
    <3> QED BY <3>2, <3>3
  <2> QED BY <1>3, <2>2, <2>3
<1>6. NothingYounger'
  <2>1. ASSUME NEW r \in Registers PROVE lastWriter'[r] <= accepted'
    <3>1. lastWriter[r] \in Nat /\ lastWriter[r] <= accepted
      BY <1>1 DEF NothingYounger, LearningInv, LearningTypes
    <3> QED BY <3>1, <1>1, CutFacts
  <2>2. ASSUME NEW b \in L2Bins PROVE intentFirst'[b] <= accepted'
    <3>1. intentFirst[b] \in Nat /\ intentFirst[b] <= accepted
      BY <1>1 DEF NothingYounger, LearningInv, LearningTypes
    <3> QED BY <3>1, <1>1, CutFacts
  <2> QED BY <2>1, <2>2, <1>5 DEF NothingYounger
<1>7. ~CutRaises
  <2>1. epoch # NoEpoch
    <3>1. epoch.index \in Nat
      BY TypesOfRun, ActiveTarget DEF Running
    <3> QED BY <3>1 DEF NoEpoch
  <2>2. \A h \in Hits \cap witnesses : h.bin \in epoch.targets
    BY EpochAfter DEF HitBins
  <2>3. bridge # -1
    BY <1>1
  <2> QED BY <2>1, <2>2, <2>3 DEF CutRaises, HitRaises
<1> QED BY <1>3, <1>4, <1>6, <1>7

\* What CheckpointsAreConsistentCuts says of one checkpoint.
CutIsConsistent(c) ==
    /\ c.intents = Cardinality({b \in L2Bins : intentFirst[b] \in 1 .. c.at})
    /\ IF c.epoch + 1 \in DOMAIN records
       THEN c.at \in records[c.epoch + 1].first .. records[c.epoch + 1].last
       ELSE c.epoch = Len(records) /\ c.at > Closed

\* The epoch goes on, or is recorded up to the accepted instruction.
GoesOnOrIsRecorded ==
    \/ records' = records
    \/ \E R \in EpochRecords : R.first = Closed + 1 /\ R.last = Id /\ records' = Append(records, R)

\* A checkpoint lies within the epoch it names.
LEMMA EpochSpan ==
    ASSUME LearningInv, status = "run", stream # <<>>, Cut, GoesOnOrIsRecorded,
           NEW c \in Checkpoints, c.at \in Nat, c.at <= Id,
           \/ /\ c.epoch + 1 \in DOMAIN records
              /\ c.at \in records[c.epoch + 1].first .. records[c.epoch + 1].last
           \/ c.epoch = Len(records) /\ c.at > Closed
    PROVE  IF c.epoch + 1 \in DOMAIN records'
           THEN c.at \in records'[c.epoch + 1].first .. records'[c.epoch + 1].last
           ELSE c.epoch = Len(records') /\ c.at > Closed'
<1>1. /\ records \in Seq(EpochRecords) /\ Id \in Nat /\ c.epoch \in Int /\ Len(records) \in Nat
      /\ DOMAIN records = 1 .. Len(records)
  BY NextWord DEF LearningInv, LearningTypes, Checkpoints
<1>2. CASE records' = records
  BY <1>1, <1>2 DEF Closed
<1>3. ASSUME NEW R \in EpochRecords,
             R.first = Closed + 1 /\ R.last = Id /\ records' = Append(records, R)
      PROVE  /\ c.epoch + 1 \in DOMAIN records'
             /\ c.at \in records'[c.epoch + 1].first .. records'[c.epoch + 1].last
  <2>1. /\ Len(records') = Len(records) + 1 /\ DOMAIN records' = 1 .. Len(records) + 1
        /\ \A k \in 1 .. Len(records) : records'[k] = records[k]
        /\ records'[Len(records) + 1] = R
    BY <1>1, <1>3, AppendProperties
  <2>2. CASE /\ c.epoch + 1 \in DOMAIN records
             /\ c.at \in records[c.epoch + 1].first .. records[c.epoch + 1].last
    BY <2>1, <2>2, <1>1
  <2>3. CASE c.epoch = Len(records) /\ c.at > Closed
    <3>1. Closed \in Nat
      BY <1>3, TypesOfRun DEF Running, PlanFits
    <3>2. c.at \in R.first .. R.last
      BY <2>3, <3>1, <1>1, <1>3
    <3> QED BY <2>1, <2>3, <3>2, <1>1
  <2> QED BY <2>2, <2>3
<1> QED BY <1>2, <1>3 DEF GoesOnOrIsRecorded

\* A checkpoint stays consistent as the campaign goes on.
LEMMA OldCutStays ==
    ASSUME LearningInv, status = "run", stream # <<>>, Cut, GoesOnOrIsRecorded,
           NEW c \in Checkpoints, c.at <= accepted, CutIsConsistent(c)
    PROVE  CutIsConsistent(c)'
<1>1. /\ accepted \in Nat /\ Id = accepted + 1 /\ c.at \in Nat /\ c.at <= Id
      /\ intentFirst \in [L2Bins -> Nat]
  BY NextWord DEF Checkpoints, LearningInv, LearningTypes
<1>2. ASSUME NEW b \in L2Bins PROVE intentFirst'[b] \in 1 .. c.at <=> intentFirst[b] \in 1 .. c.at
  <2>1. intentFirst'[b] = IF b \in HitBins /\ intentFirst[b] = 0 THEN Id ELSE intentFirst[b]
    BY CutFacts
  <2>2. intentFirst[b] \in Nat
    BY <1>1
  <2> HIDE DEF Id
  <2> QED BY <2>1, <2>2, <1>1
<1>3. {b \in L2Bins : intentFirst'[b] \in 1 .. c.at} = {b \in L2Bins : intentFirst[b] \in 1 .. c.at}
  BY <1>2
<1>4. c.intents = Cardinality({b \in L2Bins : intentFirst'[b] \in 1 .. c.at})
  BY <1>3 DEF CutIsConsistent
<1>5. IF c.epoch + 1 \in DOMAIN records'
      THEN c.at \in records'[c.epoch + 1].first .. records'[c.epoch + 1].last
      ELSE c.epoch = Len(records') /\ c.at > Closed'
  BY <1>1, EpochSpan DEF CutIsConsistent
<1> QED BY <1>4, <1>5 DEF CutIsConsistent

\* A checkpoint is consistent when it is taken.
LEMMA NewCutFits ==
    ASSUME LearningInv, status = "run", stream # <<>>, Cut, GoesOnOrIsRecorded,
           NEW c \in Checkpoints, c = Checkpoint
    PROVE  CutIsConsistent(c)'
<1>1. /\ accepted \in Nat /\ Id = accepted + 1 /\ Id \in Nat /\ c.at = Id
      /\ c.intents = Cardinality(Covered(intentFirst')) /\ c.epoch = bridge
      /\ intentFirst' \in [L2Bins -> Nat] /\ NothingYounger' /\ accepted' = Id
  BY NextWord, CutFacts, CutTypes DEF Checkpoint
<1>2. c.epoch = Len(records) /\ c.at > Closed
  <2>1. EpochActive /\ PlanFits /\ loop.before \in Nat
    BY TypesOfRun DEF Running
  <2> HIDE DEF Id
  <2> QED BY <2>1, <1>1 DEF EpochActive, PlanFits
<1>3. ASSUME NEW b \in L2Bins PROVE intentFirst'[b] \in 1 .. c.at <=> intentFirst'[b] # 0
  BY <1>1 DEF NothingYounger
<1>4. {b \in L2Bins : intentFirst'[b] \in 1 .. c.at} = Covered(intentFirst')
  BY <1>3 DEF Covered
<1>5. IF c.epoch + 1 \in DOMAIN records'
      THEN c.at \in records'[c.epoch + 1].first .. records'[c.epoch + 1].last
      ELSE c.epoch = Len(records') /\ c.at > Closed'
  <2>1. c.at \in Nat /\ c.at <= Id
    BY <1>1
  <2> QED BY <2>1, <1>2, EpochSpan
<1> QED BY <1>1, <1>4, <1>5 DEF CutIsConsistent

\* Every checkpoint is consistent after a cut.
LEMMA CheckpointsKeep ==
    ASSUME LearningInv, status = "run", stream # <<>>, Cut, GoesOnOrIsRecorded
    PROVE  CheckpointsAreConsistentCuts'
<1>1. /\ CheckpointsAreConsistentCuts /\ NothingYounger /\ checkpoints \in Seq(Checkpoints)
      /\ checkpoints' \in Seq(Checkpoints)
      /\ \/ checkpoints' = checkpoints
         \/ checkpoints' = Append(checkpoints, Checkpoint)
  BY CutTypes DEF LearningInv, LearningTypes
<1>2. ASSUME NEW k \in DOMAIN checkpoints
      PROVE  checkpoints[k] \in Checkpoints /\ CutIsConsistent(checkpoints[k])
             /\ checkpoints[k].at <= accepted
  <2>1. checkpoints[k] \in Checkpoints
    BY <1>1
  <2>2. checkpoints[k].at <= accepted
    BY <1>1 DEF NothingYounger
  <2>3. CutIsConsistent(checkpoints[k])
    BY <1>1, Zenon DEF CheckpointsAreConsistentCuts, CutIsConsistent
  <2> QED BY <2>1, <2>2, <2>3
<1>3. \A c \in Checkpoints : c.at <= accepted /\ CutIsConsistent(c) => CutIsConsistent(c)'
  BY OldCutStays
<1>4. \A c \in Checkpoints : c = Checkpoint => CutIsConsistent(c)'
  BY NewCutFits
<1>5. ASSUME NEW k \in DOMAIN checkpoints'
      PROVE  \E c \in Checkpoints : c = checkpoints'[k] /\ CutIsConsistent(c)'
  <2>1. CASE k \in DOMAIN checkpoints /\ checkpoints'[k] = checkpoints[k]
    BY <2>1, <1>2, <1>3
  <2>2. CASE checkpoints'[k] = Checkpoint
    <3>1. checkpoints'[k] \in Checkpoints
      BY <1>1
    <3> QED BY <2>2, <3>1, <1>4
  <2>3. CASE checkpoints' = Append(checkpoints, Checkpoint)
    <3>1. k \in 1 .. Len(checkpoints) + 1 /\ Len(checkpoints) \in Nat
      BY <2>3, <1>1
    <3>2. CASE k = Len(checkpoints) + 1
      BY <2>3, <3>2, <1>1, <2>2
    <3>3. CASE k # Len(checkpoints) + 1
      <4>1. k \in 1 .. Len(checkpoints)
        BY <3>1, <3>3
      <4>2. k \in DOMAIN checkpoints /\ checkpoints'[k] = checkpoints[k]
        BY <4>1, <2>3, <1>1
      <4> QED BY <4>2, <2>1
    <3> QED BY <3>2, <3>3
  <2> QED BY <1>1, <2>1, <2>3
<1>6. ASSUME NEW k \in DOMAIN checkpoints' PROVE CutIsConsistent(checkpoints[k])'
  <2>1. PICK c \in Checkpoints : c = checkpoints'[k] /\ CutIsConsistent(c)'
    BY <1>5
  <2> QED BY <2>1 DEF CutIsConsistent
<1>7. \A k \in DOMAIN checkpoints' : CutIsConsistent(checkpoints[k])'
  BY <1>6
<1> QED BY <1>7, Zenon DEF CheckpointsAreConsistentCuts, CutIsConsistent

-----------------------------------------------------------------------------
(* Accept.                                                                  *)

\* The hits of the words that are still laid out move up by one.
LEMMA HitsMoveUp ==
    ASSUME LearningInv, status = "run", stream # <<>>, Cut,
           witnesses' = WitnessesAfter, epoch' = EpochAfterHits
    PROVE  StreamHits' /\ WitnessesAhead'
<1> DEFINE L == Len(stream)
<1>1. /\ accepted \in Nat /\ accepted' = accepted + 1 /\ Id = accepted + 1
      /\ stream \in Seq(Words) /\ stream' \in Seq(Words) /\ L \in Nat /\ Len(stream') = L - 1
      /\ \A k \in 1 .. Len(stream') : stream'[k] = stream[k + 1]
      /\ epoch'.targets = epoch.targets /\ Word = stream[1] /\ L >= 1
  BY CutFacts, NextWord, EpochAfter, TypesOfRun
<1>2. /\ StreamHits /\ WitnessesAhead /\ EpochActive
      /\ \A b \in epoch.targets : b[1] \in {1, 2} /\ b[2] \in Registers
  BY TypesOfRun, ActiveTarget, TargetFacts DEF Running
<1>3. \A w : w \in witnesses' <=> w \in witnesses /\ w \notin Hits /\ w.consumer > Id
  BY DEF WitnessesAfter
<1>4. WitnessesAhead'
  <2> SUFFICES ASSUME NEW w \in witnesses'
               PROVE  /\ w.bin \in epoch.targets /\ w.producer = w.consumer - w.bin[1]
                      /\ w.consumer > accepted + 1 /\ w.consumer <= (accepted + 1) + (L - 1)
    BY <1>1 DEF WitnessesAhead
  <2>1. w \in witnesses /\ w.consumer > accepted + 1
    BY <1>1, <1>3
  <2>2. w.consumer \in Nat
    BY <2>1 DEF LearningInv, LearningTypes, Witnesses
  <2>3. /\ w.bin \in epoch.targets /\ w.producer = w.consumer - w.bin[1]
        /\ w.consumer <= accepted + L
    BY <2>1, <1>2 DEF WitnessesAhead
  <2>4. (accepted + 1) + (L - 1) = accepted + L
    BY ONLY <1>1
  <2> QED BY <2>1, <2>3, <2>4
<1>5. \A w \in witnesses : w.consumer > Id => w \in witnesses'
  <2>1. \A w \in Hits : w.consumer = Id
    BY HitsMatch
  <2>2. Id \in Nat
    BY <1>1
  <2> QED BY <2>1, <2>2, <1>3
<1>6. ASSUME NEW k \in DOMAIN stream' PROVE WordHits(k)'
  <2>1. /\ k \in 1 .. L - 1 /\ k \in Nat /\ k >= 1 /\ k + 1 \in DOMAIN stream
        /\ stream'[k] = stream[k + 1]
        /\ accepted' + k = accepted + (k + 1) /\ accepted + (k + 1) > Id
    BY <1>1
  <2>nums. /\ k \in Nat /\ k >= 1 /\ k <= L - 1 /\ L \in Nat /\ accepted \in Nat
           /\ accepted' = accepted + 1 /\ Len(stream') = L - 1
    BY <2>1, <1>1
  <2>2. WordHits(k + 1)
    BY <2>1, <1>2 DEF StreamHits
  <2>3. CASE /\ stream[k + 1].reads = {}
             /\ \A w \in witnesses : w.consumer # accepted + (k + 1)
    <3>1. \A w \in witnesses' : w.consumer # accepted' + k
      BY <2>1, <2>3, <1>3
    <3> QED BY <3>1, <2>1, <2>3 DEF WordHits
  <2>4. ASSUME stream[k + 1].reads = RegistersOf(epoch.targets),
               NEW b \in epoch.targets,
               [bin |-> b, producer |-> accepted + (k + 1) - b[1],
                consumer |-> accepted + (k + 1)] \in witnesses,
               accepted + (k + 1) > b[1],
               b[1] < k + 1 => stream[(k + 1) - b[1]].rd = b[2],
               b[1] >= k + 1 => lastWriter[b[2]] = accepted + (k + 1) - b[1],
               b[1] = 2 /\ k + 1 >= 2 => stream[(k + 1) - 1].rd # b[2]
        PROVE  /\ [bin |-> b, producer |-> accepted' + k - b[1], consumer |-> accepted' + k]
                    \in witnesses'
               /\ accepted' + k > b[1]
               /\ b[1] < k => stream'[k - b[1]].rd = b[2]
               /\ b[1] >= k => lastWriter'[b[2]] = accepted' + k - b[1]
               /\ b[1] = 2 /\ k >= 2 => stream'[k - 1].rd # b[2]
    <3> DEFINE w == [bin |-> b, producer |-> accepted + (k + 1) - b[1],
                     consumer |-> accepted + (k + 1)]
    <3>1. b[1] \in {1, 2} /\ b[2] \in Registers
      BY <1>2
    <3>2. w \in witnesses'
      <4>1. w \in witnesses /\ w.consumer = accepted + (k + 1)
        BY <2>4
      <4> HIDE DEF w
      <4> QED BY <4>1, <2>1, <1>5
    <3>3. accepted' + k - b[1] = accepted + (k + 1) - b[1]
      <4>1. PICK d \in {1, 2} : d = b[1]
        BY <3>1
      <4>2. accepted' + k - d = accepted + (k + 1) - d
        BY ONLY <2>nums, d \in {1, 2}
      <4> QED BY <4>1, <4>2
    <3>4. /\ [bin |-> b, producer |-> accepted' + k - b[1], consumer |-> accepted' + k]
               \in witnesses'
          /\ accepted' + k > b[1]
      BY <3>2, <3>3, <2>1, <2>4
    <3>5. ASSUME b[1] < k PROVE stream'[k - b[1]].rd = b[2]
      <4>1. /\ k - b[1] \in 1 .. Len(stream') /\ (k - b[1]) + 1 = (k + 1) - b[1]
            /\ b[1] < k + 1
        BY ONLY <3>1, <3>5, <2>nums
      <4> QED BY <4>1, <1>1, <2>4
    <3>6. ASSUME b[1] >= k PROVE lastWriter'[b[2]] = accepted' + k - b[1]
      <4>1. lastWriter'[b[2]] = IF b[2] = stream[1].rd THEN Id ELSE lastWriter[b[2]]
        BY <3>1, <1>1, CutFacts
      <4>2. CASE b[1] = k
        <5>1. (k + 1) - b[1] = 1 /\ b[1] < k + 1 /\ accepted' + k - b[1] = Id
          BY ONLY <4>2, <3>1, <2>1, <1>1
        <5> QED BY <5>1, <4>1, <2>4
      <4>3. CASE b[1] = 2 /\ k = 1
        <5>1. /\ (k + 1) - 1 = 1 /\ k + 1 >= 2 /\ b[1] >= k + 1
              /\ accepted' + k - b[1] = accepted + (k + 1) - b[1]
          BY ONLY <4>3, <3>3, <2>1
        <5>2. stream[1].rd # b[2] /\ lastWriter[b[2]] = accepted + (k + 1) - b[1]
          BY <5>1, <4>3, <2>4
        <5> QED BY <5>1, <5>2, <4>1
      <4> QED BY <4>2, <4>3, <3>1, <3>6, <2>1
    <3>7. ASSUME b[1] = 2, k >= 2 PROVE stream'[k - 1].rd # b[2]
      <4>1. k - 1 \in 1 .. Len(stream') /\ (k - 1) + 1 = (k + 1) - 1 /\ k + 1 >= 2
        BY ONLY <3>7, <2>nums
      <4> QED BY <4>1, <3>7, <1>1, <2>4
    <3> QED BY <3>4, <3>5, <3>6, <3>7
  <2> QED BY <2>1, <2>2, <2>3, <2>4, <1>1 DEF WordHits
<1> QED BY <1>4, <1>6 DEF StreamHits

\* An acceptance within an epoch preserves the invariant.
LEMMA AcceptKeeps == ASSUME LearningInv, Accept PROVE LearningInv'
<1>1. /\ status = "run" /\ stream # <<>> /\ Id # config.budget /\ ~EpochEnds /\ Cut
      /\ witnesses' = WitnessesAfter /\ epoch' = EpochAfterHits
      /\ status' = IF CutRaises THEN "raised" ELSE "run"
      /\ plan' = plan /\ engine' = engine /\ bridge' = bridge /\ loop' = loop
      /\ records' = records /\ ~(plan.active /\ PlanComplete(plan))
  BY DEF Accept, AtBudget, ClockRuns
<1>2. /\ LearningTypes /\ EpochActive /\ PlanFits /\ WitnessesAhead /\ TargetsServed
      /\ config.budget \in Nat /\ accepted \in Nat /\ Id = accepted + 1 /\ accepted' = accepted + 1
      /\ config' = config /\ Len(stream) \in Nat /\ Len(stream) >= 1
      /\ Len(stream') = Len(stream) - 1
      /\ loop.before \in Nat /\ loop.planned \in Nat /\ plan.planned \in Nat /\ plan.inst \in Nat
  BY <1>1, TypesOfRun, CutFacts, NextWord DEF Running, LearningInv
<1>3. status' = "run" /\ checkpoints' \in Seq(Checkpoints) /\ NothingYounger'
  BY <1>1, CutTypes
<1>4. /\ epoch' \in Epochs /\ epoch'.index = epoch.index /\ epoch'.arm = epoch.arm
      /\ epoch'.targets = epoch.targets /\ epoch'.start = epoch.start
      /\ epoch'.observed = epoch.attributed \cup HitBins
      /\ epoch'.attributed = epoch.attributed \cup HitBins
      /\ HitBins \subseteq epoch.targets
  BY <1>1, EpochAfter
<1>5. LearningTypes'
  <2>1. witnesses' \subseteq Witnesses
    BY <1>1, <1>2 DEF WitnessesAfter, LearningTypes
  <2>2. stream' \in Seq(Words) /\ lastWriter' \in [Registers -> Nat] /\ intentFirst' \in [L2Bins -> Nat]
    BY <1>1, CutFacts
  <2>3. accepted' \in Nat
    BY ONLY <1>2
  <2> QED BY <2>1, <2>2, <2>3, <1>1, <1>2, <1>3 DEF LearningTypes
<1>6. Covered(intentFirst') = epoch'.start \cup epoch'.attributed
  <2>1. Covered(intentFirst) = epoch.start \cup epoch.attributed
    BY <1>2 DEF EpochActive
  <2>2. Covered(intentFirst') = Covered(intentFirst) \cup HitBins
    BY <1>1, CutFacts
  <2> QED BY <2>1, <2>2, <1>4
<1>7. EpochActive'
  <2>1. epoch'.targets \in Select(epoch'.arm, epoch'.start)
    BY <1>2, <1>4 DEF EpochActive
  <2>2. epoch'.start = PaidFor'
    BY <1>1, <1>2, <1>4 DEF EpochActive, PaidFor
  <2>3. epoch'.observed = epoch'.attributed /\ epoch'.attributed \subseteq epoch'.targets
    BY <1>2, <1>4 DEF EpochActive
  <2>4. epoch'.index = Len(records') /\ bridge' = Len(records') /\ engine'.epoch = Len(records')
    BY <1>1, <1>2, <1>4 DEF EpochActive
  <2> QED BY <1>4, <1>6, <2>1, <2>2, <2>3, <2>4 DEF EpochActive
<1>8. PlanFits'
  <2>1. /\ accepted < config.budget /\ loop.before = Closed /\ loop.before <= accepted
        /\ plan.inst = accepted + Len(stream) + 1 /\ plan.fillers = plan.targeted \div 4
        /\ plan.planned # 0
        /\ plan.inst = loop.before + plan.planned + (IF plan.boundary THEN 2 ELSE 1)
        /\ plan.active => loop.planned = None /\ ~plan.boundary
    BY <1>2 DEF PlanFits
  <2>2. Closed' = Closed
    BY <1>1 DEF Closed
  <2>3. accepted' < config'.budget /\ loop'.before <= accepted'
    <3>1. accepted + 1 # config.budget
      BY <1>1, <1>2
    <3> QED BY <2>1, <3>1, <1>1, <1>2
  <2>4. plan'.inst = accepted' + Len(stream') + 1
    <3>1. accepted + Len(stream) + 1 = (accepted + 1) + (Len(stream) - 1) + 1
      BY ONLY <1>2
    <3> QED BY <3>1, <2>1, <1>1, <1>2
  <2>5. ASSUME ~plan.active
        PROVE  /\ loop.planned = plan.planned /\ PlanComplete(plan)
               /\ accepted + 1 < loop.before + plan.planned
               /\ plan.boundary <=> loop.before + plan.planned < config.budget
               /\ plan.boundary => stream'[Len(stream')].reads = {}
    <3>1. /\ loop.planned = plan.planned /\ PlanComplete(plan)
          /\ accepted < loop.before + plan.planned
          /\ plan.boundary <=> loop.before + plan.planned < config.budget
          /\ plan.boundary => stream[Len(stream)].reads = {}
      BY <2>5, <1>2 DEF PlanFits
    <3>2. Id - loop.before # plan.planned
      BY <1>1, <2>1, <3>1 DEF EpochEnds, EpochExecuted, None
    <3>3. accepted + 1 < loop.before + plan.planned
      <4>1. (accepted + 1) - loop.before # plan.planned
        BY <3>2, <1>2
      <4> QED BY <4>1, <3>1, <1>2
    <3>4. ASSUME plan.boundary PROVE stream'[Len(stream')].reads = {}
      <4>1. accepted + Len(stream) + 1 = loop.before + plan.planned + 2
        BY <2>1, <3>4
      <4>2. Len(stream) >= 2
        BY ONLY <4>1, <3>3, <1>2
      <4>3. Len(stream') \in 1 .. Len(stream') /\ Len(stream') + 1 = Len(stream)
        BY ONLY <4>2, <1>2
      <4>4. stream'[Len(stream')] = stream[Len(stream)]
        BY <4>3, <1>1, CutFacts
      <4> QED BY <4>4, <3>1, <3>4
    <3> QED BY <3>1, <3>3, <3>4
  <2>6. PlanComplete(plan)' => PlanComplete(plan) /\ ~plan.active
    BY <1>1, <1>2 DEF PlanComplete
  <2>7. PlanComplete(plan) => PlanComplete(plan)'
    BY <1>1, <1>2 DEF PlanComplete
  <2> QED BY <2>1, <2>2, <2>3, <2>4, <2>5, <2>6, <2>7, <1>1, <1>2 DEF PlanFits
<1>9. StreamHits' /\ WitnessesAhead'
  BY <1>1, HitsMoveUp
<1>10. TargetsServed'
  <2> SUFFICES ASSUME plan.planned > 1, NEW b \in epoch.targets
               PROVE  b \in epoch'.attributed \/ \E w \in witnesses' : w.bin = b
    BY <1>1, <1>4 DEF TargetsServed
  <2>1. CASE b \in epoch.attributed
    BY <2>1, <1>4
  <2>2. ASSUME NEW w \in witnesses, w.bin = b PROVE b \in epoch'.attributed \/ w \in witnesses'
    <3>1. CASE w.consumer = Id
      <4>1. w \in Hits
        BY <3>1, <1>1, HitsMatch
      <4>2. b \in HitBins
        BY <4>1, <2>2 DEF HitBins
      <4> QED BY <4>2, <1>4
    <3>2. CASE w.consumer # Id
      <4>1. w \notin Hits
        BY <3>2, <1>1, HitsMatch
      <4>2. w.consumer > accepted /\ w.consumer \in Nat
        BY <1>2 DEF WitnessesAhead, LearningTypes, Witnesses
      <4>3. w.consumer > Id
        BY <4>2, <3>2, <1>2
      <4> QED BY <4>1, <4>3, <1>1 DEF WitnessesAfter
    <3> QED BY <3>1, <3>2
  <2> QED BY <2>1, <2>2, <1>2 DEF TargetsServed
<1>11. NoveltyIsPaidOnce'
  <2>1. epoch'.index \in Nat /\ epoch' # NoEpoch
    <3>1. epoch'.index \in Nat
      BY <1>4 DEF Epochs
    <3> QED BY <3>1 DEF NoEpoch
  <2>2. AttributableNew(epoch)' = epoch'.attributed \ epoch'.start
    BY <1>2, <1>4 DEF AttributableNew, EpochActive
  <2>3. epoch'.start = PaidFor
    BY <1>2, <1>4 DEF EpochActive
  <2>4. Covered(intentFirst') = PaidFor \cup AttributableNew(epoch)'
    BY <1>6, <2>2, <2>3
  <2>5. Covered(intentFirst)' = Covered(intentFirst')
    BY DEF Covered
  <2>6. /\ \A x, y \in DOMAIN records : x # y => records[x].new \cap records[y].new = {}
        /\ \A x \in DOMAIN records : records[x].globalNew = records[x].new
    BY DEF LearningInv, NoveltyIsPaidOnce
  <2>7. Covered(intentFirst)' = (UNION {records[x].new : x \in DOMAIN records})
                                   \cup (IF epoch' = NoEpoch THEN {} ELSE AttributableNew(epoch)')
    BY <2>1, <2>4, <2>5 DEF PaidFor
  <2> HIDE DEF Covered, AttributableNew
  <2> QED BY <1>1, <2>6, <2>7 DEF NoveltyIsPaidOnce
<1>12. WholeEpochsEarnTheMost'
  BY <1>1, <1>2 DEF LearningInv, WholeEpochsEarnTheMost
<1>13. CheckpointsAreConsistentCuts'
  BY <1>1, CheckpointsKeep DEF GoesOnOrIsRecorded
<1>14. DelimiterAlone'
  <2> SUFFICES ASSUME config.nominal = 1 PROVE witnesses' = {} /\ epoch'.attributed = {}
    BY <1>2 DEF DelimiterAlone
  <2>1. witnesses = {} /\ epoch.attributed = {} /\ HitBins = {}
    BY <1>1, NothingHit
  <2> QED BY <2>1, <1>1, <1>4 DEF WitnessesAfter
<1> QED BY <1>3, <1>5, <1>7, <1>8, <1>9, <1>10, <1>11, <1>12, <1>13, <1>14
        DEF LearningInv, Running

-----------------------------------------------------------------------------
(* The end of an epoch.                                                     *)

\* At the planned end every target has been hit, unless the epoch is its delimiter, and no
\* witness is left but those of the hits; behind it is the next EBD, or the budget ends here.
LEMMA EndServes ==
    ASSUME LearningInv, status = "run", stream # <<>>, EpochEnds
    PROVE  /\ config.nominal # 1 => epoch.targets \subseteq epoch.attributed \cup HitBins
           /\ WitnessesAfter = {} /\ ~plan.active
           /\ Id < config.budget => plan.boundary /\ Len(stream) = 2 /\ stream[2].reads = {}
<1> DEFINE L == Len(stream)
<1>1. /\ L \in Nat /\ L >= 1 /\ Id = accepted + 1 /\ accepted \in Nat /\ loop.before \in Nat
      /\ plan.planned \in Nat /\ config.budget \in Nat
      /\ loop.planned # None /\ Id - loop.before = loop.planned
  BY NextWord, TypesOfRun DEF EpochEnds, EpochExecuted
<1>2. PlanFits /\ WitnessesAhead /\ StreamHits /\ TargetsServed /\ EpochActive
  BY TypesOfRun DEF Running
<1>3. /\ ~plan.active /\ PlanComplete(plan) /\ loop.planned = plan.planned
      /\ plan.inst = accepted + L + 1
      /\ plan.inst = loop.before + plan.planned + (IF plan.boundary THEN 2 ELSE 1)
      /\ plan.boundary <=> loop.before + plan.planned < config.budget
      /\ plan.boundary => stream[L].reads = {}
  BY <1>1, <1>2 DEF PlanFits
<1>4. accepted + 1 = loop.before + plan.planned
  BY ONLY <1>1, <1>3
<1> HIDE DEF L
<1>nums. /\ L \in Nat /\ accepted \in Nat /\ loop.before \in Nat /\ plan.planned \in Nat
         /\ accepted + 1 = loop.before + plan.planned
  BY <1>1, <1>4
<1>5. (plan.boundary => L = 2) /\ (~plan.boundary => L = 1)
  <2>1. CASE plan.boundary
    <3>1. accepted + L + 1 = loop.before + plan.planned + 2
      BY <1>3, <2>1
    <3>2. L = 2
      BY ONLY <3>1, <1>nums
    <3> QED BY <2>1, <3>2
  <2>2. CASE ~plan.boundary
    <3>1. accepted + L + 1 = loop.before + plan.planned + 1
      BY <1>3, <2>2
    <3>2. L = 1
      BY ONLY <3>1, <1>nums
    <3> QED BY <2>2, <3>2
  <2> QED BY <2>1, <2>2
<1>6. Id < config.budget => plan.boundary
  BY ONLY <1>1, <1>3, <1>4
<1>7. ASSUME NEW w \in witnesses PROVE w.consumer = Id
  <2>1. w.consumer > accepted /\ w.consumer <= accepted + L /\ w.consumer \in Nat
    BY <1>2 DEF WitnessesAhead, LearningInv, LearningTypes, Witnesses, L
  <2>2. CASE ~plan.boundary
    <3>1. L = 1
      BY <2>2, <1>5
    <3> HIDE DEF Id
    <3> QED BY <2>1, <3>1, <1>1
  <2>3. CASE plan.boundary
    <3>1. L = 2 /\ stream[2].reads = {}
      BY <2>3, <1>3, <1>5
    <3>2. 2 \in DOMAIN stream
      BY <3>1, TypesOfRun DEF L
    <3>3. WordHits(2)
      BY <3>2, <1>2 DEF StreamHits
    <3>4. RegistersOf(epoch.targets) # {}
      BY <1>2, ActiveTarget, TargetFacts
    <3>5. w.consumer # accepted + 2
      BY <3>1, <3>3, <3>4 DEF WordHits
    <3> QED BY <2>1, <3>1, <3>5, <1>1
  <2> QED BY <2>2, <2>3
<1>8. Hits = witnesses
  BY <1>7, HitsMatch
<1>9. WitnessesAfter = {}
  BY <1>8 DEF WitnessesAfter
<1>10. ASSUME config.nominal # 1, NEW b \in epoch.targets
       PROVE  b \in epoch.attributed \cup HitBins
  <2>0. plan.planned > 1
    <3>1. plan.planned >= config.nominal /\ config.nominal \in Nat \ {0}
      BY <1>3, TypesOfRun DEF PlanComplete
    <3> QED BY ONLY <3>1, <1>10, <1>nums
  <2>1. CASE b \in epoch.attributed
    BY <2>1
  <2>2. CASE \E w \in witnesses : w.bin = b
    BY <2>2, <1>8 DEF HitBins
  <2> QED BY <2>0, <2>1, <2>2, <1>2 DEF TargetsServed
<1> QED BY <1>3, <1>5, <1>6, <1>9, <1>10 DEF L

\* What is recorded of an epoch: its reward is what it made new.
LEMMA RecordKeeps ==
    ASSUME LearningInv, status = "run", stream # <<>>, Cut,
           NEW whole \in BOOLEAN,
           whole /\ config.nominal # 1 => epoch.targets \subseteq epoch.attributed \cup HitBins,
           records' = Append(records, RecordOf(EpochAfterHits, EpochExecuted, whole))
    PROVE  /\ records' \in Seq(EpochRecords) /\ Len(records') = Len(records) + 1
           /\ Len(records) \in Nat
           /\ EpochExecuted \in Nat \ {0}
           /\ GoesOnOrIsRecorded /\ Closed' = Id /\ records'[Len(records')].last = Id
           /\ PaidFor' = Covered(intentFirst')
           /\ \A x, y \in DOMAIN records' : x # y => records'[x].new \cap records'[y].new = {}
           /\ \A x \in DOMAIN records' : records'[x].globalNew = records'[x].new
           /\ WholeEpochsEarnTheMost'
<1> DEFINE R == RecordOf(EpochAfterHits, EpochExecuted, whole)
           n == Len(records) + 1
<1>0. config' = config
  BY CutFacts
<1>1. /\ records \in Seq(EpochRecords) /\ Len(records) \in Nat /\ Id \in Nat /\ accepted \in Nat
      /\ Id = accepted + 1 /\ loop.before = Closed /\ loop.before <= accepted /\ loop.before \in Nat
  BY NextWord, TypesOfRun DEF Running, PlanFits, LearningInv, LearningTypes
<1>2. EpochExecuted \in Nat \ {0} /\ Closed + EpochExecuted = Id /\ Closed \in Nat
  <2>1. EpochExecuted = Id - loop.before
    BY DEF EpochExecuted
  <2> HIDE DEF Id
  <2> QED BY <2>1, <1>1
<1>3. /\ epoch.attributed \subseteq epoch.targets /\ epoch.start = PaidFor
      /\ Covered(intentFirst) = epoch.start \cup epoch.attributed
      /\ epoch.targets \in Select(epoch.arm, epoch.start) /\ epoch \in Epochs
  BY TypesOfRun DEF Running, EpochActive
<1>4. /\ HitBins \subseteq epoch.targets
      /\ GlobalNew(EpochAfterHits) = (epoch.attributed \cup HitBins) \ epoch.start
      /\ AttributableNew(EpochAfterHits) =
            ((epoch.attributed \cup HitBins) \ epoch.start) \cap epoch.targets
  BY EpochAfter DEF GlobalNew, AttributableNew
<1>5. AttributableNew(EpochAfterHits) = (epoch.attributed \cup HitBins) \ epoch.start
  BY <1>3, <1>4
<1>6. /\ R.arm = epoch.arm /\ R.targets = epoch.targets /\ R.start = epoch.start
      /\ R.new = (epoch.attributed \cup HitBins) \ epoch.start
      /\ R.globalNew = R.new /\ R.first = Closed + 1 /\ R.last = Id /\ R.whole = whole
      /\ R.arm \in Arms
  BY <1>2, <1>3, <1>4, <1>5, EpochAfter DEF RecordOf, Epochs
<1>7. R \in EpochRecords
  <2>1. epoch.arm \in Arms /\ epoch.targets \subseteq L2Bins /\ epoch.start \subseteq L2Bins
    BY <1>3 DEF Epochs
  <2>2. (epoch.attributed \cup HitBins) \ epoch.start \subseteq L2Bins
    BY <2>1, <1>3, <1>4
  <2>3. Closed + 1 \in Nat /\ Closed + EpochExecuted \in Nat
    BY <1>1, <1>2
  <2>4. R = [arm |-> epoch.arm, targets |-> epoch.targets, start |-> epoch.start,
             new |-> (epoch.attributed \cup HitBins) \ epoch.start,
             globalNew |-> (epoch.attributed \cup HitBins) \ epoch.start,
             first |-> Closed + 1, last |-> Closed + EpochExecuted, whole |-> whole]
    BY <1>4, <1>5, EpochAfter DEF RecordOf
  <2> HIDE DEF R
  <2> QED BY <2>1, <2>2, <2>3, <2>4 DEF EpochRecords
<1> HIDE DEF R
<1>8. /\ records' \in Seq(EpochRecords) /\ Len(records') = n /\ DOMAIN records' = 1 .. n
      /\ \A k \in 1 .. Len(records) : records'[k] = records[k]
      /\ records'[n] = R
  <2>1. records' = Append(records, R)
    BY DEF R
  <2> QED BY <2>1, <1>1, <1>7, AppendProperties
<1>9. DOMAIN records = 1 .. Len(records) /\ \A k \in 1 .. n : k = n \/ k \in 1 .. Len(records)
  BY <1>1
<1>10. GoesOnOrIsRecorded
  BY <1>6, <1>7 DEF GoesOnOrIsRecorded, R
<1>11. Closed' = Id /\ records'[Len(records')].last = Id
  <2>1. records' # <<>>
    BY <1>1, <1>8
  <2> QED BY <2>1, <1>6, <1>8 DEF Closed
<1>12. PaidFor' = PaidFor \cup R.new
  <2>1. \A b : b \in PaidFor' <=> \E k \in 1 .. n : b \in records'[k].new
    BY <1>8 DEF PaidFor
  <2>2. \A b : b \in PaidFor <=> \E k \in 1 .. Len(records) : b \in records[k].new
    BY <1>9 DEF PaidFor
  <2>3. n \in 1 .. n /\ \A k \in 1 .. Len(records) : k \in 1 .. n
    BY <1>1
  <2> HIDE DEF n
  <2> QED BY <2>1, <2>2, <2>3, <1>8, <1>9
<1>13. PaidFor' = Covered(intentFirst')
  <2>1. Covered(intentFirst') = Covered(intentFirst) \cup HitBins
    BY CutFacts
  <2> HIDE DEF Covered, PaidFor
  <2> QED BY <2>1, <1>3, <1>6, <1>12
<1>14. \A k \in 1 .. Len(records) : records[k].new \subseteq epoch.start
  BY <1>3, <1>9 DEF PaidFor
<1>15. ASSUME NEW x \in DOMAIN records', NEW y \in DOMAIN records', x # y
       PROVE  records'[x].new \cap records'[y].new = {}
  <2>1. CASE x \in 1 .. Len(records) /\ y \in 1 .. Len(records)
    BY <2>1, <1>8, <1>9, <1>15 DEF LearningInv, NoveltyIsPaidOnce
  <2>2. CASE x = n /\ y \in 1 .. Len(records)
    BY <2>2, <1>6, <1>8, <1>14
  <2>3. CASE y = n /\ x \in 1 .. Len(records)
    BY <2>3, <1>6, <1>8, <1>14
  <2> QED BY <2>1, <2>2, <2>3, <1>8, <1>9, <1>15
<1>16. ASSUME NEW x \in DOMAIN records' PROVE records'[x].globalNew = records'[x].new
  <2>1. CASE x \in 1 .. Len(records)
    BY <2>1, <1>8, <1>9 DEF LearningInv, NoveltyIsPaidOnce
  <2>2. CASE x = n
    BY <2>2, <1>6, <1>8
  <2> QED BY <2>1, <2>2, <1>8, <1>9
<1>17. WholeEpochsEarnTheMost'
  <2> SUFFICES ASSUME NEW x \in DOMAIN records', records'[x].whole
               PROVE  IF config.nominal = 1 THEN records'[x].new = {}
                      ELSE /\ records'[x].new = records'[x].targets \ records'[x].start
                           /\ \A t \in LegalTargets(records'[x].arm) :
                                  Cardinality(t \ records'[x].start)
                                    <= Cardinality(records'[x].new)
    BY <1>0 DEF WholeEpochsEarnTheMost
  <2>1. CASE x \in 1 .. Len(records)
    BY <2>1, <1>8, <1>9 DEF LearningInv, WholeEpochsEarnTheMost
  <2>2. CASE x = n /\ config.nominal = 1
    <3>1. R.new = {}
      BY <2>2, <1>6, NothingHit
    <3> QED BY <3>1, <2>2, <1>8
  <2>3. CASE x = n /\ config.nominal # 1
    <3>1. records'[x] = R /\ whole
      BY <2>3, <1>6, <1>8
    <3>2. R.new = epoch.targets \ epoch.start
      BY <3>1, <2>3, <1>3, <1>4, <1>6
    <3>3. \A t \in LegalTargets(epoch.arm) :
             Cardinality(t \ epoch.start) <= Cardinality(epoch.targets \ epoch.start)
      BY <1>3 DEF Select
    <3> QED BY <3>1, <3>2, <3>3, <2>3, <1>6
  <2> QED BY <2>1, <2>2, <2>3, <1>8, <1>9
<1> QED BY <1>1, <1>2, <1>8, <1>10, <1>11, <1>13, <1>15, <1>16, <1>17

\* What begin_epoch starts from.
LEMMA BeginsFresh ==
    ASSUME NEW e, e.epoch \in Nat, NEW covered \in SUBSET L2Bins, NEW x \in Begins(e, covered)
    PROVE  /\ x \in Epochs /\ x.index = e.epoch /\ x.targets \in Select(x.arm, covered)
           /\ x.start = covered /\ x.observed = {} /\ x.attributed = {}
<1>0. PICK a \in Candidates(e) :
         x \in {[index |-> e.epoch, arm |-> a, targets |-> t, start |-> covered,
                observed |-> {}, attributed |-> {}] : t \in Select(a, covered)}
  BY DEF Begins
<1>1. PICK t \in Select(a, covered) :
         x = [index |-> e.epoch, arm |-> a, targets |-> t, start |-> covered,
              observed |-> {}, attributed |-> {}]
  BY <1>0
<1>2. a \in Arms
  BY DEF Candidates
<1>3. t \subseteq L2Bins
  BY <1>2, TargetFacts DEF Select
<1> QED BY <1>1, <1>2, <1>3 DEF Epochs

\* The end of an epoch preserves the invariant.
LEMMA AcceptEpochEndKeeps == ASSUME LearningInv, AcceptEpochEnd PROVE LearningInv'
<1>1. /\ status = "run" /\ stream # <<>> /\ Id # config.budget /\ EpochEnds /\ Cut
      /\ witnesses' = WitnessesAfter
      /\ records' = Append(records, RecordOf(EpochAfterHits, EpochExecuted, TRUE))
      /\ engine' = Update(engine, epoch.arm, Reward(EpochAfterHits, EpochExecuted))
      /\ epoch' \in Begins(engine', Snapshot(intentFirst'))
      /\ bridge' = epoch'.index
      /\ plan' = [plan EXCEPT !.active = TRUE, !.planned = 1, !.boundary = FALSE]
      /\ loop' = [before |-> Id, planned |-> None]
      /\ status' = IF CutRaises \/ FinishRaises(WitnessesAfter) \/ ~plan.boundary \/ plan.active
                   THEN "raised" ELSE "run"
  BY DEF AcceptEpochEnd, AtBudget, Finish, ClockRuns
<1>2. /\ LearningTypes /\ EpochActive /\ PlanFits
      /\ config.budget \in Nat /\ accepted \in Nat /\ Id = accepted + 1 /\ accepted' = accepted + 1
      /\ config' = config /\ Len(stream) \in Nat /\ Len(stream') = Len(stream) - 1
      /\ Id \in Nat
  BY <1>1, TypesOfRun, CutFacts, NextWord DEF Running, LearningInv
<1>3. accepted + 1 < config.budget
  <2>1. accepted < config.budget /\ accepted + 1 # config.budget
    BY <1>1, <1>2 DEF PlanFits
  <2> QED BY <2>1, <1>2
<1>4. /\ WitnessesAfter = {} /\ ~plan.active /\ plan.boundary /\ Len(stream) = 2
      /\ stream[2].reads = {}
      /\ (config.nominal # 1 => epoch.targets \subseteq epoch.attributed \cup HitBins)
  BY <1>1, <1>2, <1>3, EndServes
<1>5. /\ checkpoints' \in Seq(Checkpoints) /\ NothingYounger' /\ ~CutRaises
      /\ stream' \in Seq(Words) /\ lastWriter' \in [Registers -> Nat]
      /\ intentFirst' \in [L2Bins -> Nat]
  BY <1>1, CutTypes, CutFacts
<1>6. /\ records' \in Seq(EpochRecords) /\ Len(records') = Len(records) + 1
      /\ Len(records) \in Nat /\ EpochExecuted \in Nat \ {0} /\ GoesOnOrIsRecorded /\ Closed' = Id
      /\ PaidFor' = Covered(intentFirst')
      /\ \A x, y \in DOMAIN records' : x # y => records'[x].new \cap records'[y].new = {}
      /\ \A x \in DOMAIN records' : records'[x].globalNew = records'[x].new
      /\ WholeEpochsEarnTheMost'
  BY <1>1, <1>4, RecordKeeps
<1>7. engine'.epoch = Len(records')
  <2>1. engine.epoch = Len(records)
    BY <1>2 DEF EpochActive
  <2> QED BY <2>1, <1>1, <1>6 DEF Update
<1>8. /\ epoch' \in Epochs /\ epoch'.index = Len(records')
      /\ epoch'.targets \in Select(epoch'.arm, epoch'.start)
      /\ epoch'.start = Covered(intentFirst') /\ epoch'.observed = {} /\ epoch'.attributed = {}
  <2>1. Snapshot(intentFirst') \in SUBSET L2Bins /\ Snapshot(intentFirst') = Covered(intentFirst')
    BY DEF Snapshot, Covered
  <2>2. engine'.epoch \in Nat
    BY <1>6, <1>7
  <2> HIDE DEF Snapshot, Covered
  <2> QED BY <2>1, <2>2, <1>1, <1>7, BeginsFresh
<1>9. status' = "run"
  <2>1. epoch # NoEpoch
    <3>1. epoch.index \in Nat
      BY <1>2, ActiveTarget
    <3> QED BY <3>1 DEF NoEpoch
  <2>2. bridge = epoch.index /\ epoch.index = Len(records)
    BY <1>2 DEF EpochActive
  <2>3. ~(EpochExecuted <= 0)
    BY <1>6
  <2>4. ~FinishRaises(WitnessesAfter)
    BY <2>1, <2>2, <2>3, <1>4 DEF FinishRaises
  <2> QED BY <2>4, <1>1, <1>4, <1>5
<1>10. /\ plan' \in Plans /\ plan'.active /\ plan'.planned = 1 /\ ~plan'.boundary
       /\ plan'.inst = plan.inst /\ plan'.targeted = plan.targeted /\ plan'.fillers = plan.fillers
  <2>1. plan \in Plans
    BY <1>2 DEF LearningTypes
  <2> QED BY ONLY <2>1, <1>1 DEF Plans
<1>11. /\ loop' \in [before : Nat, planned : Nat] /\ loop'.before = accepted + 1
       /\ loop'.planned = None
  BY <1>1, <1>2 DEF None
<1>12. LearningTypes'
  <2>1. witnesses' \subseteq Witnesses /\ accepted' \in Nat /\ config' \in Configs
    BY <1>1, <1>2, <1>4 DEF LearningTypes
  <2> QED BY <2>1, <1>5, <1>6, <1>9, <1>10, <1>11 DEF LearningTypes
<1>13. EpochActive'
  <2>1. bridge' = Len(records')
    BY <1>1, <1>8
  <2>2. Covered(intentFirst)' = epoch'.start \cup epoch'.attributed
    BY <1>8 DEF Covered
  <2>3. epoch'.start = PaidFor'
    BY <1>6, <1>8
  <2> HIDE DEF Covered, PaidFor
  <2> QED BY <2>1, <2>2, <2>3, <1>7, <1>8 DEF EpochActive
<1>14. PlanFits'
  <2>1. plan.inst = accepted + 3 /\ plan.fillers = plan.targeted \div 4
    <3>1. plan.inst = accepted + Len(stream) + 1 /\ plan.fillers = plan.targeted \div 4
      BY <1>2 DEF PlanFits
    <3> QED BY <3>1, <1>2, <1>4
  <2>2. /\ plan'.inst = accepted' + Len(stream') + 1
        /\ plan'.inst = loop'.before + plan'.planned + 1
    BY <2>1, <1>2, <1>4, <1>10, <1>11
  <2>3. loop'.before = Closed' /\ loop'.before <= accepted' /\ accepted' < config'.budget
    BY <1>2, <1>3, <1>6, <1>11
  <2>4. accepted' < loop'.before + plan'.planned
    BY <1>2, <1>10, <1>11
  <2> QED BY <2>1, <2>2, <2>3, <2>4, <1>10, <1>11 DEF PlanFits
<1>15. WitnessesAhead' /\ StreamHits' /\ TargetsServed' /\ DelimiterAlone'
  <2>1. witnesses' = {}
    BY <1>1, <1>4
  <2>2. ASSUME NEW k \in DOMAIN stream' PROVE stream'[k].reads = {}
    <3>1. k = 1 /\ 1 \in 1 .. Len(stream')
      BY <1>2, <1>4, <1>5
    <3>2. stream'[1] = stream[1 + 1]
      BY <3>1, <1>1, CutFacts
    <3> QED BY <3>1, <3>2, <1>4
  <2>3. TargetsServed' /\ DelimiterAlone'
    BY <2>1, <1>8, <1>10 DEF TargetsServed, DelimiterAlone
  <2> QED BY <2>1, <2>2, <2>3 DEF WitnessesAhead, StreamHits, WordHits
<1>16. NoveltyIsPaidOnce'
  <2>1. AttributableNew(epoch)' = {}
    BY <1>8 DEF AttributableNew
  <2>2. Covered(intentFirst)' = (UNION {records'[x].new : x \in DOMAIN records'})
                                   \cup (IF epoch' = NoEpoch THEN {} ELSE AttributableNew(epoch)')
    BY <2>1, <1>6 DEF PaidFor, Covered
  <2> HIDE DEF Covered, AttributableNew
  <2> QED BY <2>2, <1>6 DEF NoveltyIsPaidOnce
<1>17. CheckpointsAreConsistentCuts'
  BY <1>1, <1>6, CheckpointsKeep
<1> QED BY <1>5, <1>6, <1>9, <1>12, <1>13, <1>14, <1>15, <1>16, <1>17 DEF LearningInv, Running

\* The end of the campaign preserves the invariant.
LEMMA AcceptBudgetKeeps == ASSUME LearningInv, AcceptBudget PROVE LearningInv'
<1>1. /\ status = "run" /\ stream # <<>> /\ Id = config.budget /\ Cut
      /\ witnesses' = {}
      /\ records' = Append(records, RecordOf(EpochAfterHits, EpochExecuted, EpochEnds))
      /\ engine' = Update(engine, epoch.arm, Reward(EpochAfterHits, EpochExecuted))
      /\ epoch' = NoEpoch
      /\ plan' = [plan EXCEPT !.active = FALSE, !.planned = 0, !.boundary = FALSE]
      /\ loop' = loop
      /\ status' = IF \/ CutRaises \/ FinishRaises(witnesses')
                      \/ records'[Len(records')].last # Id \/ engine'.epoch # Len(records')
                   THEN "raised" ELSE "stopped"
  BY DEF AcceptBudget, AtBudget, Finish, FutureDiscarded, ClockRuns
<1>2. LearningTypes /\ EpochActive
  BY <1>1, TypesOfRun DEF Running, LearningInv
<1>3. EpochEnds /\ config.nominal # 1 => epoch.targets \subseteq epoch.attributed \cup HitBins
  BY <1>1, EndServes
<1>4. EpochEnds \in BOOLEAN
  BY DEF EpochEnds
<1>5. /\ checkpoints' \in Seq(Checkpoints) /\ NothingYounger' /\ ~CutRaises
      /\ stream' \in Seq(Words) /\ lastWriter' \in [Registers -> Nat]
      /\ intentFirst' \in [L2Bins -> Nat] /\ accepted' \in Nat /\ config' = config
  BY <1>1, CutTypes, CutFacts, NextWord
<1> HIDE DEF EpochEnds
<1>6. /\ records' \in Seq(EpochRecords) /\ Len(records') = Len(records) + 1
      /\ Len(records) \in Nat /\ EpochExecuted \in Nat \ {0} /\ GoesOnOrIsRecorded
      /\ records'[Len(records')].last = Id
      /\ PaidFor' = Covered(intentFirst')
      /\ \A x, y \in DOMAIN records' : x # y => records'[x].new \cap records'[y].new = {}
      /\ \A x \in DOMAIN records' : records'[x].globalNew = records'[x].new
      /\ WholeEpochsEarnTheMost'
  BY <1>1, <1>3, <1>4, RecordKeeps
<1>7. engine'.epoch = Len(records')
  <2>1. engine.epoch = Len(records)
    BY <1>2 DEF EpochActive
  <2> QED BY <2>1, <1>1, <1>6 DEF Update
<1>8. status' = "stopped"
  <2>1. epoch # NoEpoch
    <3>1. epoch.index \in Nat
      BY <1>2, ActiveTarget
    <3> QED BY <3>1 DEF NoEpoch
  <2>2. bridge = epoch.index /\ epoch.index = Len(records)
    BY <1>2 DEF EpochActive
  <2>3. ~(EpochExecuted <= 0)
    BY <1>6
  <2>4. ~FinishRaises(witnesses')
    BY <2>1, <2>2, <2>3, <1>1 DEF FinishRaises
  <2> QED BY <2>4, <1>1, <1>5, <1>6, <1>7
<1>9. LearningTypes'
  <2>1. plan' \in Plans
    <3>1. plan \in Plans
      BY <1>2 DEF LearningTypes
    <3> QED BY ONLY <3>1, <1>1 DEF Plans
  <2>2. witnesses' \subseteq Witnesses /\ config' \in Configs /\ loop' \in [before : Nat, planned : Nat]
    BY <1>1, <1>2, <1>5 DEF LearningTypes
  <2> QED BY <2>1, <2>2, <1>5, <1>6, <1>8 DEF LearningTypes
<1>10. NoveltyIsPaidOnce'
  <2>1. Covered(intentFirst)' = (UNION {records'[x].new : x \in DOMAIN records'})
                                   \cup (IF epoch' = NoEpoch THEN {} ELSE AttributableNew(epoch)')
    BY <1>1, <1>6 DEF PaidFor, Covered
  <2> HIDE DEF Covered, AttributableNew
  <2> QED BY <2>1, <1>6 DEF NoveltyIsPaidOnce
<1>11. CheckpointsAreConsistentCuts'
  BY <1>1, <1>6, CheckpointsKeep
<1> QED BY <1>5, <1>6, <1>8, <1>9, <1>10, <1>11 DEF LearningInv

-----------------------------------------------------------------------------
(* Theorems.                                                                *)

\* The invariant holds initially.
LEMMA InitFits == ASSUME Init PROVE LearningInv
<1>1. /\ config \in Configs /\ stream = <<EBD>> /\ accepted = 0 /\ witnesses = {}
      /\ plan = [active |-> TRUE, planned |-> 1, inst |-> 2, targeted |-> 0, fillers |-> 0,
                 boundary |-> FALSE]
      /\ lastWriter = [r \in Registers |-> 0] /\ intentFirst = [b \in L2Bins |-> 0]
      /\ engine = FreshEngine /\ epoch \in Begins(FreshEngine, {}) /\ bridge = 0
      /\ loop = [before |-> 0, planned |-> None] /\ records = <<>> /\ checkpoints = <<>>
      /\ status = "run"
  BY DEF Init
<1>2. config.budget \in Nat \ {0}
  BY <1>1, ConfigsAssumption
<1>3. /\ epoch \in Epochs /\ epoch.index = 0 /\ epoch.targets \in Select(epoch.arm, {})
      /\ epoch.start = {} /\ epoch.observed = {} /\ epoch.attributed = {}
  <2>1. FreshEngine.epoch = 0
    BY DEF FreshEngine
  <2> QED BY <2>1, <1>1, BeginsFresh
<1>4. stream \in Seq(Words) /\ Len(stream) = 1 /\ stream[1] = EBD /\ EBD.reads = {}
  BY <1>1, WordTypes
<1>5. LearningTypes
  BY <1>1, <1>4 DEF LearningTypes, Plans, None
<1>6. NothingYounger
  BY <1>1 DEF NothingYounger
<1>7. EpochActive
  <2>1. Len(records) = 0 /\ engine.epoch = 0 /\ PaidFor = {} /\ Covered(intentFirst) = {}
    BY <1>1 DEF FreshEngine, PaidFor, Covered
  <2> QED BY <2>1, <1>1, <1>3 DEF EpochActive
<1>8. PlanFits
  <2>1. /\ plan.active /\ plan.planned = 1 /\ plan.inst = 2 /\ plan.targeted = 0
        /\ plan.fillers = 0 /\ ~plan.boundary /\ loop.before = 0 /\ loop.planned = None
        /\ Closed = 0
    BY <1>1 DEF Closed
  <2> QED BY <2>1, <1>1, <1>2, <1>4 DEF PlanFits
<1>9. WitnessesAhead /\ StreamHits /\ TargetsServed /\ DelimiterAlone
  <2>1. \A k \in DOMAIN stream : k = 1
    BY <1>4
  <2> QED BY <2>1, <1>1, <1>3, <1>4
          DEF WitnessesAhead, StreamHits, WordHits, TargetsServed, DelimiterAlone
<1>10. NoveltyIsPaidOnce
  <2>1. DOMAIN records = {} /\ Covered(intentFirst) = {} /\ AttributableNew(epoch) = {}
    BY <1>1, <1>3 DEF Covered, AttributableNew
  <2> QED BY <2>1 DEF NoveltyIsPaidOnce
<1>11. WholeEpochsEarnTheMost /\ CheckpointsAreConsistentCuts
  BY <1>1 DEF WholeEpochsEarnTheMost, CheckpointsAreConsistentCuts
<1> QED BY <1>5, <1>6, <1>7, <1>8, <1>9, <1>10, <1>11 DEF LearningInv, Running

\* The invariant holds in every state of every campaign.
THEOREM LearningInvIsInvariant == LearningSpec => []LearningInv
<1>1. Init => LearningInv
  BY InitFits
<1>2. LearningInv /\ [Next]_vars => LearningInv'
  <2> SUFFICES ASSUME LearningInv, [Next]_vars PROVE LearningInv'
    OBVIOUS
  <2>1. CASE PlanBlock
    BY <2>1, PlanKeeps
  <2>c. CASE PlanBoundary \/ PlanLast
    BY <2>c, CloseKeeps
  <2>2. CASE Accept
    BY <2>2, AcceptKeeps
  <2>3. CASE AcceptEpochEnd
    BY <2>3, AcceptEpochEndKeeps
  <2>4. CASE AcceptBudget
    BY <2>4, AcceptBudgetKeeps
  <2>5. CASE UNCHANGED vars
    <3>1. /\ config' = config /\ plan' = plan /\ stream' = stream /\ accepted' = accepted
          /\ witnesses' = witnesses /\ lastWriter' = lastWriter /\ intentFirst' = intentFirst
          /\ engine' = engine /\ epoch' = epoch /\ bridge' = bridge /\ loop' = loop
          /\ records' = records /\ checkpoints' = checkpoints /\ status' = status
      BY <2>5 DEF vars
    <3>2. LearningTypes' = LearningTypes /\ NothingYounger' = NothingYounger
      BY <3>1 DEF LearningTypes, NothingYounger
    <3>3. /\ NoveltyIsPaidOnce' = NoveltyIsPaidOnce
          /\ WholeEpochsEarnTheMost' = WholeEpochsEarnTheMost
          /\ CheckpointsAreConsistentCuts' = CheckpointsAreConsistentCuts
      BY <3>1 DEF NoveltyIsPaidOnce, WholeEpochsEarnTheMost, CheckpointsAreConsistentCuts,
                  Covered, AttributableNew, Closed
    <3>4. Running' = Running
      <4>1. EpochActive' = EpochActive /\ PlanFits' = PlanFits
        BY <3>1 DEF EpochActive, PlanFits, PlanComplete, PaidFor, Covered, Closed
      <4>2. /\ WitnessesAhead' = WitnessesAhead /\ TargetsServed' = TargetsServed
            /\ DelimiterAlone' = DelimiterAlone
        BY <3>1 DEF WitnessesAhead, TargetsServed, DelimiterAlone
      <4>3. StreamHits' = StreamHits
        BY <3>1 DEF StreamHits, WordHits
      <4> QED BY <4>1, <4>2, <4>3 DEF Running
    <3> QED BY <3>1, <3>2, <3>3, <3>4 DEF LearningInv
  <2> QED BY <2>1, <2>c, <2>2, <2>3, <2>4, <2>5 DEF Next, Finished
<1> QED BY <1>1, <1>2, PTL DEF LearningSpec

\* No check of the planner, the registry, the coordinator, the engine or the telemetry
\* ever ends a campaign.
THEOREM LearningRaisesNothing == LearningSpec => []LearningNeverRaises
<1>1. LearningInv => LearningNeverRaises
  BY DEF LearningInv, LearningTypes, LearningNeverRaises
<1> QED BY <1>1, LearningInvIsInvariant, PTL

\* The hits of every instruction are the witnesses registered for it.
THEOREM HitsAreAlwaysTheWitnesses == LearningSpec => []HitsAreTheWitnesses
<1>1. LearningInv => HitsAreTheWitnesses
  BY HitsMatch DEF HitsAreTheWitnesses
<1> QED BY <1>1, LearningInvIsInvariant, PTL

\* No bin is paid for twice, and none that was seen goes without pay.
THEOREM NoveltyIsAlwaysPaidOnce == LearningSpec => []NoveltyIsPaidOnce
<1>1. LearningInv => NoveltyIsPaidOnce
  BY DEF LearningInv
<1> QED BY <1>1, LearningInvIsInvariant, PTL

\* An epoch of more than its delimiter that runs to its planned end earns the most that its
\* arm could.
THEOREM WholeEpochsAreBest == LearningSpec => []WholeEpochsEarnTheMost
<1>1. LearningInv => WholeEpochsEarnTheMost
  BY DEF LearningInv
<1> QED BY <1>1, LearningInvIsInvariant, PTL

\* Every checkpoint shows what its first instructions covered, under the right epoch.
THEOREM CheckpointsAreAlwaysCuts == LearningSpec => []CheckpointsAreConsistentCuts
<1>1. LearningInv => CheckpointsAreConsistentCuts
  BY DEF LearningInv
<1> QED BY <1>1, LearningInvIsInvariant, PTL
=============================================================================
