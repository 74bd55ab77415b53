---------------------------- MODULE StreamProofs ----------------------------
(***************************************************************************)
(* Theorems about CampaignStream, for any capacity, any arms, nominal      *)
(* sizes and budgets: the invariant of StreamInvariant, the properties of  *)
(* CampaignProperties that follow from it, and that the campaign keeps the *)
(* accounts of EpochAccounting.                                            *)
(***************************************************************************)
EXTENDS StreamInvariant, SequenceTheorems, FiniteSetTheorems, TLAPS

-----------------------------------------------------------------------------
(* The ring of cells: addresses modulo the capacity.                       *)

\* The capacity exceeds two blocks of five words.
LEMMA CapacityFacts == Capacity \in Nat /\ Capacity > 10 /\ Capacity > 0
BY CapacityAssumption DEF MaxBlockWords, MaxBackgroundFillers

\* The physical address of a word is in the memory.
LEMMA CellRange ==
    ASSUME NEW w \in Int PROVE CellOf(w) \in Cell
BY CapacityFacts DEF CellOf, Cell

\* A word is a whole number of times round the ring plus its cell.
LEMMA QuotientOfWord ==
    ASSUME NEW w \in Int
    PROVE \E q \in Int : w = Capacity * q + CellOf(w)
<1>1. Capacity \in Nat /\ Capacity > 0
  BY CapacityFacts
<1>2. \A n \in Nat : n > 0 => w = n * (w \div n) + (w % n) /\ w \div n \in Int
  OBVIOUS
<1>3. w = Capacity * (w \div Capacity) + (w % Capacity) /\ w \div Capacity \in Int
  BY ONLY <1>1, <1>2
<1> QED BY <1>3 DEF CellOf

\* Division with remainder has one result.
LEMMA QuotientUnique ==
    ASSUME NEW n \in Nat, n > 0, NEW p \in Int, NEW q \in Int,
           NEW r \in 0 .. n - 1, NEW s \in 0 .. n - 1, n * p + r = n * q + s
    PROVE p = q /\ r = s
<1>1. CASE p < q
  <2>1. n * q >= n * (p + 1)
    BY <1>1
  <2>2. n * (p + 1) = n * p + n
    OBVIOUS
  <2> QED BY <2>1, <2>2
<1>2. CASE q < p
  <2>1. n * p >= n * (q + 1)
    BY <1>2
  <2>2. n * (q + 1) = n * q + n
    OBVIOUS
  <2> QED BY <2>1, <2>2
<1> QED BY <1>1, <1>2

\* The remainder names the cell.
LEMMA CellIsUnique ==
    ASSUME NEW w \in Int, NEW q \in Int, NEW r \in Cell, w = Capacity * q + r
    PROVE CellOf(w) = r
<1>1. PICK p \in Int : w = Capacity * p + CellOf(w)
  BY QuotientOfWord
<1>2. CellOf(w) \in Cell
  BY CellRange
<1> DEFINE c == CellOf(w)
<1>3. c \in 0 .. Capacity - 1 /\ r \in 0 .. Capacity - 1 /\ Capacity * p + c = Capacity * q + r
  BY <1>1, <1>2 DEF Cell
<1> HIDE DEF c
<1>4. c = r
  BY ONLY <1>1, <1>3, CapacityFacts, QuotientUnique, q \in Int
<1> QED BY <1>4 DEF c

\* Counting on from the cell or from the word leads to the same cell.
LEMMA CellShift ==
    ASSUME NEW w \in Int, NEW k \in Int
    PROVE CellOf(CellOf(w) + k) = CellOf(w + k)
<1>1. PICK p \in Int : w = Capacity * p + CellOf(w)
  BY QuotientOfWord
<1> DEFINE c == CellOf(w)
<1>2. c \in Int
  BY CellRange DEF Cell
<1>3. w = Capacity * p + c
  BY <1>1
<1> HIDE DEF c
<1>4. PICK q \in Int : c + k = Capacity * q + CellOf(c + k)
  BY <1>2, QuotientOfWord
<1> DEFINE d == CellOf(c + k)
<1>5. d \in Cell /\ d \in Int
  BY <1>2, CellRange DEF Cell
<1>6. c + k = Capacity * q + d
  BY <1>4
<1> HIDE DEF d
<1>7. w + k = Capacity * (p + q) + d
  <2>1. Capacity * (p + q) = Capacity * p + Capacity * q
    BY CapacityFacts
  <2> DEFINE x == Capacity * p
             y == Capacity * q
  <2>2. x \in Int /\ y \in Int /\ w = x + c /\ c + k = y + d /\ Capacity * (p + q) = x + y
    BY <1>3, <1>6, <2>1, CapacityFacts
  <2> HIDE DEF x, y
  <2>3. w + k = (x + y) + d
    BY ONLY <2>2, <1>2, <1>5, w \in Int, k \in Int
  <2> QED BY <2>2, <2>3
<1>8. CellOf(w + k) = d
  BY <1>5, <1>7, CellIsUnique
<1> QED BY <1>8 DEF c, d

\* Words less than a capacity apart have different cells.
LEMMA CellInjective ==
    ASSUME NEW v \in Int, NEW w \in Int, v <= w, w < v + Capacity, CellOf(v) = CellOf(w)
    PROVE v = w
<1>1. PICK p \in Int : v = Capacity * p + CellOf(v)
  BY QuotientOfWord
<1>2. PICK q \in Int : w = Capacity * q + CellOf(w)
  BY QuotientOfWord
<1> DEFINE c == CellOf(v)
           d == w - v
<1>3. /\ v = Capacity * p + c /\ w = Capacity * q + c /\ c \in Int /\ d \in 0 .. Capacity - 1
      /\ d \in Int /\ Capacity \in Nat
  BY <1>1, <1>2, CellRange, CapacityFacts DEF Cell
<1>4. Capacity * (q - p) + 0 = Capacity * 0 + d
  <2> DEFINE x == Capacity * p
             y == Capacity * q
  <2>1. Capacity * (q - p) = y - x /\ Capacity * 0 = 0
    BY CapacityFacts
  <2>2. x \in Int /\ y \in Int /\ v = x + c /\ w = y + c
    BY <1>3
  <2>3. y - x = d
    <3> HIDE DEF x, y, c
    <3> QED BY ONLY <2>2, <1>3, v \in Int, w \in Int DEF d
  <2> QED BY <2>1, <2>3, <1>3
<1>5. 0 \in 0 .. Capacity - 1 /\ q - p \in Int /\ 0 \in Int /\ Capacity > 0
  BY CapacityFacts
<1> HIDE DEF d
<1>6. d = 0
  BY ONLY <1>3, <1>4, <1>5, QuotientUnique
<1> QED BY <1>6 DEF d

-----------------------------------------------------------------------------
(* Entries: templates with their fillers, and delimiters.                  *)

\* The values of the named numbers.
LEMMA SmallNumbers == MaxBlockWords = 5 /\ RefillThreshold = 6 /\ TargetedPerFiller = 4
                      /\ MaxBackgroundFillers = 1 /\ EbdReserveWords = 1 /\ NoWord = -1 /\ None = 0
BY DEF MaxBlockWords, RefillThreshold, TargetedPerFiller, MaxBackgroundFillers,
       EbdReserveWords, NoWord, None

\* The shape that every template shares.
Shaped(t) ==
    /\ t.kinds \in Seq({"plain", "load", "link"}) /\ Len(t.kinds) \in 2 .. 4
    /\ t.offsets \in Seq(Nat) /\ Len(t.offsets) \in 2 .. Len(t.kinds)
    /\ t.offsets[1] = 0 /\ t.offsets[Len(t.offsets)] = Len(t.kinds) - 1
    /\ \A k \in 1 .. Len(t.offsets) : t.offsets[k] \in 0 .. Len(t.kinds) - 1
    /\ \A k \in 1 .. Len(t.offsets) - 1 :
         t.offsets[k + 1] = t.offsets[k] + Step(t.kinds[t.offsets[k] + 1])
    /\ t.kinds[Len(t.kinds)] = "plain"
    /\ \A d \in t.deps : d[1] \in Nat /\ d[2] \in Nat /\ d[1] < d[2] /\ d[2] < Len(t.offsets)

\* The templates of two words: A0, A2, A5, A8.
LEMMA TwoWords ==
    ASSUME NEW k \in {"plain", "load"}
    PROVE Shaped([kinds |-> <<k, "plain">>, offsets |-> <<0, 1>>, deps |-> {<<0, 1>>}])
BY DEF Shaped, Step

\* The templates of three words: A1, A3, A4, A6, A9.
LEMMA ThreeWords ==
    ASSUME NEW k \in {"plain", "load"}, NEW D \in {{<<0, 2>>}, {<<0, 2>>, <<1, 2>>}, {<<1, 2>>}}
    PROVE Shaped([kinds |-> <<k, "plain", "plain">>, offsets |-> <<0, 1, 2>>, deps |-> D])
BY DEF Shaped, Step

\* The template that jumps: A7.
LEMMA FourWords ==
    Shaped([kinds |-> <<"link", "plain", "plain", "plain">>, offsets |-> <<0, 3>>,
            deps |-> {<<0, 1>>}])
BY DEF Shaped, Step

\* Every template has the shape, whatever the arm.
LEMMA TemplateShape ==
    ASSUME NEW arm \in ArmIDs PROVE Shaped(Template(arm))
<1>1. CASE arm \in {"A0", "A5", "A8"}
  BY <1>1, TwoWords DEF Template
<1>2. CASE arm = "A2"
  BY <1>2, TwoWords DEF Template
<1>3. CASE arm \in {"A1", "A6"}
  BY <1>3, ThreeWords DEF Template
<1>4. CASE arm = "A3"
  BY <1>4, ThreeWords DEF Template
<1>5. CASE arm = "A4"
  BY <1>5, ThreeWords DEF Template
<1>6. CASE arm = "A9"
  BY <1>6, ThreeWords DEF Template
<1>7. CASE arm = "A7"
  BY <1>7, FourWords DEF Template
<1> QED BY <1>1, <1>2, <1>3, <1>4, <1>5, <1>6, <1>7 DEF ArmIDs

\* What a concatenation holds, and where.
LEMMA Concatenation ==
    ASSUME NEW S, NEW s \in Seq(S), NEW u \in Seq(S)
    PROVE /\ s \o u \in Seq(S) /\ Len(s \o u) = Len(s) + Len(u)
          /\ \A k \in 1 .. Len(s) : (s \o u)[k] = s[k]
          /\ \A k \in 1 .. Len(u) : (s \o u)[Len(s) + k] = u[k]
OBVIOUS

\* At most one filler falls due behind a template, and the count keeps up.
LEMMA FillersDueSmall ==
    ASSUME NEW p \in Plans, p.fillers = p.targeted \div 4
    PROVE /\ FillersDue(p) \in {0, 1}
          /\ p.fillers + FillersDue(p) = (p.targeted + Len(Template(p.arm).kinds)) \div 4
<1> DEFINE n == Len(Template(p.arm).kinds)
           m == p.targeted
<1>1. n \in 2 .. 4 /\ m \in Nat /\ p.fillers = m \div 4
  BY TemplateShape DEF Shaped, Plans
<1>2. FillersDue(p) = ((m + n) \div 4) - p.fillers
  BY SmallNumbers DEF FillersDue
<1> HIDE DEF n, m
<1>3. ((m + n) \div 4) - (m \div 4) \in {0, 1} /\ (m + n) \div 4 \in Int /\ m \div 4 \in Int
  BY ONLY <1>1
<1>4. FillersDue(p) \in {0, 1} /\ p.fillers + FillersDue(p) = (m + n) \div 4
  BY ONLY <1>1, <1>2, <1>3
<1> QED BY <1>4 DEF n, m

\* A block is executed from its first word to its last, and its dependencies are inside.
LEMMA BlockWellFormed ==
    ASSUME NEW p \in Plans, p.inst >= 1, FillersDue(p) \in {0, 1}
    PROVE /\ WellFormed(Block(p)) /\ ~IsBoundary(Block(p))
          /\ Block(p).start = p.word /\ Block(p).first = p.inst
<1> DEFINE t == Template(p.arm)
           n == Len(t.kinds)
           x == Len(t.offsets)
           d == FillersDue(p)
           fillers == [k \in 1 .. d |-> n + k - 1]
           plains == [k \in DOMAIN fillers |-> "plain"]
           b == Block(p)
           witn == {[producer |-> p.inst + c[1], consumer |-> p.inst + c[2]] : c \in t.deps}
<1>1. Shaped(t)
  BY TemplateShape DEF Plans
<1>2. /\ b.key = <<"TEMPLATE", p.template>> /\ b.start = p.word /\ b.first = p.inst
      /\ b.kinds = t.kinds \o plains /\ b.offsets = t.offsets \o fillers
      /\ b.witnesses = witn
      /\ b = [key |-> <<"TEMPLATE", p.template>>, start |-> p.word, first |-> p.inst,
              kinds |-> t.kinds \o plains, offsets |-> t.offsets \o fillers,
              witnesses |-> witn]
  BY DEF Block
<1>3. p.word \in Nat /\ p.inst \in Nat \ {0} /\ p.template \in Nat
  BY DEF Plans
<1>4. n \in 2 .. 4 /\ x \in 2 .. n /\ d \in {0, 1}
  BY <1>1 DEF Shaped
<1>5. fillers \in Seq(Nat) /\ Len(fillers) = d /\ DOMAIN fillers = 1 .. d
      /\ (d = 1 => fillers[1] = n)
  <2>1. d = 1 => fillers[1] = n
    BY <1>4
  <2>2. \A k \in 1 .. d : n + k - 1 \in Nat
    BY <1>4
  <2> QED BY <2>1, <2>2, <1>4
<1>6. plains \in Seq({"plain", "load", "link"}) /\ Len(plains) = d
      /\ (d = 1 => plains[1] = "plain")
  BY <1>4, <1>5
<1>7. t.kinds \in Seq({"plain", "load", "link"}) /\ t.offsets \in Seq(Nat)
  BY <1>1 DEF Shaped
<1>8. witn \in SUBSET Witnesses /\ \A w \in witn : 
        p.inst <= w.producer /\ w.producer < w.consumer /\ w.consumer < p.inst + x
  <2> SUFFICES ASSUME NEW c \in t.deps
               PROVE /\ p.inst + c[1] \in Nat /\ p.inst + c[2] \in Nat /\ p.inst <= p.inst + c[1]
                     /\ p.inst + c[1] < p.inst + c[2] /\ p.inst + c[2] < p.inst + x
    BY DEF Witnesses
  <2>1. c[1] \in Nat /\ c[2] \in Nat /\ c[1] < c[2] /\ c[2] < x
    BY <1>1 DEF Shaped
  <2> HIDE DEF x, t
  <2> QED BY ONLY <2>1, <1>3, <1>4
<1> DEFINE ks == t.kinds \o plains
           os == t.offsets \o fillers
<1>9. /\ ks \in Seq({"plain", "load", "link"}) /\ Len(ks) = n + d
      /\ \A k \in 1 .. n : ks[k] = t.kinds[k]
      /\ d = 1 => ks[n + 1] = "plain"
  <2>1. /\ ks \in Seq({"plain", "load", "link"}) /\ Len(ks) = n + d
        /\ \A k \in 1 .. n : ks[k] = t.kinds[k]
        /\ \A k \in 1 .. d : ks[n + k] = plains[k]
    <3> DEFINE S == {"plain", "load", "link"}
               u == t.kinds
    <3>1. u \in Seq(S) /\ plains \in Seq(S) /\ Len(u) = n /\ Len(plains) = d /\ ks = u \o plains
      BY <1>6, <1>7
    <3>2. ks \in Seq(S) /\ Len(ks) = n + d /\ (\A k \in 1 .. n : ks[k] = u[k])
          /\ \A k \in 1 .. d : ks[n + k] = plains[k]
      <4> HIDE DEF S, u, n, d, ks, plains
      <4>1. Len(u \o plains) = Len(u) + Len(plains)
        BY ONLY <3>1, ConcatProperties
      <4>0. u \o plains \in Seq(S)
        BY ONLY <3>1, ConcatProperties
      <4>2. \A k \in 1 .. Len(u) : (u \o plains)[k] = u[k]
        BY ONLY <3>1
      <4>3. \A k \in 1 .. Len(plains) : (u \o plains)[Len(u) + k] = plains[k]
        BY ONLY <3>1
      <4> QED BY ONLY <3>1, <4>0, <4>1, <4>2, <4>3
    <3> QED BY ONLY <3>2
  <2>2. d = 1 => 1 \in 1 .. d
    BY <1>4
  <2>3. d = 1 => plains[1] = "plain"
    BY <1>6
  <2>4. d = 1 => ks[n + 1] = "plain"
    <3> HIDE DEF ks, d, n, plains
    <3> QED BY ONLY <2>1, <2>2, <2>3
  <2> QED BY <2>1, <2>4
<1>10. /\ os \in Seq(Nat) /\ Len(os) = x + d
       /\ \A k \in 1 .. x : os[k] = t.offsets[k]
       /\ d = 1 => os[x + 1] = n
  <2>1. /\ os \in Seq(Nat) /\ Len(os) = x + d
        /\ \A k \in 1 .. x : os[k] = t.offsets[k]
        /\ \A k \in 1 .. d : os[x + k] = fillers[k]
    <3> DEFINE u == t.offsets
    <3>1. u \in Seq(Nat) /\ fillers \in Seq(Nat) /\ Len(u) = x /\ Len(fillers) = d
          /\ os = u \o fillers
      BY <1>5, <1>7
    <3>2. os \in Seq(Nat) /\ Len(os) = x + d /\ (\A k \in 1 .. x : os[k] = u[k])
          /\ \A k \in 1 .. d : os[x + k] = fillers[k]
      <4> HIDE DEF u, x, d, os, fillers
      <4>1. Len(u \o fillers) = Len(u) + Len(fillers)
        BY ONLY <3>1, ConcatProperties
      <4>0. u \o fillers \in Seq(Nat)
        BY ONLY <3>1, ConcatProperties
      <4>2. \A k \in 1 .. Len(u) : (u \o fillers)[k] = u[k]
        BY ONLY <3>1
      <4>3. \A k \in 1 .. Len(fillers) : (u \o fillers)[Len(u) + k] = fillers[k]
        BY ONLY <3>1
      <4> QED BY ONLY <3>1, <4>0, <4>1, <4>2, <4>3
    <3> QED BY ONLY <3>2
  <2>2. d = 1 => 1 \in 1 .. d
    BY <1>4
  <2>3. d = 1 => fillers[1] = n
    BY <1>5
  <2>4. d = 1 => os[x + 1] = n
    <3> HIDE DEF os, d, x, n, fillers
    <3> QED BY ONLY <2>1, <2>2, <2>3
  <2> QED BY <2>1, <2>4
<1>11. b.kinds = ks /\ b.offsets = os /\ Words(b) = n + d /\ Executed(b) = x + d
  BY <1>2, <1>9, <1>10 DEF Words, Executed
<1>12. b \in EntryRecords
  <2>1. ks \in Seq(WordKinds)
    BY <1>9 DEF WordKinds
  <2>2. <<"TEMPLATE", p.template>> \in {"EBD", "TEMPLATE"} \X Nat
    BY <1>3
  <2>3. os \in Seq(Nat) /\ witn \in SUBSET Witnesses
    BY <1>8, <1>10
  <2>4. b = [key |-> <<"TEMPLATE", p.template>>, start |-> p.word, first |-> p.inst,
             kinds |-> ks, offsets |-> os, witnesses |-> witn]
    BY <1>2
  <2> HIDE DEF ks, os, witn, b
  <2> QED BY ONLY <2>1, <2>2, <2>3, <2>4, <1>3 DEF EntryRecords
<1>sh. /\ t.offsets[1] = 0 /\ t.offsets[x] = n - 1
       /\ \A k \in 1 .. x : t.offsets[k] \in 0 .. n - 1
       /\ \A k \in 1 .. x - 1 : t.offsets[k + 1] = t.offsets[k] + Step(t.kinds[t.offsets[k] + 1])
       /\ t.kinds[n] = "plain"
  BY <1>1 DEF Shaped
<1>k. \A k \in 1 .. n + d : ks[k] # "none"
  <2> DEFINE S == {"plain", "load", "link"}
  <2>1. ks \in Seq(S) /\ Len(ks) = n + d
    BY <1>9
  <2>2. \A k \in 1 .. n + d : ks[k] \in S
    <3> HIDE DEF S, ks, n, d
    <3> QED BY ONLY <2>1
  <2> QED BY ONLY <2>2
<1> HIDE DEF t, n, x, d, fillers, plains, b, witn, ks, os
<1>13. Words(b) \in 1 .. MaxBlockWords /\ Executed(b) \in 1 .. Words(b)
  <2>1. n + d \in 1 .. 5 /\ x + d \in 1 .. n + d
    BY ONLY <1>4
  <2> QED BY <2>1, <1>11, SmallNumbers
<1>14. os[1] = 0 /\ os[x + d] = (n + d) - 1
  <2>1. 1 \in 1 .. x /\ x \in 1 .. x
    BY ONLY <1>4
  <2>2. CASE d = 0
    BY ONLY <2>1, <2>2, <1>4, <1>10, <1>sh
  <2>3. CASE d = 1
    BY ONLY <2>1, <2>3, <1>4, <1>10, <1>sh
  <2> QED BY <2>2, <2>3, <1>4
<1>15. \A k \in 1 .. x + d : os[k] \in 0 .. (n + d) - 1
  <2> SUFFICES ASSUME NEW k \in 1 .. x + d PROVE os[k] \in 0 .. (n + d) - 1
    OBVIOUS
  <2>1. CASE k <= x
    <3>1. k \in 1 .. x
      BY ONLY <2>1, <1>4, k \in 1 .. x + d
    <3>2. os[k] \in 0 .. n - 1
      BY <3>1, <1>10, <1>sh
    <3> QED BY ONLY <3>2, <1>4
  <2>2. CASE k > x
    <3>1. k = x + 1 /\ d = 1
      BY ONLY <2>2, <1>4, k \in 1 .. x + d
    <3> QED BY ONLY <3>1, <1>4, <1>10
  <2> QED BY ONLY <2>1, <2>2, <1>4, k \in 1 .. x + d
<1>16. \A k \in 1 .. (x + d) - 1 : os[k + 1] = os[k] + Step(ks[os[k] + 1])
  <2> SUFFICES ASSUME NEW k \in 1 .. (x + d) - 1 PROVE os[k + 1] = os[k] + Step(ks[os[k] + 1])
    OBVIOUS
  <2>0. k \in 1 .. x
    BY ONLY <1>4, k \in 1 .. (x + d) - 1
  <2>1. os[k] = t.offsets[k] /\ os[k] \in 0 .. n - 1 /\ ks[os[k] + 1] = t.kinds[os[k] + 1]
    <3>1. os[k] = t.offsets[k] /\ os[k] \in 0 .. n - 1
      BY ONLY <2>0, <1>10, <1>sh
    <3>2. os[k] + 1 \in 1 .. n
      BY ONLY <3>1, <1>4
    <3> QED BY ONLY <3>1, <3>2, <1>9
  <2>2. CASE k < x
    <3>1. k \in 1 .. x - 1 /\ k + 1 \in 1 .. x
      BY ONLY <2>0, <2>2, <1>4
    <3> QED BY ONLY <3>1, <2>1, <1>10, <1>sh
  <2>3. CASE k = x
    <3>1. d = 1 /\ os[k] = n - 1 /\ os[k + 1] = n
      BY ONLY <2>1, <2>3, <1>4, <1>10, <1>sh, k \in 1 .. (x + d) - 1
    <3>2. (n - 1) + 1 = n /\ n = (n - 1) + 1
      BY ONLY <1>4
    <3>3. ks[os[k] + 1] = "plain"
      BY <3>1, <3>2, <2>1, <1>sh
    <3>4. Step(ks[os[k] + 1]) = 1
      BY <3>3 DEF Step
    <3> QED BY ONLY <3>1, <3>4, <1>4
  <2> QED BY ONLY <2>0, <2>2, <2>3, <1>4
<1>17. ks[n + d] # "link"
  <2>1. CASE d = 0
    <3>1. n + d = n /\ n \in 1 .. n
      BY ONLY <2>1, <1>4
    <3> QED BY <3>1, <1>9, <1>sh
  <2>2. CASE d = 1
    BY <2>2, <1>9
  <2> QED BY <2>1, <2>2, <1>4
<1>18. \A w \in b.witnesses :
          b.first <= w.producer /\ w.producer < w.consumer /\ w.consumer < b.first + Executed(b)
  <2> SUFFICES ASSUME NEW w \in witn
               PROVE p.inst <= w.producer /\ w.producer < w.consumer /\ w.consumer < p.inst + (x + d)
    BY <1>2, <1>11
  <2>1. p.inst <= w.producer /\ w.producer < w.consumer /\ w.consumer < p.inst + x /\ w.consumer \in Nat
    BY <1>8 DEF Witnesses
  <2> QED BY ONLY <2>1, <1>3, <1>4
<1>19. ~IsBoundary(b)
  BY <1>2 DEF IsBoundary
<1>20. WellFormed(b)
  BY <1>11, <1>12, <1>13, <1>14, <1>15, <1>16, <1>17, <1>k, <1>18, <1>19 DEF WellFormed
<1>21. b.start = p.word /\ b.first = p.inst
  BY <1>2
<1> QED BY <1>19, <1>20, <1>21 DEF b

\* A boundary delimiter is an entry of one word.
LEMMA DelimiterWellFormed ==
    ASSUME NEW p \in Plans, p.inst >= 1
    PROVE /\ WellFormed(Delimiter(p)) /\ Words(Delimiter(p)) = 1 /\ Executed(Delimiter(p)) = 1
          /\ Delimiter(p).start = p.word /\ Delimiter(p).first = p.inst
          /\ Delimiter(p).witnesses = {} /\ Delimiter(p).key = <<"EBD", p.boundary>>
          /\ Delimiter(p) \in EntryRecords /\ Delimiter(p) # NoEntry
<1> DEFINE b == Delimiter(p)
<1>1. /\ b.key = <<"EBD", p.boundary>> /\ b.start = p.word /\ b.first = p.inst
      /\ b.kinds = <<"plain">> /\ b.offsets = <<0>> /\ b.witnesses = {}
  BY DEF Delimiter
<1>2. p.boundary \in Nat /\ p.word \in Nat /\ p.inst \in Nat \ {0}
  BY DEF Plans
<1>3. b \in EntryRecords
  <2>1. <<"EBD", p.boundary>> \in {"EBD", "TEMPLATE"} \X Nat /\ <<"plain">> \in Seq(WordKinds)
        /\ <<0>> \in Seq(Nat) /\ {} \in SUBSET Witnesses
    BY <1>2 DEF WordKinds
  <2> QED BY <2>1, <1>2 DEF Delimiter, EntryRecords
<1>4. Words(b) = 1 /\ Executed(b) = 1
  BY <1>1 DEF Words, Executed
<1>5. b # NoEntry
  <2>1. NoEntry.kinds = <<>>
    BY DEF NoEntry
  <2>2. Len(b.kinds) = 1 /\ Len(NoEntry.kinds) = 0
    BY <2>1, <1>1
  <2> QED BY <2>2
<1>6. WellFormed(b)
  <2>1. <<0>>[1] = 0 /\ <<"plain">>[1] = "plain"
    OBVIOUS
  <2>2. 1 \in 1 .. 5 /\ 1 \in 1 .. 1 /\ 1 .. 1 = {1} /\ 1 .. 0 = {} /\ 1 - 1 = 0 /\ 0 .. 0 = {0}
    OBVIOUS
  <2>3. b.offsets[1] = 0 /\ b.kinds[1] = "plain"
    BY <1>1, <2>1
  <2> HIDE DEF b
  <2>4. b.witnesses = {} /\ Words(b) = 1 /\ Executed(b) = 1 /\ 1 \in 1 .. MaxBlockWords
    BY <1>1, <1>4, <2>2, SmallNumbers
  <2>5. \A k \in 1 .. Executed(b) : b.offsets[k] \in 0 .. Words(b) - 1
    BY ONLY <2>2, <2>3, <2>4
  <2>6. \A k \in 1 .. Executed(b) - 1 : b.offsets[k + 1] = b.offsets[k] + Step(b.kinds[b.offsets[k] + 1])
    BY ONLY <2>2, <2>4
  <2>7. \A k \in 1 .. Words(b) : b.kinds[k] # "none"
    BY ONLY <2>2, <2>3, <2>4
  <2>8. b.kinds[Words(b)] # "link" /\ b.offsets[Executed(b)] = Words(b) - 1
        /\ Executed(b) \in 1 .. Words(b)
    BY ONLY <2>2, <2>3, <2>4
  <2> QED BY ONLY <1>3, <2>3, <2>4, <2>5, <2>6, <2>7, <2>8 DEF WellFormed
<1> QED BY <1>1, <1>3, <1>4, <1>5, <1>6

\* The types of what is computed from an entry.
LEMMA EntryFacts ==
    ASSUME NEW e, WellFormed(e)
    PROVE /\ e.start \in Nat /\ e.first \in Nat \ {0} /\ Words(e) \in 1 .. 5
          /\ Executed(e) \in 1 .. Words(e) /\ Executed(e) \in 1 .. 5
          /\ EndOf(e) = e.start + Words(e) /\ EndOf(e) \in Nat
          /\ WordsOf(e) = e.start .. EndOf(e) - 1
          /\ Words(e) \in Nat /\ Executed(e) \in Nat
<1>1. /\ e.start \in Nat /\ e.first \in Nat \ {0}
  BY DEF WellFormed, EntryRecords
<1>2. Words(e) \in 1 .. 5 /\ Executed(e) \in 1 .. Words(e)
  BY SmallNumbers DEF WellFormed
<1>3. EndOf(e) = e.start + Words(e) /\ WordsOf(e) = e.start .. EndOf(e) - 1
  BY DEF EndOf, WordsOf
<1> QED BY ONLY <1>1, <1>2, <1>3

-----------------------------------------------------------------------------
(* Sequences of entries, appended to at the end and shortened at the head. *)

\* An entry behind the last one.
LEMMA ContiguousAppend ==
    ASSUME NEW E \in Seq(EntryRecords), E # <<>>, Contiguous(E), NEW e, WellFormed(e),
           e.start = EndOf(Last(E)), e.first = Last(E).first + Executed(Last(E))
    PROVE /\ Append(E, e) \in Seq(EntryRecords) /\ Append(E, e) # <<>> /\ Contiguous(Append(E, e))
          /\ Head(Append(E, e)) = Head(E) /\ Last(Append(E, e)) = e
          /\ ToSet(Append(E, e)) = ToSet(E) \cup {e}
<1> DEFINE F == Append(E, e)
           n == Len(E)
<1>1. e \in EntryRecords
  BY DEF WellFormed
<1>2. /\ F \in Seq(EntryRecords) /\ F # <<>> /\ Len(F) = n + 1 /\ n \in Nat /\ n >= 1
      /\ (\A i \in 1 .. n : F[i] = E[i]) /\ F[n + 1] = e
      /\ DOMAIN F = 1 .. n + 1 /\ DOMAIN E = 1 .. n
  BY <1>1, AppendProperties
<1>3. Last(E) = E[n] /\ Last(F) = F[n + 1] /\ Head(E) = E[1] /\ Head(F) = F[1]
  BY <1>2 DEF Last
<1> HIDE DEF F, n
<1>4. Head(F) = Head(E) /\ Last(F) = e
  BY ONLY <1>2, <1>3
<1>5. ToSet(F) = ToSet(E) \cup {e}
  <2>1. ASSUME NEW x \in ToSet(F) PROVE x \in ToSet(E) \cup {e}
    <3>1. PICK i \in 1 .. n + 1 : x = F[i]
      BY <2>1, <1>2 DEF ToSet
    <3>2. i \in 1 .. n \/ i = n + 1
      BY ONLY <1>2, <3>1
    <3> QED BY <3>1, <3>2, <1>2 DEF ToSet
  <2>2. ASSUME NEW x \in ToSet(E) PROVE x \in ToSet(F)
    <3>1. PICK i \in 1 .. n : x = E[i]
      BY <2>2, <1>2 DEF ToSet
    <3>2. i \in 1 .. n + 1 /\ F[i] = x
      BY ONLY <1>2, <3>1
    <3> QED BY <3>2, <1>2 DEF ToSet
  <2>3. e \in ToSet(F)
    <3>1. n + 1 \in 1 .. n + 1
      BY ONLY <1>2
    <3> QED BY <3>1, <1>2 DEF ToSet
  <2> QED BY ONLY <2>1, <2>2, <2>3
<1>6. Contiguous(F)
  <2>0. /\ \A i \in 1 .. n : WellFormed(E[i])
        /\ \A i \in 1 .. n - 1 : /\ E[i + 1].start = EndOf(E[i])
                                 /\ E[i + 1].first = E[i].first + Executed(E[i])
        /\ \A i, j \in 1 .. n : i < j => /\ EndOf(E[i]) <= E[j].start
                                         /\ E[i].first + Executed(E[i]) <= E[j].first
    BY <1>2 DEF Contiguous, n
  <2>1. \A i \in 1 .. n + 1 : WellFormed(F[i])
    <3> SUFFICES ASSUME NEW i \in 1 .. n + 1 PROVE WellFormed(F[i])
      OBVIOUS
    <3>1. i \in 1 .. n \/ i = n + 1
      BY ONLY <1>2, i \in 1 .. n + 1
    <3> QED BY <3>1, <2>0, <1>2
  <2>2. \A i \in 1 .. (n + 1) - 1 : /\ F[i + 1].start = EndOf(F[i])
                                    /\ F[i + 1].first = F[i].first + Executed(F[i])
    <3> SUFFICES ASSUME NEW i \in 1 .. (n + 1) - 1
                 PROVE /\ F[i + 1].start = EndOf(F[i])
                       /\ F[i + 1].first = F[i].first + Executed(F[i])
      OBVIOUS
    <3>1. i \in 1 .. n /\ F[i] = E[i]
      BY ONLY <1>2, i \in 1 .. (n + 1) - 1
    <3>2. CASE i = n
      BY <3>1, <3>2, <1>2, <1>3
    <3>3. CASE i < n
      <4>1. i \in 1 .. n - 1 /\ i + 1 \in 1 .. n
        BY ONLY <3>1, <3>3, <1>2
      <4> QED BY <4>1, <3>1, <1>2, <2>0
    <3> QED BY ONLY <3>1, <3>2, <3>3, <1>2
  <2>3. \A i, j \in 1 .. n + 1 : i < j => /\ EndOf(F[i]) <= F[j].start
                                          /\ F[i].first + Executed(F[i]) <= F[j].first
    <3> SUFFICES ASSUME NEW i \in 1 .. n + 1, NEW j \in 1 .. n + 1, i < j
                 PROVE /\ EndOf(F[i]) <= F[j].start
                       /\ F[i].first + Executed(F[i]) <= F[j].first
      OBVIOUS
    <3>1. i \in 1 .. n /\ F[i] = E[i] /\ (j \in 1 .. n \/ j = n + 1)
      BY ONLY <1>2, i \in 1 .. n + 1, j \in 1 .. n + 1, i < j
    <3>2. CASE j \in 1 .. n
      BY <3>1, <3>2, <1>2, <2>0
    <3>3. CASE j = n + 1
      <4>1. WellFormed(E[i]) /\ WellFormed(E[n]) /\ F[j] = e
        BY <3>1, <3>3, <1>2, <2>0
      <4>2. CASE i = n
        <5>1. F[j].start = EndOf(F[i]) /\ F[j].first = F[i].first + Executed(F[i])
              /\ EndOf(F[i]) \in Nat /\ F[j].first \in Nat
          BY <3>1, <4>1, <4>2, <1>3, EntryFacts
        <5> QED BY ONLY <5>1
      <4>3. CASE i < n
        <5>1. n \in 1 .. n
          BY ONLY <1>2
        <5>2. EndOf(E[i]) <= E[n].start /\ E[i].first + Executed(E[i]) <= E[n].first
          BY <3>1, <4>3, <5>1, <2>0
        <5>3. /\ F[j].start = EndOf(E[n]) /\ F[j].first = E[n].first + Executed(E[n])
          BY <4>1, <1>3
        <5>4. /\ E[n].start \in Nat /\ E[n].first \in Nat /\ EndOf(E[n]) = E[n].start + Words(E[n])
              /\ Words(E[n]) \in 1 .. 5 /\ Executed(E[n]) \in 1 .. 5
              /\ EndOf(E[i]) \in Nat /\ E[i].first \in Nat /\ Executed(E[i]) \in 1 .. 5
          BY <4>1, EntryFacts
        <5>5. E[n].start <= EndOf(E[n])
          BY ONLY <5>4
        <5>6. E[n].first <= E[n].first + Executed(E[n]) /\ E[n].first + Executed(E[n]) \in Nat
              /\ E[i].first + Executed(E[i]) \in Nat
          <6>1. \A x \in Nat, y \in 1 .. 5 : x <= x + y /\ x + y \in Nat
            OBVIOUS
          <6> QED BY ONLY <5>4, <6>1
        <5>7. EndOf(E[i]) <= F[j].start
          BY ONLY <5>2, <5>3, <5>4, <5>5
        <5>8. E[i].first + Executed(E[i]) <= F[j].first
          BY ONLY <5>2, <5>3, <5>4, <5>6
        <5> QED BY ONLY <5>7, <5>8, <3>1
      <4> QED BY ONLY <4>2, <4>3, <3>1, <1>2
    <3> QED BY ONLY <3>1, <3>2, <3>3
  <2> QED BY ONLY <2>1, <2>2, <2>3, <1>2 DEF Contiguous
<1> QED BY <1>2, <1>4, <1>5, <1>6 DEF F

\* What each resident entry is, next to the first and the last.
LEMMA Members ==
    ASSUME NEW E \in Seq(EntryRecords), E # <<>>, Contiguous(E)
    PROVE /\ Head(E) \in ToSet(E) /\ Last(E) \in ToSet(E)
          /\ \A e \in ToSet(E) :
               /\ WellFormed(e)
               /\ Head(E).start <= e.start /\ EndOf(e) <= EndOf(Last(E))
               /\ e = Head(E) \/ /\ EndOf(Head(E)) <= e.start
                                 /\ Head(E).first + Executed(Head(E)) <= e.first
               /\ e = Last(E) \/ e.first + Executed(e) <= Last(E).first
          /\ Head(E) # Last(E) => Len(E) >= 2
          /\ Len(E) >= 2 => /\ EndOf(Head(E)) <= Last(E).start
                            /\ Head(E).first + Executed(Head(E)) <= Last(E).first
          /\ Len(E) < 2 => Len(E) = 1 /\ Head(E) = Last(E)
<1> DEFINE n == Len(E)
<1>1. n \in Nat /\ n >= 1 /\ DOMAIN E = 1 .. n
  OBVIOUS
<1>2. Last(E) = E[n] /\ Head(E) = E[1]
  BY <1>1 DEF Last
<1> HIDE DEF n
<1>3. 1 \in 1 .. n /\ n \in 1 .. n
  BY ONLY <1>1
<1>4. /\ \A i \in 1 .. n : WellFormed(E[i])
      /\ \A i, j \in 1 .. n : i < j => /\ EndOf(E[i]) <= E[j].start
                                       /\ E[i].first + Executed(E[i]) <= E[j].first
  BY <1>1 DEF Contiguous
<1>5. Head(E) \in ToSet(E) /\ Last(E) \in ToSet(E)
  BY <1>1, <1>2, <1>3 DEF ToSet
<1>6. ASSUME NEW e \in ToSet(E)
      PROVE /\ WellFormed(e)
            /\ Head(E).start <= e.start /\ EndOf(e) <= EndOf(Last(E))
            /\ e = Head(E) \/ /\ EndOf(Head(E)) <= e.start
                              /\ Head(E).first + Executed(Head(E)) <= e.first
            /\ e = Last(E) \/ e.first + Executed(e) <= Last(E).first
  <2>1. PICK i \in 1 .. n : e = E[i]
    BY <1>1, <1>6 DEF ToSet
  <2>2. WellFormed(E[1]) /\ WellFormed(E[n]) /\ WellFormed(e)
    BY <2>1, <1>3, <1>4
  <2>3. /\ E[1].start \in Nat /\ EndOf(E[1]) \in Nat /\ EndOf(E[1]) = E[1].start + Words(E[1])
        /\ Words(E[1]) \in 1 .. 5
        /\ E[n].start \in Nat /\ EndOf(E[n]) \in Nat /\ EndOf(E[n]) = E[n].start + Words(E[n])
        /\ Words(E[n]) \in 1 .. 5
        /\ e.start \in Nat /\ EndOf(e) \in Nat
    BY <2>2, EntryFacts
  <2>4. i = 1 \/ (EndOf(E[1]) <= e.start /\ E[1].first + Executed(E[1]) <= e.first)
    BY <2>1, <1>3, <1>4
  <2>5. i = n \/ (EndOf(e) <= E[n].start /\ e.first + Executed(e) <= E[n].first)
    BY <2>1, <1>3, <1>4
  <2>6. E[1].start <= e.start
    <3>1. CASE i = 1
      BY <3>1, <2>1, <2>3
    <3>2. CASE EndOf(E[1]) <= e.start
      BY ONLY <3>2, <2>3
    <3> QED BY <3>1, <3>2, <2>4
  <2>7. EndOf(e) <= EndOf(E[n])
    <3>1. CASE i = n
      BY <3>1, <2>1, <2>3
    <3>2. CASE EndOf(e) <= E[n].start
      BY ONLY <3>2, <2>3
    <3> QED BY <3>1, <3>2, <2>5
  <2> QED BY <2>1, <2>2, <2>4, <2>5, <2>6, <2>7, <1>2
<1>7. Head(E) # Last(E) => n >= 2
  BY ONLY <1>1, <1>2
<1>8. n >= 2 => /\ EndOf(Head(E)) <= Last(E).start
                /\ Head(E).first + Executed(Head(E)) <= Last(E).first
  BY <1>1, <1>2, <1>3, <1>4
<1>9. n < 2 => n = 1 /\ Head(E) = Last(E)
  BY ONLY <1>1, <1>2
<1> QED BY <1>5, <1>6, <1>7, <1>8, <1>9 DEF n

\* What is left when the first entry is complete.
LEMMA ContiguousTail ==
    ASSUME NEW E \in Seq(EntryRecords), E # <<>>, Contiguous(E)
    PROVE /\ Tail(E) \in Seq(EntryRecords) /\ Contiguous(Tail(E)) /\ Len(Tail(E)) = Len(E) - 1
          /\ Tail(E) # <<>> <=> Len(E) >= 2
          /\ Tail(E) # <<>> => /\ Head(Tail(E)).start = EndOf(Head(E))
                               /\ Head(Tail(E)).first = Head(E).first + Executed(Head(E))
                               /\ Last(Tail(E)) = Last(E)
          /\ ToSet(Tail(E)) \subseteq ToSet(E)
          /\ \A e \in ToSet(E) : e = Head(E) \/ e \in ToSet(Tail(E))
          /\ \A e \in ToSet(Tail(E)) : /\ EndOf(Head(E)) <= e.start
                                       /\ Head(E).first + Executed(Head(E)) <= e.first
<1> DEFINE F == Tail(E)
           n == Len(E)
<1>1. /\ F \in Seq(EntryRecords) /\ Len(F) = n - 1 /\ n \in Nat /\ n >= 1
      /\ (\A i \in 1 .. n - 1 : F[i] = E[i + 1])
      /\ DOMAIN F = 1 .. n - 1 /\ DOMAIN E = 1 .. n
  BY HeadTailProperties
<1>2. Head(E) = E[1] /\ Last(E) = E[n] /\ (n >= 2 => Head(F) = F[1] /\ Last(F) = F[n - 1])
  BY <1>1 DEF Last
<1>3. F # <<>> <=> n >= 2
  BY <1>1
<1> HIDE DEF F, n
<1>4. /\ \A i \in 1 .. n : WellFormed(E[i])
      /\ \A i \in 1 .. n - 1 : /\ E[i + 1].start = EndOf(E[i])
                               /\ E[i + 1].first = E[i].first + Executed(E[i])
      /\ \A i, j \in 1 .. n : i < j => /\ EndOf(E[i]) <= E[j].start
                                       /\ E[i].first + Executed(E[i]) <= E[j].first
  BY <1>1 DEF Contiguous, n
<1>5. Contiguous(F)
  <2>1. \A i \in 1 .. n - 1 : WellFormed(F[i])
    <3> SUFFICES ASSUME NEW i \in 1 .. n - 1 PROVE WellFormed(F[i])
      OBVIOUS
    <3>1. i + 1 \in 1 .. n /\ F[i] = E[i + 1]
      BY ONLY <1>1, i \in 1 .. n - 1
    <3> QED BY <3>1, <1>4
  <2>2. \A i \in 1 .. (n - 1) - 1 : /\ F[i + 1].start = EndOf(F[i])
                                    /\ F[i + 1].first = F[i].first + Executed(F[i])
    <3> SUFFICES ASSUME NEW i \in 1 .. (n - 1) - 1
                 PROVE /\ F[i + 1].start = EndOf(F[i])
                       /\ F[i + 1].first = F[i].first + Executed(F[i])
      OBVIOUS
    <3>1. i \in 1 .. n - 1 /\ i + 1 \in 1 .. n - 1
      BY ONLY <1>1, i \in 1 .. (n - 1) - 1
    <3>2. F[i] = E[i + 1] /\ F[i + 1] = E[(i + 1) + 1]
      BY ONLY <1>1, <3>1
    <3> QED BY <3>1, <3>2, <1>4
  <2>3. \A i, j \in 1 .. n - 1 : i < j => /\ EndOf(F[i]) <= F[j].start
                                          /\ F[i].first + Executed(F[i]) <= F[j].first
    <3> SUFFICES ASSUME NEW i \in 1 .. n - 1, NEW j \in 1 .. n - 1, i < j
                 PROVE /\ EndOf(F[i]) <= F[j].start
                       /\ F[i].first + Executed(F[i]) <= F[j].first
      OBVIOUS
    <3>1. i + 1 \in 1 .. n /\ j + 1 \in 1 .. n /\ i + 1 < j + 1
      BY ONLY <1>1, i \in 1 .. n - 1, j \in 1 .. n - 1, i < j
    <3>2. F[i] = E[i + 1] /\ F[j] = E[j + 1]
      BY ONLY <1>1, i \in 1 .. n - 1, j \in 1 .. n - 1
    <3> QED BY <3>1, <3>2, <1>4
  <2> QED BY ONLY <2>1, <2>2, <2>3, <1>1 DEF Contiguous
<1>6. F # <<>> => /\ Head(F).start = EndOf(Head(E))
                  /\ Head(F).first = Head(E).first + Executed(Head(E))
                  /\ Last(F) = Last(E)
  <2> SUFFICES ASSUME n >= 2
               PROVE /\ Head(F).start = EndOf(Head(E))
                     /\ Head(F).first = Head(E).first + Executed(Head(E))
                     /\ Last(F) = Last(E)
    BY <1>3
  <2>1. 1 \in 1 .. n - 1 /\ n - 1 \in 1 .. n - 1 /\ (n - 1) + 1 = n
    BY ONLY <1>1, n >= 2
  <2>2. F[1] = E[1 + 1] /\ F[n - 1] = E[n]
    BY ONLY <2>1, <1>1
  <2> QED BY <2>1, <2>2, <1>2, <1>4
<1>7. ASSUME NEW e \in ToSet(F)
      PROVE /\ e \in ToSet(E) /\ EndOf(Head(E)) <= e.start
            /\ Head(E).first + Executed(Head(E)) <= e.first
  <2>1. PICK i \in 1 .. n - 1 : e = F[i]
    BY <1>1, <1>7 DEF ToSet
  <2>2. i + 1 \in 1 .. n /\ 1 \in 1 .. n /\ 1 < i + 1 /\ e = E[i + 1]
    BY ONLY <1>1, <2>1
  <2> QED BY <2>2, <1>1, <1>2, <1>4 DEF ToSet
<1>8. ASSUME NEW e \in ToSet(E) PROVE e = Head(E) \/ e \in ToSet(F)
  <2>1. PICK i \in 1 .. n : e = E[i]
    BY <1>1, <1>8 DEF ToSet
  <2>2. CASE i = 1
    BY <2>1, <2>2, <1>2
  <2>3. CASE i # 1
    <3>1. i - 1 \in 1 .. n - 1 /\ (i - 1) + 1 = i
      BY ONLY <2>1, <2>3, <1>1
    <3>2. F[i - 1] = e
      BY ONLY <3>1, <2>1, <1>1
    <3> QED BY <3>1, <3>2, <1>1 DEF ToSet
  <2> QED BY <2>2, <2>3
<1> QED BY <1>1, <1>3, <1>5, <1>6, <1>7, <1>8 DEF F, n

-----------------------------------------------------------------------------
(* The image of the oracle and the memory.                                 *)

\* The oracle's image takes the words of an entry that fits.
LEMMA ImageAppendFits ==
    ASSUME NEW m \in Images, OwnersFit(m), NEW e, WellFormed(e), e.start = m.append,
           m.release <= m.append, m.append + Words(e) <= m.release + Capacity
    PROVE /\ ImageAppendLegal(m, e) /\ ImageAppend(m, e) \in Images /\ OwnersFit(ImageAppend(m, e))
          /\ ImageAppend(m, e).append = m.append + Words(e)
          /\ ImageAppend(m, e).release = m.release /\ ImageAppend(m, e).expected = m.expected
<1> DEFINE a == m.append
           r == m.release
           k == Words(e)
           o == [c \in Cell |-> IF \E w \in WordsOf(e) : CellOf(w) = c
                                THEN CHOOSE w \in WordsOf(e) : CellOf(w) = c
                                ELSE m.owner[c]]
           M == ImageAppend(m, e)
<1>1. /\ a \in Nat /\ r \in Nat /\ k \in 1 .. 5 /\ WordsOf(e) = a .. (a + k) - 1
      /\ m.owner \in [Cell -> Nat \cup {NoWord}]
      /\ EndOf(e) = a + k
  BY EntryFacts DEF Images
<1>nums. a \in Nat /\ r \in Nat /\ k \in 1 .. 5 /\ r <= a /\ a + k <= r + Capacity /\ Capacity \in Nat
         /\ Capacity > 10
  BY <1>1, CapacityFacts
<1>2. M = [owner |-> o, append |-> a + k, release |-> r, expected |-> m.expected]
  <2>1. M = [m EXCEPT !.owner = o, !.append = a + k]
    BY DEF ImageAppend
  <2> QED BY <2>1 DEF Images
<1>3. \A v \in WordsOf(e) : CellOf(v) \in Cell /\ v \in Nat
  BY <1>1, CellRange
<1>4. \A v, w \in WordsOf(e) : CellOf(v) = CellOf(w) => v = w
  <2> SUFFICES ASSUME NEW v \in WordsOf(e), NEW w \in WordsOf(e), CellOf(v) = CellOf(w)
               PROVE v = w
    OBVIOUS
  <2>1. v \in Int /\ w \in Int /\ v < w + Capacity /\ w < v + Capacity
    <3> HIDE DEF a, k, r
    <3>1. v \in a .. (a + k) - 1 /\ w \in a .. (a + k) - 1
      BY <1>1
    <3> QED BY ONLY <3>1, <1>nums
  <2>2. v <= w \/ w <= v
    BY <2>1
  <2> QED BY <2>1, <2>2, CellInjective
<1>5. \A v \in r .. a - 1, w \in WordsOf(e) : CellOf(v) # CellOf(w)
  <2> SUFFICES ASSUME NEW v \in r .. a - 1, NEW w \in WordsOf(e), CellOf(v) = CellOf(w)
               PROVE FALSE
    OBVIOUS
  <2>1. v \in Int /\ w \in Int /\ v < w /\ w < v + Capacity
    <3> HIDE DEF a, k, r
    <3>1. w \in a .. (a + k) - 1
      BY <1>1
    <3> QED BY ONLY <3>1, <1>nums, v \in r .. a - 1
  <2>2. v <= w /\ v # w
    BY <2>1
  <2> QED BY <2>1, <2>2, CellInjective
<1>6. /\ \A w \in r .. a - 1 : m.owner[CellOf(w)] = w
      /\ \A c \in Cell : m.owner[c] # NoWord => m.owner[c] \in r .. a - 1 /\ CellOf(m.owner[c]) = c
  BY DEF OwnersFit
<1>7. \A w \in WordsOf(e) : m.owner[CellOf(w)] = NoWord
  BY <1>3, <1>5, <1>6
<1>8. ImageAppendLegal(m, e)
  BY <1>7 DEF ImageAppendLegal, OwnerOf
<1>9. \A c \in Cell : \/ o[c] \in WordsOf(e) /\ CellOf(o[c]) = c
                      \/ o[c] = m.owner[c] /\ \A w \in WordsOf(e) : CellOf(w) # c
  OBVIOUS
<1>10. \A w \in WordsOf(e) : o[CellOf(w)] = w
  BY <1>3, <1>4, <1>9
<1>11. o \in [Cell -> Nat \cup {NoWord}]
  <2>1. \A c \in Cell : o[c] \in Nat \cup {NoWord}
    BY <1>1, <1>3, <1>9
  <2>2. o = [c \in Cell |-> o[c]]
    OBVIOUS
  <2> HIDE DEF o
  <2> QED BY <2>1, <2>2
<1>12. a + k \in Nat
  BY ONLY <1>nums
<1>13. M \in Images /\ M.append = a + k /\ M.release = r /\ M.expected = m.expected /\ M.owner = o
  <2>1. m.expected \in Cell
    BY DEF Images
  <2> HIDE DEF M, o, a, k, r
  <2> QED BY ONLY <2>1, <1>nums, <1>2, <1>11, <1>12 DEF Images
<1>14. \A w \in r .. (a + k) - 1 : o[CellOf(w)] = w
  <2> SUFFICES ASSUME NEW w \in r .. (a + k) - 1 PROVE o[CellOf(w)] = w
    OBVIOUS
  <2>1. CASE w < a
    <3>1. w \in r .. a - 1 /\ w \in Int
      BY ONLY <2>1, <1>nums, w \in r .. (a + k) - 1
    <3>2. CellOf(w) \in Cell /\ \A v \in WordsOf(e) : CellOf(v) # CellOf(w)
      BY <3>1, <1>5, CellRange
    <3>3. o[CellOf(w)] = m.owner[CellOf(w)]
      BY <3>2, <1>9
    <3> QED BY <3>1, <3>3, <1>6
  <2>2. CASE w >= a
    <3>1. w \in a .. (a + k) - 1
      BY ONLY <2>2, <1>nums, w \in r .. (a + k) - 1
    <3> QED BY <3>1, <1>1, <1>10
  <2> QED BY ONLY <2>1, <2>2, <1>nums, w \in r .. (a + k) - 1
<1>15. \A c \in Cell : o[c] # NoWord => o[c] \in r .. (a + k) - 1 /\ CellOf(o[c]) = c
  <2> SUFFICES ASSUME NEW c \in Cell, o[c] # NoWord PROVE o[c] \in r .. (a + k) - 1 /\ CellOf(o[c]) = c
    OBVIOUS
  <2>1. CASE o[c] \in WordsOf(e) /\ CellOf(o[c]) = c
    <3>1. o[c] \in a .. (a + k) - 1
      BY <2>1, <1>1
    <3> HIDE DEF a, k, r, o
    <3>2. o[c] \in r .. (a + k) - 1
      BY ONLY <3>1, <1>nums
    <3> QED BY <3>2, <2>1
  <2>2. CASE o[c] = m.owner[c]
    <3>1. o[c] \in r .. a - 1 /\ CellOf(o[c]) = c
      BY <2>2, <1>6
    <3> HIDE DEF a, k, r, o
    <3>2. o[c] \in r .. (a + k) - 1
      BY ONLY <3>1, <1>nums
    <3> QED BY <3>1, <3>2
  <2> QED BY <2>1, <2>2, <1>9
<1>16. OwnersFit(M)
  <2> HIDE DEF M, o, a, k, r
  <2> QED BY <1>13, <1>14, <1>15 DEF OwnersFit
<1> QED BY <1>8, <1>13, <1>16

\* The oracle's image releases its oldest words.
LEMMA ImageReleaseFits ==
    ASSUME NEW m \in Images, OwnersFit(m), NEW count \in Nat, m.append <= m.release + Capacity,
           m.release + count <= m.append
    PROVE LET M == ImageRelease(m, m.release, count) IN
          /\ ImageReleaseLegal(m, m.release, count) /\ M \in Images /\ OwnersFit(M)
          /\ M.append = m.append /\ M.release = m.release + count /\ M.expected = m.expected
<1> DEFINE a == m.append
           r == m.release
           S == r .. (r + count) - 1
           o == [c \in Cell |-> IF \E w \in S : CellOf(w) = c THEN NoWord ELSE m.owner[c]]
           M == ImageRelease(m, r, count)
<1>1. /\ a \in Nat /\ r \in Nat /\ m.owner \in [Cell -> Nat \cup {NoWord}] /\ m.expected \in Cell
  BY DEF Images
<1>nums. a \in Nat /\ r \in Nat /\ count \in Nat /\ r + count <= a /\ a <= r + Capacity
         /\ Capacity \in Nat
  BY <1>1, CapacityFacts
<1>2. M = [owner |-> o, append |-> a, release |-> r + count, expected |-> m.expected]
  <2>1. S = r .. r + count - 1
    BY <1>nums
  <2>2. M = [m EXCEPT !.owner = o, !.release = r + count]
    BY <2>1 DEF ImageRelease
  <2> QED BY <2>2 DEF Images
<1>3. /\ \A w \in r .. a - 1 : m.owner[CellOf(w)] = w
      /\ \A c \in Cell : m.owner[c] # NoWord => m.owner[c] \in r .. a - 1 /\ CellOf(m.owner[c]) = c
  BY DEF OwnersFit
<1>4. ImageReleaseLegal(m, r, count)
  <2>1. \A w \in r .. r + count - 1 : w \in r .. a - 1
    <3> HIDE DEF a, r
    <3> QED BY ONLY <1>nums
  <2> QED BY <2>1, <1>3 DEF ImageReleaseLegal, OwnerOf
<1>5. \A c \in Cell : \/ o[c] = NoWord /\ \E w \in S : CellOf(w) = c
                      \/ o[c] = m.owner[c] /\ \A w \in S : CellOf(w) # c
  OBVIOUS
<1>6. o \in [Cell -> Nat \cup {NoWord}]
  BY <1>1
<1>7. M \in Images /\ M.append = a /\ M.release = r + count /\ M.expected = m.expected /\ M.owner = o
  <2>1. r + count \in Nat
    BY <1>nums
  <2> HIDE DEF M, o, a, r
  <2> QED BY ONLY <2>1, <1>1, <1>2, <1>6 DEF Images
<1>8. \A w \in r + count .. a - 1 : o[CellOf(w)] = w
  <2> SUFFICES ASSUME NEW w \in r + count .. a - 1 PROVE o[CellOf(w)] = w
    OBVIOUS
  <2> HIDE DEF a, r
  <2>1. w \in r .. a - 1 /\ w \in Int
    BY ONLY <1>nums, w \in r + count .. a - 1
  <2>2. ASSUME NEW v \in S PROVE CellOf(v) # CellOf(w)
    <3>1. v \in Int /\ v < w /\ w < v + Capacity
      BY ONLY <1>nums, v \in r .. (r + count) - 1, w \in r + count .. a - 1
    <3>2. v <= w /\ v # w
      BY <3>1, <2>1
    <3> QED BY <2>1, <3>1, <3>2, CellInjective
  <2>3. CellOf(w) \in Cell
    BY <2>1, CellRange
  <2>4. o[CellOf(w)] = m.owner[CellOf(w)]
    BY <2>2, <2>3, <1>5
  <2> QED BY <2>1, <2>4, <1>3
<1>9. \A c \in Cell : o[c] # NoWord => o[c] \in r + count .. a - 1 /\ CellOf(o[c]) = c
  <2> SUFFICES ASSUME NEW c \in Cell, o[c] # NoWord PROVE o[c] \in r + count .. a - 1 /\ CellOf(o[c]) = c
    OBVIOUS
  <2>1. o[c] = m.owner[c] /\ \A w \in S : CellOf(w) # c
    BY <1>5
  <2>2. o[c] \in r .. a - 1 /\ CellOf(o[c]) = c
    BY <2>1, <1>3
  <2>3. o[c] \notin S
    BY <2>1, <2>2
  <2> HIDE DEF a, r, o
  <2>4. o[c] \in r + count .. a - 1
    BY ONLY <2>2, o[c] \notin r .. (r + count) - 1, <2>3, <1>nums DEF S
  <2> QED BY <2>2, <2>4
<1>10. OwnersFit(M)
  <2> HIDE DEF M, o, a, r
  <2> QED BY <1>7, <1>8, <1>9 DEF OwnersFit
<1> QED BY <1>4, <1>7, <1>10

\* The memory after a patch.
WrittenBy(e) ==
    [c \in Cell |->
       IF \E w \in WordsOf(e) : CellOf(w) = c
       THEN LET w == CHOOSE w \in WordsOf(e) : CellOf(w) = c
            IN  [word |-> w, kind |-> e.kinds[w - e.start + 1]]
       ELSE imem[c]]

\* A patch writes the words of the entry to their cells, and nothing else.
LEMMA PatchedMemory ==
    ASSUME NEW e, WellFormed(e), imem \in [Cell -> [word : Nat \cup {NoWord}, kind : WordKinds]]
    PROVE LET mem == WrittenBy(e) IN
          /\ mem \in [Cell -> [word : Nat \cup {NoWord}, kind : WordKinds]]
          /\ \A w \in WordsOf(e) : mem[CellOf(w)] = [word |-> w, kind |-> KindAt(e, w)]
          /\ \A c \in Cell : \/ mem[c] = imem[c]
                             \/ \E w \in WordsOf(e) : CellOf(w) = c /\ mem[c].word = w
          /\ \A c \in Cell : (\A w \in WordsOf(e) : CellOf(w) # c) => mem[c] = imem[c]
<1> DEFINE a == e.start
           k == Words(e)
           mem == WrittenBy(e)
<1>0. mem = [c \in Cell |->
               IF \E w \in WordsOf(e) : CellOf(w) = c
               THEN LET w == CHOOSE w \in WordsOf(e) : CellOf(w) = c
                    IN  [word |-> w, kind |-> e.kinds[w - e.start + 1]]
               ELSE imem[c]]
  BY DEF WrittenBy
<1> HIDE DEF mem
<1>1. a \in Nat /\ k \in 1 .. 5 /\ WordsOf(e) = a .. (a + k) - 1
  BY EntryFacts
<1>2. Capacity \in Nat /\ Capacity > 10
  BY CapacityFacts
<1>3. \A w \in WordsOf(e) : w \in Nat /\ CellOf(w) \in Cell
  BY <1>1, CellRange
<1>4. \A v, w \in WordsOf(e) : CellOf(v) = CellOf(w) => v = w
  <2> SUFFICES ASSUME NEW v \in WordsOf(e), NEW w \in WordsOf(e), CellOf(v) = CellOf(w)
               PROVE v = w
    OBVIOUS
  <2>1. v \in Int /\ w \in Int /\ v < w + Capacity /\ w < v + Capacity
    <3>1. v \in a .. (a + k) - 1 /\ w \in a .. (a + k) - 1
      BY <1>1
    <3> HIDE DEF a, k
    <3> QED BY ONLY <3>1, <1>1, <1>2
  <2>2. v <= w \/ w <= v
    BY <2>1
  <2> QED BY <2>1, <2>2, CellInjective
<1>5. \A w \in WordsOf(e) : KindAt(e, w) \in WordKinds
  <2> SUFFICES ASSUME NEW w \in WordsOf(e) PROVE KindAt(e, w) \in WordKinds
    OBVIOUS
  <2>1. (w - a) + 1 \in 1 .. k /\ (w - a) + 1 = w - a + 1
    <3>1. w \in a .. (a + k) - 1
      BY <1>1
    <3> HIDE DEF a, k
    <3> QED BY ONLY <3>1, <1>1
  <2>2. e.kinds \in Seq(WordKinds) /\ Len(e.kinds) = k
    BY DEF WellFormed, EntryRecords, Words
  <2>3. e.kinds[(w - a) + 1] \in WordKinds
    <3> HIDE DEF a, k
    <3> QED BY ONLY <2>1, <2>2
  <2> QED BY <2>1, <2>3 DEF KindAt
<1>6. \A c \in Cell : \/ \E w \in WordsOf(e) : CellOf(w) = c /\ mem[c] = [word |-> w, kind |-> KindAt(e, w)]
                      \/ mem[c] = imem[c] /\ \A w \in WordsOf(e) : CellOf(w) # c
  <2> SUFFICES ASSUME NEW c \in Cell
               PROVE \/ \E w \in WordsOf(e) : CellOf(w) = c /\ mem[c] = [word |-> w, kind |-> KindAt(e, w)]
                     \/ mem[c] = imem[c] /\ \A w \in WordsOf(e) : CellOf(w) # c
    OBVIOUS
  <2>1. CASE \E w \in WordsOf(e) : CellOf(w) = c
    <3> DEFINE u == CHOOSE w \in WordsOf(e) : CellOf(w) = c
    <3>1. u \in WordsOf(e) /\ CellOf(u) = c
      BY <2>1
    <3>2. mem[c] = [word |-> u, kind |-> KindAt(e, u)]
      BY <2>1, <1>0 DEF KindAt
    <3> HIDE DEF u
    <3> QED BY <3>1, <3>2
  <2>2. CASE ~\E w \in WordsOf(e) : CellOf(w) = c
    BY <2>2, <1>0
  <2> QED BY <2>1, <2>2
<1>7. DOMAIN mem = Cell /\ mem = [c \in Cell |-> mem[c]]
  BY <1>0
<1>8. \A c \in Cell : mem[c] \in [word : Nat \cup {NoWord}, kind : WordKinds]
  <2> SUFFICES ASSUME NEW c \in Cell PROVE mem[c] \in [word : Nat \cup {NoWord}, kind : WordKinds]
    OBVIOUS
  <2>1. CASE mem[c] = imem[c]
    BY <2>1
  <2>2. CASE \E w \in WordsOf(e) : mem[c] = [word |-> w, kind |-> KindAt(e, w)]
    BY <2>2, <1>3, <1>5
  <2> QED BY <2>1, <2>2, <1>6
<1>9. mem \in [Cell -> [word : Nat \cup {NoWord}, kind : WordKinds]]
  BY ONLY <1>7, <1>8
<1>10. \A w \in WordsOf(e) : mem[CellOf(w)] = [word |-> w, kind |-> KindAt(e, w)]
  <2> SUFFICES ASSUME NEW w \in WordsOf(e) PROVE mem[CellOf(w)] = [word |-> w, kind |-> KindAt(e, w)]
    OBVIOUS
  <2>1. PICK v \in WordsOf(e) : CellOf(v) = CellOf(w)
                                /\ mem[CellOf(w)] = [word |-> v, kind |-> KindAt(e, v)]
    BY <1>3, <1>6
  <2>2. v = w
    BY <2>1, <1>4
  <2> QED BY ONLY <2>1, <2>2
<1>11. \A c \in Cell : \/ mem[c] = imem[c]
                       \/ \E w \in WordsOf(e) : CellOf(w) = c /\ mem[c].word = w
  <2> SUFFICES ASSUME NEW c \in Cell, mem[c] # imem[c]
               PROVE \E w \in WordsOf(e) : CellOf(w) = c /\ mem[c].word = w
    OBVIOUS
  <2>1. PICK w \in WordsOf(e) : CellOf(w) = c /\ mem[c] = [word |-> w, kind |-> KindAt(e, w)]
    BY <1>6
  <2>2. mem[c].word = w
    BY <2>1
  <2> QED BY <2>1, <2>2
<1>12. \A c \in Cell : (\A w \in WordsOf(e) : CellOf(w) # c) => mem[c] = imem[c]
  BY <1>6
<1> QED BY <1>9, <1>10, <1>11, <1>12 DEF mem

Alive == phase # "done"

-----------------------------------------------------------------------------
(* An accepted instruction.                                                *)

\* What the invariant says of the entry that is being executed.
LEMMA HeadFacts ==
    ASSUME StreamInv, Alive
    PROVE /\ Entries \in Seq(EntryRecords) /\ Entries # <<>> /\ Contiguous(Entries)
          /\ ring.entries = Entries
          /\ WellFormed(HeadEntry) /\ WellFormed(Last(Entries))
          /\ HeadEntry \in ToSet(Entries) /\ Last(Entries) \in ToSet(Entries)
          /\ HeadEntry.start = image.release /\ EndOf(Last(Entries)) = image.append
          /\ HeadEntry.first + tracker.progress = tracker.next
          /\ Last(Entries).first + Executed(Last(Entries)) = plan.inst
          /\ tracker.progress < Executed(HeadEntry) /\ tracker.progress \in Nat
          /\ image.append = plan.word
          /\ plan.inst = tracker.next - tracker.progress + tracker.pending
          /\ EndOf(HeadEntry) <= image.append
          /\ tracker.next < plan.inst
          /\ image.append = image.release + ring.used /\ ring.used <= Capacity
          /\ image.append \in Nat /\ image.release \in Nat /\ ring.used \in Nat
          /\ tracker.next \in Nat /\ plan.inst \in Nat /\ tracker.pending \in Nat
          /\ tracker.accepted \in Nat /\ tracker.next = tracker.accepted + 1
          /\ image \in Images /\ OwnersFit(image)
          /\ config.budget \in Nat /\ config.nominal \in Nat /\ config.budget >= 1 /\ config.nominal >= 1
<1> DEFINE E == Entries
<1>1. /\ E \in Seq(EntryRecords) /\ tracker.progress \in Nat /\ tracker.next \in Nat
      /\ tracker.pending \in Nat /\ tracker.accepted \in Nat /\ plan.inst \in Nat
      /\ image.append \in Nat /\ image.release \in Nat /\ ring.used \in Nat /\ image \in Images
  BY DEF StreamInv, StreamTypes, Trackers, Plans, Images, Rings, Entries
<1>2. /\ ring.entries = E /\ Contiguous(E)
      /\ image.append = image.release + ring.used /\ ring.used <= Capacity
      /\ tracker.next = tracker.accepted + 1
      /\ E # <<>>
      /\ Head(E).start = image.release /\ EndOf(Last(E)) = image.append
      /\ Head(E).first + tracker.progress = tracker.next
      /\ Last(E).first + Executed(Last(E)) = plan.inst
      /\ tracker.progress < Executed(Head(E))
      /\ image.append = plan.word
      /\ plan.inst = tracker.next - tracker.progress + tracker.pending
  BY DEF StreamInv, StreamFits, Alive
<1>3. Head(E) = HeadEntry
  BY DEF HeadEntry, Entries
<1>4. config.budget \in Nat \ {0} /\ config.nominal \in Nat \ {0}
  BY ConfigAssumption DEF StreamInv, StreamTypes
<1>5. OwnersFit(image)
  BY DEF StreamInv, MemoryFits
<1> HIDE DEF E
<1>6. /\ Head(E) \in ToSet(E) /\ Last(E) \in ToSet(E)
      /\ \A e \in ToSet(E) : WellFormed(e) /\ EndOf(e) <= EndOf(Last(E))
      /\ Len(E) >= 2 => Head(E).first + Executed(Head(E)) <= Last(E).first
      /\ Len(E) < 2 => Head(E) = Last(E)
  BY <1>1, <1>2, Members
<1>7. tracker.next < plan.inst
  <2>0. Len(E) \in Nat
    BY <1>1
  <2>1. /\ Head(E).first \in Nat /\ Executed(Head(E)) \in Nat
        /\ Last(E).first \in Nat /\ Executed(Last(E)) \in 1 .. 5
    BY <1>6, EntryFacts
  <2>2. CASE Len(E) >= 2
    <3> DEFINE a == Head(E).first
               x == Executed(Head(E))
               b == Last(E).first
               y == Executed(Last(E))
               p == tracker.progress
    <3>1. /\ a \in Nat /\ x \in Nat /\ b \in Nat /\ y \in Nat /\ y >= 1 /\ p \in Nat
          /\ a + x <= b /\ p < x /\ a + p = tracker.next /\ b + y = plan.inst
      <4>1. a + x <= b
        BY ONLY <2>2, <1>6
      <4>2. y >= 1 /\ y \in Nat
        BY ONLY <2>1
      <4>3. p < x /\ a + p = tracker.next /\ b + y = plan.inst
        BY ONLY <1>2
      <4> QED BY ONLY <4>1, <4>2, <4>3, <2>1, <1>1
    <3> HIDE DEF a, x, b, y, p
    <3> QED BY ONLY <3>1
  <2>3. CASE Len(E) < 2
    <3> DEFINE a == Head(E).first
               x == Executed(Head(E))
               p == tracker.progress
    <3>1. /\ a \in Nat /\ x \in Nat /\ p \in Nat
          /\ p < x /\ a + p = tracker.next /\ a + x = plan.inst
      BY <2>1, <2>3, <1>1, <1>2, <1>6
    <3> HIDE DEF a, x, p
    <3> QED BY ONLY <3>1
  <2> QED BY ONLY <2>0, <2>2, <2>3
<1>8. config.budget \in Nat /\ config.nominal \in Nat /\ config.budget >= 1 /\ config.nominal >= 1
  BY <1>4
<1> QED BY <1>1, <1>2, <1>3, <1>5, <1>6, <1>7, <1>8 DEF E

\* The next word and the one behind it.
LEMMA WordFacts ==
    ASSUME NEW e, WellFormed(e), NEW k \in Nat, k < Executed(e)
    PROVE LET n == WordAt(e, k) IN
          /\ n \in Nat /\ n \in WordsOf(e)
          /\ KindAt(e, n) \in WordKinds /\ KindAt(e, n) # "none"
          /\ k + 1 < Executed(e) =>
               WordAt(e, k + 1) = n + Step(KindAt(e, n)) /\ WordAt(e, k + 1) \in WordsOf(e)
          /\ k + 1 = Executed(e) => n + 1 = EndOf(e) /\ KindAt(e, n) # "link"
<1> DEFINE n == WordAt(e, k)
           o == e.offsets[k + 1]
           s == e.start
           d == Words(e)
           x == Executed(e)
<1>1. /\ s \in Nat /\ d \in 1 .. 5 /\ x \in 1 .. d /\ EndOf(e) = s + d
      /\ WordsOf(e) = s .. (s + d) - 1
  BY EntryFacts
<1>2. n = s + o
  BY DEF WordAt
<1>3. /\ e.offsets[x] = d - 1
      /\ \A i \in 1 .. x : e.offsets[i] \in 0 .. d - 1
      /\ \A i \in 1 .. x - 1 : e.offsets[i + 1] = e.offsets[i] + Step(e.kinds[e.offsets[i] + 1])
      /\ e.kinds[d] # "link"
      /\ \A i \in 1 .. d : e.kinds[i] # "none"
      /\ e.kinds \in Seq(WordKinds) /\ Len(e.kinds) = d
  BY DEF WellFormed, EntryRecords, Words
<1>4. k + 1 \in 1 .. x
  BY <1>1
<1>5. o \in 0 .. d - 1
  BY <1>3, <1>4
<1> HIDE DEF n, o, d, x, s
<1>6. o + 1 \in 1 .. d /\ n \in Nat /\ n \in s .. (s + d) - 1 /\ (n - s) + 1 = o + 1
  BY ONLY <1>1, <1>2, <1>5
<1>7. KindAt(e, n) = e.kinds[o + 1]
  <2>1. n - s + 1 = o + 1
    BY ONLY <1>1, <1>2, <1>5
  <2> QED BY <2>1 DEF KindAt, s
<1>8. e.kinds[o + 1] \in WordKinds /\ e.kinds[o + 1] # "none"
  <2>1. e.kinds[o + 1] \in WordKinds
    BY ONLY <1>3, <1>6
  <2> QED BY <2>1, <1>3, <1>6
<1>9. ASSUME k + 1 < x
      PROVE WordAt(e, k + 1) = n + Step(KindAt(e, n)) /\ WordAt(e, k + 1) \in WordsOf(e)
  <2> DEFINE p == e.offsets[(k + 1) + 1]
             st == Step(e.kinds[o + 1])
  <2>1. k + 1 \in 1 .. x - 1 /\ (k + 1) + 1 \in 1 .. x
    BY ONLY <1>9, <1>4, <1>1, k \in Nat
  <2>2. p = o + st /\ p \in 0 .. d - 1 /\ st \in Nat
    <3>1. p \in 0 .. d - 1 /\ p = o + st
      BY <2>1, <1>3 DEF o
    <3>2. st \in Nat
      BY DEF Step
    <3> QED BY <3>1, <3>2
  <2>3. WordAt(e, k + 1) = s + p
    BY DEF WordAt, s
  <2> HIDE DEF p, st
  <2>4. s + p = n + st /\ s + p \in s .. (s + d) - 1
    BY ONLY <2>2, <1>1, <1>2, <1>5
  <2> QED BY <2>3, <2>4, <1>1, <1>7 DEF st
<1>10. ASSUME k + 1 = x PROVE n + 1 = EndOf(e) /\ KindAt(e, n) # "link"
  <2>1. o = d - 1
    BY <1>10, <1>3 DEF o
  <2>2. o + 1 = d /\ n + 1 = s + d
    BY ONLY <2>1, <1>1, <1>2, <1>5
  <2> QED BY <2>2, <1>1, <1>3, <1>7
<1> QED BY <1>1, <1>6, <1>7, <1>8, <1>9, <1>10 DEF n, x

\* The next word is owned and in memory, and so is the one that follows it.
LEMMA NextWordFacts ==
    ASSUME StreamInv, Alive
    PROVE /\ NextWord \in Nat /\ NextWord \in WordsOf(HeadEntry) /\ NextWord # NoWord
          /\ image.owner[CellOf(NextWord)] = NextWord
          /\ imem[CellOf(NextWord)] = [word |-> NextWord, kind |-> KindAt(HeadEntry, NextWord)]
          /\ KindAt(HeadEntry, NextWord) \in WordKinds /\ KindAt(HeadEntry, NextWord) # "none"
          /\ ~Completes(tracker) =>
               /\ tracker.progress + 1 < Executed(HeadEntry)
               /\ WordAt(HeadEntry, tracker.progress + 1)
                    = NextWord + Step(KindAt(HeadEntry, NextWord))
               /\ WordAt(HeadEntry, tracker.progress + 1) \in WordsOf(HeadEntry)
          /\ Completes(tracker) => /\ NextWord + 1 = EndOf(HeadEntry)
                                   /\ tracker.progress + 1 = Executed(HeadEntry)
                                   /\ KindAt(HeadEntry, NextWord) # "link"
<1>1. /\ WellFormed(HeadEntry) /\ tracker.progress \in Nat
      /\ tracker.progress < Executed(HeadEntry) /\ HeadEntry \in ToSet(Entries)
      /\ HeadEntry.start = image.release /\ EndOf(HeadEntry) <= image.append
      /\ image.append \in Nat /\ image.release \in Nat /\ OwnersFit(image)
  BY HeadFacts
<1>2. NextWord = WordAt(HeadEntry, tracker.progress)
  BY DEF NextWord, HeadEntry, Entries
<1>3. Completes(tracker) <=> tracker.progress + 1 = Executed(HeadEntry)
  BY DEF Completes, HeadEntry
<1>4. /\ NextWord \in Nat /\ NextWord \in WordsOf(HeadEntry)
      /\ KindAt(HeadEntry, NextWord) \in WordKinds /\ KindAt(HeadEntry, NextWord) # "none"
  BY <1>1, <1>2, WordFacts
<1>5. tracker.progress + 1 < Executed(HeadEntry) =>
        /\ WordAt(HeadEntry, tracker.progress + 1) = NextWord + Step(KindAt(HeadEntry, NextWord))
        /\ WordAt(HeadEntry, tracker.progress + 1) \in WordsOf(HeadEntry)
  BY <1>1, <1>2, WordFacts
<1>6. tracker.progress + 1 = Executed(HeadEntry) =>
        NextWord + 1 = EndOf(HeadEntry) /\ KindAt(HeadEntry, NextWord) # "link"
  BY <1>1, <1>2, WordFacts
<1>7. /\ EndOf(HeadEntry) \in Nat /\ Executed(HeadEntry) \in Nat
      /\ WordsOf(HeadEntry) = HeadEntry.start .. EndOf(HeadEntry) - 1
  BY <1>1, EntryFacts
<1>8. NextWord \in image.release .. image.append - 1
  BY ONLY <1>1, <1>4, <1>7
<1>9. image.owner[CellOf(NextWord)] = NextWord
  BY <1>1, <1>8 DEF OwnersFit
<1>10. imem[CellOf(NextWord)] = [word |-> NextWord, kind |-> KindAt(HeadEntry, NextWord)]
  BY <1>1, <1>4 DEF StreamInv, MemoryFits
<1>11. ~Completes(tracker) => tracker.progress + 1 < Executed(HeadEntry)
  BY ONLY <1>1, <1>3, <1>7
<1>12. NextWord # NoWord
  BY <1>4, SmallNumbers
<1> QED BY <1>3, <1>4, <1>5, <1>6, <1>9, <1>10, <1>11, <1>12

\* What is accepted is the next word of the plan.
LEMMA AcceptedWord ==
    ASSUME StreamInv, Accepts
    PROVE /\ Alive /\ tracker.next <= config.budget
          /\ hw.a.word = NextWord /\ hw.a.cell = CellOf(NextWord)
          /\ hw.a.kind = KindAt(HeadEntry, NextWord) /\ hw.pc = CellOf(NextWord + 1)
          /\ image.expected = CellOf(NextWord)
<1>1. Alive
  BY DEF Alive, Accepts
<1>2. HeadEntry = Head(Entries)
  BY DEF HeadEntry, Entries
<1>3. tracker.next <= config.budget
  BY <1>1 DEF StreamInv, EpochFits, Alive
<1> QED BY <1>1, <1>2, <1>3 DEF StreamInv, FetchFits, Alive, Accepts

\* The window after an acceptance, which completes an entry or not.
LEMMA TrackerAccepts ==
    ASSUME StreamInv, Accepts
    PROVE /\ TrackerAfter \in Trackers /\ RingAfter \in Rings
          /\ RingAfter.entries = TrackerAfter.entries /\ Contiguous(TrackerAfter.entries)
          /\ TrackerAfter.next = tracker.next + 1 /\ TrackerAfter.accepted = tracker.accepted + 1
          /\ plan.inst = TrackerAfter.next - TrackerAfter.progress + TrackerAfter.pending
          /\ ToSet(TrackerAfter.entries) \subseteq ToSet(Entries)
          /\ ~Released => /\ TrackerAfter.entries = Entries
                          /\ TrackerAfter.progress = tracker.progress + 1
                          /\ RingAfter = ring
          /\ Released => /\ TrackerAfter.entries = Tail(Entries) /\ TrackerAfter.progress = 0
                         /\ RingAfter.used = ring.used - Words(HeadEntry)
                         /\ RingAfter.entries = Tail(Entries)
          /\ Released => tracker.progress + 1 = Executed(HeadEntry)
<1> DEFINE T == TrackerAfter
           h == HeadEntry
<1>1. Alive
  BY AcceptedWord
<1>2. /\ Entries \in Seq(EntryRecords) /\ Entries # <<>> /\ Contiguous(Entries)
      /\ ring.entries = Entries /\ WellFormed(h)
      /\ tracker.progress < Executed(h) /\ tracker.progress \in Nat
      /\ plan.inst = tracker.next - tracker.progress + tracker.pending
      /\ EndOf(h) <= image.append /\ h.start = image.release
      /\ image.append = image.release + ring.used
      /\ image.append \in Nat /\ image.release \in Nat /\ ring.used \in Nat
      /\ tracker.next \in Nat /\ plan.inst \in Nat /\ tracker.pending \in Nat
      /\ tracker.accepted \in Nat
      /\ h.first + tracker.progress = tracker.next
      /\ Last(Entries).first + Executed(Last(Entries)) = plan.inst
      /\ WellFormed(Last(Entries))
  BY <1>1, HeadFacts
<1>3. /\ Executed(h) \in 1 .. 5 /\ Words(h) \in 1 .. 5 /\ EndOf(h) = h.start + Words(h)
      /\ h.first \in Nat /\ Executed(h) \in Nat /\ Words(h) \in Nat
  BY <1>2, EntryFacts
<1>4. tracker \in Trackers /\ ring \in Rings
  BY DEF StreamInv, StreamTypes
<1>5. /\ Entries = tracker.entries /\ h = Head(Entries)
      /\ (Released <=> tracker.progress + 1 = Executed(h))
  BY DEF Released, Completes, HeadEntry, Entries
<1>6. CASE ~Released
  <2>1. T = [tracker EXCEPT !.progress = @ + 1, !.next = @ + 1, !.accepted = @ + 1] /\ RingAfter = ring
    BY <1>6 DEF TrackerAfter, Observe, Released, RingAfter
  <2>2. /\ tracker.progress + 1 \in Nat /\ tracker.next + 1 \in Nat /\ tracker.accepted + 1 \in Nat
        /\ (tracker.next + 1) - (tracker.progress + 1) = tracker.next - tracker.progress
    <3>1. tracker.next \in Nat /\ tracker.progress \in Nat /\ tracker.accepted \in Nat
      BY ONLY <1>2
    <3> QED BY ONLY <3>1
  <2>3. /\ T.entries = tracker.entries /\ T.progress = tracker.progress + 1
        /\ T.next = tracker.next + 1 /\ T.accepted = tracker.accepted + 1
        /\ T.pending = tracker.pending
    BY <2>1, <1>4 DEF Trackers
  <2>4. T \in Trackers
    BY <2>1, <2>2, <1>4 DEF Trackers
  <2>5. plan.inst = T.next - T.progress + T.pending
    BY <2>2, <2>3, <1>2
  <2> HIDE DEF T
  <2>6. RingAfter.entries = T.entries /\ Contiguous(T.entries) /\ ToSet(T.entries) \subseteq ToSet(Entries)
        /\ RingAfter \in Rings /\ T.entries = Entries
    BY <2>1, <2>3, <1>2, <1>4, <1>5
  <2> QED BY <2>1, <2>3, <2>4, <2>5, <2>6, <1>6 DEF T
<1>7. CASE Released
  <2> DEFINE F == Tail(Entries)
             p == tracker.pending - Executed(h)
             u == ring.used - Words(h)
  <2>1. T = [entries |-> F, progress |-> 0, next |-> tracker.next + 1,
             accepted |-> tracker.accepted + 1, pending |-> p]
    BY <1>7, <1>5 DEF TrackerAfter, Observe, Released
  <2>2. RingAfter = [entries |-> F, used |-> u]
    BY <1>2, <1>5, <1>7 DEF RingAfter, ReleaseOldest
  <2>3. F \in Seq(EntryRecords) /\ Contiguous(F) /\ ToSet(F) \subseteq ToSet(Entries)
    BY <1>2, ContiguousTail
  <2>4. p \in Nat /\ u \in Nat /\ tracker.next + 1 \in Nat /\ tracker.accepted + 1 \in Nat
        /\ plan.inst = (tracker.next + 1) - 0 + p
    <3>1. u \in Nat
      BY ONLY <1>2, <1>3
    <3>2. tracker.next < plan.inst
      BY <1>1, HeadFacts
    <3>3. tracker.progress + 1 = Executed(h)
      BY <1>5, <1>7
    <3>4. /\ tracker.next \in Nat /\ tracker.progress \in Nat /\ tracker.accepted \in Nat
          /\ plan.inst \in Nat /\ tracker.pending \in Nat /\ Executed(h) \in Nat
          /\ plan.inst = (tracker.next - tracker.progress) + tracker.pending
      BY <1>2, <1>3
    <3> DEFINE x == Executed(h)
    <3>5. x \in Nat /\ tracker.progress + 1 = x /\ p = tracker.pending - x
      BY <3>3, <3>4
    <3> HIDE DEF x, p
    <3>6. p \in Nat /\ plan.inst = (tracker.next + 1) - 0 + p
      BY ONLY <3>2, <3>4, <3>5
    <3>7. tracker.next + 1 \in Nat /\ tracker.accepted + 1 \in Nat
      BY ONLY <3>4
    <3> QED BY ONLY <3>1, <3>6, <3>7
  <2> HIDE DEF F, p, u
  <2>5. T \in Trackers /\ RingAfter \in Rings
    BY ONLY <2>1, <2>2, <2>3, <2>4, 0 \in Nat DEF Trackers, Rings
  <2>6. /\ T.entries = F /\ T.progress = 0 /\ T.next = tracker.next + 1
        /\ T.accepted = tracker.accepted + 1 /\ T.pending = p
        /\ RingAfter.entries = F /\ RingAfter.used = u
    BY ONLY <2>1, <2>2
  <2> HIDE DEF T
  <2>7. plan.inst = T.next - T.progress + T.pending
    BY <2>4, <2>6
  <2>8. Released => tracker.progress + 1 = Executed(h)
    BY <1>5
  <2> QED BY <2>3, <2>5, <2>6, <2>7, <2>8, <1>7 DEF F, u, T
<1> QED BY <1>6, <1>7

\* The oracle's image after an acceptance.
LEMMA ImageAccepts ==
    ASSUME StreamInv, Accepts
    PROVE /\ ImageAfter \in Images /\ OwnersFit(ImageAfter)
          /\ ImageAfter.append = image.append
          /\ ImageAfter.append = ImageAfter.release + RingAfter.used /\ RingAfter.used <= Capacity
          /\ ImageAfter.expected = CellOf(NextWord + Step(hw.a.kind))
          /\ ~Released => ImageAfter.release = image.release
          /\ Released => /\ ImageAfter.release = EndOf(HeadEntry)
                         /\ ImageReleaseLegal(image, HeadEntry.start, Words(HeadEntry))
          /\ Resident(ImageAfter) = RingAfter.used
<1> DEFINE h == HeadEntry
           x == IF hw.a.kind = "link" THEN CellOf(image.expected + 3) ELSE CellOf(image.expected + 1)
           m == [image EXCEPT !.expected = x]
<1>1. /\ Alive /\ image.expected = CellOf(NextWord)
  BY AcceptedWord
<1>2. /\ WellFormed(h) /\ h.start = image.release /\ EndOf(h) <= image.append
      /\ image.append = image.release + ring.used /\ ring.used <= Capacity
      /\ image.append \in Nat /\ image.release \in Nat /\ ring.used \in Nat
      /\ image \in Images /\ OwnersFit(image)
  BY <1>1, HeadFacts
<1>3. Words(h) \in 1 .. 5 /\ EndOf(h) = h.start + Words(h) /\ Words(h) \in Nat
  BY <1>2, EntryFacts
<1>4. NextWord \in Nat
  BY <1>1, NextWordFacts
<1>5. x = CellOf(NextWord + Step(hw.a.kind)) /\ x \in Cell
  <2>1. \A k \in Int : CellOf(CellOf(NextWord) + k) = CellOf(NextWord + k)
    BY <1>4, CellShift
  <2>2. \A k \in Int : CellOf(NextWord + k) \in Cell
    BY <1>4, CellRange
  <2>3. CellOf(image.expected + 3) = CellOf(NextWord + 3) /\ CellOf(image.expected + 1) = CellOf(NextWord + 1)
        /\ CellOf(NextWord + 3) \in Cell /\ CellOf(NextWord + 1) \in Cell
    BY <2>1, <2>2, <1>1
  <2> QED BY <2>3 DEF Step
<1> HIDE DEF x
<1>6. /\ m \in Images /\ m.append = image.append /\ m.release = image.release
      /\ m.owner = image.owner /\ m.expected = x
  BY <1>2, <1>5 DEF Images
<1>7. OwnersFit(m)
  BY <1>2, <1>6 DEF OwnersFit
<1>8. ImageAfter = IF Released THEN ImageRelease(m, h.start, Words(h)) ELSE m
  BY DEF ImageAfter, x
<1>cap. Capacity \in Nat
  BY CapacityFacts
<1>nums. /\ image.append = image.release + ring.used /\ ring.used <= Capacity
         /\ image.append \in Nat /\ image.release \in Nat /\ ring.used \in Nat
         /\ Words(h) \in Nat /\ image.release + Words(h) <= image.append /\ Capacity \in Nat
  BY <1>2, <1>3, <1>cap
<1>9. CASE ~Released
  <2>1. ImageAfter = m /\ RingAfter = ring
    BY <1>8, <1>9, TrackerAccepts
  <2> HIDE DEF m
  <2>2. Resident(m) = ring.used
    <3>1. image.append - image.release = ring.used
      BY ONLY <1>nums
    <3> QED BY <3>1, <1>6 DEF Resident
  <2> QED BY <2>1, <2>2, <1>2, <1>5, <1>6, <1>7, <1>9
<1>10. CASE Released
  <2> DEFINE M == ImageRelease(m, m.release, Words(h))
  <2>1. ImageAfter = M
    BY <1>2, <1>6, <1>8, <1>10
  <2>2. m.append <= m.release + Capacity /\ m.release + Words(h) <= m.append
    <3>1. image.append <= image.release + Capacity
      BY ONLY <1>nums
    <3> QED BY <3>1, <1>nums, <1>6
  <2> HIDE DEF m
  <2>3. /\ ImageReleaseLegal(m, m.release, Words(h)) /\ M \in Images /\ OwnersFit(M)
        /\ M.append = m.append /\ M.release = m.release + Words(h) /\ M.expected = m.expected
    BY <1>3, <1>6, <1>7, <2>2, ImageReleaseFits
  <2>4. ImageReleaseLegal(image, h.start, Words(h))
    BY <2>3, <1>2, <1>6 DEF ImageReleaseLegal, OwnerOf
  <2>5. RingAfter.used = ring.used - Words(h)
    BY <1>10, TrackerAccepts
  <2> HIDE DEF M
  <2>6. M.append = M.release + (ring.used - Words(h)) /\ ring.used - Words(h) <= Capacity
        /\ M.append - M.release = ring.used - Words(h)
    <3>1. M.append = image.append /\ M.release = image.release + Words(h)
      BY <2>3, <1>6
    <3> QED BY ONLY <3>1, <1>nums
  <2>7. Resident(M) = RingAfter.used
    BY <2>5, <2>6 DEF Resident
  <2>8. M.release = EndOf(h)
    BY <2>3, <1>2, <1>3, <1>6
  <2> QED BY <2>1, <2>3, <2>4, <2>5, <2>6, <2>7, <2>8, <1>5, <1>6, <1>10
<1> QED BY <1>9, <1>10

\* Whatever is accepted was planned: no check up to the end of the event can fail.
LEMMA AcceptanceIsPlanned ==
    ASSUME StreamInv, Accepts PROVE EventIsPlanned
<1>1. /\ Alive /\ tracker.next <= config.budget
      /\ hw.a.word = NextWord /\ hw.a.cell = CellOf(NextWord)
      /\ image.expected = CellOf(NextWord)
  BY AcceptedWord
<1>2. Entries # <<>> /\ ring.entries = Entries
  BY <1>1, HeadFacts
<1>3. image.owner[CellOf(NextWord)] = NextWord
  BY <1>1, NextWordFacts
<1>4. NextWord = WordAt(HeadEntry, tracker.progress)
  BY DEF NextWord, HeadEntry, Entries
<1>5. Released => /\ ring.entries # <<>> /\ Head(ring.entries).key = HeadEntry.key
                  /\ ImageReleaseLegal(image, HeadEntry.start, Words(HeadEntry))
                  /\ Resident(ImageAfter) = RingAfter.used
  BY <1>2, ImageAccepts DEF HeadEntry, Entries
<1> QED BY <1>1, <1>2, <1>3, <1>4, <1>5 DEF EventIsPlanned, Index, OwnerOf, Entries

\* Before the budget, an acceptance leaves an instruction that is laid out: the next word
\* is one step further, in the memory and in an entry.
LEMMA NextWordAhead ==
    ASSUME StreamInv, Accepts, ~AtBudget
    PROVE LET F == TrackerAfter.entries
              p == TrackerAfter.progress
              n == NextWord + Step(hw.a.kind)
          IN  /\ F \in Seq(EntryRecords) /\ F # <<>> /\ Contiguous(F)
              /\ Head(F).start = ImageAfter.release /\ Last(F) = Last(Entries)
              /\ Head(F).first + p = tracker.next + 1 /\ p < Executed(Head(F))
              /\ WordAt(Head(F), p) = n /\ n \in Nat
              /\ imem[CellOf(n)] = [word |-> n, kind |-> KindAt(Head(F), n)]
              /\ hw.a.kind = "link" => ~Released
              /\ tracker.next < config.budget /\ plan.inst >= tracker.next + 2
<1> DEFINE h == HeadEntry
           F == TrackerAfter.entries
           p == TrackerAfter.progress
           n == NextWord + Step(hw.a.kind)
<1>1. /\ Alive /\ phase = "run" /\ tracker.next <= config.budget
      /\ hw.a.kind = KindAt(h, NextWord)
  BY AcceptedWord DEF Accepts
<1>2. /\ Entries \in Seq(EntryRecords) /\ Entries # <<>> /\ Contiguous(Entries)
      /\ WellFormed(h) /\ h = Head(Entries) /\ h \in ToSet(Entries)
      /\ tracker.progress < Executed(h) /\ tracker.progress \in Nat
      /\ h.start = image.release
      /\ tracker.next \in Nat /\ plan.inst \in Nat /\ config.budget \in Nat
      /\ h.first + tracker.progress = tracker.next
      /\ Last(Entries).first + Executed(Last(Entries)) = plan.inst
  BY <1>1, HeadFacts DEF HeadEntry, Entries
<1>3. h.first \in Nat /\ Executed(h) \in Nat
  BY <1>2, EntryFacts
<1>4. tracker.next < config.budget /\ plan.inst >= tracker.next + 2
  <2>1. tracker.next # config.budget
    BY DEF AtBudget, Index
  <2>2. tracker.next < config.budget
    BY ONLY <2>1, <1>1, <1>2
  <2>3. tracker.next < config.budget => plan.inst >= tracker.next + 2
    BY <1>1 DEF StreamInv, LaidOutAhead
  <2> QED BY ONLY <2>2, <2>3
<1>5. /\ NextWord \in Nat
      /\ ~Released => /\ tracker.progress + 1 < Executed(h)
                      /\ WordAt(h, tracker.progress + 1) = n
                      /\ WordAt(h, tracker.progress + 1) \in WordsOf(h)
      /\ Released => /\ NextWord + 1 = EndOf(h) /\ tracker.progress + 1 = Executed(h)
                     /\ hw.a.kind # "link"
  BY <1>1, NextWordFacts DEF Released
<1>6. n \in Nat
  <2>1. Step(hw.a.kind) \in Nat
    BY DEF Step
  <2> QED BY <2>1, <1>5
<1>7. \A e \in ToSet(Entries) : \A w \in WordsOf(e) :
         imem[CellOf(w)] = [word |-> w, kind |-> KindAt(e, w)]
  BY DEF StreamInv, MemoryFits
<1>8. CASE ~Released
  <2>1. F = Entries /\ p = tracker.progress + 1 /\ ImageAfter.release = image.release
    BY <1>8, TrackerAccepts, ImageAccepts
  <2>2. h.first + (tracker.progress + 1) = tracker.next + 1
    <3> DEFINE a == h.first
               b == tracker.progress
    <3>1. a \in Nat /\ b \in Nat /\ a + b = tracker.next
      BY <1>2, <1>3
    <3> HIDE DEF a, b
    <3>2. a + (b + 1) = tracker.next + 1
      BY ONLY <3>1
    <3> QED BY <3>2 DEF a, b
  <2>3. imem[CellOf(n)] = [word |-> n, kind |-> KindAt(h, n)]
    BY <1>2, <1>5, <1>7, <1>8
  <2> HIDE DEF F, p, n, h
  <2>4. /\ F \in Seq(EntryRecords) /\ F # <<>> /\ Contiguous(F)
        /\ Head(F).start = ImageAfter.release /\ Last(F) = Last(Entries)
        /\ Head(F).first + p = tracker.next + 1 /\ p < Executed(Head(F))
        /\ WordAt(Head(F), p) = n
        /\ imem[CellOf(n)] = [word |-> n, kind |-> KindAt(Head(F), n)]
    BY <2>1, <2>2, <2>3, <1>2, <1>5, <1>8
  <2> QED BY <2>4, <1>4, <1>6, <1>8 DEF F, p, n
<1>9. CASE Released
  <2>1. F = Tail(Entries) /\ p = 0 /\ ImageAfter.release = EndOf(h)
    BY <1>9, TrackerAccepts, ImageAccepts
  <2>2. h.first + Executed(h) = tracker.next + 1
    <3> DEFINE a == h.first
               b == tracker.progress
    <3>1. a \in Nat /\ b \in Nat /\ a + b = tracker.next /\ b + 1 = Executed(h)
      BY <1>2, <1>3, <1>5, <1>9
    <3> HIDE DEF a, b
    <3>2. a + (b + 1) = tracker.next + 1
      BY ONLY <3>1
    <3> QED BY <3>1, <3>2 DEF a
  <2>3. Len(Entries) >= 2
    <3>1. CASE Len(Entries) < 2
      <4>1. h = Last(Entries)
        BY <3>1, <1>2, Members
      <4>2. plan.inst = tracker.next + 1
        BY <4>1, <2>2, <1>2
      <4> QED BY ONLY <4>2, <1>2, <1>4
    <3>2. Len(Entries) \in Nat
      BY <1>2
    <3> QED BY ONLY <3>1, <3>2
  <2> DEFINE T == Tail(Entries)
  <2>4. /\ T \in Seq(EntryRecords) /\ T # <<>> /\ Contiguous(T) /\ Head(T).start = EndOf(h)
        /\ Head(T).first = h.first + Executed(h) /\ Last(T) = Last(Entries)
        /\ ToSet(T) \subseteq ToSet(Entries)
    BY <1>2, <2>3, ContiguousTail
  <2> HIDE DEF T
  <2>5. Head(T) \in ToSet(T) /\ WellFormed(Head(T))
    BY <2>4, Members
  <2>6. Executed(Head(T)) \in 1 .. 5 /\ Head(T).first \in Nat
    BY <2>5, EntryFacts
  <2>7. n = EndOf(h)
    BY <1>5, <1>9 DEF Step
  <2>8. WordAt(Head(T), 0) = EndOf(h)
    <3>1. Head(T).offsets[1] = 0 /\ Head(T).start \in Nat
      BY <2>5 DEF WellFormed, EntryRecords
    <3> QED BY <3>1, <2>4 DEF WordAt
  <2>9. n \in WordsOf(Head(T))
    <3>1. 0 \in Nat /\ 0 < Executed(Head(T))
      BY <2>6
    <3> QED BY <3>1, <2>5, <2>7, <2>8, WordFacts
  <2>10. imem[CellOf(n)] = [word |-> n, kind |-> KindAt(Head(T), n)]
    BY <2>4, <2>5, <2>9, <1>7
  <2>11. Head(T).first + 0 = tracker.next + 1 /\ 0 < Executed(Head(T))
    BY <2>2, <2>4, <2>6
  <2>12. F = T
    BY <2>1 DEF T
  <2>13. hw.a.kind # "link"
    BY <1>5, <1>9
  <2> HIDE DEF F, p, n, h
  <2>14. /\ F \in Seq(EntryRecords) /\ F # <<>> /\ Contiguous(F)
        /\ Head(F).start = ImageAfter.release /\ Last(F) = Last(Entries)
        /\ Head(F).first + p = tracker.next + 1 /\ p < Executed(Head(F))
        /\ WordAt(Head(F), p) = n
        /\ imem[CellOf(n)] = [word |-> n, kind |-> KindAt(Head(F), n)]
    BY <2>1, <2>4, <2>7, <2>8, <2>10, <2>11, <2>12
  <2> QED BY <2>13, <2>14, <1>4, <1>6 DEF F, p, n
<1> QED BY <1>8, <1>9

\* The registry after an acceptance holds what the entries left ask for.
LEMMA WitnessesAccept ==
    ASSUME StreamInv, Accepts
    PROVE WitnessesAfter =
            UNION {{w \in e.witnesses : w.consumer >= tracker.next + 1} :
                      e \in ToSet(TrackerAfter.entries)}
<1> DEFINE F == TrackerAfter.entries
           h == HeadEntry
<1>1. /\ Alive /\ Entries \in Seq(EntryRecords) /\ Entries # <<>> /\ Contiguous(Entries)
      /\ h = Head(Entries) /\ WellFormed(h) /\ tracker.next \in Nat
      /\ h.first + tracker.progress = tracker.next /\ tracker.progress \in Nat
  BY AcceptedWord, HeadFacts DEF HeadEntry, Entries
<1>2. \A e \in ToSet(Entries) : WellFormed(e)
  BY <1>1, Members
<1>3. \A e \in ToSet(Entries) : \A w \in e.witnesses : w.consumer \in Nat
  BY <1>2 DEF WellFormed, EntryRecords, Witnesses
<1>4. \A w : w \in witnesses <=> \E e \in ToSet(Entries) : w \in e.witnesses /\ w.consumer >= tracker.next
  <2>1. witnesses = UNION {{w \in e.witnesses : w.consumer >= tracker.next} : e \in ToSet(Entries)}
    BY DEF StreamInv, WitnessesAreFuture, Accepts
  <2> QED BY <2>1
<1>5. /\ ToSet(F) \subseteq ToSet(Entries)
      /\ Released => F = Tail(Entries) /\ tracker.progress + 1 = Executed(h)
      /\ ~Released => F = Entries
  BY TrackerAccepts
<1>6. ASSUME NEW e \in ToSet(Entries), NEW w \in e.witnesses, w.consumer > tracker.next
      PROVE e \in ToSet(F)
  <2>1. CASE ~Released
    BY <2>1, <1>5, <1>6
  <2>2. CASE Released
    <3>1. e = h \/ e \in ToSet(F)
      BY <2>2, <1>1, <1>5, ContiguousTail
    <3>2. e # h
      <4> SUFFICES ASSUME e = h PROVE FALSE
        OBVIOUS
      <4>1. w.consumer < h.first + Executed(h)
        BY <1>6, <1>1 DEF WellFormed
      <4>2. h.first + Executed(h) = tracker.next + 1
        <5>1. h.first \in Nat /\ tracker.progress + 1 = Executed(h)
          BY <2>2, <1>1, <1>5, EntryFacts
        <5>2. h.first + (tracker.progress + 1) = tracker.next + 1
          <6> DEFINE a == h.first
                     b == tracker.progress
          <6>1. a \in Nat /\ b \in Nat /\ a + b = tracker.next
            BY <1>1, <5>1
          <6> HIDE DEF a, b
          <6>2. a + (b + 1) = tracker.next + 1
            BY ONLY <6>1
          <6> QED BY <6>2 DEF a, b
        <5> QED BY <5>1, <5>2
      <4>3. w.consumer \in Nat
        BY <1>3, <1>6
      <4> QED BY ONLY <4>1, <4>2, <4>3, <1>6, <1>1
    <3> QED BY <3>1, <3>2
  <2> QED BY <2>1, <2>2
<1> DEFINE R == UNION {{w \in e.witnesses : w.consumer >= tracker.next + 1} : e \in ToSet(F)}
<1>7. \A w : w \in R <=> \E e \in ToSet(F) : w \in e.witnesses /\ w.consumer >= tracker.next + 1
  OBVIOUS
<1>8. \A w : w \in WitnessesAfter <=> w \in witnesses /\ w.consumer > tracker.next
  BY DEF WitnessesAfter, Index
<1> HIDE DEF R, F, h
<1>9. ASSUME NEW w \in WitnessesAfter PROVE w \in R
  <2>1. PICK e \in ToSet(Entries) : w \in e.witnesses /\ w.consumer > tracker.next
    BY <1>4, <1>8, <1>9
  <2>2. e \in ToSet(F) /\ w.consumer \in Nat
    BY <2>1, <1>3, <1>6
  <2>3. w.consumer >= tracker.next + 1
    BY ONLY <2>1, <2>2, <1>1
  <2> QED BY <2>1, <2>2, <2>3, <1>7
<1>10. ASSUME NEW w \in R PROVE w \in WitnessesAfter
  <2>1. PICK e \in ToSet(F) : w \in e.witnesses /\ w.consumer >= tracker.next + 1
    BY <1>7, <1>10
  <2>2. e \in ToSet(Entries) /\ w.consumer \in Nat
    BY <2>1, <1>3, <1>5
  <2>3. w.consumer > tracker.next /\ w.consumer >= tracker.next
    BY ONLY <2>1, <2>2, <1>1
  <2> QED BY <2>1, <2>2, <2>3, <1>4, <1>8
<1>11. WitnessesAfter = R
  BY <1>9, <1>10
<1> QED BY <1>11 DEF R, F

\* The words of an acceptance that leaves something to be executed.
LEMMA AcceptedFits ==
    ASSUME StreamInv, Accepts, ~AtBudget, Accepted, phase' \in {"run", "fill"},
           phase' = "fill" => Released, plan'.word = plan.word, plan'.inst = plan.inst
    PROVE /\ StreamFits' /\ MemoryFits' /\ FetchFits'
          /\ ring' \in Rings /\ tracker' \in Trackers /\ image' \in Images
          /\ witnesses' \subseteq Witnesses
          /\ hw' \in [pc : Cell, a : Latches, b : Latches]
          /\ witnesses' = UNION {{w \in e.witnesses : w.consumer >= tracker'.next} :
                                   e \in ToSet(Entries')}
          /\ tracker'.next = tracker.next + 1 /\ tracker'.accepted = tracker.accepted + 1
          /\ Last(Entries') = Last(Entries) /\ ToSet(Entries') \subseteq ToSet(Entries)
          /\ tracker.next < config.budget /\ plan.inst >= tracker.next + 2
<1> DEFINE F == TrackerAfter.entries
           p == TrackerAfter.progress
           n == NextWord + Step(hw.a.kind)
<1>1. /\ hw' = Advanced /\ tracker' = TrackerAfter /\ ring' = RingAfter /\ image' = ImageAfter
      /\ witnesses' = WitnessesAfter /\ imem' = imem /\ config' = config
  BY DEF Accepted
<1>2. /\ Alive /\ phase = "run" /\ hw.b.kind # "link"
      /\ hw.a.word = NextWord /\ hw.a.cell = CellOf(NextWord)
      /\ hw.a.kind = KindAt(HeadEntry, NextWord) /\ hw.pc = CellOf(NextWord + 1)
      /\ NextWord \in Nat
  BY AcceptedWord, NextWordFacts DEF Accepts
<1>3. /\ TrackerAfter \in Trackers /\ RingAfter \in Rings /\ RingAfter.entries = F
      /\ TrackerAfter.next = tracker.next + 1 /\ TrackerAfter.accepted = tracker.accepted + 1
      /\ plan.inst = TrackerAfter.next - p + TrackerAfter.pending
      /\ ToSet(F) \subseteq ToSet(Entries)
      /\ Released => p = 0
  BY TrackerAccepts
<1>4. /\ F \in Seq(EntryRecords) /\ F # <<>> /\ Contiguous(F)
      /\ Head(F).start = ImageAfter.release /\ Last(F) = Last(Entries)
      /\ Head(F).first + p = tracker.next + 1 /\ p < Executed(Head(F))
      /\ WordAt(Head(F), p) = n /\ n \in Nat
      /\ imem[CellOf(n)] = [word |-> n, kind |-> KindAt(Head(F), n)]
      /\ hw.a.kind = "link" => ~Released
      /\ tracker.next < config.budget /\ plan.inst >= tracker.next + 2
  BY NextWordAhead
<1>5. /\ ImageAfter \in Images /\ OwnersFit(ImageAfter) /\ ImageAfter.append = image.append
      /\ ImageAfter.append = ImageAfter.release + RingAfter.used /\ RingAfter.used <= Capacity
      /\ ImageAfter.expected = CellOf(n)
  BY ImageAccepts
<1>6. /\ EndOf(Last(Entries)) = image.append /\ image.append = plan.word
      /\ Last(Entries).first + Executed(Last(Entries)) = plan.inst
      /\ tracker.next = tracker.accepted + 1
  BY <1>2, HeadFacts
<1>7. Entries' = F /\ NextWord' = n /\ tracker'.progress = p
  BY <1>1, <1>4 DEF Entries, NextWord
<1>8. StreamFits'
  <2>1. phase' # "done"
    OBVIOUS
  <2>2. TrackerAfter.next = TrackerAfter.accepted + 1
    BY <1>3, <1>6
  <2>3. /\ ring'.entries = Entries' /\ Contiguous(Entries')
        /\ image'.append = image'.release + ring'.used /\ ring'.used <= Capacity
        /\ tracker'.next = tracker'.accepted + 1
    BY <2>2, <1>1, <1>3, <1>4, <1>5, <1>7
  <2>4. /\ Entries' # <<>>
        /\ Head(Entries').start = image'.release /\ EndOf(Last(Entries')) = image'.append
        /\ Head(Entries').first + tracker'.progress = tracker'.next
        /\ tracker'.progress < Executed(Head(Entries'))
    BY <1>1, <1>3, <1>4, <1>5, <1>6, <1>7
  <2>5. /\ Last(Entries').first + Executed(Last(Entries')) = plan'.inst
        /\ image'.append = plan'.word
        /\ plan'.inst = tracker'.next - tracker'.progress + tracker'.pending
    BY <1>1, <1>3, <1>4, <1>5, <1>6, <1>7
  <2>6. phase' = "fill" => tracker'.progress = 0
    BY <1>3, <1>7
  <2> HIDE DEF F, p, n
  <2> QED BY <2>1, <2>3, <2>4, <2>5, <2>6 DEF StreamFits, Entries
<1>9. MemoryFits'
  <2>1. OwnersFit(image')
    BY <1>1, <1>5
  <2>2. ASSUME NEW w \in image'.release .. image'.append - 1
        PROVE \E e \in ToSet(Entries') : w \in WordsOf(e)
    <3>0. w \in ImageAfter.release .. image.append - 1
      BY <1>1, <1>5
    <3>1. w \in image.release .. image.append - 1 /\ (Released => w >= EndOf(HeadEntry))
      <4>1. /\ image.release \in Nat /\ HeadEntry.start = image.release /\ WellFormed(HeadEntry)
            /\ image.append \in Nat
        BY <1>2, HeadFacts
      <4>2. EndOf(HeadEntry) = image.release + Words(HeadEntry) /\ Words(HeadEntry) \in Nat
            /\ EndOf(HeadEntry) \in Nat
        BY <4>1, EntryFacts
      <4>3. CASE Released
        <5>1. ImageAfter.release = EndOf(HeadEntry)
          BY <4>3, ImageAccepts
        <5>2. w \in EndOf(HeadEntry) .. image.append - 1
          BY <3>0, <5>1
        <5> QED BY ONLY <5>2, <4>1, <4>2
      <4>4. CASE ~Released
        BY <4>4, <3>0, ImageAccepts
      <4> QED BY <4>3, <4>4
    <3>2. PICK e \in ToSet(Entries) : w \in WordsOf(e)
      BY <3>1 DEF StreamInv, MemoryFits
    <3>3. CASE ~Released
      BY <3>2, <3>3, <1>7, TrackerAccepts
    <3>4. CASE Released
      <4>1. /\ Entries \in Seq(EntryRecords) /\ Entries # <<>> /\ Contiguous(Entries)
            /\ HeadEntry = Head(Entries) /\ WellFormed(HeadEntry)
        BY <1>2, HeadFacts DEF HeadEntry, Entries
      <4>2. F = Tail(Entries)
        BY <3>4, TrackerAccepts
      <4>3. e # HeadEntry
        <5> SUFFICES ASSUME e = HeadEntry PROVE FALSE
          OBVIOUS
        <5>1. w \in HeadEntry.start .. EndOf(HeadEntry) - 1 /\ EndOf(HeadEntry) \in Nat
              /\ HeadEntry.start \in Nat
          BY <3>2, <4>1, EntryFacts
        <5>2. w >= EndOf(HeadEntry)
          BY <3>1, <3>4
        <5> QED BY ONLY <5>1, <5>2
      <4>4. e \in ToSet(F)
        BY <3>2, <4>1, <4>2, <4>3, ContiguousTail
      <4> QED BY <3>2, <4>4, <1>7
    <3> QED BY <3>3, <3>4
  <2>3. \A e \in ToSet(Entries') : \A w \in WordsOf(e) :
           imem'[CellOf(w)] = [word |-> w, kind |-> KindAt(e, w)]
    BY <1>1, <1>3, <1>7 DEF StreamInv, MemoryFits
  <2>4. \A c \in Cell : imem'[c].word # NoWord => CellOf(imem'[c].word) = c
    BY <1>1 DEF StreamInv, MemoryFits
  <2> QED BY <2>1, <2>2, <2>3, <2>4 DEF MemoryFits
<1>10. /\ hw.pc \in Cell /\ hw.a \in Latches
       /\ imem \in [Cell -> [word : Nat \cup {NoWord}, kind : WordKinds]]
  BY DEF StreamInv, StreamTypes
<1>11. /\ hw' = [pc |-> CellOf(hw.pc + 1), a |-> Fetched, b |-> hw.a]
       /\ Fetched = [cell |-> hw.pc, word |-> imem[hw.pc].word, kind |-> imem[hw.pc].kind]
       /\ Fetched \in Latches /\ CellOf(hw.pc + 1) \in Cell
  <2>1. hw.pc + 1 \in Int
    BY <1>10 DEF Cell
  <2>2. CellOf(hw.pc + 1) \in Cell
    BY <2>1, CellRange
  <2>3. Fetched \in Latches
    BY <1>10 DEF Fetched, Latches
  <2> QED BY <2>2, <2>3, <1>1 DEF Advanced, Fetched
<1>12. hw' \in [pc : Cell, a : Latches, b : Latches]
  BY <1>10, <1>11
<1>13. FetchFits'
  <2>1. image'.expected = CellOf(NextWord')
    BY <1>1, <1>5, <1>7
  <2>2. CASE hw.a.kind = "link"
    <3>1. phase' = "run" /\ hw'.b.kind = "link" /\ hw'.b.cell = CellOf(NextWord)
      BY <2>2, <1>2, <1>4, <1>11
    <3>2. n = NextWord + 3
      BY <2>2 DEF Step
    <3>3. CellOf(CellOf(NextWord) + 3) = CellOf(NextWord + 3)
      BY <1>2, CellShift
    <3>4. CellOf(hw'.b.cell + 3) = CellOf(NextWord')
      BY <3>1, <3>2, <3>3, <1>7
    <3> QED BY <2>1, <3>1, <3>4 DEF FetchFits
  <2>3. CASE hw.a.kind # "link"
    <3>1. n = NextWord + 1 /\ hw'.b.kind # "link"
      BY <2>3, <1>11 DEF Step
    <3>2. /\ hw'.a.cell = CellOf(n) /\ hw'.a.word = n /\ hw'.a.kind = KindAt(Head(F), n)
      BY <3>1, <1>2, <1>4, <1>11
    <3>3. hw'.pc = CellOf(n + 1)
      <4>1. CellOf(CellOf(n) + 1) = CellOf(n + 1)
        BY <1>4, CellShift
      <4>2. hw.pc = CellOf(n)
        BY <3>1, <1>2
      <4> QED BY <4>1, <4>2, <1>11
    <3>4. n # NoWord
      BY <1>4, SmallNumbers
    <3>5. hw'.a.word = NextWord' /\ hw'.a.cell = CellOf(NextWord')
          /\ hw'.a.kind = KindAt(Head(Entries'), NextWord') /\ hw'.pc = CellOf(NextWord' + 1)
          /\ hw'.a.word # NoWord
      BY <3>2, <3>3, <3>4, <1>7
    <3> QED BY <2>1, <3>1, <3>5 DEF FetchFits, Entries
  <2> QED BY <2>2, <2>3
<1>14. witnesses' \subseteq Witnesses
  BY <1>1 DEF WitnessesAfter, StreamInv, StreamTypes
<1>15. witnesses' = UNION {{w \in e.witnesses : w.consumer >= tracker'.next} :
                                   e \in ToSet(Entries')}
  BY <1>1, <1>3, <1>7, WitnessesAccept
<1> HIDE DEF F, p, n
<1>16. /\ tracker'.next = tracker.next + 1 /\ tracker'.accepted = tracker.accepted + 1
       /\ Last(Entries') = Last(Entries) /\ ToSet(Entries') \subseteq ToSet(Entries)
       /\ tracker.next < config.budget /\ plan.inst >= tracker.next + 2
       /\ ring' \in Rings /\ tracker' \in Trackers /\ image' \in Images
  BY <1>1, <1>3, <1>4, <1>5, <1>7
<1> QED BY <1>8, <1>9, <1>12, <1>13, <1>14, <1>15, <1>16

-----------------------------------------------------------------------------
(* A patch, with the clock held.                                           *)

\* Where the last resident entry ends, the next one starts.
LEMMA LastFacts ==
    ASSUME StreamInv, Alive
    PROVE \A f \in ToSet(Entries) :
            /\ WellFormed(f) /\ f.first + Executed(f) <= plan.inst
            /\ f = Last(Entries) \/ f.first + Executed(f) <= Last(Entries).first
            /\ \A w \in f.witnesses : w.consumer \in Nat /\ w.consumer < f.first + Executed(f)
            /\ \A w \in WordsOf(f) : w \in image.release .. image.append - 1
<1>1. /\ Entries \in Seq(EntryRecords) /\ Entries # <<>> /\ Contiguous(Entries)
      /\ WellFormed(Last(Entries)) /\ HeadEntry = Head(Entries) /\ WellFormed(HeadEntry)
      /\ HeadEntry.start = image.release /\ EndOf(Last(Entries)) = image.append
      /\ Last(Entries).first + Executed(Last(Entries)) = plan.inst
      /\ image.append \in Nat /\ image.release \in Nat
  BY HeadFacts DEF HeadEntry, Entries
<1> SUFFICES ASSUME NEW f \in ToSet(Entries)
             PROVE /\ WellFormed(f) /\ f.first + Executed(f) <= plan.inst
                   /\ f = Last(Entries) \/ f.first + Executed(f) <= Last(Entries).first
                   /\ \A w \in f.witnesses : w.consumer \in Nat /\ w.consumer < f.first + Executed(f)
                   /\ \A w \in WordsOf(f) : w \in image.release .. image.append - 1
  OBVIOUS
<1>2. /\ WellFormed(f) /\ HeadEntry.start <= f.start /\ EndOf(f) <= EndOf(Last(Entries))
      /\ f = Last(Entries) \/ f.first + Executed(f) <= Last(Entries).first
  BY <1>1, Members
<1> DEFINE a == f.first + Executed(f)
           b == Last(Entries).first
           x == Executed(Last(Entries))
<1>3. /\ a \in Nat /\ b \in Nat /\ x \in Nat
  <2>1. f.first \in Nat /\ Executed(f) \in Nat /\ b \in Nat /\ x \in Nat
    BY <1>1, <1>2, EntryFacts
  <2> QED BY <2>1
<1>4. a <= plan.inst
  <2>1. b + x = plan.inst /\ (a = plan.inst \/ a <= b)
    BY <1>1, <1>2
  <2> HIDE DEF a, b, x
  <2>2. CASE a = plan.inst
    BY ONLY <2>2, <1>3
  <2>3. CASE a <= b
    BY ONLY <2>1, <2>3, <1>3
  <2> QED BY ONLY <2>1, <2>2, <2>3
<1>5. \A w \in f.witnesses : w.consumer \in Nat /\ w.consumer < f.first + Executed(f)
  BY <1>2 DEF WellFormed, EntryRecords, Witnesses
<1>6. \A w \in WordsOf(f) : w \in image.release .. image.append - 1
  <2>1. WordsOf(f) = f.start .. EndOf(f) - 1 /\ f.start \in Nat /\ EndOf(f) \in Nat
    BY <1>2, EntryFacts
  <2> SUFFICES ASSUME NEW w \in f.start .. EndOf(f) - 1 PROVE w \in image.release .. image.append - 1
    BY <2>1
  <2>2. image.release <= f.start /\ EndOf(f) <= image.append
    BY <1>1, <1>2
  <2> QED BY ONLY <2>1, <2>2, <1>1, w \in f.start .. EndOf(f) - 1
<1> QED BY <1>2, <1>4, <1>5, <1>6

\* An entry that starts at the cursors and fits is accepted by every object.
LEMMA PatchHolds ==
    ASSUME StreamInv, phase = "fill", NEW e, WellFormed(e), e.start = plan.word,
           e.first = plan.inst, Words(e) <= FreeWords(ring)
    PROVE PatchLegal(e)
<1>1. Alive /\ tracker.progress = 0
  BY DEF Alive, StreamInv, StreamFits
<1>2. /\ Entries \in Seq(EntryRecords) /\ Entries # <<>> /\ ring.entries = Entries
      /\ EndOf(Last(Entries)) = image.append /\ image.append = plan.word
      /\ Last(Entries).first + Executed(Last(Entries)) = plan.inst
      /\ plan.inst = tracker.next - tracker.progress + tracker.pending
      /\ image.append = image.release + ring.used /\ ring.used <= Capacity
      /\ image.append \in Nat /\ image.release \in Nat /\ ring.used \in Nat
      /\ tracker.next \in Nat /\ plan.inst \in Nat /\ tracker.pending \in Nat
      /\ image \in Images /\ OwnersFit(image)
  BY <1>1, HeadFacts
<1>3. Words(e) \in Nat /\ Capacity \in Nat /\ e.first \in Nat
  BY EntryFacts, CapacityFacts
<1>4. ring.used + Words(e) <= Capacity
  <2>1. Words(e) <= Capacity - ring.used
    BY DEF FreeWords
  <2> QED BY ONLY <2>1, <1>2, <1>3
<1>5. ImageAppendLegal(image, e)
  <2>1. image.release <= image.append /\ image.append + Words(e) <= image.release + Capacity
    BY ONLY <1>2, <1>3, <1>4
  <2> QED BY <2>1, <1>2, ImageAppendFits
<1>6. AppendLegal(ring, e)
  BY <1>2 DEF AppendLegal
<1>7. EnqueueLegal(tracker, e)
  <2>1. plan.inst = tracker.next + tracker.pending
    <3>1. tracker.next - 0 = tracker.next
      BY <1>2
    <3> QED BY <3>1, <1>1, <1>2
  <2> QED BY <2>1, <1>2 DEF EnqueueLegal, Entries
<1>8. learner.active /\ learner.arm = plan.arm
  BY DEF StreamInv, EpochFits
<1>9. e.witnesses \cap witnesses = {}
  <2> SUFFICES ASSUME NEW w \in e.witnesses, w \in witnesses PROVE FALSE
    OBVIOUS
  <2>1. e.first <= w.producer /\ w.producer < w.consumer /\ w.producer \in Nat /\ w.consumer \in Nat
    BY DEF WellFormed, EntryRecords, Witnesses
  <2>2. witnesses = UNION {{v \in f.witnesses : v.consumer >= tracker.next} : f \in ToSet(Entries)}
    BY DEF StreamInv, WitnessesAreFuture
  <2>3. PICK f \in ToSet(Entries) : w \in f.witnesses
    BY <2>2
  <2>4. /\ w.consumer < f.first + Executed(f) /\ f.first + Executed(f) <= plan.inst
    BY <1>1, <2>3, LastFacts
  <2>5. f.first + Executed(f) \in Nat
    <3>1. WellFormed(f)
      BY <1>1, <2>3, LastFacts
    <3>2. f.first \in Nat /\ Executed(f) \in Nat
      BY <3>1, EntryFacts
    <3> QED BY <3>2
  <2> QED BY ONLY <2>1, <2>4, <2>5, <1>2, <1>3, e.first = plan.inst
<1> QED BY <1>4, <1>5, <1>6, <1>7, <1>8, <1>9 DEF PatchLegal

\* A cell that is written held no resident word, and not the one in IF/ID.
LEMMA PatchIsSafe ==
    ASSUME StreamInv, phase = "fill", NEW e, WellFormed(e), e.start = plan.word,
           Words(e) <= FreeWords(ring), Patch(e)
    PROVE \A c \in Cell : imem'[c] # imem[c] =>
            /\ EntryOf(imem[c].word) = {}
            /\ hw.a.word # NoWord => hw.a.word # imem[c].word
<1>1. Alive
  BY DEF Alive
<1>2. /\ EndOf(Last(Entries)) = image.append /\ image.append = plan.word
      /\ image.append = image.release + ring.used /\ ring.used <= Capacity
      /\ image.append \in Nat /\ image.release \in Nat /\ ring.used \in Nat
  BY <1>1, HeadFacts
<1>3. Words(e) \in Nat /\ Capacity \in Nat /\ WordsOf(e) = e.start .. EndOf(e) - 1
      /\ EndOf(e) = e.start + Words(e) /\ e.start \in Nat
  BY EntryFacts, CapacityFacts
<1>4. Words(e) <= Capacity - ring.used
  BY DEF FreeWords
<1>5. imem \in [Cell -> [word : Nat \cup {NoWord}, kind : WordKinds]]
  BY DEF StreamInv, StreamTypes
<1>6. \A c \in Cell : \/ imem'[c] = imem[c] \/ \E w \in WordsOf(e) : CellOf(w) = c
  <2>1. imem' = WrittenBy(e)
    BY DEF Patch, WrittenBy
  <2> QED BY <2>1, <1>5, PatchedMemory
<1> SUFFICES ASSUME NEW c \in Cell, imem'[c] # imem[c]
             PROVE /\ EntryOf(imem[c].word) = {}
                   /\ hw.a.word # NoWord => hw.a.word # imem[c].word
  OBVIOUS
<1>7. PICK w \in WordsOf(e) : CellOf(w) = c
  BY <1>6
<1>8. EntryOf(imem[c].word) = {}
  <2> SUFFICES ASSUME NEW f \in ToSet(Entries), imem[c].word \in WordsOf(f) PROVE FALSE
    BY DEF EntryOf
  <2> DEFINE v == imem[c].word
  <2>1. v \in image.release .. image.append - 1
    BY <1>1, LastFacts
  <2>2. CellOf(v) = c
    <3>1. v # NoWord
      BY <2>1, <1>2, SmallNumbers
    <3> QED BY <3>1 DEF StreamInv, MemoryFits
  <2> HIDE DEF v
  <2>3. v \in Int /\ w \in Int /\ v < w /\ w < v + Capacity
    <3>1. w \in plan.word .. (plan.word + Words(e)) - 1
      BY <1>3
    <3> QED BY ONLY <3>1, <2>1, <1>2, <1>3, <1>4
  <2>4. v <= w /\ v # w
    BY <2>3
  <2> QED BY <2>2, <2>3, <2>4, <1>7, CellInjective
<1>9. hw.a.word # NoWord => hw.a.word # imem[c].word
  <2>1. hw.a.word # NoWord => hw.a.word = NextWord
    BY <1>1 DEF StreamInv, FetchFits, Alive
  <2>2. HeadEntry \in EntryOf(NextWord)
    BY <1>1, HeadFacts, NextWordFacts DEF EntryOf
  <2> QED BY <2>1, <2>2, <1>8
<1> QED BY <1>8, <1>9

\* What a patch leaves true, of a stream that ends with the entry.
LEMMA PatchFits ==
    ASSUME StreamInv, phase = "fill", NEW e, WellFormed(e), e.start = plan.word,
           e.first = plan.inst, Words(e) <= FreeWords(ring), Patch(e), phase' \in {"run", "fill"},
           plan'.word = EndOf(e), plan'.inst = e.first + Executed(e), hw' = hw
    PROVE /\ StreamFits' /\ MemoryFits' /\ FetchFits'
          /\ ring' \in Rings /\ tracker' \in Trackers /\ image' \in Images
          /\ imem' \in [Cell -> [word : Nat \cup {NoWord}, kind : WordKinds]]
          /\ witnesses' \subseteq Witnesses
          /\ witnesses' = UNION {{w \in f.witnesses : w.consumer >= tracker'.next} :
                                   f \in ToSet(Entries')}
          /\ tracker'.next = tracker.next /\ tracker'.accepted = tracker.accepted
          /\ Last(Entries') = e /\ ToSet(Entries') = ToSet(Entries) \cup {e}
          /\ ring'.used = ring.used + Words(e)
<1> DEFINE F == Append(Entries, e)
<1>1. Alive /\ tracker.progress = 0
  BY DEF Alive, StreamInv, StreamFits
<1>2. /\ Entries \in Seq(EntryRecords) /\ Entries # <<>> /\ Contiguous(Entries)
      /\ ring.entries = Entries /\ HeadEntry = Head(Entries)
      /\ Head(Entries).start = image.release
      /\ EndOf(Last(Entries)) = image.append /\ image.append = plan.word
      /\ Head(Entries).first + tracker.progress = tracker.next
      /\ tracker.progress < Executed(Head(Entries))
      /\ Last(Entries).first + Executed(Last(Entries)) = plan.inst
      /\ plan.inst = tracker.next - tracker.progress + tracker.pending
      /\ image.append = image.release + ring.used /\ ring.used <= Capacity
      /\ image.append \in Nat /\ image.release \in Nat /\ ring.used \in Nat
      /\ tracker.next \in Nat /\ plan.inst \in Nat /\ tracker.pending \in Nat
      /\ tracker.next = tracker.accepted + 1
      /\ image \in Images /\ OwnersFit(image)
  BY <1>1, HeadFacts DEF HeadEntry, Entries
<1>3. /\ Words(e) \in Nat /\ Capacity \in Nat /\ e.first \in Nat /\ e.start \in Nat
      /\ Executed(e) \in Nat /\ EndOf(e) = e.start + Words(e) /\ WordsOf(e) = e.start .. EndOf(e) - 1
      /\ e \in EntryRecords
  BY EntryFacts, CapacityFacts DEF WellFormed
<1>4. ring.used + Words(e) <= Capacity
  <2>1. Words(e) <= Capacity - ring.used
    BY DEF FreeWords
  <2> QED BY ONLY <2>1, <1>2, <1>3
<1>5. /\ F \in Seq(EntryRecords) /\ F # <<>> /\ Contiguous(F)
      /\ Head(F) = Head(Entries) /\ Last(F) = e /\ ToSet(F) = ToSet(Entries) \cup {e}
  BY <1>2, ContiguousAppend
<1>6. tracker \in Trackers /\ ring \in Rings /\ witnesses \subseteq Witnesses
      /\ imem \in [Cell -> [word : Nat \cup {NoWord}, kind : WordKinds]]
  BY DEF StreamInv, StreamTypes
<1>7. /\ ring' = [entries |-> F, used |-> ring.used + Words(e)]
      /\ tracker' = [tracker EXCEPT !.entries = F, !.pending = tracker.pending + Executed(e)]
      /\ image' = ImageAppend(image, e)
      /\ witnesses' = witnesses \cup e.witnesses
  <2>1. tracker.entries = Entries
    BY DEF Entries
  <2> QED BY <2>1, <1>2 DEF Patch, RingAppend, Enqueue
<1>8. /\ image' \in Images /\ OwnersFit(image') /\ image'.append = image.append + Words(e)
      /\ image'.release = image.release /\ image'.expected = image.expected
  <2>1. image.release <= image.append /\ image.append + Words(e) <= image.release + Capacity
    BY ONLY <1>2, <1>3, <1>4
  <2> QED BY <2>1, <1>2, <1>7, ImageAppendFits
<1>9. /\ imem' \in [Cell -> [word : Nat \cup {NoWord}, kind : WordKinds]]
      /\ \A w \in WordsOf(e) : imem'[CellOf(w)] = [word |-> w, kind |-> KindAt(e, w)]
      /\ \A c \in Cell : \/ imem'[c] = imem[c]
                         \/ \E w \in WordsOf(e) : CellOf(w) = c /\ imem'[c].word = w
  <2>1. imem' = WrittenBy(e)
    BY DEF Patch, WrittenBy
  <2> QED BY <2>1, <1>6, PatchedMemory
<1>10. \A c \in Cell : imem'[c] # imem[c] => EntryOf(imem[c].word) = {}
  BY PatchIsSafe
<1>11. /\ ring'.entries = F /\ ring'.used = ring.used + Words(e) /\ ring' \in Rings
       /\ tracker' \in Trackers /\ tracker'.entries = F /\ tracker'.progress = tracker.progress
       /\ tracker'.next = tracker.next /\ tracker'.accepted = tracker.accepted
       /\ tracker'.pending = tracker.pending + Executed(e)
  <2>1. ring.used + Words(e) \in Nat /\ tracker.pending + Executed(e) \in Nat
    BY <1>2, <1>3
  <2> HIDE DEF F
  <2> QED BY <2>1, <1>5, <1>6, <1>7 DEF Rings, Trackers
<1>12. Entries' = F /\ NextWord' = NextWord /\ Head(Entries') = Head(Entries)
  BY <1>5, <1>11 DEF Entries, NextWord
<1> HIDE DEF F
<1>13. StreamFits'
  <2>1. phase' # "done"
    OBVIOUS
  <2>2. /\ image'.append = image'.release + ring'.used /\ ring'.used <= Capacity
        /\ EndOf(e) = image'.append
    <3>1. (image.release + ring.used) + Words(e) = image.release + (ring.used + Words(e))
      BY ONLY <1>2, <1>3
    <3> QED BY <3>1, <1>2, <1>3, <1>4, <1>8, <1>11
  <2>3. plan'.inst = tracker'.next - tracker'.progress + tracker'.pending
    <3> DEFINE a == tracker.next - tracker.progress
               x == Executed(e)
    <3>1. a \in Int /\ plan.inst = a + tracker.pending /\ x \in Nat /\ tracker.pending \in Nat
      BY <1>1, <1>2, <1>3
    <3> HIDE DEF a, x
    <3>2. plan.inst + x = a + (tracker.pending + x)
      BY ONLY <3>1
    <3> QED BY <3>2, <1>11 DEF a, x
  <2>4. /\ ring'.entries = Entries' /\ Contiguous(Entries') /\ tracker'.next = tracker'.accepted + 1
        /\ Entries' # <<>> /\ Head(Entries').start = image'.release
        /\ Head(Entries').first + tracker'.progress = tracker'.next
        /\ tracker'.progress < Executed(Head(Entries')) /\ tracker'.progress = 0
    BY <1>1, <1>2, <1>5, <1>8, <1>11, <1>12
  <2>5. /\ EndOf(Last(Entries')) = image'.append /\ image'.append = plan'.word
        /\ Last(Entries').first + Executed(Last(Entries')) = plan'.inst
    BY <2>2, <1>5, <1>12
  <2> QED BY <2>1, <2>2, <2>3, <2>4, <2>5 DEF StreamFits, Entries
<1>14. MemoryFits'
  <2>1. ASSUME NEW w \in image'.release .. image'.append - 1
        PROVE \E f \in ToSet(Entries') : w \in WordsOf(f)
    <3>1. w \in image.release .. (image.append + Words(e)) - 1
      BY <1>8
    <3>2. CASE w < image.append
      <4>1. w \in image.release .. image.append - 1
        BY ONLY <3>1, <3>2, <1>2, <1>3
      <4>2. \E f \in ToSet(Entries) : w \in WordsOf(f)
        BY <4>1 DEF StreamInv, MemoryFits
      <4> QED BY <4>2, <1>5, <1>12
    <3>3. CASE w >= image.append
      <4>1. w \in image.append .. (image.append + Words(e)) - 1
        BY ONLY <3>1, <3>3, <1>2, <1>3
      <4>2. w \in WordsOf(e)
        BY <4>1, <1>2, <1>3
      <4> QED BY <4>2, <1>5, <1>12
    <3> QED BY ONLY <3>1, <3>2, <3>3, <1>2, <1>3
  <2>2. ASSUME NEW f \in ToSet(Entries'), NEW w \in WordsOf(f)
        PROVE imem'[CellOf(w)] = [word |-> w, kind |-> KindAt(f, w)]
    <3>1. CASE f = e
      BY <3>1, <2>2, <1>9
    <3>2. CASE f \in ToSet(Entries)
      <4>1. imem[CellOf(w)] = [word |-> w, kind |-> KindAt(f, w)]
        BY <3>2, <2>2 DEF StreamInv, MemoryFits
      <4>2. f \in EntryOf(imem[CellOf(w)].word)
        BY <4>1, <3>2, <2>2 DEF EntryOf
      <4>3. CellOf(w) \in Cell
        <5>1. w \in image.release .. image.append - 1
          BY <1>1, <3>2, <2>2, LastFacts
        <5> QED BY <5>1, <1>2, CellRange
      <4> QED BY <4>1, <4>2, <4>3, <1>10
    <3> QED BY <3>1, <3>2, <1>5, <1>12
  <2>3. ASSUME NEW c \in Cell, imem'[c].word # NoWord PROVE CellOf(imem'[c].word) = c
    <3>1. CASE imem'[c] = imem[c]
      BY <3>1, <2>3 DEF StreamInv, MemoryFits
    <3>2. CASE \E w \in WordsOf(e) : CellOf(w) = c /\ imem'[c].word = w
      BY <3>2
    <3> QED BY <3>1, <3>2, <1>9
  <2> QED BY <2>1, <2>2, <2>3, <1>8 DEF MemoryFits
<1>15. FetchFits'
  <2>1. /\ image.expected = CellOf(NextWord) /\ hw.b.kind # "link"
        /\ IF hw.a.word = NoWord THEN hw.pc = CellOf(NextWord) /\ hw.a.kind # "link"
           ELSE /\ hw.a.word = NextWord /\ hw.a.cell = CellOf(NextWord)
                /\ hw.a.kind = KindAt(Head(Entries), NextWord)
                /\ hw.pc = CellOf(NextWord + 1)
    BY <1>1 DEF StreamInv, FetchFits, Alive
  <2>2. /\ image'.expected = CellOf(NextWord') /\ hw'.b.kind # "link"
        /\ IF hw'.a.word = NoWord THEN hw'.pc = CellOf(NextWord') /\ hw'.a.kind # "link"
           ELSE /\ hw'.a.word = NextWord' /\ hw'.a.cell = CellOf(NextWord')
                /\ hw'.a.kind = KindAt(Head(Entries'), NextWord')
                /\ hw'.pc = CellOf(NextWord' + 1)
    BY <2>1, <1>8, <1>12
  <2> QED BY <2>2 DEF FetchFits
<1>16. witnesses' \subseteq Witnesses
  BY <1>6, <1>7 DEF WellFormed, EntryRecords
<1>17. witnesses' = UNION {{w \in f.witnesses : w.consumer >= tracker'.next} : f \in ToSet(Entries')}
  <2>1. witnesses = UNION {{w \in f.witnesses : w.consumer >= tracker.next} : f \in ToSet(Entries)}
    BY DEF StreamInv, WitnessesAreFuture
  <2>2. ASSUME NEW w \in e.witnesses PROVE w.consumer >= tracker.next
    <3>1. e.first <= w.producer /\ w.producer < w.consumer /\ w.producer \in Nat /\ w.consumer \in Nat
      BY <2>2 DEF WellFormed, EntryRecords, Witnesses
    <3>2. tracker.next < plan.inst
      BY <1>1, HeadFacts
    <3>3. tracker.next \in Nat /\ plan.inst \in Nat /\ e.first = plan.inst
      BY <1>2
    <3> QED BY ONLY <3>1, <3>2, <3>3
  <2> DEFINE R == UNION {{w \in f.witnesses : w.consumer >= tracker'.next} : f \in ToSet(Entries')}
  <2>3. \A w : w \in R <=> \E f \in ToSet(Entries) \cup {e} : w \in f.witnesses /\ w.consumer >= tracker.next
    BY <1>5, <1>11, <1>12
  <2>4. \A w : w \in witnesses <=> \E f \in ToSet(Entries) : w \in f.witnesses /\ w.consumer >= tracker.next
    BY <2>1
  <2> HIDE DEF R
  <2>5. \A w : w \in R <=> w \in witnesses \/ w \in e.witnesses
    BY <2>2, <2>3, <2>4
  <2>6. R = witnesses'
    BY <2>5, <1>7
  <2> QED BY <2>6 DEF R
<1> QED BY <1>5, <1>8, <1>9, <1>11, <1>12, <1>13, <1>14, <1>15, <1>16, <1>17

-----------------------------------------------------------------------------
(* The initial state, and the clock edges that accept nothing.             *)

\* More words than an entry holds are two entries, hence two instructions.
LEMMA TwoEntriesAhead ==
    ASSUME NEW E \in Seq(EntryRecords), E # <<>>, Contiguous(E), NEW u \in Nat, u > 5,
           EndOf(Last(E)) = Head(E).start + u, NEW p \in Nat, p < Executed(Head(E))
    PROVE Last(E).first + Executed(Last(E)) >= Head(E).first + p + 2
<1> DEFINE h == Head(E)
           l == Last(E)
<1>1. /\ WellFormed(h) /\ WellFormed(l)
      /\ Len(E) >= 2 => h.first + Executed(h) <= l.first
      /\ Len(E) < 2 => h = l
  BY Members
<1>2. /\ h.first \in Nat /\ h.start \in Nat /\ EndOf(h) = h.start + Words(h) /\ Words(h) \in 1 .. 5
      /\ Executed(h) \in Nat /\ l.first \in Nat /\ Executed(l) \in 1 .. 5
  BY <1>1, EntryFacts
<1>3. Len(E) \in Nat
  OBVIOUS
<1>4. Len(E) >= 2
  <2> SUFFICES ASSUME Len(E) < 2 PROVE FALSE
    BY <1>3
  <2>1. h.start + u = h.start + Words(h)
    BY <1>1, <1>2
  <2> QED BY ONLY <2>1, <1>2, u \in Nat, u > 5
<1> DEFINE a == h.first
           x == Executed(h)
           b == l.first
           y == Executed(l)
<1>5. a \in Nat /\ x \in Nat /\ b \in Nat /\ y \in 1 .. 5 /\ a + x <= b /\ p < x
  BY <1>1, <1>2, <1>4
<1> HIDE DEF a, x, b, y, h, l
<1>6. b + y >= a + p + 2
  BY ONLY <1>5, p \in Nat
<1> QED BY <1>6 DEF a, x, b, y, h, l

\* The campaign starts with the delimiter of epoch 0 alone.
LEMMA InitHolds == Init => StreamInv
<1> SUFFICES ASSUME Init PROVE StreamInv
  OBVIOUS
<1> USE CapacityFacts
<1>1. PICK arm \in Arms : /\ plan = BeginEpoch(PlanBoundary(FreshPlan), arm)
                          /\ learner = [active |-> TRUE, arm |-> arm, epochs |-> 0]
  BY DEF Init
<1>2. arm \in ArmIDs
  BY ArmsAssumption
<1>3. FreshPlan \in Plans /\ FreshPlan.inst = 1 /\ FreshPlan.word = 0 /\ FreshPlan.boundary = 0
      /\ FreshPlan.toBegin = 0 /\ FreshPlan.targeted = 0 /\ FreshPlan.fillers = 0
      /\ FreshPlan.terminated = FALSE /\ FreshPlan.template = 1
  <2>1. "A0" \in ArmIDs
    BY DEF ArmIDs
  <2> QED BY <2>1 DEF FreshPlan, Plans
<1>4. /\ WellFormed(EBD0) /\ Words(EBD0) = 1 /\ Executed(EBD0) = 1
      /\ EBD0.start = 0 /\ EBD0.first = 1
      /\ EBD0.witnesses = {} /\ EBD0.key = <<"EBD", 0>>
      /\ EBD0 \in EntryRecords /\ EBD0 # NoEntry
  BY <1>3, DelimiterWellFormed DEF EBD0
<1>5. EBD0.kinds = <<"plain">> /\ EBD0.offsets = <<0>>
  BY DEF EBD0, Delimiter
<1> HIDE DEF EBD0
<1>6. plan = [word |-> 1, inst |-> 2, template |-> 1, boundary |-> 1, toBegin |-> 1,
              pending |-> NoEntry, active |-> TRUE, arm |-> arm, planned |-> 1,
              terminated |-> FALSE, targeted |-> 0, fillers |-> 0]
  <2> DEFINE q == PlanBoundary(FreshPlan)
             none == NoEntry
  <2>1. q = [FreshPlan EXCEPT !.pending = EBD0, !.word = 0 + 1, !.inst = 1 + 1,
                              !.boundary = 0 + 1]
    BY <1>3 DEF PlanBoundary, EBD0
  <2>2. FreshPlan = [word |-> 0, inst |-> 1, template |-> 1, boundary |-> 0, toBegin |-> 0,
                     pending |-> none, active |-> FALSE, arm |-> "A0", planned |-> 0,
                     terminated |-> FALSE, targeted |-> 0, fillers |-> 0]
    BY DEF FreshPlan
  <2> HIDE DEF none, q
  <2>3. q = [word |-> 0 + 1, inst |-> 1 + 1, template |-> 1, boundary |-> 0 + 1, toBegin |-> 0,
             pending |-> EBD0, active |-> FALSE, arm |-> "A0", planned |-> 0,
             terminated |-> FALSE, targeted |-> 0, fillers |-> 0]
    BY ONLY <2>1, <2>2
  <2>4. q.pending = EBD0 /\ q.toBegin = 0
    BY ONLY <2>3
  <2>5. BeginEpoch(q, arm) = [q EXCEPT !.active = TRUE, !.arm = arm, !.planned = 1,
                                       !.pending = none, !.toBegin = 0 + 1]
    BY <2>4, <1>4 DEF BeginEpoch, none
  <2>6. BeginEpoch(q, arm) =
          [word |-> 0 + 1, inst |-> 1 + 1, template |-> 1, boundary |-> 0 + 1, toBegin |-> 0 + 1,
           pending |-> none, active |-> TRUE, arm |-> arm, planned |-> 1,
           terminated |-> FALSE, targeted |-> 0, fillers |-> 0]
    BY ONLY <2>3, <2>5
  <2>7. 0 + 1 = 1 /\ 1 + 1 = 2
    OBVIOUS
  <2>8. plan = BeginEpoch(q, arm)
    BY <1>1 DEF q
  <2> QED BY <2>6, <2>7, <2>8 DEF none
<1>7. /\ config \in [nominal : Nominals, budget : Budgets] /\ phase = "fill"
      /\ ring = [entries |-> <<EBD0>>, used |-> 1]
      /\ tracker = [entries |-> <<EBD0>>, progress |-> 0, next |-> 1, accepted |-> 0, pending |-> 1]
      /\ witnesses = {}
      /\ image = [owner |-> [c \in Cell |-> IF c = 0 THEN 0 ELSE NoWord],
                  append |-> 1, release |-> 0, expected |-> 0]
      /\ loop = [before |-> 0, planned |-> None, closed |-> 0]
      /\ imem = [c \in Cell |-> IF c = 0 THEN [word |-> 0, kind |-> "plain"] ELSE EmptyCell]
      /\ hw = [pc |-> 0, a |-> Bubble, b |-> Bubble]
  BY DEF Init
<1>8. 0 \in Cell /\ CellOf(0) = 0 /\ NoWord = -1 /\ None = 0
  <2>1. 0 \in Cell
    BY DEF Cell
  <2>2. 0 = Capacity * 0 + 0
    OBVIOUS
  <2>3. CellOf(0) = 0
    <3>1. ASSUME NEW w \in Int, NEW r \in Cell, w = Capacity * 0 + r PROVE CellOf(w) = r
      BY <3>1, CellIsUnique
    <3> QED BY <2>1, <2>2, <3>1
  <2> QED BY <2>1, <2>3, SmallNumbers
<1>9. config.budget \in Nat /\ config.budget >= 1
  <2>1. config.budget \in Nat \ {0}
    BY <1>7, ConfigAssumption
  <2> QED BY <2>1
<1>10. Bubble \in Latches /\ EmptyCell \in [word : Nat \cup {NoWord}, kind : WordKinds]
       /\ Bubble.word = NoWord /\ Bubble.kind = "none" /\ EmptyCell.word = NoWord
  BY <1>8 DEF Bubble, EmptyCell, Latches, WordKinds
<1>11. <<EBD0>> \in Seq(EntryRecords) /\ Len(<<EBD0>>) = 1 /\ Head(<<EBD0>>) = EBD0
       /\ Last(<<EBD0>>) = EBD0 /\ ToSet(<<EBD0>>) = {EBD0} /\ <<EBD0>> # <<>>
       /\ <<EBD0>>[1] = EBD0 /\ DOMAIN <<EBD0>> = {1}
  BY <1>4 DEF Last, ToSet
<1>12. Entries = <<EBD0>>
  BY <1>7 DEF Entries
<1>13. StreamTypes
  <2>1. plan \in Plans
    BY <1>2, <1>6 DEF Plans
  <2>2. ring \in Rings /\ tracker \in Trackers /\ learner \in [active : BOOLEAN, arm : ArmIDs, epochs : Nat]
    BY <1>1, <1>2, <1>7, <1>11 DEF Rings, Trackers
  <2>3. image \in Images
    <3>1. [c \in Cell |-> IF c = 0 THEN 0 ELSE NoWord] \in [Cell -> Nat \cup {NoWord}]
      OBVIOUS
    <3> QED BY <3>1, <1>7, <1>8 DEF Images
  <2>4. loop \in [before : Nat, planned : Nat, closed : Nat]
    BY <1>7, <1>8
  <2>5. imem \in [Cell -> [word : Nat \cup {NoWord}, kind : WordKinds]]
    <3>1. [word |-> 0, kind |-> "plain"] \in [word : Nat \cup {NoWord}, kind : WordKinds]
      BY DEF WordKinds
    <3> QED BY <3>1, <1>7, <1>10
  <2>6. hw \in [pc : Cell, a : Latches, b : Latches]
    BY <1>7, <1>8, <1>10
  <2> QED BY <2>1, <2>2, <2>3, <2>4, <2>5, <2>6, <1>7 DEF StreamTypes
<1>14. Contiguous(<<EBD0>>)
  <2>1. 1 .. 1 - 1 = {}
    OBVIOUS
  <2> QED BY <2>1, <1>4, <1>11 DEF Contiguous
<1>15. StreamFits
  <2>1. EndOf(EBD0) = 1
    BY <1>4 DEF EndOf
  <2> QED BY <2>1, <1>4, <1>6, <1>7, <1>11, <1>12, <1>14 DEF StreamFits
<1>16. WordsOf(EBD0) = {0} /\ KindAt(EBD0, 0) = "plain"
  <2>1. EndOf(EBD0) = 1
    BY <1>4 DEF EndOf
  <2> QED BY <2>1, <1>4, <1>5 DEF WordsOf, KindAt
<1>17. MemoryFits
  <2>1. image.release .. image.append - 1 = {0}
    BY <1>7
  <2>2. \A c \in Cell : image.owner[c] = (IF c = 0 THEN 0 ELSE NoWord)
                        /\ imem[c] = (IF c = 0 THEN [word |-> 0, kind |-> "plain"] ELSE EmptyCell)
    BY <1>7
  <2>3. OwnersFit(image)
    BY <2>1, <2>2, <1>8 DEF OwnersFit
  <2>4. \A c \in Cell : imem[c].word # NoWord => CellOf(imem[c].word) = c
    BY <2>2, <1>8, <1>10
  <2>5. \A e \in ToSet(Entries) : \A w \in WordsOf(e) :
           imem[CellOf(w)] = [word |-> w, kind |-> KindAt(e, w)]
    BY <2>2, <1>8, <1>11, <1>12, <1>16
  <2>6. \A w \in image.release .. image.append - 1 : \E e \in ToSet(Entries) : w \in WordsOf(e)
    BY <2>1, <1>11, <1>12, <1>16
  <2> QED BY <2>3, <2>4, <2>5, <2>6 DEF MemoryFits
<1>18. FetchFits
  <2>1. NextWord = 0
    BY <1>4, <1>5, <1>7, <1>11, <1>12 DEF NextWord, WordAt
  <2> QED BY <2>1, <1>7, <1>8, <1>10 DEF FetchFits
<1>19. LaidOutAhead
  BY <1>7 DEF LaidOutAhead
<1>20. EpochFits
  <2>1. 0 = 0 \div 4
    OBVIOUS
  <2>2. plan.fillers = plan.targeted \div TargetedPerFiller
    BY <2>1, <1>6, SmallNumbers
  <2> QED BY <2>2, <1>1, <1>6, <1>7, <1>8, <1>9 DEF EpochFits
<1>21. BoundariesKnown
  BY <1>4, <1>6, <1>7, <1>11, <1>12 DEF BoundariesKnown
<1>22. WitnessesAreFuture
  BY <1>4, <1>7, <1>11, <1>12 DEF WitnessesAreFuture
<1> QED BY <1>13, <1>15, <1>17, <1>18, <1>19, <1>20, <1>21, <1>22 DEF StreamInv

\* A clock edge that accepts nothing changes the DUT only.
LEMMA DutMoves ==
    ASSUME StreamInv, hw' \in [pc : Cell, a : Latches, b : Latches], FetchFits',
           UNCHANGED <<config, phase, plan, ring, tracker, witnesses, image, learner, loop, imem>>
    PROVE StreamInv'
<1>1. StreamTypes'
  BY DEF StreamInv, StreamTypes
<1>2. Entries' = Entries
  BY DEF Entries
<1>3. StreamFits' /\ MemoryFits'
  BY <1>2 DEF StreamInv, StreamFits, MemoryFits
<1>4. LaidOutAhead' /\ EpochFits' /\ BoundariesKnown' /\ WitnessesAreFuture'
  BY <1>2 DEF StreamInv, LaidOutAhead, EpochFits, BoundariesKnown, WitnessesAreFuture
<1> QED BY <1>1, <1>3, <1>4 DEF StreamInv

\* A bubble holds no word.
LEMMA BubbleIsLatch == Bubble \in Latches /\ Bubble.word = NoWord /\ Bubble.kind = "none"
<1>1. 0 \in Cell
  BY CapacityFacts DEF Cell
<1> QED BY <1>1 DEF Bubble, Latches, WordKinds

\* A load holds its successor back: IF/ID stays.
LEMMA StallHolds == StreamInv /\ Stall => StreamInv'
<1> SUFFICES ASSUME StreamInv, Stall PROVE StreamInv'
  OBVIOUS
<1>1. hw \in [pc : Cell, a : Latches, b : Latches]
  BY DEF StreamInv, StreamTypes
<1>2. hw' = [hw EXCEPT !.b = Bubble] /\ hw.b.kind = "load" /\ phase = "run"
  BY DEF Stall
<1>3. hw' \in [pc : Cell, a : Latches, b : Latches] /\ hw'.a = hw.a /\ hw'.pc = hw.pc /\ hw'.b = Bubble
  BY <1>1, <1>2, BubbleIsLatch
<1>4. UNCHANGED <<config, phase, plan, ring, tracker, witnesses, image, learner, loop, imem>>
  BY DEF Stall
<1>5. NextWord' = NextWord /\ Entries' = Entries
  BY <1>4 DEF NextWord, Entries
<1>6. FetchFits'
  BY <1>2, <1>3, <1>4, <1>5, BubbleIsLatch DEF StreamInv, FetchFits
<1> QED BY <1>3, <1>4, <1>6, DutMoves

\* A jump lands on the next word of the plan.
LEMMA FlushHolds == StreamInv /\ Flush => StreamInv'
<1> SUFFICES ASSUME StreamInv, Flush PROVE StreamInv'
  OBVIOUS
<1>1. hw \in [pc : Cell, a : Latches, b : Latches]
  BY DEF StreamInv, StreamTypes
<1>2. hw' = [pc |-> CellOf(hw.b.cell + 3), a |-> Bubble, b |-> Bubble] /\ hw.b.kind = "link"
      /\ phase = "run"
  BY DEF Flush
<1>3. CellOf(hw.b.cell + 3) = CellOf(NextWord) /\ image.expected = CellOf(NextWord)
  BY <1>2 DEF StreamInv, FetchFits
<1>4. CellOf(hw.b.cell + 3) \in Cell
  <2>1. hw.b.cell + 3 \in Int
    BY <1>1 DEF Latches, Cell
  <2> QED BY <2>1, CellRange
<1>5. hw' \in [pc : Cell, a : Latches, b : Latches]
  BY <1>2, <1>4, BubbleIsLatch
<1>6. UNCHANGED <<config, phase, plan, ring, tracker, witnesses, image, learner, loop, imem>>
  BY DEF Flush
<1>7. NextWord' = NextWord /\ Entries' = Entries
  BY <1>6 DEF NextWord, Entries
<1>8. FetchFits'
  BY <1>2, <1>3, <1>6, <1>7, BubbleIsLatch DEF FetchFits
<1> QED BY <1>5, <1>6, <1>8, DutMoves

\* The next word of the plan is fetched.
LEMMA IdleHolds == StreamInv /\ Idle => StreamInv'
<1> SUFFICES ASSUME StreamInv, Idle PROVE StreamInv'
  OBVIOUS
<1>1. /\ hw \in [pc : Cell, a : Latches, b : Latches]
      /\ imem \in [Cell -> [word : Nat \cup {NoWord}, kind : WordKinds]]
  BY DEF StreamInv, StreamTypes
<1>2. /\ hw' = [pc |-> CellOf(hw.pc + 1), a |-> Fetched, b |-> hw.a]
      /\ phase = "run" /\ hw.b.kind # "link" /\ hw.a.word = NoWord
  BY DEF Idle, Advanced
<1>3. Alive
  BY <1>2 DEF Alive
<1>4. /\ NextWord \in Nat /\ NextWord # NoWord
      /\ imem[CellOf(NextWord)] = [word |-> NextWord, kind |-> KindAt(HeadEntry, NextWord)]
  BY <1>3, NextWordFacts
<1>5. hw.pc = CellOf(NextWord) /\ hw.a.kind # "link" /\ image.expected = CellOf(NextWord)
  BY <1>2 DEF StreamInv, FetchFits
<1>6. Fetched = [cell |-> CellOf(NextWord), word |-> NextWord, kind |-> KindAt(HeadEntry, NextWord)]
  BY <1>4, <1>5 DEF Fetched
<1>7. CellOf(hw.pc + 1) = CellOf(NextWord + 1) /\ CellOf(hw.pc + 1) \in Cell
  <2>1. CellOf(CellOf(NextWord) + 1) = CellOf(NextWord + 1)
    BY <1>4, CellShift
  <2>2. CellOf(NextWord + 1) \in Cell
    BY <1>4, CellRange
  <2> QED BY <2>1, <2>2, <1>5
<1>8. Fetched \in Latches
  BY <1>1 DEF Fetched, Latches
<1>9. hw' \in [pc : Cell, a : Latches, b : Latches]
  BY <1>1, <1>2, <1>7, <1>8
<1>10. UNCHANGED <<config, phase, plan, ring, tracker, witnesses, image, learner, loop, imem>>
  BY DEF Idle
<1>11. NextWord' = NextWord /\ Entries' = Entries /\ HeadEntry = Head(Entries)
  BY <1>10 DEF NextWord, Entries, HeadEntry
<1>12. FetchFits'
  <2>1. /\ hw'.a.word = NextWord /\ hw'.a.cell = CellOf(NextWord)
        /\ hw'.a.kind = KindAt(Head(Entries), NextWord) /\ hw'.pc = CellOf(NextWord + 1)
        /\ hw'.b.kind # "link"
    BY <1>2, <1>5, <1>6, <1>7, <1>11
  <2> QED BY <2>1, <1>4, <1>5, <1>10, <1>11 DEF FetchFits
<1> QED BY <1>9, <1>10, <1>12, DutMoves

-----------------------------------------------------------------------------
(* The three kinds of acceptance.                                          *)

\* The numbers that the arithmetic of epochs is about.
LEMMA EpochNumbers ==
    ASSUME StreamInv
    PROVE /\ plan \in Plans /\ plan.inst \in Nat /\ plan.planned \in Nat /\ plan.toBegin \in Nat
          /\ plan.boundary \in Nat /\ plan.word \in Nat
          /\ loop \in [before : Nat, planned : Nat, closed : Nat]
          /\ loop.before \in Nat /\ loop.planned \in Nat /\ loop.closed \in Nat
          /\ tracker.accepted \in Nat /\ tracker.next \in Nat /\ tracker.next = tracker.accepted + 1
          /\ config.budget \in Nat /\ config.nominal \in Nat /\ config.nominal >= 1
          /\ ring.used \in Nat /\ learner \in [active : BOOLEAN, arm : ArmIDs, epochs : Nat]
<1>1. /\ plan \in Plans /\ ring \in Rings /\ tracker \in Trackers
      /\ loop \in [before : Nat, planned : Nat, closed : Nat]
      /\ config \in [nominal : Nominals, budget : Budgets]
      /\ learner \in [active : BOOLEAN, arm : ArmIDs, epochs : Nat]
  BY DEF StreamInv, StreamTypes
<1>2. /\ plan.inst \in Nat /\ plan.planned \in Nat /\ plan.toBegin \in Nat
      /\ plan.boundary \in Nat /\ plan.word \in Nat
  BY <1>1 DEF Plans
<1>3. ring.used \in Nat /\ tracker.accepted \in Nat /\ tracker.next \in Nat
  BY <1>1 DEF Rings, Trackers
<1>4. config.nominal \in Nat \ {0} /\ config.budget \in Nat \ {0}
  BY <1>1, ConfigAssumption
<1>5. tracker.next = tracker.accepted + 1
  BY DEF StreamInv, StreamFits
<1> QED BY <1>1, <1>2, <1>3, <1>4, <1>5

\* What is left to execute when an epoch is planned to its end and goes on.
LEMMA PlannedAhead ==
    ASSUME StreamInv, Accepts, ~AtBudget, ~EpochEnds, ~plan.active
    PROVE /\ loop.planned >= config.nominal /\ loop.planned # None
          /\ tracker.accepted + 1 < loop.before + loop.planned
          /\ tracker.next + 1 < config.budget => plan.inst >= tracker.next + 3
<1>1. phase = "run"
  BY DEF Accepts
<1>2. /\ loop.planned >= config.nominal
      /\ tracker.accepted < loop.before + loop.planned
      /\ IF plan.pending = NoEntry
         THEN plan.inst = loop.before + loop.planned + 1 /\ plan.inst > config.budget
         ELSE /\ plan.pending = Last(Entries)
              /\ plan.pending.first = loop.before + loop.planned + 1
              /\ plan.pending.key = <<"EBD", plan.toBegin>>
  BY <1>1 DEF StreamInv, EpochFits
<1> DEFINE bud == config.budget
           bef == loop.before
           pl == loop.planned
           acc == tracker.accepted
           nxt == tracker.next
           ins == plan.inst
<1>3. bud \in Nat /\ bef \in Nat /\ pl \in Nat /\ acc \in Nat /\ nxt = acc + 1 /\ ins \in Nat
      /\ config.nominal \in Nat /\ config.nominal >= 1
  BY EpochNumbers
<1>4. pl >= config.nominal /\ acc < bef + pl
  BY <1>2
<1>5. pl # 0
  BY ONLY <1>3, <1>4
<1>6. acc + 1 - bef # pl
  BY <1>5 DEF EpochEnds, EpochExecuted
<1>7. acc + 1 < bef + pl
  BY ONLY <1>3, <1>4, <1>6
<1>8. nxt + 1 < bud => ins >= nxt + 3
  <2>1. CASE plan.pending = NoEntry
    <3>1. ins = bef + pl + 1 /\ ins > bud
      BY <1>2, <2>1
    <3>2. ASSUME nxt + 1 < bud PROVE ins >= nxt + 3
      BY ONLY <3>1, <3>2, <1>3, <1>7
    <3> QED BY <3>2
  <2>2. CASE plan.pending # NoEntry
    <3> DEFINE last == Last(Entries)
    <3>1. plan.pending = last /\ last.first = bef + pl + 1 /\ IsBoundary(last)
      BY <1>2, <2>2 DEF IsBoundary
    <3>2. WellFormed(last) /\ last.first + Executed(last) = ins
      BY <1>1, HeadFacts DEF Alive
    <3>3. Executed(last) = 1
      BY <3>1, <3>2 DEF WellFormed
    <3>4. ins = bef + pl + 1 + 1
      BY <3>1, <3>2, <3>3
    <3> QED BY ONLY <3>4, <1>3, <1>7
  <2> QED BY <2>1, <2>2
<1> QED BY <1>2, <1>5, <1>7, <1>8 DEF None

\* An acceptance that neither ends the campaign nor the epoch.
LEMMA AcceptWithinHolds == StreamInv /\ AcceptWithin => StreamInv'
<1> SUFFICES ASSUME StreamInv, AcceptWithin PROVE StreamInv'
  OBVIOUS
<1>1. Accepts /\ ~AtBudget /\ ~EpochEnds
  BY DEF AcceptWithin
<1>2. EventIsPlanned
  BY <1>1, AcceptanceIsPlanned
<1>3. /\ Accepted /\ phase' = (IF Refills THEN "fill" ELSE "run")
      /\ UNCHANGED <<plan, learner, loop>>
  BY <1>2 DEF AcceptWithin
<1>4. phase = "run" /\ phase' \in {"run", "fill"} /\ (phase' = "fill" => Released /\ plan.active)
  BY <1>1, <1>3 DEF Accepts, Refills
<1>5. Alive
  BY <1>4 DEF Alive
<1>6. /\ StreamFits' /\ MemoryFits' /\ FetchFits'
      /\ ring' \in Rings /\ tracker' \in Trackers /\ image' \in Images
      /\ witnesses' \subseteq Witnesses
      /\ hw' \in [pc : Cell, a : Latches, b : Latches]
      /\ witnesses' = UNION {{w \in e.witnesses : w.consumer >= tracker'.next} : e \in ToSet(Entries')}
      /\ tracker'.next = tracker.next + 1 /\ tracker'.accepted = tracker.accepted + 1
      /\ Last(Entries') = Last(Entries) /\ ToSet(Entries') \subseteq ToSet(Entries)
      /\ tracker.next < config.budget /\ plan.inst >= tracker.next + 2
  BY <1>1, <1>3, <1>4, AcceptedFits
<1>7. /\ UNCHANGED <<config, imem, plan, learner, loop>> /\ witnesses' \subseteq witnesses
      /\ ring' = RingAfter /\ tracker' = TrackerAfter /\ image' = ImageAfter
  BY <1>3 DEF Accepted, WitnessesAfter
<1>8. StreamTypes'
  <2>1. phase' \in {"run", "fill", "done"}
    BY <1>4
  <2> QED BY <2>1, <1>6, <1>7 DEF StreamInv, StreamTypes
<1>9. LaidOutAhead'
  <2> SUFFICES ASSUME phase' = "run"
               PROVE /\ tracker'.next < config.budget => plan.inst >= tracker'.next + 2
                     /\ plan.active => ring'.used > Capacity - RefillThreshold
    BY <1>7 DEF LaidOutAhead
  <2> USE CapacityFacts, SmallNumbers
  <2>1. CASE plan.active
    <3> DEFINE F == TrackerAfter.entries
               p == TrackerAfter.progress
               used == RingAfter.used
    <3>1. used > Capacity - RefillThreshold /\ used \in Nat
      <4>1. used \in Nat
        BY <1>6, <1>7 DEF Rings
      <4>2. CASE Released
        <5>1. ~(FreeWords(RingAfter) >= RefillThreshold)
          BY <1>3, <2>1, <4>2 DEF Refills
        <5>2. ~(Capacity - used >= 6)
          BY <5>1 DEF FreeWords
        <5> HIDE DEF used
        <5> QED BY <5>2, <4>1
      <4>3. CASE ~Released
        <5>1. RingAfter = ring
          BY <1>1, <4>3, TrackerAccepts
        <5> QED BY <5>1, <4>1, <1>4, <2>1 DEF StreamInv, LaidOutAhead
      <4> QED BY <4>2, <4>3
    <3>2. used > 5
      <4> HIDE DEF used
      <4> QED BY <3>1
    <3>3. /\ F \in Seq(EntryRecords) /\ F # <<>> /\ Contiguous(F)
          /\ Head(F).start = ImageAfter.release /\ Last(F) = Last(Entries)
          /\ Head(F).first + p = tracker.next + 1 /\ p < Executed(Head(F))
      BY <1>1, NextWordAhead
    <3>4. EndOf(Last(F)) = Head(F).start + used /\ Last(F).first + Executed(Last(F)) = plan.inst
      <4>1. EndOf(Last(Entries)) = image.append
            /\ Last(Entries).first + Executed(Last(Entries)) = plan.inst
        BY <1>5, HeadFacts
      <4>2. ImageAfter.append = image.append /\ ImageAfter.append = ImageAfter.release + used
        BY <1>1, ImageAccepts
      <4> QED BY <3>3, <4>1, <4>2
    <3>5. p \in Nat
      BY <1>6, <1>7 DEF Trackers
    <3>6. Last(F).first + Executed(Last(F)) >= Head(F).first + p + 2
      <4> HIDE DEF F, p, used
      <4> QED BY <3>1, <3>2, <3>3, <3>4, <3>5, TwoEntriesAhead
    <3>7. plan.inst >= tracker.next + 1 + 2
      BY <3>3, <3>4, <3>6
    <3> QED BY <3>1, <3>7, <1>6, <1>7
  <2>2. CASE ~plan.active
    <3>1. tracker.next + 1 < config.budget => plan.inst >= tracker.next + 3
      BY <1>1, <2>2, PlannedAhead
    <3>2. tracker.next \in Nat /\ plan.inst \in Nat
      BY EpochNumbers
    <3> QED BY <3>1, <3>2, <1>6, <2>2
  <2> QED BY <2>1, <2>2
<1>10. EpochFits'
  <2>1. /\ learner.active /\ ~plan.terminated /\ loop.closed = loop.before
        /\ plan.fillers = plan.targeted \div TargetedPerFiller
        /\ loop.before <= tracker.accepted /\ loop.before < config.budget
        /\ learner.arm = plan.arm /\ learner.arm \in Arms
        /\ plan.active =>
             /\ loop.planned = None /\ plan.planned # 0 /\ plan.pending = NoEntry
             /\ plan.inst = loop.before + plan.planned + 1
             /\ plan.boundary = plan.toBegin
    BY <1>4 DEF StreamInv, EpochFits
  <2>2. loop.before <= tracker.accepted + 1 /\ tracker.next + 1 <= config.budget
    BY <2>1, <1>6, EpochNumbers
  <2>3. ~plan.active =>
         /\ loop.planned >= config.nominal
         /\ IF plan.pending = NoEntry
            THEN plan.inst = loop.before + loop.planned + 1 /\ plan.inst > config.budget
                 /\ plan.boundary = plan.toBegin
            ELSE /\ plan.pending = Last(Entries)
                 /\ plan.pending.first = loop.before + loop.planned + 1
                 /\ plan.pending.first <= config.budget
                 /\ plan.pending.key = <<"EBD", plan.toBegin>>
                 /\ plan.boundary = plan.toBegin + 1
    BY <1>4 DEF StreamInv, EpochFits
  <2>4. ~plan.active => tracker.accepted + 1 < loop.before + loop.planned
    BY <1>1, PlannedAhead
  <2>5. phase' # "done" /\ phase' \in {"run", "fill"}
    BY <1>4
  <2> QED BY <2>1, <2>2, <2>3, <2>4, <2>5, <1>4, <1>6, <1>7 DEF EpochFits
<1>11. BoundariesKnown'
  BY <1>6, <1>7 DEF StreamInv, BoundariesKnown
<1>12. WitnessesAreFuture'
  <2>1. loop.planned # None => \A w \in witnesses : w.consumer <= loop.before + loop.planned
    BY DEF StreamInv, WitnessesAreFuture
  <2> QED BY <2>1, <1>6, <1>7 DEF WitnessesAreFuture
<1> QED BY <1>6, <1>8, <1>9, <1>10, <1>11, <1>12 DEF StreamInv

\* When an epoch ends within the budget, what is left of the stream is the delimiter
\* laid out for the next one, and nothing else.
LEMMA BoundaryIsAlone ==
    ASSUME StreamInv, Accepts, ~AtBudget, EpochEnds
    PROVE /\ TrackerAfter.entries = <<plan.pending>> /\ TrackerAfter.progress = 0 /\ Released
          /\ WellFormed(plan.pending) /\ plan.pending # NoEntry /\ ~plan.active
          /\ plan.pending.key = <<"EBD", plan.toBegin>> /\ plan.pending.witnesses = {}
          /\ Executed(plan.pending) = 1 /\ plan.pending.first = tracker.accepted + 2
          /\ plan.pending.start = ImageAfter.release /\ RingAfter.used = Words(plan.pending)
          /\ plan.pending.start = NextWord + 1 /\ plan.boundary = plan.toBegin + 1
          /\ plan.inst = tracker.accepted + 3
          /\ imem[CellOf(NextWord + 1)].word = NextWord + 1
<1> DEFINE F == TrackerAfter.entries
           p == TrackerAfter.progress
           n == NextWord + Step(hw.a.kind)
           bud == config.budget
           bef == loop.before
           pl == loop.planned
           acc == tracker.accepted
           nxt == tracker.next
           ins == plan.inst
<1>1. phase = "run" /\ Alive
  BY DEF Accepts, Alive
<1>2. bud \in Nat /\ bef \in Nat /\ pl \in Nat /\ acc \in Nat /\ nxt = acc + 1 /\ ins \in Nat
  BY EpochNumbers
<1>3. pl # 0 /\ acc + 1 - bef = pl
  BY DEF EpochEnds, EpochExecuted
<1>4. ~plan.active
  BY <1>3 DEF StreamInv, EpochFits, None
<1>5. IF plan.pending = NoEntry
      THEN ins = bef + pl + 1 /\ ins > bud
      ELSE /\ plan.pending = Last(Entries)
           /\ plan.pending.first = bef + pl + 1
           /\ plan.pending.key = <<"EBD", plan.toBegin>>
           /\ plan.boundary = plan.toBegin + 1
  BY <1>1, <1>4 DEF StreamInv, EpochFits
<1>6. /\ F \in Seq(EntryRecords) /\ F # <<>> /\ Contiguous(F)
      /\ Head(F).start = ImageAfter.release /\ Last(F) = Last(Entries)
      /\ Head(F).first + p = nxt + 1 /\ p < Executed(Head(F))
      /\ WordAt(Head(F), p) = n /\ n \in Nat
      /\ imem[CellOf(n)] = [word |-> n, kind |-> KindAt(Head(F), n)]
      /\ hw.a.kind = "link" => ~Released
      /\ nxt < bud /\ ins >= nxt + 2
  BY NextWordAhead
<1>7. plan.pending # NoEntry
  <2> SUFFICES ASSUME plan.pending = NoEntry PROVE FALSE
    OBVIOUS
  <2>1. ins = bef + pl + 1 /\ ins > bud /\ nxt < bud /\ ins >= nxt + 2
    BY <1>5, <1>6
  <2> QED BY ONLY <2>1, <1>2, <1>3
<1>8. /\ plan.pending = Last(F) /\ plan.pending.first = bef + pl + 1
      /\ plan.pending.key = <<"EBD", plan.toBegin>> /\ plan.boundary = plan.toBegin + 1
  BY <1>5, <1>6, <1>7
<1>9. WellFormed(plan.pending) /\ IsBoundary(plan.pending) /\ WellFormed(Head(F))
  BY <1>6, <1>8, Members DEF IsBoundary
<1>10. plan.pending.witnesses = {} /\ Executed(plan.pending) = 1
  BY <1>9 DEF WellFormed
<1>11. bef + pl + 1 = acc + 2 /\ plan.pending.first = acc + 2
  <2>1. bef + pl + 1 = acc + 2
    BY ONLY <1>2, <1>3
  <2> QED BY <2>1, <1>8
<1>12. Len(F) < 2
  <2> SUFFICES ASSUME ~(Len(F) < 2) PROVE FALSE
    OBVIOUS
  <2>1. Len(F) \in Nat
    BY <1>6
  <2>2. Len(F) >= 2
    BY <2>1
  <2>3. Head(F).first + Executed(Head(F)) <= Last(F).first
    BY <1>6, <2>2, Members
  <2> DEFINE a == Head(F).first
             x == Executed(Head(F))
  <2>4. a + p = acc + 1 + 1 /\ p < x /\ a + x <= acc + 2
    BY <2>3, <1>2, <1>6, <1>8, <1>11
  <2>5. a \in Nat /\ x \in Nat
    BY <1>9, EntryFacts
  <2>6. p \in Nat
    BY TrackerAccepts DEF Trackers
  <2> QED BY ONLY <2>4, <2>5, <2>6, <1>2
<1>13. Len(F) = 1 /\ Head(F) = plan.pending
  BY <1>6, <1>8, <1>12, Members
<1>14. F = <<plan.pending>>
  <2>1. F[1] = plan.pending
    BY <1>6, <1>13
  <2> HIDE DEF F
  <2> QED BY <2>1, <1>6, <1>13
<1>15. p = 0 /\ Released
  <2>1. p \in Nat /\ p < 1
    BY <1>6, <1>10, <1>13, TrackerAccepts DEF Trackers
  <2>2. p = 0
    BY <2>1
  <2>3. ASSUME ~Released PROVE FALSE
    <3>1. p = tracker.progress + 1 /\ tracker.progress \in Nat
      BY <2>3, <1>1, TrackerAccepts, HeadFacts
    <3> QED BY <3>1, <2>2
  <2> QED BY <2>2, <2>3
<1>16. n = NextWord + 1 /\ plan.pending.start = n
  <2>1. hw.a.kind # "link"
    BY <1>6, <1>15
  <2>2. n = NextWord + 1
    BY <2>1 DEF Step
  <2>3. plan.pending.offsets[0 + 1] = 0
    BY <1>9 DEF WellFormed
  <2>4. plan.pending.start + 0 = n
    BY <2>3, <1>6, <1>13, <1>15 DEF WordAt
  <2>5. plan.pending.start \in Nat
    BY <1>9, EntryFacts
  <2> QED BY <2>2, <2>4, <2>5
<1>17. RingAfter.used = Words(plan.pending)
  <2>1. EndOf(Last(Entries)) = image.append
    BY <1>1, HeadFacts
  <2>2. ImageAfter.append = image.append /\ ImageAfter.append = ImageAfter.release + RingAfter.used
    BY ImageAccepts
  <2>3. EndOf(plan.pending) = plan.pending.start + Words(plan.pending)
        /\ plan.pending.start \in Nat /\ Words(plan.pending) \in Nat
    BY <1>9, EntryFacts
  <2>4. RingAfter.used \in Nat
    BY TrackerAccepts DEF Rings
  <2>5. plan.pending.start + Words(plan.pending) = plan.pending.start + RingAfter.used
    BY <2>1, <2>2, <2>3, <1>6, <1>8, <1>13
  <2> QED BY <2>3, <2>4, <2>5
<1>18. ins = acc + 3
  <2>1. Last(Entries).first + Executed(Last(Entries)) = plan.inst
    BY <1>1, HeadFacts
  <2>2. ins = acc + 2 + 1
    BY <2>1, <1>6, <1>8, <1>10, <1>11
  <2> QED BY ONLY <2>2, <1>2
<1>19. imem[CellOf(NextWord + 1)].word = NextWord + 1
  BY <1>6, <1>16
<1> QED
  BY <1>4, <1>6, <1>7, <1>8, <1>9, <1>10, <1>11, <1>13, <1>14, <1>15, <1>16, <1>17, <1>18, <1>19

\* The conditions of begin_epoch hold when an epoch ends.
LEMMA BoundaryIsReady ==
    ASSUME StreamInv, Accepts, ~AtBudget, EpochEnds PROVE BoundaryReady
<1>1. /\ TrackerAfter.entries = <<plan.pending>> /\ Released /\ WellFormed(plan.pending)
      /\ plan.pending # NoEntry /\ ~plan.active /\ plan.pending.key = <<"EBD", plan.toBegin>>
      /\ plan.pending.witnesses = {} /\ RingAfter.used = Words(plan.pending)
      /\ plan.pending.start = NextWord + 1 /\ imem[CellOf(NextWord + 1)].word = NextWord + 1
  BY BoundaryIsAlone
<1>2. phase = "run"
  BY DEF Accepts
<1>3. learner.active /\ ~plan.terminated
  BY <1>2 DEF StreamInv, EpochFits
<1>4. RingAfter.entries = <<plan.pending>>
  BY <1>1, TrackerAccepts
<1>5. Resident(ImageAfter) = RingAfter.used
  BY ImageAccepts
<1>6. WitnessesAfter = {}
  <2>1. \A e \in ToSet(TrackerAfter.entries) : e.witnesses = {}
    BY <1>1 DEF ToSet
  <2>2. WitnessesAfter =
          UNION {{w \in e.witnesses : w.consumer >= tracker.next + 1} : e \in ToSet(TrackerAfter.entries)}
    BY WitnessesAccept
  <2> QED BY <2>1, <2>2
<1>7. Fetched.cell = CellOf(plan.pending.start) /\ Fetched.word = plan.pending.start
  <2>1. hw.pc = CellOf(NextWord + 1)
    BY AcceptedWord
  <2> QED BY <2>1, <1>1 DEF Fetched
<1> QED BY <1>1, <1>3, <1>4, <1>5, <1>6, <1>7 DEF BoundaryReady

\* An epoch ends and the next begins.
LEMMA AcceptEpochEndHolds == StreamInv /\ AcceptEpochEnd => StreamInv'
<1> SUFFICES ASSUME StreamInv, AcceptEpochEnd PROVE StreamInv'
  OBVIOUS
<1>1. Accepts /\ ~AtBudget /\ EpochEnds
  BY DEF AcceptEpochEnd
<1>2. EventIsPlanned /\ BoundaryReady
  BY <1>1, AcceptanceIsPlanned, BoundaryIsReady
<1>3. PICK arm \in Arms :
        /\ plan' = BeginEpoch(plan, arm)
        /\ learner' = [active |-> TRUE, arm |-> arm, epochs |-> learner.epochs + 1]
  BY <1>2 DEF AcceptEpochEnd
<1>4. /\ Accepted /\ phase' = "fill"
      /\ loop' = [before |-> tracker.accepted + 1, planned |-> None, closed |-> loop.closed + EpochExecuted]
  BY <1>2 DEF AcceptEpochEnd
<1>5. /\ TrackerAfter.entries = <<plan.pending>> /\ Released /\ WellFormed(plan.pending) /\ ~plan.active
      /\ plan.pending.key = <<"EBD", plan.toBegin>>
      /\ plan.pending.witnesses = {} /\ Executed(plan.pending) = 1
      /\ plan.pending.first = tracker.accepted + 2
      /\ plan.boundary = plan.toBegin + 1 /\ plan.inst = tracker.accepted + 3
  BY <1>1, BoundaryIsAlone
<1>6. /\ plan \in Plans /\ tracker.accepted \in Nat /\ tracker.next = tracker.accepted + 1
      /\ loop.before \in Nat /\ plan.toBegin \in Nat /\ config.budget \in Nat
      /\ learner \in [active : BOOLEAN, arm : ArmIDs, epochs : Nat]
  BY EpochNumbers
<1>7. arm \in ArmIDs
  BY ArmsAssumption
<1> DEFINE none == NoEntry
           new == plan.toBegin + 1
<1>8. plan' = [plan EXCEPT !.active = TRUE, !.arm = arm, !.planned = 1, !.pending = none, !.toBegin = new]
  BY <1>3, <1>5 DEF BeginEpoch
<1>9. none \in EntryRecords \cup {NoEntry} /\ new \in Nat
  BY <1>6
<1>10. /\ plan' \in Plans /\ plan'.active = TRUE /\ plan'.arm = arm /\ plan'.planned = 1
       /\ plan'.pending = none /\ plan'.toBegin = new
       /\ plan'.word = plan.word /\ plan'.inst = plan.inst /\ plan'.boundary = plan.boundary
       /\ plan'.terminated = plan.terminated /\ plan'.targeted = plan.targeted
       /\ plan'.fillers = plan.fillers
  <2> HIDE DEF none, new
  <2> QED BY ONLY <1>6, <1>7, <1>8, <1>9 DEF Plans
<1>11. phase = "run" /\ phase' \in {"run", "fill"}
  BY <1>1, <1>4 DEF Accepts
<1>12. /\ StreamFits' /\ MemoryFits' /\ FetchFits'
       /\ ring' \in Rings /\ tracker' \in Trackers /\ image' \in Images
       /\ witnesses' \subseteq Witnesses
       /\ hw' \in [pc : Cell, a : Latches, b : Latches]
       /\ witnesses' = UNION {{w \in e.witnesses : w.consumer >= tracker'.next} : e \in ToSet(Entries')}
       /\ tracker'.next = tracker.next + 1 /\ tracker'.accepted = tracker.accepted + 1
       /\ tracker.next < config.budget
  BY <1>1, <1>4, <1>5, <1>10, <1>11, AcceptedFits
<1>13. UNCHANGED <<config, imem>> /\ tracker' = TrackerAfter
  BY <1>4 DEF Accepted
<1>14. loop.closed = loop.before /\ loop.before <= tracker.accepted /\ ~plan.terminated
       /\ plan.fillers = plan.targeted \div TargetedPerFiller
  BY <1>11 DEF StreamInv, EpochFits
<1>15. loop.closed + EpochExecuted = tracker.accepted + 1
  BY <1>6, <1>14 DEF EpochExecuted
<1>16. loop' = [before |-> tracker.accepted + 1, planned |-> 0, closed |-> tracker.accepted + 1]
  BY <1>4, <1>15 DEF None
<1>17. StreamTypes'
  <2>1. learner' \in [active : BOOLEAN, arm : ArmIDs, epochs : Nat]
    BY <1>3, <1>6, <1>7
  <2>2. loop' \in [before : Nat, planned : Nat, closed : Nat]
    BY <1>6, <1>16
  <2> QED BY <2>1, <2>2, <1>4, <1>10, <1>12, <1>13 DEF StreamInv, StreamTypes
<1>18. LaidOutAhead'
  BY <1>4 DEF LaidOutAhead
<1>19. EpochFits'
  <2>1. /\ tracker'.accepted = tracker.accepted + 1 /\ tracker'.next <= config.budget
        /\ tracker.accepted + 1 < config.budget
    BY <1>6, <1>12
  <2>2. plan'.inst = tracker.accepted + 1 + 1 + 1
    BY <1>5, <1>6, <1>10
  <2>3. learner'.active = TRUE /\ learner'.arm = arm
    BY <1>3
  <2>4. loop'.before = tracker.accepted + 1 /\ loop'.planned = None /\ loop'.closed = loop'.before
    BY <1>16 DEF None
  <2>5. tracker'.accepted \in Nat /\ loop'.before <= tracker'.accepted
    BY <1>6, <2>1, <2>4
  <2> HIDE DEF new
  <2>6. plan'.boundary = plan'.toBegin
    BY <1>5, <1>10 DEF new
  <2> QED BY <1>4, <1>10, <1>13, <1>14, <2>1, <2>2, <2>3, <2>4, <2>5, <2>6 DEF EpochFits
<1>20. ToSet(Entries') = {plan.pending}
  <2>1. Entries' = <<plan.pending>>
    BY <1>5, <1>13 DEF Entries
  <2> QED BY <2>1 DEF ToSet
<1>21. BoundariesKnown'
  <2>1. plan.pending.first = loop'.before + 1
    BY <1>5, <1>6, <1>16
  <2>2. plan.pending.key[2] = plan.toBegin
    BY <1>5
  <2>3. plan.toBegin < plan'.toBegin
    BY <1>6, <1>10
  <2> QED BY <2>1, <2>2, <2>3, <1>20 DEF BoundariesKnown
<1>22. WitnessesAreFuture'
  BY <1>12, <1>16 DEF WitnessesAreFuture, None
<1> QED BY <1>12, <1>17, <1>18, <1>19, <1>21, <1>22 DEF StreamInv

\* When the budget is reached, what is left of the stream can be discarded.
LEMMA SuffixIsDiscardable ==
    ASSUME StreamInv, Accepts, AtBudget PROVE SuffixDiscardable
<1> DEFINE F == TrackerAfter.entries
           p == TrackerAfter.progress
           used == RingAfter.used
<1>1. phase = "run" /\ Alive /\ tracker.next = config.budget
  BY DEF Accepts, Alive, AtBudget, Index
<1>2. /\ Entries \in Seq(EntryRecords) /\ Entries # <<>> /\ Contiguous(Entries)
      /\ WellFormed(HeadEntry) /\ HeadEntry = Head(Entries)
      /\ HeadEntry.start = image.release /\ EndOf(Last(Entries)) = image.append
      /\ HeadEntry.first + tracker.progress = tracker.next
      /\ Last(Entries).first + Executed(Last(Entries)) = plan.inst
      /\ tracker.progress < Executed(HeadEntry) /\ tracker.progress \in Nat
      /\ image.append = image.release + ring.used
  BY <1>1, HeadFacts DEF HeadEntry, Entries
<1>3. /\ TrackerAfter \in Trackers /\ RingAfter \in Rings
      /\ RingAfter.entries = F /\ Contiguous(F)
      /\ plan.inst = TrackerAfter.next - p + TrackerAfter.pending
      /\ TrackerAfter.next = tracker.next + 1
      /\ ~Released => F = Entries /\ p = tracker.progress + 1 /\ RingAfter = ring
      /\ Released => /\ F = Tail(Entries) /\ p = 0 /\ used = ring.used - Words(HeadEntry)
                     /\ tracker.progress + 1 = Executed(HeadEntry)
  BY TrackerAccepts
<1>4. /\ ImageAfter \in Images /\ OwnersFit(ImageAfter) /\ ImageAfter.append = image.append
      /\ ImageAfter.append = ImageAfter.release + used /\ used <= Capacity
      /\ ~Released => ImageAfter.release = image.release
      /\ Released => ImageAfter.release = EndOf(HeadEntry)
      /\ Resident(ImageAfter) = used
  BY ImageAccepts
<1>5. WitnessesAfter =
        UNION {{w \in e.witnesses : w.consumer >= tracker.next + 1} : e \in ToSet(F)}
  BY WitnessesAccept
<1>6. /\ p \in Nat /\ used \in Nat /\ F \in Seq(EntryRecords) /\ TrackerAfter.pending \in Nat
      /\ tracker.next \in Nat /\ plan.inst \in Nat
  BY <1>3, EpochNumbers DEF Trackers, Rings
<1>7. CASE F = <<>>
  <2>1. Released
    BY <1>2, <1>3, <1>7
  <2>2. ~(Len(Entries) >= 2)
    BY <1>2, <1>3, <1>7, <2>1, ContiguousTail
  <2>3. Len(Entries) < 2
    <3>1. Len(Entries) \in Nat
      BY <1>2
    <3> QED BY <2>2, <3>1
  <2>4. HeadEntry = Last(Entries)
    BY <1>2, <2>3, Members
  <2>5. ImageAfter.append = ImageAfter.release
    BY <1>2, <1>4, <2>1, <2>4
  <2>6. used = 0
    <3>1. ImageAfter.release \in Nat
      BY <1>4 DEF Images
    <3>2. ImageAfter.release + used = ImageAfter.release
      BY <1>4, <2>5
    <3> HIDE DEF used
    <3> QED BY <3>1, <3>2, <1>6
  <2>7. ToSet(F) = {}
    BY <1>7 DEF ToSet
  <2>8. WitnessesAfter = {}
    BY <1>5, <2>7
  <2> QED BY <1>3, <1>4, <1>7, <2>6, <2>8 DEF SuffixDiscardable
<1>8. CASE F # <<>>
  <2>1. Head(F).start = ImageAfter.release /\ Last(F) = Last(Entries)
        /\ Head(F).first + p = tracker.next + 1 /\ p < Executed(Head(F))
    <3>1. CASE ~Released
      <4>1. tracker.progress + 1 < Executed(HeadEntry)
        BY <1>1, <3>1, NextWordFacts DEF Released
      <4>2. HeadEntry.first \in Nat
        BY <1>2, EntryFacts
      <4>3. HeadEntry.first + (tracker.progress + 1) = tracker.next + 1
        BY <1>2, <4>2
      <4> QED BY <1>2, <1>3, <1>4, <3>1, <4>1, <4>3
    <3>2. CASE Released
      <4>1. Head(F).start = EndOf(HeadEntry) /\ Head(F).first = HeadEntry.first + Executed(HeadEntry)
            /\ Last(F) = Last(Entries)
        BY <1>2, <1>3, <1>8, <3>2, ContiguousTail
      <4>2. HeadEntry.first \in Nat /\ Executed(HeadEntry) \in Nat
        BY <1>2, EntryFacts
      <4>3. Head(F).first = tracker.next + 1
        BY <1>2, <1>3, <3>2, <4>1, <4>2
      <4>4. Head(F).first + 0 = tracker.next + 1
        BY <4>3, <1>6
      <4>5. WellFormed(Head(F))
        BY <1>3, <1>6, <1>8, Members
      <4>6. 0 < Executed(Head(F))
        BY <4>5, EntryFacts
      <4> QED BY <1>3, <1>4, <3>2, <4>1, <4>4, <4>6
    <3> QED BY <3>1, <3>2
  <2>2. WellFormed(Head(F)) /\ WellFormed(Last(F))
        /\ (Head(F) = Last(F) \/ Head(F).first + Executed(Head(F)) <= Last(F).first)
    BY <1>3, <1>6, <1>8, Members
  <2>3. EndOf(Last(F)) - Head(F).start = used
    <3>1. ImageAfter.release \in Nat
      BY <1>4 DEF Images
    <3>2. EndOf(Last(F)) = ImageAfter.release + used
      BY <1>2, <1>4, <2>1
    <3> HIDE DEF used, F
    <3> QED BY <3>1, <3>2, <2>1, <1>6
  <2>4. TrackerAfter.pending - p > 0
    <3> DEFINE a == Head(F).first
               x == Executed(Head(F))
               b == Last(F).first
               y == Executed(Last(F))
               i == plan.inst
               q == TrackerAfter.pending
               t == tracker.next
    <3>1. a \in Nat /\ x \in Nat /\ b \in Nat /\ y \in Nat /\ y >= 1
      BY <2>2, EntryFacts
    <3>2. a + p = t + 1 /\ p < x /\ b + y = i
      BY <1>2, <2>1
    <3>3. (a = b /\ x = y) \/ a + x <= b
      BY <2>2
    <3>4. i = (t + 1) - p + q
      BY <1>3
    <3>5. p \in Nat /\ q \in Nat /\ i \in Nat /\ t \in Nat
      BY <1>6
    <3>6. i > t + 1
      BY ONLY <3>1, <3>2, <3>3, <3>5
    <3> QED BY ONLY <3>4, <3>5, <3>6
  <2>5. \A w \in WitnessesAfter : w.consumer > config.budget
    BY <1>1 DEF WitnessesAfter, Index
  <2>6. ImageReleaseLegal(ImageAfter, Head(F).start, used)
    <3>1. ImageAfter.release \in Nat /\ ImageAfter.append \in Nat
      BY <1>4 DEF Images
    <3>2. ImageAfter.append <= ImageAfter.release + Capacity
          /\ ImageAfter.release + used <= ImageAfter.append
      <4> HIDE DEF used
      <4> QED BY <1>4, <1>6, <3>1, CapacityFacts
    <3>3. ImageReleaseLegal(ImageAfter, ImageAfter.release, used)
      <4> HIDE DEF used
      <4> QED BY <1>4, <1>6, <3>2, ImageReleaseFits
    <3> QED BY <3>3, <2>1
  <2> QED BY <1>3, <1>8, <2>1, <2>3, <2>4, <2>5, <2>6 DEF SuffixDiscardable
<1> QED BY <1>7, <1>8

\* The last acceptance of the campaign discards the rest of the stream.
LEMMA AcceptBudgetHolds == StreamInv /\ AcceptBudget => StreamInv'
<1> SUFFICES ASSUME StreamInv, AcceptBudget PROVE StreamInv'
  OBVIOUS
<1>1. Accepts /\ AtBudget /\ phase = "run" /\ Alive /\ tracker.next = config.budget
  BY DEF AcceptBudget, Accepts, Alive, AtBudget, Index
<1>2. /\ learner.active /\ ~plan.terminated /\ loop.closed = loop.before
      /\ loop.before <= tracker.accepted /\ plan.fillers = plan.targeted \div TargetedPerFiller
  BY <1>1 DEF StreamInv, EpochFits
<1>3. /\ plan \in Plans /\ tracker.accepted \in Nat /\ tracker.next = tracker.accepted + 1
      /\ loop \in [before : Nat, planned : Nat, closed : Nat]
      /\ loop.before \in Nat /\ config.budget \in Nat
      /\ learner \in [active : BOOLEAN, arm : ArmIDs, epochs : Nat]
  BY EpochNumbers
<1>4. EpochExecuted > 0 /\ loop.closed + EpochExecuted = tracker.accepted + 1
  BY <1>2, <1>3 DEF EpochExecuted
<1>5. EventIsPlanned /\ CampaignClosable
  BY <1>1, <1>2, <1>4, AcceptanceIsPlanned, SuffixIsDiscardable DEF CampaignClosable
<1>6. /\ hw' = Advanced
      /\ tracker' = [TrackerAfter EXCEPT !.entries = <<>>, !.progress = 0, !.pending = 0]
      /\ ring' = [entries |-> <<>>, used |-> 0]
      /\ image' = ImageRelease(ImageAfter, ImageAfter.release, RingAfter.used)
      /\ witnesses' = {}
      /\ plan' = TerminatePlanning(plan)
      /\ learner' = [learner EXCEPT !.active = FALSE, !.epochs = @ + 1]
      /\ loop' = [loop EXCEPT !.closed = @ + EpochExecuted]
      /\ phase' = "done"
      /\ UNCHANGED <<config, imem>>
  BY <1>5 DEF AcceptBudget
<1>7. /\ TrackerAfter \in Trackers /\ RingAfter \in Rings
      /\ TrackerAfter.next = tracker.next + 1 /\ TrackerAfter.accepted = tracker.accepted + 1
  BY <1>1, TrackerAccepts
<1>8. <<>> \in Seq(EntryRecords) /\ ToSet(<<>>) = {} /\ DOMAIN <<>> = {} /\ Len(<<>>) = 0
  BY DEF ToSet
<1>9. /\ tracker' \in Trackers /\ tracker'.entries = <<>> /\ tracker'.progress = 0
      /\ tracker'.pending = 0 /\ tracker'.next = tracker.next + 1
      /\ tracker'.accepted = tracker.accepted + 1
  BY <1>6, <1>7, <1>8 DEF Trackers
<1>10. ring' \in Rings /\ ring'.entries = <<>> /\ ring'.used = 0
  BY <1>6, <1>8 DEF Rings
<1>11. /\ image' \in Images /\ OwnersFit(image') /\ image'.append = image'.release
  <2> DEFINE used == RingAfter.used
             m == ImageAfter
  <2>1. /\ m \in Images /\ OwnersFit(m) /\ m.append = m.release + used /\ used <= Capacity
    BY <1>1, ImageAccepts
  <2>2. used \in Nat /\ m.release \in Nat /\ m.append \in Nat
    BY <1>7, <2>1 DEF Rings, Images
  <2>3. image' = ImageRelease(m, m.release, used)
    BY <1>6
  <2> HIDE DEF used, m
  <2>4. m.append <= m.release + Capacity /\ m.release + used <= m.append
    BY <2>1, <2>2, CapacityFacts
  <2>5. /\ image' \in Images /\ OwnersFit(image')
        /\ image'.append = m.append /\ image'.release = m.release + used
    BY <2>1, <2>2, <2>3, <2>4, ImageReleaseFits
  <2> QED BY <2>1, <2>5
<1>12. /\ plan' \in Plans /\ plan'.active = FALSE /\ plan'.terminated = TRUE
       /\ plan'.targeted = plan.targeted /\ plan'.fillers = plan.fillers
  <2> DEFINE none == NoEntry
  <2>1. plan' = [plan EXCEPT !.active = FALSE, !.planned = 0, !.pending = none, !.terminated = TRUE]
    BY <1>6 DEF TerminatePlanning
  <2>2. none \in EntryRecords \cup {NoEntry}
    OBVIOUS
  <2> HIDE DEF none
  <2> QED BY ONLY <2>1, <2>2, <1>3 DEF Plans
<1>13. /\ learner' \in [active : BOOLEAN, arm : ArmIDs, epochs : Nat] /\ learner'.active = FALSE
  <2>1. learner.epochs + 1 \in Nat
    BY <1>3
  <2>2. learner' = [learner EXCEPT !.active = FALSE, !.epochs = learner.epochs + 1]
    BY <1>6
  <2> DEFINE n == learner.epochs + 1
  <2>3. n \in Nat /\ learner' = [learner EXCEPT !.active = FALSE, !.epochs = n]
    BY <2>1, <2>2
  <2> HIDE DEF n
  <2> QED BY ONLY <1>3, <2>3
<1>14. /\ loop' \in [before : Nat, planned : Nat, closed : Nat]
       /\ loop'.closed = tracker.accepted + 1
  <2>1. loop' = [loop EXCEPT !.closed = tracker.accepted + 1]
    BY <1>3, <1>4, <1>6
  <2> QED BY <2>1, <1>3
<1>15. hw' \in [pc : Cell, a : Latches, b : Latches]
  <2>1. /\ hw \in [pc : Cell, a : Latches, b : Latches]
        /\ imem \in [Cell -> [word : Nat \cup {NoWord}, kind : WordKinds]]
    BY DEF StreamInv, StreamTypes
  <2>2. Fetched \in Latches
    BY <2>1 DEF Fetched, Latches
  <2>3. CellOf(hw.pc + 1) \in Cell
    <3>1. hw.pc + 1 \in Int
      BY <2>1 DEF Cell
    <3> QED BY <3>1, CellRange
  <2> QED BY <2>1, <2>2, <2>3, <1>6 DEF Advanced
<1>16. StreamTypes'
  BY <1>6, <1>9, <1>10, <1>11, <1>12, <1>13, <1>14, <1>15 DEF StreamInv, StreamTypes
<1>17. Entries' = <<>>
  BY <1>9 DEF Entries
<1>18. StreamFits'
  <2>1. Contiguous(Entries')
    BY <1>8, <1>17 DEF Contiguous
  <2>2. image'.append = image'.release + ring'.used /\ ring'.used <= Capacity
    <3>1. image'.release \in Nat
      BY <1>11 DEF Images
    <3> QED BY <3>1, <1>10, <1>11, CapacityFacts
  <2>3. tracker'.next = tracker'.accepted + 1
    BY <1>3, <1>9
  <2> QED BY <2>1, <2>2, <2>3, <1>6, <1>9, <1>10, <1>17 DEF StreamFits
<1>19. MemoryFits'
  <2>1. image'.release .. image'.append - 1 = {}
    <3>1. image'.release \in Nat
      BY <1>11 DEF Images
    <3> QED BY <3>1, <1>11
  <2>2. \A c \in Cell : imem[c].word # NoWord => CellOf(imem[c].word) = c
    BY DEF StreamInv, MemoryFits
  <2> QED BY <2>1, <2>2, <1>6, <1>8, <1>11, <1>17 DEF MemoryFits
<1>20. FetchFits' /\ LaidOutAhead'
  BY <1>6 DEF FetchFits, LaidOutAhead
<1>21. EpochFits'
  <2>1. tracker'.accepted = config.budget
    BY <1>1, <1>3, <1>9
  <2> QED BY <2>1, <1>2, <1>6, <1>9, <1>12, <1>13, <1>14 DEF EpochFits
<1>22. BoundariesKnown'
  BY <1>8, <1>17 DEF BoundariesKnown
<1>23. WitnessesAreFuture'
  BY <1>6, <1>8, <1>17 DEF WitnessesAreFuture
<1> QED BY <1>16, <1>18, <1>19, <1>20, <1>21, <1>22, <1>23 DEF StreamInv

-----------------------------------------------------------------------------
(* The filling steps.                                                      *)

\* What every filling step may rely on.
LEMMA FillFacts ==
    ASSUME StreamInv, phase = "fill", plan.active
    PROVE /\ Alive /\ plan.inst >= 1 /\ plan.fillers = plan.targeted \div 4
          /\ tracker.accepted + 1 < plan.inst /\ tracker.next < plan.inst
          /\ loop.planned = None /\ plan.planned # 0 /\ plan.pending = NoEntry
          /\ plan.inst = loop.before + plan.planned + 1 /\ plan.boundary = plan.toBegin
          /\ FreeWords(ring) \in Int /\ FreeWords(ring) = Capacity - ring.used
          /\ learner.active /\ ~plan.terminated /\ loop.closed = loop.before
          /\ loop.before <= tracker.accepted /\ loop.before < config.budget
          /\ tracker.next <= config.budget
          /\ learner.arm = plan.arm /\ learner.arm \in Arms
<1>1. Alive
  BY DEF Alive
<1>2. /\ loop.planned = None /\ plan.planned # 0 /\ plan.pending = NoEntry
      /\ plan.inst = loop.before + plan.planned + 1 /\ plan.boundary = plan.toBegin
      /\ learner.active /\ ~plan.terminated /\ loop.closed = loop.before
      /\ loop.before <= tracker.accepted /\ loop.before < config.budget
      /\ tracker.next <= config.budget
      /\ learner.arm = plan.arm /\ learner.arm \in Arms
      /\ plan.fillers = plan.targeted \div TargetedPerFiller
  BY DEF StreamInv, EpochFits
<1>3. tracker.next < plan.inst
  BY <1>1, HeadFacts
<1>4. plan.inst \in Nat /\ tracker.next \in Nat /\ tracker.next = tracker.accepted + 1
      /\ ring.used \in Nat
  BY EpochNumbers
<1>5. plan.inst >= 1
  BY <1>3, <1>4
<1> QED BY <1>1, <1>2, <1>3, <1>4, <1>5, CapacityFacts, SmallNumbers DEF FreeWords

\* The plan goes on and so does the clock hold: what a step that lays an entry of the
\* active epoch out leaves true.
LEMMA FillPayloadHolds == StreamInv /\ FillPayload => StreamInv'
<1> SUFFICES ASSUME StreamInv, FillPayload PROVE StreamInv'
  OBVIOUS
<1> DEFINE e == Block(plan)
<1>1. phase = "fill" /\ plan.active /\ PayloadDue
  BY DEF FillPayload
<1>2. /\ Alive /\ plan.inst >= 1 /\ plan.fillers = plan.targeted \div 4
      /\ loop.planned = None /\ plan.planned # 0 /\ plan.pending = NoEntry
      /\ plan.inst = loop.before + plan.planned + 1 /\ plan.boundary = plan.toBegin
      /\ FreeWords(ring) \in Int
      /\ learner.active /\ ~plan.terminated /\ loop.closed = loop.before
      /\ loop.before <= tracker.accepted /\ loop.before < config.budget
      /\ tracker.next <= config.budget
      /\ learner.arm = plan.arm /\ learner.arm \in Arms
  BY <1>1, FillFacts
<1>3. plan \in Plans /\ plan.inst \in Nat /\ plan.planned \in Nat /\ loop.before \in Nat
  BY EpochNumbers
<1>4. /\ FillersDue(plan) \in {0, 1}
      /\ plan.fillers + FillersDue(plan) = (plan.targeted + Len(Template(plan.arm).kinds)) \div 4
  BY <1>2, <1>3, FillersDueSmall
<1>5. WellFormed(e) /\ ~IsBoundary(e) /\ e.start = plan.word /\ e.first = plan.inst
  BY <1>2, <1>3, <1>4, BlockWellFormed
<1>6. /\ Words(e) \in 1 .. 5 /\ Executed(e) \in 1 .. 5 /\ EndOf(e) \in Nat
      /\ Words(e) \in Nat /\ Executed(e) \in Nat
  BY <1>5, EntryFacts
<1>7. Words(e) <= FreeWords(ring)
  <2>1. FreeWords(ring) >= 6
    BY <1>1, SmallNumbers DEF PayloadDue
  <2> HIDE DEF e
  <2> QED BY <2>1, <1>2, <1>6
<1>8. PatchLegal(e)
  <2> HIDE DEF e
  <2> QED BY <1>1, <1>5, <1>7, PatchHolds
<1>9. /\ Patch(e) /\ plan' = PlanBlock(plan) /\ UNCHANGED <<config, phase, learner, loop, hw>>
  BY <1>4, <1>8, SmallNumbers DEF FillPayload
<1> DEFINE word == EndOf(e)
           inst == plan.inst + Executed(e)
           template == plan.template + 1
           planned == plan.planned + Executed(e)
           targeted == plan.targeted + Len(Template(plan.arm).kinds)
           fillers == plan.fillers + FillersDue(plan)
<1>10. plan' = [plan EXCEPT !.word = word, !.inst = inst, !.template = template,
                            !.planned = planned, !.targeted = targeted, !.fillers = fillers]
  BY <1>9 DEF PlanBlock
<1>11. word \in Nat /\ inst \in Nat /\ template \in Nat /\ planned \in Nat /\ targeted \in Nat
       /\ fillers \in Nat
  <2>1. plan.template \in Nat /\ plan.targeted \in Nat /\ plan.fillers \in Nat /\ plan.arm \in ArmIDs
    BY <1>3 DEF Plans
  <2>2. Len(Template(plan.arm).kinds) \in Nat
    BY <2>1, TemplateShape DEF Shaped
  <2>3. FillersDue(plan) \in Nat
    BY <1>4
  <2>4. \A a, b \in Nat : a + b \in Nat
    OBVIOUS
  <2>5. inst \in Nat /\ planned \in Nat /\ word \in Nat
    BY <2>4, <1>3, <1>6
  <2>6. template \in Nat /\ targeted \in Nat /\ fillers \in Nat
    BY <2>1, <2>2, <2>3, <2>4
  <2> QED BY <2>5, <2>6
<1>12. /\ plan' \in Plans /\ plan'.word = word /\ plan'.inst = inst /\ plan'.planned = planned
       /\ plan'.targeted = targeted /\ plan'.fillers = fillers
       /\ plan'.active = plan.active /\ plan'.pending = plan.pending /\ plan'.arm = plan.arm
       /\ plan'.terminated = plan.terminated /\ plan'.boundary = plan.boundary
       /\ plan'.toBegin = plan.toBegin
  <2> HIDE DEF word, inst, template, planned, targeted, fillers
  <2> QED BY ONLY <1>3, <1>10, <1>11 DEF Plans
<1>13. /\ StreamFits' /\ MemoryFits' /\ FetchFits'
       /\ ring' \in Rings /\ tracker' \in Trackers /\ image' \in Images
       /\ imem' \in [Cell -> [word : Nat \cup {NoWord}, kind : WordKinds]]
       /\ witnesses' \subseteq Witnesses
       /\ witnesses' = UNION {{w \in f.witnesses : w.consumer >= tracker'.next} : f \in ToSet(Entries')}
       /\ tracker'.next = tracker.next /\ tracker'.accepted = tracker.accepted
       /\ ToSet(Entries') = ToSet(Entries) \cup {e}
  <2>1. plan'.word = EndOf(e) /\ plan'.inst = e.first + Executed(e)
    BY <1>5, <1>12
  <2>2. phase' \in {"run", "fill"} /\ hw' = hw
    BY <1>1, <1>9
  <2> HIDE DEF e
  <2> QED BY <2>1, <2>2, <1>1, <1>5, <1>7, <1>9, PatchFits
<1>14. StreamTypes'
  BY <1>9, <1>12, <1>13 DEF StreamInv, StreamTypes
<1>15. LaidOutAhead'
  BY <1>1, <1>9 DEF LaidOutAhead
<1>16. EpochFits'
  <2>1. plan'.inst = loop.before + plan'.planned + 1 /\ plan'.planned # 0
    <3> DEFINE x == Executed(e)
    <3>1. x \in Nat
      BY <1>6
    <3> HIDE DEF x
    <3>2. plan'.inst = plan.inst + x /\ plan'.planned = plan.planned + x
      BY <1>12 DEF x
    <3> QED BY <3>1, <3>2, <1>2, <1>3
  <2>2. plan'.fillers = plan'.targeted \div TargetedPerFiller
    BY <1>4, <1>12, SmallNumbers
  <2>3. UNCHANGED <<config, phase, learner, loop>> /\ plan'.active = plan.active
        /\ plan'.pending = plan.pending /\ plan'.arm = plan.arm /\ plan'.terminated = plan.terminated
        /\ plan'.boundary = plan.boundary /\ plan'.toBegin = plan.toBegin
        /\ tracker'.next = tracker.next /\ tracker'.accepted = tracker.accepted
    BY <1>9, <1>12, <1>13
  <2> HIDE DEF word, inst, template, planned, targeted, fillers, e
  <2> QED BY <2>1, <2>2, <2>3, <1>1, <1>2 DEF EpochFits
<1>17. BoundariesKnown'
  BY <1>5, <1>9, <1>12, <1>13 DEF StreamInv, BoundariesKnown
<1>18. WitnessesAreFuture'
  BY <1>2, <1>9, <1>13 DEF WitnessesAreFuture
<1> QED BY <1>13, <1>14, <1>15, <1>16, <1>17, <1>18 DEF StreamInv

\* The entries of a stream with a complete plan end where the epoch does.
LEMMA WitnessesEndWithPlan ==
    ASSUME StreamInv, Alive, plan.inst = loop.before + plan.planned + 1
    PROVE \A f \in ToSet(Entries) : \A w \in f.witnesses :
            w.consumer <= loop.before + plan.planned
<1> SUFFICES ASSUME NEW f \in ToSet(Entries), NEW w \in f.witnesses
             PROVE w.consumer <= loop.before + plan.planned
  OBVIOUS
<1>1. WellFormed(f) /\ f.first + Executed(f) <= plan.inst /\ w.consumer \in Nat
      /\ w.consumer < f.first + Executed(f)
  BY LastFacts
<1>2. f.first \in Nat /\ Executed(f) \in Nat
  BY <1>1, EntryFacts
<1>3. loop.before \in Nat /\ plan.planned \in Nat /\ plan.inst \in Nat
  BY EpochNumbers
<1> QED BY <1>1, <1>2, <1>3

\* The next delimiter is laid out and the plan of the epoch closes.
LEMMA FillBoundaryHolds == StreamInv /\ FillBoundary => StreamInv'
<1> SUFFICES ASSUME StreamInv, FillBoundary PROVE StreamInv'
  OBVIOUS
<1> DEFINE e == Delimiter(plan)
<1>1. phase = "fill" /\ plan.active /\ BoundaryDue
  BY DEF FillBoundary
<1>2. /\ Alive /\ plan.inst >= 1 /\ plan.fillers = plan.targeted \div 4
      /\ loop.planned = None /\ plan.planned # 0 /\ plan.pending = NoEntry
      /\ tracker.accepted + 1 < plan.inst /\ tracker.next < plan.inst
      /\ plan.inst = loop.before + plan.planned + 1 /\ plan.boundary = plan.toBegin
      /\ FreeWords(ring) \in Int
      /\ learner.active /\ ~plan.terminated /\ loop.closed = loop.before
      /\ loop.before <= tracker.accepted /\ loop.before < config.budget
      /\ tracker.next <= config.budget
      /\ learner.arm = plan.arm /\ learner.arm \in Arms
  BY <1>1, FillFacts
<1>3. plan \in Plans /\ plan.inst \in Nat /\ plan.planned \in Nat /\ loop.before \in Nat
      /\ loop \in [before : Nat, planned : Nat, closed : Nat] /\ plan.boundary \in Nat
      /\ tracker.next \in Nat /\ tracker.accepted \in Nat /\ config.budget \in Nat
      /\ config.nominal \in Nat
  BY EpochNumbers
<1>4. plan.planned >= config.nominal /\ plan.inst <= config.budget /\ FreeWords(ring) >= 1
  BY <1>1, SmallNumbers DEF BoundaryDue, PlanComplete
<1>5. /\ WellFormed(e) /\ Words(e) = 1 /\ Executed(e) = 1
      /\ e.start = plan.word /\ e.first = plan.inst /\ e.witnesses = {}
      /\ e.key = <<"EBD", plan.boundary>> /\ e \in EntryRecords /\ e # NoEntry
  BY <1>2, <1>3, DelimiterWellFormed
<1>6. Words(e) <= FreeWords(ring) /\ EndOf(e) \in Nat /\ EndOf(e) = plan.word + 1
  <2> HIDE DEF e
  <2> QED BY <1>4, <1>5, EntryFacts
<1>7. PatchLegal(e)
  <2> HIDE DEF e
  <2> QED BY <1>1, <1>5, <1>6, PatchHolds
<1>8. /\ Patch(e) /\ CloseEpochPlan(PlanBoundary(plan)) /\ phase' = "run"
      /\ UNCHANGED <<config, learner, hw>>
  BY <1>2, <1>7 DEF FillBoundary
<1> DEFINE word == plan.word + 1
           inst == plan.inst + 1
           boundary == plan.boundary + 1
           q == PlanBoundary(plan)
<1>9. q = [plan EXCEPT !.pending = e, !.word = word, !.inst = inst, !.boundary = boundary]
  BY DEF PlanBoundary
<1>10. plan' = [q EXCEPT !.active = FALSE, !.planned = 0]
       /\ loop' = [loop EXCEPT !.planned = q.planned]
  BY <1>8 DEF CloseEpochPlan, ClosePlanning
<1>11. word \in Nat /\ inst \in Nat /\ boundary \in Nat
  BY <1>3, EpochNumbers
<1>12. /\ plan' \in Plans /\ plan'.word = word /\ plan'.inst = inst /\ plan'.planned = 0
       /\ plan'.targeted = plan.targeted /\ plan'.fillers = plan.fillers
       /\ plan'.active = FALSE /\ plan'.pending = e /\ plan'.arm = plan.arm
       /\ plan'.terminated = plan.terminated /\ plan'.boundary = boundary
       /\ plan'.toBegin = plan.toBegin /\ q.planned = plan.planned
  <2>1. e \in EntryRecords \cup {NoEntry}
    BY <1>5
  <2> HIDE DEF word, inst, boundary, q, e
  <2>2. q \in Plans
    BY ONLY <2>1, <1>3, <1>9, <1>11 DEF Plans
  <2>3. /\ q.word = word /\ q.inst = inst /\ q.targeted = plan.targeted /\ q.fillers = plan.fillers
        /\ q.pending = e /\ q.arm = plan.arm /\ q.terminated = plan.terminated
        /\ q.boundary = boundary /\ q.toBegin = plan.toBegin /\ q.planned = plan.planned
    BY ONLY <1>3, <1>9 DEF Plans
  <2>4. /\ plan' \in Plans /\ plan'.word = q.word /\ plan'.inst = q.inst /\ plan'.planned = 0
        /\ plan'.targeted = q.targeted /\ plan'.fillers = q.fillers
        /\ plan'.active = FALSE /\ plan'.pending = q.pending /\ plan'.arm = q.arm
        /\ plan'.terminated = q.terminated /\ plan'.boundary = q.boundary
        /\ plan'.toBegin = q.toBegin
    BY ONLY <2>2, <1>10 DEF Plans
  <2> QED BY <2>3, <2>4
<1>13. /\ loop' \in [before : Nat, planned : Nat, closed : Nat]
       /\ loop'.before = loop.before /\ loop'.planned = plan.planned /\ loop'.closed = loop.closed
  <2>1. loop' = [loop EXCEPT !.planned = plan.planned]
    BY <1>10, <1>12
  <2> QED BY ONLY <2>1, <1>3
<1> HIDE DEF q
<1>14. /\ StreamFits' /\ MemoryFits' /\ FetchFits'
       /\ ring' \in Rings /\ tracker' \in Trackers /\ image' \in Images
       /\ imem' \in [Cell -> [word : Nat \cup {NoWord}, kind : WordKinds]]
       /\ witnesses' \subseteq Witnesses
       /\ witnesses' = UNION {{w \in f.witnesses : w.consumer >= tracker'.next} : f \in ToSet(Entries')}
       /\ tracker'.next = tracker.next /\ tracker'.accepted = tracker.accepted
       /\ Last(Entries') = e /\ ToSet(Entries') = ToSet(Entries) \cup {e}
  <2>1. plan'.word = EndOf(e) /\ plan'.inst = e.first + Executed(e)
    BY <1>5, <1>6, <1>12
  <2>2. phase' \in {"run", "fill"} /\ hw' = hw
    BY <1>8
  <2> HIDE DEF e
  <2> QED BY <2>1, <2>2, <1>1, <1>5, <1>6, <1>8, PatchFits
<1>15. StreamTypes'
  BY <1>8, <1>12, <1>13, <1>14 DEF StreamInv, StreamTypes
<1>16. LaidOutAhead'
  <2>1. plan'.inst >= tracker'.next + 2
    BY <1>2, <1>3, <1>12, <1>14
  <2> QED BY <2>1, <1>12 DEF LaidOutAhead
<1>17. EpochFits'
  <2>1. loop'.planned >= config.nominal /\ tracker'.accepted < loop'.before + loop'.planned
    <3>1. tracker.accepted < loop.before + plan.planned
      BY <1>2, <1>3
    <3> QED BY <3>1, <1>4, <1>13, <1>14
  <2>2. /\ plan'.pending # NoEntry /\ plan'.pending = Last(Entries')
        /\ plan'.pending.first = loop'.before + loop'.planned + 1
        /\ plan'.pending.first <= config.budget
        /\ plan'.pending.key = <<"EBD", plan'.toBegin>>
        /\ plan'.boundary = plan'.toBegin + 1
    BY <1>2, <1>4, <1>5, <1>12, <1>13, <1>14
  <2>3. plan'.fillers = plan'.targeted \div TargetedPerFiller
    BY <1>2, <1>12, SmallNumbers
  <2> HIDE DEF e, word, inst, boundary
  <2> QED BY <2>1, <2>2, <2>3, <1>2, <1>8, <1>12, <1>13, <1>14 DEF EpochFits
<1>18. BoundariesKnown'
  <2>1. ASSUME NEW f \in ToSet(Entries), IsBoundary(f)
        PROVE f.first = loop.before + 1 /\ f.key[2] < plan.toBegin
    <3>1. f # plan.pending
      BY <1>2, <2>1 DEF IsBoundary, NoEntry
    <3> QED BY <2>1, <3>1 DEF StreamInv, BoundariesKnown
  <2> QED BY <2>1, <1>12, <1>13, <1>14 DEF BoundariesKnown
<1>19. WitnessesAreFuture'
  <2>1. \A f \in ToSet(Entries) : \A w \in f.witnesses : w.consumer <= loop.before + plan.planned
    BY <1>2, WitnessesEndWithPlan
  <2>2. \A f \in ToSet(Entries') : \A w \in f.witnesses : w.consumer <= loop'.before + loop'.planned
    BY <2>1, <1>5, <1>13, <1>14
  <2> QED BY <2>2, <1>8, <1>14 DEF WitnessesAreFuture
<1> QED BY <1>14, <1>15, <1>16, <1>17, <1>18, <1>19 DEF StreamInv

\* A step that only ends the filling, with the plan closed or not.
LEMMA ClockStarts ==
    ASSUME StreamInv, phase = "fill", phase' = "run",
           UNCHANGED <<config, ring, tracker, witnesses, image, learner, imem, hw>>,
           plan' \in Plans, plan'.word = plan.word, plan'.inst = plan.inst
    PROVE StreamFits' /\ MemoryFits' /\ FetchFits' /\ Entries' = Entries
<1>1. Entries' = Entries /\ NextWord' = NextWord
  BY DEF Entries, NextWord
<1>2. StreamFits'
  BY <1>1 DEF StreamInv, StreamFits
<1>3. MemoryFits'
  BY <1>1 DEF StreamInv, MemoryFits
<1>4. FetchFits'
  BY <1>1 DEF StreamInv, FetchFits
<1> QED BY <1>1, <1>2, <1>3, <1>4

\* The plan of the last epoch closes.
LEMMA FillLastHolds == StreamInv /\ FillLast => StreamInv'
<1> SUFFICES ASSUME StreamInv, FillLast PROVE StreamInv'
  OBVIOUS
<1>1. phase = "fill" /\ plan.active /\ PlanComplete /\ plan.inst > config.budget
  BY DEF FillLast
<1>2. /\ Alive /\ plan.fillers = plan.targeted \div 4
      /\ loop.planned = None /\ plan.pending = NoEntry
      /\ tracker.accepted + 1 < plan.inst /\ tracker.next < plan.inst
      /\ plan.inst = loop.before + plan.planned + 1 /\ plan.boundary = plan.toBegin
      /\ learner.active /\ ~plan.terminated /\ loop.closed = loop.before
      /\ loop.before <= tracker.accepted /\ loop.before < config.budget
      /\ tracker.next <= config.budget
      /\ learner.arm = plan.arm /\ learner.arm \in Arms
  BY <1>1, FillFacts
<1>3. plan \in Plans /\ plan.inst \in Nat /\ plan.planned \in Nat /\ loop.before \in Nat
      /\ loop \in [before : Nat, planned : Nat, closed : Nat]
      /\ tracker.next \in Nat /\ tracker.accepted \in Nat /\ config.budget \in Nat
      /\ config.nominal \in Nat
  BY EpochNumbers
<1>4. /\ plan' = [plan EXCEPT !.active = FALSE, !.planned = 0]
      /\ loop' = [loop EXCEPT !.planned = plan.planned] /\ phase' = "run"
      /\ UNCHANGED <<config, ring, tracker, witnesses, image, learner, imem, hw>>
  BY <1>2 DEF FillLast, CloseEpochPlan, ClosePlanning
<1>5. /\ plan' \in Plans /\ plan'.word = plan.word /\ plan'.inst = plan.inst
      /\ plan'.targeted = plan.targeted /\ plan'.fillers = plan.fillers
      /\ plan'.active = FALSE /\ plan'.pending = plan.pending /\ plan'.arm = plan.arm
      /\ plan'.terminated = plan.terminated /\ plan'.boundary = plan.boundary
      /\ plan'.toBegin = plan.toBegin
  BY ONLY <1>3, <1>4 DEF Plans
<1>6. /\ loop' \in [before : Nat, planned : Nat, closed : Nat]
      /\ loop'.before = loop.before /\ loop'.planned = plan.planned /\ loop'.closed = loop.closed
  BY ONLY <1>3, <1>4
<1>7. StreamFits' /\ MemoryFits' /\ FetchFits' /\ Entries' = Entries
  BY <1>1, <1>4, <1>5, ClockStarts
<1>8. StreamTypes'
  BY <1>4, <1>5, <1>6 DEF StreamInv, StreamTypes
<1>9. LaidOutAhead'
  <2>1. tracker.next < config.budget => plan.inst >= tracker.next + 2
    BY <1>1, <1>3
  <2> QED BY <2>1, <1>4, <1>5 DEF LaidOutAhead
<1>10. EpochFits'
  <2>1. plan.planned >= config.nominal
    BY <1>1 DEF PlanComplete
  <2>2. tracker.accepted < loop.before + plan.planned
    BY <1>2, <1>3
  <2>3. plan'.fillers = plan'.targeted \div TargetedPerFiller
    BY <1>2, <1>5, SmallNumbers
  <2> QED BY <2>1, <2>2, <2>3, <1>1, <1>2, <1>4, <1>5, <1>6 DEF EpochFits
<1>11. BoundariesKnown'
  BY <1>5, <1>6, <1>7 DEF StreamInv, BoundariesKnown
<1>12. WitnessesAreFuture'
  <2>1. \A f \in ToSet(Entries) : \A w \in f.witnesses : w.consumer <= loop.before + plan.planned
    BY <1>2, WitnessesEndWithPlan
  <2>2. witnesses = UNION {{w \in e.witnesses : w.consumer >= tracker.next} : e \in ToSet(Entries)}
    BY <1>1 DEF StreamInv, WitnessesAreFuture
  <2> QED BY <2>1, <2>2, <1>4, <1>6, <1>7 DEF WitnessesAreFuture
<1> QED BY <1>7, <1>8, <1>9, <1>10, <1>11, <1>12 DEF StreamInv

\* The memory is full: enough is laid out for the clock to run.
LEMMA FillStopsHolds == StreamInv /\ FillStops => StreamInv'
<1> SUFFICES ASSUME StreamInv, FillStops PROVE StreamInv'
  OBVIOUS
<1>1. /\ phase = "fill" /\ plan.active /\ ~PayloadDue /\ ~BoundaryDue
      /\ ~(PlanComplete /\ plan.inst > config.budget) /\ phase' = "run"
      /\ UNCHANGED <<config, plan, ring, tracker, witnesses, image, learner, loop, imem, hw>>
  BY DEF FillStops
<1>2. /\ Alive /\ plan.pending = NoEntry /\ FreeWords(ring) = Capacity - ring.used
  BY <1>1, FillFacts
<1>3. plan \in Plans
  BY EpochNumbers
<1>4. StreamFits' /\ MemoryFits' /\ FetchFits' /\ Entries' = Entries
  BY <1>1, <1>3, ClockStarts
<1>5. ring.used \in Nat /\ plan.inst \in Nat /\ config.budget \in Nat /\ tracker.next \in Nat
  BY EpochNumbers
<1>6. ring.used > Capacity - 6
  <2>1. CASE PlanComplete
    <3>1. plan.inst <= config.budget
      BY <1>1, <1>5, <2>1
    <3>2. ~(FreeWords(ring) >= 1)
      BY <1>1, <1>2, <2>1, <3>1, SmallNumbers DEF BoundaryDue
    <3> QED BY <3>2, <1>2, <1>5, CapacityFacts
  <2>2. CASE ~PlanComplete
    <3>1. ~(FreeWords(ring) >= 6)
      BY <1>1, <2>2, SmallNumbers DEF PayloadDue
    <3> QED BY <3>1, <1>2, <1>5, CapacityFacts
  <2> QED BY <2>1, <2>2
<1>7. plan.inst >= tracker.next + 2
  <2>1. /\ Entries \in Seq(EntryRecords) /\ Entries # <<>> /\ Contiguous(Entries)
        /\ HeadEntry = Head(Entries)
        /\ HeadEntry.start = image.release /\ EndOf(Last(Entries)) = image.append
        /\ HeadEntry.first + tracker.progress = tracker.next
        /\ Last(Entries).first + Executed(Last(Entries)) = plan.inst
        /\ tracker.progress < Executed(HeadEntry) /\ tracker.progress \in Nat
        /\ image.append = image.release + ring.used
    BY <1>2, HeadFacts DEF HeadEntry, Entries
  <2>2. ring.used > 5
    BY <1>5, <1>6, CapacityFacts
  <2>3. EndOf(Last(Entries)) = Head(Entries).start + ring.used
    BY <2>1
  <2>4. Last(Entries).first + Executed(Last(Entries)) >= Head(Entries).first + tracker.progress + 2
    BY <2>1, <2>2, <2>3, <1>5, TwoEntriesAhead
  <2> QED BY <2>1, <2>4
<1>8. StreamTypes'
  BY <1>1 DEF StreamInv, StreamTypes
<1>9. LaidOutAhead'
  BY <1>1, <1>6, <1>7, SmallNumbers DEF LaidOutAhead
<1>10. EpochFits'
  BY <1>1 DEF StreamInv, EpochFits
<1>11. BoundariesKnown' /\ WitnessesAreFuture'
  BY <1>1, <1>4 DEF StreamInv, BoundariesKnown, WitnessesAreFuture
<1> QED BY <1>4, <1>8, <1>9, <1>10, <1>11 DEF StreamInv

-----------------------------------------------------------------------------
(* The invariant and the properties that follow from it.                   *)

\* A stuttering step changes nothing.
LEMMA StutterHolds == StreamInv /\ UNCHANGED vars => StreamInv'
<1> SUFFICES ASSUME StreamInv, UNCHANGED vars PROVE StreamInv'
  OBVIOUS
<1>1. UNCHANGED <<config, phase, plan, ring, tracker, witnesses, image, learner, loop, imem>>
      /\ hw' = hw
  BY DEF vars
<1>2. Entries' = Entries /\ NextWord' = NextWord
  BY <1>1 DEF Entries, NextWord
<1>3. FetchFits'
  BY <1>1, <1>2 DEF StreamInv, FetchFits
<1>4. hw' \in [pc : Cell, a : Latches, b : Latches]
  BY <1>1 DEF StreamInv, StreamTypes
<1> QED BY <1>1, <1>3, <1>4, DutMoves

\* Every step preserves the invariant.
LEMMA NextHolds == StreamInv /\ [Next]_vars => StreamInv'
<1> SUFFICES ASSUME StreamInv, [Next]_vars PROVE StreamInv'
  OBVIOUS
<1>1. CASE Stall
  BY <1>1, StallHolds
<1>2. CASE Flush
  BY <1>2, FlushHolds
<1>3. CASE Idle
  BY <1>3, IdleHolds
<1>4. CASE AcceptWithin
  BY <1>4, AcceptWithinHolds
<1>5. CASE AcceptEpochEnd
  BY <1>5, AcceptEpochEndHolds
<1>6. CASE AcceptBudget
  BY <1>6, AcceptBudgetHolds
<1>7. CASE FillPayload
  BY <1>7, FillPayloadHolds
<1>8. CASE FillBoundary
  BY <1>8, FillBoundaryHolds
<1>9. CASE FillLast
  BY <1>9, FillLastHolds
<1>10. CASE FillStops
  BY <1>10, FillStopsHolds
<1>11. CASE UNCHANGED vars
  BY <1>11, StutterHolds
<1> QED
  BY <1>1, <1>2, <1>3, <1>4, <1>5, <1>6, <1>7, <1>8, <1>9, <1>10, <1>11
  DEF Next, ClockEdge, Fill, Finished

\* Planner, ring, tracker, image, memory and DUT describe one stream in every state of
\* every campaign, whatever the capacity, the arms, the nominal size and the budget.
THEOREM StreamInvIsInvariant == StreamSpec => []StreamInv
<1> QED BY InitHolds, NextHolds, PTL DEF StreamSpec

\* No assertion of the campaign loop and none of its parts' checks ever fails.
THEOREM CampaignNeverAborts == StreamSpec => []NeverAborts
<1>1. StreamInv => NeverAborts
  BY DEF StreamInv, StreamTypes, NeverAborts
<1> QED BY <1>1, StreamInvIsInvariant, PTL

\* Ring, tracker, image and planner describe the same contiguous program, and entries
\* are only added between two entries.
THEOREM CursorsAlwaysAgree == StreamSpec => []CursorsAgree
<1>1. ASSUME StreamInv PROVE CursorsAgree
  <2>1. phase # "done" => plan.inst = tracker.next + tracker.pending - tracker.progress
    <3>1. plan \in Plans /\ tracker \in Trackers
      BY <1>1 DEF StreamInv, StreamTypes
    <3>2. plan.inst \in Nat /\ tracker.next \in Nat /\ tracker.pending \in Nat /\ tracker.progress \in Nat
      BY <3>1 DEF Plans, Trackers
    <3>3. phase # "done" => plan.inst = tracker.next - tracker.progress + tracker.pending
      BY <1>1 DEF StreamInv, StreamFits
    <3> QED BY ONLY <3>2, <3>3
  <2>2. /\ ring.entries = Entries /\ Contiguous(Entries)
        /\ phase # "done" => image.append = plan.word /\ Head(Entries).start = image.release
                             /\ EndOf(Last(Entries)) = image.append
        /\ phase = "done" => Entries = <<>>
        /\ phase = "fill" => tracker.progress = 0
    BY <1>1 DEF StreamInv, StreamFits
  <2> QED BY <2>1, <2>2 DEF CursorsAgree, Contiguous
<1> QED BY <1>1, StreamInvIsInvariant, PTL

\* The fetch lookahead never runs dry: while the clock runs, the next planned
\* instruction is in IF/ID or in the memory, where the PC points at it.
THEOREM NextWordIsAlwaysThere == StreamSpec => []NextWordIsThere
<1>1. ASSUME StreamInv PROVE NextWordIsThere
  <2> SUFFICES ASSUME phase = "run"
               PROVE /\ Entries # <<>> /\ imem[CellOf(NextWord)].word = NextWord
                     /\ hw.b.kind # "link" =>
                          IF hw.a.word = NoWord THEN hw.pc = CellOf(NextWord)
                          ELSE hw.a.word = NextWord
    BY DEF NextWordIsThere
  <2>1. Alive
    BY DEF Alive
  <2>2. Entries # <<>> /\ imem[CellOf(NextWord)].word = NextWord
    BY <1>1, <2>1, HeadFacts, NextWordFacts
  <2> QED BY <1>1, <2>2 DEF StreamInv, FetchFits
<1> QED BY <1>1, StreamInvIsInvariant, PTL

\* The registry holds the dependencies of resident templates that are still to execute,
\* and none that outlives its epoch.
THEOREM WitnessesAreAlwaysFuture == StreamSpec => []WitnessesAreFuture
<1>1. StreamInv => WitnessesAreFuture
  BY DEF StreamInv
<1> QED BY <1>1, StreamInvIsInvariant, PTL

\* The image of the oracle is what the memory holds: owned cells are those of resident
\* words, hold them, and are as many as the ring counts.
LEMMA ImageIsRight == StreamInv => ImageIsMemory
<1> SUFFICES ASSUME StreamInv PROVE ImageIsMemory
  OBVIOUS
<1> DEFINE R == image.release .. image.append - 1
           O == {c \in Cell : image.owner[c] # NoWord}
<1>1. /\ Contiguous(Entries) /\ image.append = image.release + ring.used
      /\ ring.used <= Capacity
  BY DEF StreamInv, StreamFits
<1>2. image.release \in Nat /\ image.append \in Nat /\ ring.used \in Nat
  <2>1. image \in Images /\ ring \in Rings
    BY DEF StreamInv, StreamTypes
  <2> QED BY <2>1 DEF Images, Rings
<1>3. /\ \A w \in R : image.owner[CellOf(w)] = w
      /\ \A c \in Cell : image.owner[c] # NoWord =>
           image.owner[c] \in R /\ CellOf(image.owner[c]) = c
      /\ \A w \in R : \E e \in ToSet(Entries) : w \in WordsOf(e)
      /\ \A e \in ToSet(Entries) : \A w \in WordsOf(e) :
           imem[CellOf(w)] = [word |-> w, kind |-> KindAt(e, w)]
  BY DEF StreamInv, MemoryFits, OwnersFit
<1>4. \A e \in ToSet(Entries) : \A w \in WordsOf(e) : w \in Nat /\ w # NoWord
  <2> SUFFICES ASSUME NEW e \in ToSet(Entries), NEW w \in WordsOf(e) PROVE w \in Nat /\ w # NoWord
    OBVIOUS
  <2>1. WellFormed(e)
    BY <1>1 DEF Contiguous, ToSet
  <2>2. w \in e.start .. EndOf(e) - 1 /\ e.start \in Nat /\ EndOf(e) \in Nat
    BY <2>1, EntryFacts
  <2> QED BY <2>2, SmallNumbers
<1>5. \A w \in R : w \in Nat /\ w # NoWord
  BY <1>2, SmallNumbers
<1>6. \A c \in Cell :
        image.owner[c] # NoWord <=> \E e \in ToSet(Entries) : image.owner[c] \in WordsOf(e)
  BY <1>3, <1>4
<1>7. ASSUME NEW c \in Cell, image.owner[c] # NoWord
      PROVE image.owner[c] = imem[c].word /\ CellOf(imem[c].word) = c
  <2> DEFINE w == image.owner[c]
  <2>1. w \in R /\ CellOf(w) = c
    BY <1>3, <1>7
  <2>2. PICK e \in ToSet(Entries) : w \in WordsOf(e)
    BY <2>1, <1>3
  <2>3. imem[CellOf(w)] = [word |-> w, kind |-> KindAt(e, w)]
    BY <2>2, <1>3
  <2>4. imem[CellOf(w)].word = w
    BY <2>3
  <2> QED BY <2>1, <2>4
<1>8. Cardinality(O) = ring.used
  <2> DEFINE f == [w \in R |-> CellOf(w)]
  <2>1. \A w \in R : CellOf(w) \in O
    BY <1>3, <1>5, CellRange
  <2>2. f \in [R -> O]
    BY <2>1
  <2>3. \A v, w \in R : f[v] = f[w] => v = w
    BY <1>3
  <2>4. f \in Injection(R, O)
    BY <2>2, <2>3 DEF Injection, IsInjective
  <2>5. \A c \in O : \E w \in R : f[w] = c
    BY <1>3
  <2>6. f \in Surjection(R, O)
    BY <2>2, <2>5 DEF Surjection
  <2>7. ExistsBijection(R, O)
    BY <2>4, <2>6 DEF ExistsBijection, Bijection
  <2>8. IsFiniteSet(R) /\ Cardinality(R) = ring.used
    <3> DEFINE a == image.release
               b == image.append - 1
    <3>1. a \in Int /\ b \in Int /\ b = a + ring.used - 1
      BY <1>1, <1>2
    <3>2. IsFiniteSet(a .. b) /\ Cardinality(a .. b) = IF a > b THEN 0 ELSE (b - a) + 1
      BY <3>1, FS_Interval
    <3>3. (IF a > b THEN 0 ELSE (b - a) + 1) = ring.used
      BY <3>1, <1>2
    <3> QED BY <3>2, <3>3
  <2> HIDE DEF R, O
  <2> QED BY <2>7, <2>8, FS_Bijection
<1> QED BY <1>6, <1>7, <1>8 DEF ImageIsMemory

\* The image of the oracle is what the memory holds, in every state of every campaign.
THEOREM ImageIsAlwaysMemory == StreamSpec => []ImageIsMemory
BY ImageIsRight, StreamInvIsInvariant, PTL

\* No two entries begin with the same instruction.
LEMMA FirstsDiffer ==
    ASSUME NEW E \in Seq(EntryRecords), Contiguous(E), NEW e \in ToSet(E), NEW f \in ToSet(E),
           e.first = f.first
    PROVE e = f
<1>1. PICK i \in DOMAIN E : E[i] = e
  BY DEF ToSet
<1>2. PICK j \in DOMAIN E : E[j] = f
  BY DEF ToSet
<1>3. i \in Nat /\ j \in Nat
  BY <1>1, <1>2
<1>4. WellFormed(e) /\ WellFormed(f)
  BY <1>1, <1>2 DEF Contiguous
<1>5. e.first \in Nat /\ Executed(e) \in Nat /\ Executed(e) >= 1 /\ Executed(f) \in Nat /\ Executed(f) >= 1
  BY <1>4, EntryFacts
<1>6. CASE i < j
  <2>1. e.first + Executed(e) <= f.first
    BY <1>1, <1>2, <1>6 DEF Contiguous
  <2> QED BY <2>1, <1>5
<1>7. CASE j < i
  <2>1. f.first + Executed(f) <= e.first
    BY <1>1, <1>2, <1>7 DEF Contiguous
  <2> QED BY <2>1, <1>5
<1>8. CASE i = j
  BY <1>1, <1>2, <1>8
<1> QED BY <1>3, <1>6, <1>7, <1>8

\* The invariant bounds and dates the delimiters that are resident.
LEMMA BoundariesAreRight == StreamInv => BoundariesFollowEpochs
<1> SUFFICES ASSUME StreamInv PROVE BoundariesFollowEpochs
  OBVIOUS
<1> DEFINE B == {e \in ToSet(Entries) : IsBoundary(e)}
           start == loop.before + 1
           Own(e) == e.first = start /\ e.key[2] < plan.toBegin
           Due(e) == /\ e = plan.pending /\ e.key[2] = plan.toBegin /\ loop.planned # None
                     /\ e.first = loop.before + loop.planned + 1 /\ e.first <= config.budget
<1>1. /\ Entries \in Seq(EntryRecords) /\ Contiguous(Entries)
  <2>1. tracker \in Trackers
    BY DEF StreamInv, StreamTypes
  <2> QED BY <2>1 DEF StreamInv, StreamFits, Trackers, Entries
<1>2. /\ loop.before \in Nat /\ loop.planned \in Nat /\ config.budget \in Nat
      /\ config.nominal \in Nat /\ config.nominal >= 1 /\ plan.toBegin \in Nat
  BY EpochNumbers
<1>3. ASSUME NEW e \in B PROVE phase # "done"
  <2>1. e \in ToSet(Entries)
    OBVIOUS
  <2>2. Entries # <<>>
    BY <2>1 DEF ToSet
  <2> QED BY <2>2 DEF StreamInv, StreamFits
<1>4. ASSUME NEW e \in B PROVE (Own(e) /\ start <= config.budget) \/ Due(e)
  <2>1. e \in ToSet(Entries) /\ IsBoundary(e) /\ phase # "done"
    BY <1>3
  <2>2. CASE Own(e)
    <3>1. loop.before < config.budget
      BY <2>1 DEF StreamInv, EpochFits
    <3> QED BY <2>2, <3>1, <1>2
  <2>3. CASE e = plan.pending
    <3>1. plan.pending # NoEntry
      BY <2>1, <2>3 DEF IsBoundary, NoEntry
    <3>2. ~plan.active /\ phase = "run"
      <4>1. plan.active => plan.pending = NoEntry
        BY DEF StreamInv, EpochFits
      <4>2. phase = "fill" => plan.active
        BY DEF StreamInv, EpochFits
      <4>3. phase \in {"run", "fill", "done"}
        BY DEF StreamInv, StreamTypes
      <4> QED BY <2>1, <3>1, <4>1, <4>2, <4>3
    <3>3. /\ loop.planned >= config.nominal
          /\ plan.pending.first = loop.before + loop.planned + 1
          /\ plan.pending.first <= config.budget
          /\ plan.pending.key = <<"EBD", plan.toBegin>>
      BY <3>1, <3>2 DEF StreamInv, EpochFits
    <3>4. loop.planned # None
      BY <3>3, <1>2, SmallNumbers
    <3> QED BY <2>3, <3>3, <3>4
  <2>4. Own(e) \/ e = plan.pending
    BY <2>1 DEF StreamInv, BoundariesKnown
  <2> QED BY <2>2, <2>3, <2>4
<1>5. ASSUME NEW e \in ToSet(Entries), IsBoundary(e)
      PROVE /\ e.first <= config.budget
            /\ e.first = IF loop.planned = None THEN loop.before + 1
                         ELSE IF e.key[2] = plan.toBegin THEN loop.before + loop.planned + 1
                              ELSE loop.before + 1
  <2>1. (Own(e) /\ start <= config.budget) \/ Due(e)
    BY <1>4, <1>5
  <2>2. CASE Own(e) /\ start <= config.budget
    <3>1. e.key[2] # plan.toBegin
      <4>1. e.key[2] \in Nat
        <5>1. WellFormed(e)
          BY <1>1 DEF Contiguous, ToSet
        <5> QED BY <5>1 DEF WellFormed, EntryRecords
      <4> QED BY <2>2, <4>1, <1>2
    <3> QED BY <2>2, <3>1
  <2>3. CASE Due(e)
    BY <2>3
  <2> QED BY <2>1, <2>2, <2>3
<1>6. Cardinality(B) <= 2
  <2>1. \E x : B \subseteq {x, plan.pending}
    <3>1. CASE \E x \in B : x.first = start
      <4>1. PICK x \in B : x.first = start
        BY <3>1
      <4>2. ASSUME NEW e \in B PROVE e \in {x, plan.pending}
        <5>1. CASE Own(e)
          BY <4>1, <5>1, <1>1, FirstsDiffer
        <5>2. CASE Due(e)
          BY <5>2
        <5> QED BY <5>1, <5>2, <1>4
      <4> QED BY <4>2
    <3>2. CASE ~\E x \in B : x.first = start
      <4>1. ASSUME NEW e \in B PROVE e \in {plan.pending, plan.pending}
        BY <3>2, <1>4
      <4> QED BY <4>1
    <3> QED BY <3>1, <3>2
  <2>2. PICK x : B \subseteq {x, plan.pending}
    BY <2>1
  <2> DEFINE y == plan.pending
             P == {x} \cup {y}
  <2>3. IsFiniteSet({x}) /\ Cardinality({x}) = 1
    BY FS_Singleton
  <2>4. IsFiniteSet(P) /\ Cardinality(P) <= 2
    BY <2>3, FS_AddElement
  <2>5. B \in SUBSET P
    BY <2>2
  <2> HIDE DEF P, B
  <2>6. IsFiniteSet(B) /\ Cardinality(B) <= Cardinality(P)
    BY <2>4, <2>5, FS_Subset
  <2>7. Cardinality(B) \in Nat /\ Cardinality(P) \in Nat
    BY <2>4, <2>6, FS_CardinalityType
  <2> QED BY <2>4, <2>6, <2>7
<1> QED BY <1>5, <1>6 DEF BoundariesFollowEpochs

\* No epoch is laid out to begin behind the budget, and the epoch that executes began
\* with its delimiter.
THEOREM BoundariesAlwaysFollowEpochs == StreamSpec => []BoundariesFollowEpochs
BY BoundariesAreRight, StreamInvIsInvariant, PTL

\* What a filling step writes, it writes where nothing is live.
LEMMA FillIsSafe ==
    ASSUME StreamInv, FillPayload \/ FillBoundary
    PROVE \A c \in Cell : imem'[c] # imem[c] =>
            /\ EntryOf(imem[c].word) = {}
            /\ hw.a.word # NoWord => hw.a.word # imem[c].word
<1>1. phase = "fill" /\ plan.active
  BY DEF FillPayload, FillBoundary
<1>2. plan.inst >= 1 /\ plan.fillers = plan.targeted \div 4 /\ FreeWords(ring) \in Int
      /\ loop.planned = None
  BY <1>1, FillFacts
<1>3. plan \in Plans
  BY EpochNumbers
<1>4. CASE FillPayload
  <2> DEFINE e == Block(plan)
  <2>1. FillersDue(plan) \in {0, 1}
    BY <1>2, <1>3, FillersDueSmall
  <2>2. WellFormed(e) /\ e.start = plan.word /\ e.first = plan.inst
    BY <1>2, <1>3, <2>1, BlockWellFormed
  <2>3. FreeWords(ring) >= 6
    BY <1>4, SmallNumbers DEF FillPayload, PayloadDue
  <2>4. Words(e) <= FreeWords(ring)
    <3>1. Words(e) \in 1 .. 5
      BY <2>2, EntryFacts
    <3> HIDE DEF e
    <3> QED BY <3>1, <2>3, <1>2
  <2>5. PatchLegal(e)
    <3> HIDE DEF e
    <3> QED BY <1>1, <2>2, <2>4, PatchHolds
  <2>6. Patch(e)
    BY <1>4, <2>1, <2>5, SmallNumbers DEF FillPayload
  <2> HIDE DEF e
  <2> QED BY <1>1, <2>2, <2>4, <2>6, PatchIsSafe
<1>5. CASE FillBoundary
  <2> DEFINE e == Delimiter(plan)
  <2>1. WellFormed(e) /\ e.start = plan.word /\ e.first = plan.inst /\ Words(e) = 1
    BY <1>2, <1>3, DelimiterWellFormed
  <2>2. FreeWords(ring) >= 1
    BY <1>5, SmallNumbers DEF FillBoundary, BoundaryDue
  <2>3. Words(e) <= FreeWords(ring)
    BY <2>1, <2>2
  <2>4. PatchLegal(e)
    <3> HIDE DEF e
    <3> QED BY <1>1, <2>1, <2>3, PatchHolds
  <2>5. Patch(e)
    BY <1>2, <1>5, <2>4 DEF FillBoundary
  <2> HIDE DEF e
  <2> QED BY <1>1, <2>1, <2>3, <2>5, PatchIsSafe
<1> QED BY <1>4, <1>5

\* A refill never replaces a word that may still be executed, nor the one in IF/ID.
THEOREM LiveIsNeverOverwritten == StreamSpec => NoLiveOverwrite
<1>1. ASSUME StreamInv, [Next]_vars
      PROVE [\A c \in Cell : imem'[c] # imem[c] =>
               /\ EntryOf(imem[c].word) = {}
               /\ hw.a.word # NoWord => hw.a.word # imem[c].word]_vars
  <2>1. CASE FillPayload \/ FillBoundary
    BY <1>1, <2>1, FillIsSafe
  <2>2. CASE UNCHANGED vars
    BY <2>2
  <2>3. CASE Finished
    BY <2>3 DEF Finished
  <2>4. ASSUME Next, ~(FillPayload \/ FillBoundary), ~Finished PROVE imem' = imem
    BY <2>4 DEF Next, ClockEdge, Fill, Stall, Flush, Idle, AcceptWithin, AcceptEpochEnd,
                AcceptBudget, Accepted, Abort, FillLast, FillStops
  <2> QED BY <1>1, <2>1, <2>2, <2>3, <2>4
<1>2. NoLiveOverwrite <=>
        [][\A c \in Cell : imem'[c] # imem[c] =>
             /\ EntryOf(imem[c].word) = {}
             /\ hw.a.word # NoWord => hw.a.word # imem[c].word]_vars
  BY DEF NoLiveOverwrite
<1> QED BY <1>1, <1>2, StreamInvIsInvariant, PTL DEF StreamSpec

-----------------------------------------------------------------------------
(* The campaign keeps the accounts that EpochAccounting promises: its       *)
(* initial states and its steps are theirs.                                 *)

\* Initial states are those of the accounts.
LEMMA AccountsBegin == Init => Accounting!AccountingInit
<1> SUFFICES ASSUME Init PROVE Accounting!AccountingInit
  OBVIOUS
<1>1. config.nominal \in Nat \ {0} /\ config.budget \in Nat \ {0}
  BY ConfigAssumption DEF Init
<1>2. tracker.accepted = 0 /\ loop.closed = 0 /\ learner.epochs = 0 /\ phase = "fill"
  BY DEF Init
<1> QED BY <1>1, <1>2 DEF Accounting!AccountingInit

\* Every step is a step of the accounts, or none.
LEMMA AccountsAdvance ==
    StreamInv /\ [Next]_vars => [Accounting!AccountingNext]_(Accounting!accountingVars)
<1> SUFFICES ASSUME StreamInv, [Next]_vars
             PROVE \/ Accounting!AccountingNext
                   \/ UNCHANGED <<config.nominal, config.budget, tracker.accepted, loop.closed,
                                  learner.epochs, phase = "done">>
  BY DEF Accounting!accountingVars
<1>1. /\ tracker.accepted \in Nat /\ tracker.next = tracker.accepted + 1
      /\ loop.before \in Nat /\ loop.planned \in Nat /\ loop.closed \in Nat
      /\ config.budget \in Nat /\ config.nominal \in Nat
      /\ learner \in [active : BOOLEAN, arm : ArmIDs, epochs : Nat]
      /\ loop \in [before : Nat, planned : Nat, closed : Nat]
      /\ ring.used \in Nat
  BY EpochNumbers
<1>2. ASSUME phase = "run" PROVE loop.closed = loop.before /\ tracker.next <= config.budget
                                 /\ loop.before <= tracker.accepted /\ learner.active
                                 /\ ~plan.terminated
  BY <1>2 DEF StreamInv, EpochFits
<1>3. CASE Stall \/ Flush \/ Idle \/ FillStops
  BY <1>3 DEF Stall, Flush, Idle, FillStops
<1>4. CASE FillPayload
  <2>1. phase' = phase /\ UNCHANGED <<config, learner, loop>> /\ tracker'.accepted = tracker.accepted
    <3>1. CASE FillersDue(plan) <= MaxBackgroundFillers /\ PatchLegal(Block(plan))
      <4>1. tracker' = Enqueue(tracker, Block(plan)) /\ UNCHANGED <<config, phase, learner, loop>>
        BY <1>4, <3>1 DEF FillPayload, Patch
      <4>2. tracker \in Trackers
        BY DEF StreamInv, StreamTypes
      <4>3. tracker'.accepted = tracker.accepted
        BY <4>1, <4>2 DEF Enqueue, Trackers
      <4> QED BY <4>1, <4>3
    <3>2. CASE ~(FillersDue(plan) <= MaxBackgroundFillers /\ PatchLegal(Block(plan)))
      <4>1. phase' = "aborted"
        BY <1>4, <3>2 DEF FillPayload, Abort
      <4>2. StreamInv'
        BY <1>4, FillPayloadHolds
      <4> QED BY <4>1, <4>2 DEF StreamInv, StreamTypes
    <3> QED BY <3>1, <3>2
  <2> QED BY <2>1
<1>5. CASE FillBoundary
  <2>1. loop.planned = None /\ phase = "fill"
    BY <1>5, FillFacts DEF FillBoundary
  <2>2. CASE PatchLegal(Delimiter(plan))
    <3>1. /\ tracker' = Enqueue(tracker, Delimiter(plan)) /\ UNCHANGED <<config, learner>>
          /\ phase' = "run" /\ loop' = [loop EXCEPT !.planned = PlanBoundary(plan).planned]
      BY <1>5, <2>1, <2>2 DEF FillBoundary, Patch, CloseEpochPlan
    <3>2. tracker \in Trackers
      BY DEF StreamInv, StreamTypes
    <3>3. tracker'.accepted = tracker.accepted
      BY <3>1, <3>2 DEF Enqueue, Trackers
    <3>4. loop'.closed = loop.closed
      BY <3>1, <1>1
    <3> QED BY <2>1, <3>1, <3>3, <3>4
  <2>3. CASE ~PatchLegal(Delimiter(plan))
    <3>1. phase' = "aborted"
      BY <1>5, <2>3 DEF FillBoundary, Abort
    <3>2. StreamInv'
      BY <1>5, FillBoundaryHolds
    <3> QED BY <3>1, <3>2 DEF StreamInv, StreamTypes
  <2> QED BY <2>2, <2>3
<1>6. CASE FillLast
  <2>1. loop.planned = None /\ phase = "fill"
    BY <1>6, FillFacts DEF FillLast
  <2>2. /\ UNCHANGED <<config, learner, tracker>>
        /\ phase' = "run" /\ loop' = [loop EXCEPT !.planned = plan.planned]
    BY <1>6, <2>1 DEF FillLast, CloseEpochPlan
  <2>3. loop'.closed = loop.closed
    BY <2>2, <1>1
  <2> QED BY <2>1, <2>2, <2>3
<1>7. CASE AcceptWithin
  <2>1. Accepts /\ ~AtBudget /\ phase = "run"
    BY <1>7 DEF AcceptWithin, Accepts
  <2>2. EventIsPlanned
    BY <2>1, AcceptanceIsPlanned
  <2>3. /\ tracker' = TrackerAfter /\ UNCHANGED <<config, learner, loop>>
        /\ phase' = (IF Refills THEN "fill" ELSE "run")
    BY <1>7, <2>2 DEF AcceptWithin, Accepted
  <2>4. tracker'.accepted = tracker.accepted + 1
    BY <2>1, <2>3, TrackerAccepts
  <2>5. tracker.accepted + 1 < config.budget
    <3>1. tracker.next # config.budget
      BY <2>1 DEF AtBudget, Index
    <3> QED BY <3>1, <2>1, <1>1, <1>2
  <2>6. (phase = "done") = FALSE /\ (phase' = "done") = FALSE
    BY <2>1, <2>3
  <2> QED BY <2>3, <2>4, <2>5, <2>6 DEF Accounting!AccountingNext, Accounting!Execute
<1>8. CASE AcceptEpochEnd
  <2>1. Accepts /\ ~AtBudget /\ EpochEnds /\ phase = "run"
    BY <1>8 DEF AcceptEpochEnd, Accepts
  <2>2. EventIsPlanned /\ BoundaryReady
    BY <2>1, AcceptanceIsPlanned, BoundaryIsReady
  <2>3. /\ tracker' = TrackerAfter /\ UNCHANGED <<config>> /\ phase' = "fill"
        /\ learner'.epochs = learner.epochs + 1
        /\ loop' = [before |-> tracker.accepted + 1, planned |-> None,
                    closed |-> loop.closed + EpochExecuted]
    BY <1>8, <2>2 DEF AcceptEpochEnd, Accepted
  <2>4. tracker'.accepted = tracker.accepted + 1
    BY <2>1, <2>3, TrackerAccepts
  <2>5. tracker.accepted + 1 < config.budget
    <3>1. tracker.next # config.budget
      BY <2>1 DEF AtBudget, Index
    <3> QED BY <3>1, <2>1, <1>1, <1>2
  <2>6. loop'.closed = tracker.accepted + 1
    <3>1. loop.closed + EpochExecuted = tracker.accepted + 1
      BY <2>1, <1>1, <1>2 DEF EpochExecuted
    <3> QED BY <2>3, <3>1
  <2>7. tracker.accepted + 1 - loop.closed >= config.nominal
    <3>1. loop.planned # 0 /\ tracker.accepted + 1 - loop.before = loop.planned
      BY <2>1 DEF EpochEnds, EpochExecuted
    <3>2. ~plan.active
      BY <3>1 DEF StreamInv, EpochFits, None
    <3>3. loop.planned >= config.nominal
      BY <2>1, <3>2 DEF StreamInv, EpochFits
    <3>4. loop.closed = loop.before
      BY <2>1, <1>2
    <3> QED BY <3>1, <3>3, <3>4
  <2>8. (phase = "done") = FALSE /\ (phase' = "done") = FALSE
    BY <2>1, <2>3
  <2> QED BY <2>3, <2>4, <2>5, <2>6, <2>7, <2>8 DEF Accounting!AccountingNext, Accounting!CloseEpoch
<1>9. CASE AcceptBudget
  <2>1. Accepts /\ AtBudget /\ phase = "run" /\ tracker.next = config.budget
    BY <1>9 DEF AcceptBudget, Accepts, AtBudget, Index
  <2>2. EpochExecuted > 0 /\ loop.closed + EpochExecuted = tracker.accepted + 1
    BY <2>1, <1>1, <1>2 DEF EpochExecuted
  <2>3. EventIsPlanned /\ CampaignClosable
    BY <1>2, <2>1, <2>2, AcceptanceIsPlanned, SuffixIsDiscardable DEF CampaignClosable
  <2>4. /\ tracker' = [TrackerAfter EXCEPT !.entries = <<>>, !.progress = 0, !.pending = 0]
        /\ learner' = [learner EXCEPT !.active = FALSE, !.epochs = @ + 1]
        /\ loop' = [loop EXCEPT !.closed = @ + EpochExecuted]
        /\ phase' = "done" /\ UNCHANGED <<config>>
    BY <1>9, <2>3 DEF AcceptBudget
  <2>5. tracker'.accepted = tracker.accepted + 1
    <3>1. TrackerAfter \in Trackers /\ TrackerAfter.accepted = tracker.accepted + 1
      BY <2>1, TrackerAccepts
    <3> QED BY <3>1, <2>4 DEF Trackers
  <2>6. loop'.closed = tracker.accepted + 1
    <3>1. loop' = [loop EXCEPT !.closed = tracker.accepted + 1]
      BY <2>2, <2>4
    <3> QED BY <3>1, <1>1
  <2>7. learner'.epochs = learner.epochs + 1
    BY <2>4, <1>1
  <2>8. tracker.accepted + 1 = config.budget
    BY <2>1, <1>1
  <2>9. (phase = "done") = FALSE /\ (phase' = "done") = TRUE
    BY <2>1, <2>4
  <2> QED BY <2>4, <2>5, <2>6, <2>7, <2>8, <2>9 DEF Accounting!AccountingNext, Accounting!Finish
<1>10. CASE Finished \/ UNCHANGED vars
  BY <1>10 DEF Finished, vars
<1> QED
  BY <1>3, <1>4, <1>5, <1>6, <1>7, <1>8, <1>9, <1>10 DEF Next, ClockEdge, Fill

\* Every instruction is charged to exactly one epoch, ordinary epochs reach the nominal
\* size, and nothing is accepted beyond the budget: initial states and steps of the
\* campaign are those of EpochAccounting.
THEOREM AccountsAreKept ==
    StreamSpec => /\ Accounting!AccountingInit
                  /\ [][Accounting!AccountingNext]_(Accounting!accountingVars)
BY AccountsBegin, AccountsAdvance, StreamInvIsInvariant, PTL DEF StreamSpec
=============================================================================
