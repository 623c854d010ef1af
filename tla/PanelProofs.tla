---------------------------- MODULE PanelProofs ----------------------------
(***************************************************************************)
(* Proofs about Panel, for every number of conversions in the sum, every   *)
(* threshold, range and scale of the knobs, and every set of hands.        *)
(***************************************************************************)
EXTENDS Panel, FiniteSetTheorems, WellFoundedInduction, TLAPS
-----------------------------------------------------------------------------
(* Induction.  The theorems of the library take the formula to be proved   *)
(* as a parameter; these take the set of those for which it holds.         *)

LEMMA LeastOf ==
  ASSUME NEW H \in SUBSET Nat, H # {}
  PROVE  \E n \in H : \A k \in H : n <= k
<1> DEFINE R == OpToRel(<, Nat)
<1>1. IsWellFoundedOn(R, Nat)
  BY NatLessThanWellFounded
<1>2. R = {ss \in Nat \X Nat : ss[1] < ss[2]}
  BY DEF OpToRel
<1> HIDE DEF R
<1>3. PICK n \in H : \A k \in H : <<k, n>> \notin R
  BY <1>1, WFMin
<1>4. ASSUME NEW k \in H PROVE ~(k < n)
  <2>1. <<k, n>> \in Nat \X Nat /\ <<k, n>> \notin R
    BY <1>3
  <2> QED
    BY <1>2, <2>1
<1>5. ASSUME NEW k \in H PROVE n <= k
  BY <1>4
<1> QED
  BY <1>5

LEMMA InductionOnNat ==
  ASSUME NEW H \in SUBSET Nat, 0 \in H, \A n \in H : n + 1 \in H
  PROVE  H = Nat
<1> SUFFICES ASSUME Nat \ H # {} PROVE FALSE
  OBVIOUS
<1>1. PICK n \in Nat \ H : \A k \in Nat \ H : n <= k
  BY LeastOf
<1>2. n - 1 \in Nat /\ n - 1 \notin Nat \ H
  BY <1>1
<1>3. (n - 1) + 1 \in H
  BY <1>2
<1> QED
  BY <1>1, <1>3

\* What the folds of the library take out of a set first.
Pick(s) == CHOOSE x \in s : TRUE
Rest(s) == s \ {Pick(s)}

LEMMA RestOf ==
  ASSUME NEW s, IsFiniteSet(s), s # {}
  PROVE  /\ Pick(s) \in s
         /\ Cardinality(s) \in Nat /\ Cardinality(Rest(s)) \in Nat
         /\ Cardinality(s) = Cardinality(Rest(s)) + 1
<1>1. Pick(s) \in s
  BY DEF Pick
<1>2. /\ IsFiniteSet(Rest(s)) /\ Cardinality(s) \in Nat
      /\ Cardinality(Rest(s)) = Cardinality(s) - 1
  BY <1>1, FS_RemoveElement, FS_CardinalityType DEF Rest
<1> QED
  BY <1>1, <1>2, FS_CardinalityType

LEMMA InductionOnSubsets ==
  ASSUME NEW S, IsFiniteSet(S), NEW G \in SUBSET SUBSET S, {} \in G,
         \A s \in SUBSET S : s # {} /\ Rest(s) \in G => s \in G
  PROVE  G = SUBSET S
<1> DEFINE H == {n \in Nat : \A s \in SUBSET S : Cardinality(s) = n => s \in G}
<1>1. 0 \in H
  BY FS_EmptySet, FS_Subset
<1>2. ASSUME NEW n \in H PROVE n + 1 \in H
  <2> SUFFICES ASSUME NEW s \in SUBSET S, Cardinality(s) = n + 1 PROVE s \in G
    OBVIOUS
  <2>1. IsFiniteSet(s) /\ s # {}
    BY FS_EmptySet, FS_Subset
  <2>2. Cardinality(Rest(s)) = n /\ Rest(s) \in SUBSET S
    BY <2>1, RestOf DEF Rest
  <2> QED
    BY <2>1, <2>2
<1>3. H = Nat
  <2> HIDE DEF H
  <2>1. H \in SUBSET Nat
    BY DEF H
  <2> QED
    BY <1>1, <1>2, <2>1, InductionOnNat
<1>4. ASSUME NEW s \in SUBSET S PROVE s \in G
  <2>1. Cardinality(s) \in H
    BY <1>3, FS_Subset, FS_CardinalityType
  <2> QED
    BY <2>1
<1> QED
  BY <1>4
-----------------------------------------------------------------------------
(* The sum of a function's values, which the library folds over its domain. *)

Step(it, g, s) == IF s = {} THEN 0 ELSE g[Pick(s)] + it[Rest(s)]
AreSums(it, S, g) == it = [s \in SUBSET S |-> Step(it, g, s)]
SumsFor(S, g) == CHOOSE it : AreSums(it, S, g)

\* The library's sum is the last of the sums over the parts of the domain.
LEMMA SumIsLast ==
  ASSUME NEW S, NEW g \in [S -> Int]
  PROVE  SumFunction(g) = SumsFor(S, g)[S]
<1>1. DOMAIN g = S
  OBVIOUS
<1>2. SumFunction(g) = MapThenFoldSet(+, 0, LAMBDA i : g[i],
                                      LAMBDA s : CHOOSE x \in s : TRUE, S)
  BY <1>1, Zenon DEF SumFunction, SumFunctionOnSet, FoldFunctionOnSet
<1> QED
  BY <1>2, Zenon DEF MapThenFoldSet, SumsFor, AreSums, Step, Pick, Rest

\* There are such sums: over the parts of at most n elements, for every n.
LEMMA SumsExist ==
  ASSUME NEW S, IsFiniteSet(S), NEW g \in [S -> Int]
  PROVE  \E it : AreSums(it, S, g)
<1> DEFINE Small(n) == {s \in SUBSET S : Cardinality(s) <= n}
           H == {n \in Nat : \E it : it = [s \in Small(n) |-> Step(it, g, s)]}
<1>0. ASSUME NEW s \in SUBSET S
      PROVE  IsFiniteSet(s) /\ Cardinality(s) \in Nat /\ Cardinality({}) = 0
             /\ (Cardinality(s) = 0 => s = {})
  BY FS_Subset, FS_CardinalityType, FS_EmptySet
<1>1. 0 \in H
  <2> DEFINE it == [s \in Small(0) |-> 0]
  <2>1. ASSUME NEW s \in Small(0) PROVE Step(it, g, s) = 0
    BY <1>0 DEF Step
  <2>2. it = [s \in Small(0) |-> Step(it, g, s)]
    BY <2>1
  <2> QED
    BY <2>2
<1>2. ASSUME NEW n \in H PROVE n + 1 \in H
  <2>1. PICK it : it = [s \in Small(n) |-> Step(it, g, s)]
    OBVIOUS
  <2> DEFINE next == [s \in Small(n + 1) |-> Step(it, g, s)]
  <2>2. ASSUME NEW s \in Small(n) PROVE s \in Small(n + 1) /\ next[s] = it[s]
    <3>1. Cardinality(s) \in Nat /\ Cardinality(s) <= n
      BY <1>0
    <3>2. s \in Small(n + 1)
      BY <3>1
    <3> QED
      BY <2>1, <3>2
  <2>3. ASSUME NEW s \in Small(n + 1) PROVE Step(next, g, s) = Step(it, g, s)
    <3>1. CASE s = {}
      BY <3>1 DEF Step
    <3>2. CASE s # {}
      <4>1. Rest(s) \in Small(n)
        BY <1>0, <3>2, RestOf DEF Rest
      <4> QED
        BY <2>2, <3>2, <4>1 DEF Step
    <3> QED
      BY <3>1, <3>2
  <2>4. next = [s \in Small(n + 1) |-> Step(next, g, s)]
    BY <2>3
  <2> HIDE DEF next
  <2>5. \E sums : sums = [s \in Small(n + 1) |-> Step(sums, g, s)]
    BY <2>4, Zenon
  <2>6. n + 1 \in Nat
    OBVIOUS
  <2> QED
    BY <2>5, <2>6, Zenon
<1>3. H = Nat
  <2> HIDE DEF H
  <2>1. H \in SUBSET Nat
    BY DEF H
  <2> QED
    BY <1>1, <1>2, <2>1, InductionOnNat
<1>4. Cardinality(S) \in H
  BY <1>3, FS_CardinalityType
<1>5. Small(Cardinality(S)) = SUBSET S
  BY FS_Subset
<1>6. PICK it : it = [s \in SUBSET S |-> Step(it, g, s)]
  BY <1>4, <1>5
<1>7. AreSums(it, S, g)
  BY <1>6, Zenon DEF AreSums
<1> QED
  BY <1>7

LEMMA SumsUnfold ==
  ASSUME NEW S, IsFiniteSet(S), NEW g \in [S -> Int]
  PROVE  /\ SumsFor(S, g)[{}] = 0
         /\ \A s \in SUBSET S :
              s # {} => SumsFor(S, g)[s] = g[Pick(s)] + SumsFor(S, g)[Rest(s)]
<1>1. AreSums(SumsFor(S, g), S, g)
  BY SumsExist, Zenon DEF SumsFor
<1>2. SumsFor(S, g) = [s \in SUBSET S |-> Step(SumsFor(S, g), g, s)]
  BY <1>1, Zenon DEF AreSums
<1>3. ASSUME NEW s \in SUBSET S
      PROVE  SumsFor(S, g)[s] = Step(SumsFor(S, g), g, s)
  BY <1>2, Zenon
<1>4. {} \in SUBSET S
  OBVIOUS
<1> QED
  BY <1>3, <1>4, Zenon DEF Step

LEMMA SumsAreInt ==
  ASSUME NEW S, IsFiniteSet(S), NEW g \in [S -> Int], NEW s \in SUBSET S
  PROVE  SumsFor(S, g)[s] \in Int
<1> DEFINE it == SumsFor(S, g)
           G == {t \in SUBSET S : it[t] \in Int}
<1>1. {} \in G
  BY SumsUnfold
<1>2. ASSUME NEW t \in SUBSET S, t # {}, Rest(t) \in G PROVE t \in G
  <2>1. Pick(t) \in S
    BY <1>2, FS_Subset, RestOf
  <2>2. it[t] = g[Pick(t)] + it[Rest(t)]
    BY <1>2, SumsUnfold
  <2> HIDE DEF it
  <2> QED
    BY <1>2, <2>1, <2>2
<1>3. G = SUBSET S
  <2> HIDE DEF G
  <2>1. G \in SUBSET SUBSET S
    BY DEF G
  <2> QED
    BY <1>1, <1>2, <2>1, InductionOnSubsets
<1> QED
  BY <1>3

\* A sum of terms from 0 to m is from 0 to m for each of them.
LEMMA SumBounded ==
  ASSUME NEW S, IsFiniteSet(S), NEW m \in Nat, NEW g \in [S -> 0 .. m]
  PROVE  SumFunction(g) \in 0 .. Cardinality(S) * m
<1> DEFINE it == SumsFor(S, g)
           G == {t \in SUBSET S : it[t] \in 0 .. Cardinality(t) * m}
<1>0. g \in [S -> Int]
  OBVIOUS
<1>1. {} \in G
  <2>1. it[{}] = 0
    BY <1>0, SumsUnfold
  <2>2. Cardinality({}) * m = 0
    BY FS_EmptySet
  <2> QED
    BY <2>1, <2>2
<1>2. ASSUME NEW t \in SUBSET S, t # {}, Rest(t) \in G PROVE t \in G
  <2>1. /\ Pick(t) \in S
        /\ Cardinality(t) \in Nat /\ Cardinality(Rest(t)) \in Nat
        /\ Cardinality(t) = Cardinality(Rest(t)) + 1
    BY <1>2, FS_Subset, RestOf
  <2>2. it[t] = g[Pick(t)] + it[Rest(t)]
    BY <1>0, <1>2, SumsUnfold
  <2>3. Cardinality(t) * m = Cardinality(Rest(t)) * m + m
    BY <2>1
  <2>4. Cardinality(Rest(t)) * m \in Nat
    BY <2>1
  <2>5. g[Pick(t)] \in 0 .. m
    BY <2>1
  <2>6. it[Rest(t)] \in 0 .. Cardinality(Rest(t)) * m
    BY <1>2
  <2> HIDE DEF it
  <2>7. it[t] \in 0 .. Cardinality(t) * m
    BY <2>2, <2>3, <2>4, <2>5, <2>6
  <2> QED
    BY <2>7
<1>3. G = SUBSET S
  <2> HIDE DEF G
  <2>1. G \in SUBSET SUBSET S
    BY DEF G
  <2> QED
    BY <1>1, <1>2, <2>1, InductionOnSubsets
<1>4. S \in G
  BY <1>3
<1> QED
  BY <1>0, <1>4, SumIsLast

\* A sum changes by as much as the one term that changes.
LEMMA SumUpdated ==
  ASSUME NEW S, IsFiniteSet(S), NEW g \in [S -> Int], NEW p \in S, NEW v \in Int
  PROVE  /\ SumFunction([g EXCEPT ![p] = v]) = SumFunction(g) - g[p] + v
         /\ SumFunction(g) \in Int
<1> DEFINE h == [g EXCEPT ![p] = v]
           was == SumsFor(S, g)
           is == SumsFor(S, h)
           change(t) == IF p \in t THEN v - g[p] ELSE 0
           G == {t \in SUBSET S : is[t] = was[t] + change(t)}
<1>0. h \in [S -> Int] /\ \A k \in S : h[k] = IF k = p THEN v ELSE g[k]
  OBVIOUS
<1> HIDE DEF h
<1>1. {} \in G
  <2>1. was[{}] = 0 /\ is[{}] = 0
    BY <1>0, SumsUnfold
  <2> QED
    BY <2>1
<1>2. ASSUME NEW t \in SUBSET S, t # {}, Rest(t) \in G PROVE t \in G
  <2>1. Pick(t) \in S /\ Pick(t) \in t
    BY <1>2, FS_Subset, RestOf
  <2>2. was[t] = g[Pick(t)] + was[Rest(t)]
    BY <1>2, SumsUnfold
  <2>3. is[t] = h[Pick(t)] + is[Rest(t)]
    BY <1>0, <1>2, SumsUnfold
  <2>4. was[Rest(t)] \in Int
    BY SumsAreInt DEF Rest
  <2>5. is[Rest(t)] = was[Rest(t)] + change(Rest(t))
    BY <1>2
  <2>6. p \in Rest(t) <=> p \in t /\ p # Pick(t)
    BY DEF Rest
  <2>7. h[Pick(t)] = IF Pick(t) = p THEN v ELSE g[Pick(t)]
    BY <1>0, <2>1
  <2>8. g[Pick(t)] \in Int /\ g[p] \in Int
    BY <2>1
  <2> HIDE DEF was, is
  <2>9. is[t] = was[t] + change(t)
    <3>1. CASE p = Pick(t)
      BY <2>1, <2>2, <2>3, <2>4, <2>5, <2>6, <2>7, <2>8, <3>1
    <3>2. CASE p # Pick(t)
      BY <2>1, <2>2, <2>3, <2>4, <2>5, <2>6, <2>7, <2>8, <3>2
    <3> QED
      BY <3>1, <3>2
  <2> QED
    BY <2>9
<1>3. G = SUBSET S
  <2> HIDE DEF G
  <2>1. G \in SUBSET SUBSET S
    BY DEF G
  <2> QED
    BY <1>1, <1>2, <2>1, InductionOnSubsets
<1>4. is[S] = was[S] + (v - g[p])
  BY <1>3
<1>5. was[S] \in Int /\ g[p] \in Int
  BY SumsAreInt
<1>6. SumFunction(h) = is[S] /\ SumFunction(g) = was[S]
  BY <1>0, SumIsLast
<1>7. SumFunction(h) = SumFunction(g) - g[p] + v
  <2> HIDE DEF was, is
  <2> QED
    BY <1>4, <1>5, <1>6
<1> QED
  BY <1>5, <1>6, <1>7 DEF h
LEMMA TwiceBounded ==
  ASSUME NEW n \in Nat, NEW m \in Nat, 2 * n <= m, NEW x \in 0 .. n
  PROVE  2 * x \in 0 .. m
OBVIOUS
-----------------------------------------------------------------------------
(* The inductive invariant. *)

USE AlgorithmAssumption, PanelAssumption

Slot == 0 .. kNumZsamples - 1
MaxConversion == MaxParam \div (2 * kNumZsamples)

\* What the pots' conversions add up to.
ConversionsSummed ==
  /\ samples \in [Side -> [Slot -> 0 .. MaxConversion]]
  /\ pos \in [Side -> Slot]
  /\ value = [i \in Side |-> SumFunction(samples[i])]

\* Four times the clicks that an encoder owes its hand, p quarters on from a
\* detent, less the p quarters, or the p - 4 that are left to the next one.
Owed(p) == (IF p < 2 THEN 0 ELSE 4) - p

EncodersFollow ==
  /\ phase \in [Side -> 0 .. 3]
  /\ lastEncA = [i \in Side |-> EncA(phase[i])]
  /\ drift = [i \in Side |-> Owed(phase[i])]

TypeOK ==
  /\ editMode \in 0 .. 3
  /\ encoderValue \in [Side -> 0 .. MaxParam]
  /\ potValue \in [Side -> 0 .. MaxParam]
  /\ processorParams \in [Side -> [Param -> 0 .. MaxParam]]
  /\ slowTimeCountdown \in 1 .. kSlowTimeRatio

IInv == TypeOK /\ ConversionsSummed /\ EncodersFollow /\ PotTracked
-----------------------------------------------------------------------------
(* The pots' conversions. *)

LEMMA Numbers ==
  /\ IsFiniteSet(Slot) /\ Cardinality(Slot) = kNumZsamples
  /\ MaxConversion \in Nat /\ 2 * (kNumZsamples * MaxConversion) <= MaxParam
<1>1. IsFiniteSet(Slot) /\ Cardinality(Slot) = kNumZsamples
  BY FS_Interval DEF Slot
<1>2. ASSUME NEW d \in Nat \ {0}, NEW m \in Nat
      PROVE  m \div d \in Nat /\ d * (m \div d) <= m
  OBVIOUS
<1>3. MaxConversion \in Nat /\ (2 * kNumZsamples) * MaxConversion <= MaxParam
  <2>1. 2 * kNumZsamples \in Nat \ {0}
    OBVIOUS
  <2>2. MaxParam \in Nat
    OBVIOUS
  <2> QED
    BY <1>2, <2>1, <2>2, Zenon DEF MaxConversion
<1>4. ASSUME NEW n \in Nat, NEW m \in Nat PROVE (2 * n) * m = 2 * (n * m)
  OBVIOUS
<1> QED
  BY <1>1, <1>3, <1>4

\* Twice the sum is a position of the pot.
LEMMA PotInRange ==
  ASSUME ConversionsSummed, NEW i \in Side
  PROVE  /\ 2 * SumFunction(samples[i]) \in 0 .. MaxParam
         /\ 2 * value[i] = 2 * SumFunction(samples[i])
<1>1. samples[i] \in [Slot -> 0 .. MaxConversion]
  BY DEF ConversionsSummed
<1>2. SumFunction(samples[i]) \in 0 .. kNumZsamples * MaxConversion
  BY <1>1, Numbers, SumBounded
<1>3. kNumZsamples * MaxConversion \in Nat /\ MaxParam \in Nat
  BY Numbers
<1>4. 2 * SumFunction(samples[i]) \in 0 .. MaxParam
  BY <1>2, <1>3, Numbers, TwiceBounded, Zenon
<1> QED
  BY <1>4 DEF ConversionsSummed

\* The running sum is the sum, and not only a step's difference from it.
LEMMA SummedStep ==
  ASSUME ConversionsSummed, ReadAndTriggerADCs
  PROVE  ConversionsSummed'
<1>1. CASE UNCHANGED adcs
  BY <1>1 DEF ConversionsSummed, adcs
<1>2. ASSUME NEW raw \in Conversion, ProcessADCZs(raw) PROVE ConversionsSummed'
  <2>1. raw \in [Side -> 0 .. MaxConversion]
    BY DEF MaxConversion
  <2>2. samples' \in [Side -> [Slot -> 0 .. MaxConversion]]
    BY <1>2, <2>1 DEF ProcessADCZs, ConversionsSummed
  <2>3. pos' \in [Side -> Slot]
    <3>1. ASSUME NEW n \in Nat PROVE n % kNumZsamples \in Slot
      BY DEF Slot
    <3>2. \A i \in Side : pos[i] + 1 \in Nat
      BY DEF ConversionsSummed, Slot
    <3> QED
      BY <1>2, <3>1, <3>2 DEF ProcessADCZs
  <2>4. ASSUME NEW i \in Side PROVE value'[i] = SumFunction(samples'[i])
    <3>1. /\ samples[i] \in [Slot -> Int] /\ pos[i] \in Slot
          /\ samples[i][pos[i]] \in Int /\ raw[i] \in Int
          /\ value[i] = SumFunction(samples[i])
      BY <2>1, Numbers DEF ConversionsSummed
    <3>2. samples'[i] = [samples[i] EXCEPT ![pos[i]] = raw[i]]
      BY <1>2 DEF ProcessADCZs
    <3>3. value'[i] = value[i] - samples[i][pos[i]] + raw[i]
      BY <1>2 DEF ProcessADCZs
    <3>4. SumFunction(samples'[i]) =
            SumFunction(samples[i]) - samples[i][pos[i]] + raw[i]
      BY <3>1, <3>2, Numbers, SumUpdated
    <3> QED
      BY <3>1, <3>3, <3>4
  <2>5. value' = [i \in Side |-> SumFunction(samples'[i])]
    BY <1>2, <2>4 DEF ProcessADCZs
  <2> QED
    BY <2>2, <2>3, <2>5 DEF ConversionsSummed
<1> QED
  BY <1>1, <1>2 DEF ReadAndTriggerADCs
-----------------------------------------------------------------------------
(* A sample of the panel. *)

LEMMA QuarterTurn ==
  ASSUME NEW p \in 0 .. 3, NEW q \in {-1, 0, 1}
  PROVE  LET to == (p + q) % 4 IN
         /\ to \in 0 .. 3
         /\ Click(to, EncA(p)) \in {-1, 0, 1}
         /\ Owed(to) = Owed(p) + 4 * Click(to, EncA(p)) - q
<1>1. CASE q = 0
  BY <1>1 DEF Click, EncA, EncB, Owed
<1>2. CASE q = 1
  BY <1>2 DEF Click, EncA, EncB, Owed
<1>3. CASE q = -1
  BY <1>3 DEF Click, EncA, EncB, Owed
<1> QED
  BY <1>1, <1>2, <1>3

\* What a sample gives algorithm_UI.
ClicksOf(h) ==
  [i \in Side |-> Click((phase[i] + h.quarter[i]) % 4, lastEncA[i])]
PotsOf == [i \in Side |-> 2 * value[i]]

LEMMA PotsInRange == ConversionsSummed => PotsOf \in [Side -> 0 .. MaxParam]
BY PotInRange DEF PotsOf

LEMMA PotsInRangeNext ==
  ConversionsSummed' => (PotsOf \in [Side -> 0 .. MaxParam])'
BY PotsInRange, PTL

LEMMA Sampled ==
  ASSUME EncodersFollow, ConversionsSummed', NEW h \in Hands, SamplePanel(h)
  PROVE  /\ EncodersFollow'
         /\ ClicksOf(h) \in [Side -> {-1, 0, 1}]
         /\ PotsOf' \in [Side -> 0 .. MaxParam]
         /\ algorithm_UI(h.up, ClicksOf(h), PotsOf')
<1>1. ASSUME NEW i \in Side
      PROVE  /\ phase[i] \in 0 .. 3 /\ h.quarter[i] \in {-1, 0, 1}
             /\ lastEncA[i] = EncA(phase[i]) /\ drift[i] = Owed(phase[i])
  BY DEF EncodersFollow
<1>2. ASSUME NEW i \in Side
      PROVE  LET to == (phase[i] + h.quarter[i]) % 4 IN
             /\ to \in 0 .. 3
             /\ ClicksOf(h)[i] = Click(to, EncA(phase[i]))
             /\ ClicksOf(h)[i] \in {-1, 0, 1}
             /\ Owed(to) = drift[i] + 4 * ClicksOf(h)[i] - h.quarter[i]
  BY <1>1, QuarterTurn DEF ClicksOf
<1>3. /\ phase' = [i \in Side |-> (phase[i] + h.quarter[i]) % 4]
      /\ lastEncA' = [i \in Side |-> EncA(phase'[i])]
      /\ drift' = [i \in Side |-> drift[i] + 4 * ClicksOf(h)[i] - h.quarter[i]]
      /\ algorithm_UI(h.up, ClicksOf(h), PotsOf')
  BY DEF SamplePanel, ClicksOf, PotsOf
<1>4. EncodersFollow'
  BY <1>2, <1>3 DEF EncodersFollow
<1>5. ClicksOf(h) \in [Side -> {-1, 0, 1}]
  BY <1>2 DEF ClicksOf
<1>6. PotsOf' \in [Side -> 0 .. MaxParam]
  BY PotsInRangeNext
<1> QED
  BY <1>3, <1>4, <1>5, <1>6
-----------------------------------------------------------------------------
(* The knobs, in algorithm_UI. *)

LEMMA Clamped ==
  ASSUME NEW v \in 0 .. MaxParam, NEW turn \in {-1, 0, 1}
  PROVE  /\ Clamp(v + kEncoderScale * turn) \in 0 .. MaxParam
         /\ Distance(v, Clamp(v + kEncoderScale * turn)) <= kEncoderScale
<1>1. CASE turn = 0
  BY <1>1 DEF Clamp, Distance
<1>2. CASE turn = 1
  BY <1>2 DEF Clamp, Distance
<1>3. CASE turn = -1
  BY <1>3 DEF Clamp, Distance
<1> QED
  BY <1>1, <1>2, <1>3

LEMMA KnobsStep ==
  ASSUME TypeOK, NEW up, NEW turn \in [Side -> {-1, 0, 1}],
         NEW pot \in [Side -> 0 .. MaxParam], algorithm_UI(up, turn, pot)
  PROVE  /\ editMode' \in 0 .. 3
         /\ encoderValue' \in [Side -> 0 .. MaxParam]
         /\ potValue' \in [Side -> 0 .. MaxParam]
         /\ processorParams' \in [Side -> [Param -> 0 .. MaxParam]]
<1>1. editMode' = ModeAfter(up[0]) /\ Knobs(editMode', turn, pot)
  BY DEF algorithm_UI, LeftButton
<1>2. editMode' \in 0 .. 3
  <2>1. ASSUME NEW m \in 0 .. 3 PROVE OtherOfPair(m) \in 0 .. 3
    BY DEF OtherOfPair
  <2>2. FIRST \in 0 .. 3 /\ TWIN \in 0 .. 3
    BY DEF FIRST, TWIN
  <2>3. editMode \in 0 .. 3
    BY DEF TypeOK
  <2> QED
    BY <1>1, <2>1, <2>2, <2>3, Zenon DEF ModeAfter
<1>3. ASSUME NEW i \in Side PROVE EncoderAfter(i, turn) \in 0 .. MaxParam
  BY Clamped DEF TypeOK, EncoderAfter
<1>4. ASSUME NEW p \in Side, NEW k \in Param
      PROVE  /\ EncoderHas(editMode', p, k) =>
                  Turned(editMode', p, k, turn) \in 0 .. MaxParam
             /\ pot[k % 2] \in 0 .. MaxParam
             /\ processorParams[p][k] \in 0 .. MaxParam
  <2>1. processorParams[p][k] \in 0 .. MaxParam
    BY DEF TypeOK
  <2>2. pot[k % 2] \in 0 .. MaxParam
    BY DEF Param, Side
  <2>3. ASSUME EncoderHas(editMode', p, k)
        PROVE  Turned(editMode', p, k, turn) \in 0 .. MaxParam
    <3>1. k \in Side
      BY <2>3 DEF EncoderHas, Param, Side
    <3>2. /\ EncoderAfter(k, turn) \in 0 .. MaxParam
          /\ Clamp(processorParams[p][k] + kEncoderScale * turn[k]) \in 0 .. MaxParam
      BY <1>3, <2>1, <3>1, Clamped
    <3> QED
      BY <3>2, Zenon DEF Turned
  <2> QED
    BY <2>1, <2>2, <2>3
<1>5. encoderValue' \in [Side -> 0 .. MaxParam]
  BY <1>1, <1>3 DEF Knobs
<1>6. potValue' \in [Side -> 0 .. MaxParam]
  BY <1>1 DEF Knobs, TypeOK
<1>7. processorParams' \in [Side -> [Param -> 0 .. MaxParam]]
  BY <1>1, <1>4 DEF Knobs
<1> QED
  BY <1>2, <1>5, <1>6, <1>7

\* A pot that has not moved is close to where it was, one that has is there.
LEMMA PotsFollow ==
  ASSUME TypeOK, NEW mode, NEW turn, NEW pot \in [Side -> 0 .. MaxParam],
         Knobs(mode, turn, pot), NEW i \in Side
  PROVE  Distance(pot[i], potValue'[i]) < PotThreshold
<1>1. potValue'[i] = IF Distance(pot[i], potValue[i]) >= PotThreshold
                     THEN pot[i] ELSE potValue[i]
  BY DEF Knobs, PotMoved
<1>2. pot[i] \in Int /\ potValue[i] \in Int
  BY DEF TypeOK
<1>3. PotThreshold \in Nat \ {0}
  OBVIOUS
<1> QED
  BY <1>1, <1>2, <1>3 DEF Distance

\* Only the knobs that the mode gives a processor reach it, and they move a
\* parameter that they do not share by no more than a click.
LEMMA FocusKept ==
  ASSUME TypeOK, NEW up, NEW turn \in [Side -> {-1, 0, 1}], NEW pot,
         algorithm_UI(up, turn, pot), ~Shared(editMode')
  PROVE  /\ OtherLeftAlone
         /\ \A p \in Side, k \in {0, 1} : p = Edited(editMode') =>
              Distance(processorParams[p][k], processorParams'[p][k])
                <= kEncoderScale
<1>1. /\ editMode' = ModeAfter(up[0]) /\ Knobs(editMode', turn, pot)
      /\ RightButton(editMode', up[1])
  BY DEF algorithm_UI, LeftButton
<1>2. editMode' # TWIN /\ editMode' # SPLIT
  BY DEF Shared
<1>3. ASSUME NEW p \in Side, p # Edited(editMode')
      PROVE  UNCHANGED <<processorParams[p], function[p], processor[p]>>
  <2>1. \A k \in Param : ~EncoderHas(editMode', p, k) /\ ~PotHas(editMode', p, k)
    BY <1>2, <1>3 DEF EncoderHas, PotHas
  <2>2. processorParams'[p] = [k \in Param |-> processorParams[p][k]]
    BY <1>1, <2>1 DEF Knobs
  <2>3. processorParams'[p] = processorParams[p]
    BY <2>2 DEF TypeOK
  <2>4. function'[p] = function[p] /\ processor'[p] = processor[p]
    BY <1>1, <1>3, Zenon DEF RightButton, SetFunction
  <2> QED
    BY <2>3, <2>4
<1>4. ASSUME NEW p \in Side, NEW k \in {0, 1}, p = Edited(editMode')
      PROVE  Distance(processorParams[p][k], processorParams'[p][k])
               <= kEncoderScale
  <2>1. /\ k \in Param /\ k \in Side /\ ~PotHas(editMode', p, k)
    BY <1>2 DEF Param, Side, PotHas
  <2>2. processorParams[p][k] \in 0 .. MaxParam
    BY <2>1 DEF TypeOK
  <2>3. \/ processorParams'[p][k] = processorParams[p][k]
        \/ processorParams'[p][k] =
             Clamp(processorParams[p][k] + kEncoderScale * turn[k])
    BY <1>1, <2>1 DEF Knobs, Turned
  <2>4. CASE processorParams'[p][k] = processorParams[p][k]
    BY <2>2, <2>4 DEF Distance
  <2>5. CASE processorParams'[p][k] =
               Clamp(processorParams[p][k] + kEncoderScale * turn[k])
    <3>1. turn[k] \in {-1, 0, 1}
      BY <2>1
    <3> QED
      BY <2>2, <2>5, <3>1, Clamped
  <2> QED
    BY <2>3, <2>4, <2>5
<1> QED
  BY <1>3, <1>4 DEF OtherLeftAlone
-----------------------------------------------------------------------------
(* The steps. *)

\* Whatever is said of a sample's pots is said of the sums they come from.
LEMMA PotsAreSums ==
  ConversionsSummed' =>
    \A i \in Side : PotsOf'[i] = 2 * SumFunction(samples'[i])
BY DEF ConversionsSummed, PotsOf

LEMMA InitStep == Init => IInv
<1> SUFFICES ASSUME Init PROVE IInv
  OBVIOUS
<1>1. TypeOK
  BY DEF Init, Cleared, TypeOK, Zero, NoParams, TWIN
<1>2. EncodersFollow
  <2>0. Owed(0) = 0
    BY DEF Owed
  <2>1. EncA(0) = TRUE
    BY DEF EncA
  <2>2. ASSUME NEW i \in Side PROVE phase[i] = 0 /\ drift[i] = 0 /\ lastEncA[i] = TRUE
    BY DEF Init, Zero
  <2>3. phase \in [Side -> 0 .. 3] /\ drift = [i \in Side |-> 0]
        /\ lastEncA = [i \in Side |-> TRUE]
    BY DEF Init, Zero
  <2>4. [i \in Side |-> TRUE] = [i \in Side |-> EncA(phase[i])]
    BY <2>1, <2>2
  <2>5. [i \in Side |-> 0] = [i \in Side |-> Owed(phase[i])]
    BY <2>0, <2>2, Zenon
  <2> QED
    BY <2>3, <2>4, <2>5, Zenon DEF EncodersFollow
<1>3. samples = [i \in Side |-> [k \in Slot |-> 0]]
  BY DEF Init, Slot
<1>4. ASSUME NEW i \in Side PROVE SumFunction(samples[i]) = 0
  <2>1. samples[i] \in [Slot -> 0 .. 0]
    BY <1>3
  <2>2. SumFunction(samples[i]) \in 0 .. Cardinality(Slot) * 0
    BY <2>1, Numbers, SumBounded
  <2> QED
    BY <2>2, Numbers
<1>5. samples \in [Side -> [Slot -> 0 .. MaxConversion]]
  BY <1>3, Numbers
<1>6. pos \in [Side -> Slot]
  BY DEF Init, Zero, Slot
<1>7. value = [i \in Side |-> SumFunction(samples[i])]
  BY <1>4 DEF Init, Zero
<1>8. PotTracked
  BY <1>4 DEF PotTracked, Init, Cleared, Zero, Distance
<1> QED
  BY <1>1, <1>2, <1>5, <1>6, <1>7, <1>8 DEF IInv, ConversionsSummed

LEMMA InvStep ==
  ASSUME IInv, [Next]_vars
  PROVE  /\ IInv'
         /\ \/ UNCHANGED <<processorParams, function, processor>>
            \/ Shared(editMode')
            \/ /\ OtherLeftAlone
               /\ \A p \in Side, k \in {0, 1} : p = Edited(editMode') =>
                    Distance(processorParams[p][k], processorParams'[p][k])
                      <= kEncoderScale
<1> USE DEF IInv
<1>1. ASSUME UNCHANGED vars
      PROVE  IInv' /\ UNCHANGED <<processorParams, function, processor>>
  <2>1. /\ UNCHANGED <<editMode, function, processor, encoderValue, potValue>>
        /\ UNCHANGED <<processorParams, phase, lastEncA, drift, samples, pos, value>>
        /\ UNCHANGED slowTimeCountdown
    BY <1>1 DEF vars, algorithmData, settings, knobs, encoders, adcs
  <2>2. TypeOK'
    BY <2>1 DEF TypeOK
  <2>3. ConversionsSummed' /\ EncodersFollow'
    BY <2>1, Zenon DEF ConversionsSummed, EncodersFollow
  <2>4. PotTracked'
    BY <2>1, Zenon DEF PotTracked
  <2> QED
    BY <2>1, <2>2, <2>3, <2>4
<1>2. ASSUME Service, slowTimeCountdown > 1
      PROVE  IInv' /\ UNCHANGED <<processorParams, function, processor>>
  <2>1. ConversionsSummed'
    BY <1>2, SummedStep DEF Service
  <2>2. /\ UNCHANGED <<editMode, function, processor, encoderValue, potValue,
                       processorParams, phase, lastEncA, drift>>
        /\ slowTimeCountdown' = slowTimeCountdown - 1
    BY <1>2 DEF Service, algorithmData, settings, buttons, knobs, encoders
  <2>3. slowTimeCountdown' \in 1 .. kSlowTimeRatio
        /\ slowTimeCountdown' # kSlowTimeRatio
    BY <1>2, <2>2 DEF TypeOK
  <2>4. TypeOK' /\ EncodersFollow' /\ PotTracked'
    BY <2>2, <2>3 DEF TypeOK, EncodersFollow, PotTracked
  <2> QED
    BY <2>1, <2>2, <2>4
<1>3. ASSUME Service, ~(slowTimeCountdown > 1)
      PROVE  /\ IInv'
             /\ \/ Shared(editMode')
                \/ /\ OtherLeftAlone
                   /\ \A p \in Side, k \in {0, 1} : p = Edited(editMode') =>
                        Distance(processorParams[p][k], processorParams'[p][k])
                          <= kEncoderScale
  <2>1. ConversionsSummed'
    BY <1>3, SummedStep DEF Service
  <2>2. PICK h \in Hands : SamplePanel(h)
    BY <1>3 DEF Service
  <2>3. slowTimeCountdown' = kSlowTimeRatio
    BY <1>3 DEF Service
  <2> DEFINE pot == PotsOf'
  <2>4. /\ EncodersFollow'
        /\ ClicksOf(h) \in [Side -> {-1, 0, 1}]
        /\ pot \in [Side -> 0 .. MaxParam]
        /\ algorithm_UI(h.up, ClicksOf(h), pot)
    BY <2>1, <2>2, Sampled
  <2>5. TypeOK'
    <3>1. slowTimeCountdown' \in 1 .. kSlowTimeRatio
      BY <2>3
    <3> QED
      BY <2>4, <3>1, KnobsStep DEF TypeOK
  <2>6. ASSUME NEW i \in Side
        PROVE  Distance(2 * SumFunction(samples'[i]), potValue'[i]) < PotThreshold
    <3>1. Knobs(ModeAfter(h.up[0]), ClicksOf(h), pot)
      BY <2>4 DEF algorithm_UI
    <3>2. Distance(pot[i], potValue'[i]) < PotThreshold
      BY <2>4, <3>1, PotsFollow
    <3>3. pot[i] = 2 * SumFunction(samples'[i])
      BY <2>1, PotsAreSums
    <3> QED
      BY <3>2, <3>3
  <2>7. PotTracked'
    BY <2>6 DEF PotTracked
  <2> HIDE DEF pot
  <2> QED
    BY <2>1, <2>4, <2>5, <2>7, FocusKept
<1> QED
  BY <1>1, <1>2, <1>3, Zenon DEF Next
-----------------------------------------------------------------------------
(* The theorems. *)

LEMMA Invariance == Spec => []IInv
<1>1. IInv /\ [Next]_vars => IInv'
  BY InvStep
<1> QED
  BY InitStep, <1>1, PTL DEF Spec

\* Settings, knobs and samples stay in their ranges: twice the sum of the
\* conversions is a parameter, so that no knob ever leaves a processor one
\* that sixteen bits do not hold.
THEOREM TypeCorrect == Spec => [](TypeOK /\ ConversionsSummed)
<1>1. IInv => TypeOK /\ ConversionsSummed
  BY DEF IInv
<1> QED
  BY Invariance, <1>1, PTL

\* An encoder owes its hand less than a click, and what it owes is told by
\* where it stands: rocking it leaves nothing behind.
THEOREM ClicksFollow == Spec => []ClicksFollowHand
<1>1. ASSUME NEW p \in 0 .. 3 PROVE Owed(p) \in -1 .. 2
  BY DEF Owed
<1>2. EncodersFollow => ClicksFollowHand
  BY <1>1 DEF EncodersFollow, ClicksFollowHand
<1>3. IInv => ClicksFollowHand
  BY <1>2 DEF IInv
<1> QED
  BY Invariance, <1>3, PTL

\* A pot that creeps is not lost, for any number of conversions in the sum.
THEOREM CreepFollowed == Spec => []PotTracked
<1>1. IInv => PotTracked
  BY DEF IInv
<1> QED
  BY Invariance, <1>1, PTL

\* In the focused modes nothing reaches the processor that is out of focus.
THEOREM OtherUntouched == Spec => FocusOnly
<1>1. IInv /\ [Next]_vars => [OtherLeftAlone]_vars
  <2> SUFFICES ASSUME IInv, [Next]_vars PROVE OtherLeftAlone
    OBVIOUS
  <2>1. CASE UNCHANGED <<processorParams, function, processor>>
    BY <2>1, Zenon DEF OtherLeftAlone
  <2>2. CASE Shared(editMode')
    BY <2>2, Zenon DEF OtherLeftAlone
  <2> QED
    BY <2>1, <2>2, InvStep, Zenon
<1> QED
  BY Invariance, <1>1, PTL DEF Spec, FocusOnly

\* In the focused modes an encoder moves a parameter by at most a click.
THEOREM NoJump == Spec => NoJumpInFocus
<1> DEFINE Close(k) ==
             Distance(processorParams[Edited(editMode')][k],
                      processorParams'[Edited(editMode')][k]) <= kEncoderScale
<1>1. ASSUME IInv, [Next]_vars, ~Shared(editMode'), NEW k \in {0, 1}
      PROVE  Close(k)
  <2>1. /\ Edited(editMode') \in Side /\ k \in Param
    <3>1. editMode' \in 0 .. 3
      BY <1>1, InvStep DEF IInv, TypeOK
    <3> QED
      BY <1>1, <3>1 DEF Shared, TWIN, SPLIT, FIRST, Edited, Side, Param
  <2>2. CASE UNCHANGED <<processorParams, function, processor>>
    <3>1. processorParams[Edited(editMode')][k] \in 0 .. MaxParam
      BY <1>1, <2>1 DEF IInv, TypeOK
    <3>2. Distance(processorParams[Edited(editMode')][k],
                   processorParams[Edited(editMode')][k]) = 0
      BY <3>1 DEF Distance
    <3>3. kEncoderScale \in Nat
      OBVIOUS
    <3> QED
      BY <2>2, <3>2, <3>3
  <2> QED
    BY <1>1, <2>1, <2>2, InvStep, Zenon
<1>2. IInv /\ [Next]_vars =>
        [~Shared(editMode') => \A k \in {0, 1} : Close(k)]_vars
  BY <1>1, Zenon
<1> QED
  BY Invariance, <1>2, PTL DEF Spec, NoJumpInFocus
=============================================================================
