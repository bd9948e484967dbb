-------------------------- MODULE DecisionEngineProofs --------------------------
(***************************************************************************)
(* What DecisionEngine guarantees for any agents, intents and histories,   *)
(* whatever the providers report and however many evaluations run: how a   *)
(* finding becomes a decision, and a decision a reputation.                *)
(***************************************************************************)
EXTENDS DecisionEngine, DataLemmas, SequenceTheorems

-------------------------------------------------------------------------------
(* Risk fusion *)

Measured(s) == s.score \in 0 .. 100 /\ s.weight \in Nat /\ s.confidence \in 0 .. 100
AllMeasured(S) == IsFiniteSet(S) /\ \A s \in S : Measured(s)

Risk == [num : Nat, den : Nat \ {0}]

\* Products, which the prover does not compare by itself.
LEMMA ProductMonotone ==
    ASSUME NEW a \in Int, NEW b \in Int, NEW c \in Nat, a <= b
    PROVE  a * c \in Int /\ b * c \in Int /\ a * c <= b * c
OBVIOUS

LEMMA NaturalProduct ==
    ASSUME NEW a \in Nat, NEW b \in Nat
    PROVE  a * b \in Nat
OBVIOUS

\* The weighted average is a fraction with a positive denominator.
LEMMA AverageType ==
    ASSUME NEW S, AllMeasured(S)
    PROVE  WeightedAverage(S) \in Risk
<1> DEFINE weights == [s \in S |-> EffectiveWeight(s)]
           products == [s \in S |-> s.score * EffectiveWeight(s)]
<1>1. \A s \in S : EffectiveWeight(s) \in Nat
  <2> TAKE s \in S
  <2>1. s.weight \in Nat /\ s.confidence \in 0 .. 100
    BY DEF AllMeasured, Measured
  <2>2. EffectiveWeight(s) = s.weight * s.confidence
    BY <2>1 DEF EffectiveWeight, Clamp
  <2> QED
    BY <2>1, <2>2, NaturalProduct
<1>2. \A s \in S : s.score * EffectiveWeight(s) \in Nat
  BY <1>1, NaturalProduct DEF AllMeasured, Measured
<1>3. /\ \A s \in S : weights[s] \in Nat
      /\ \A s \in S : products[s] \in Nat
      /\ DOMAIN weights = S /\ DOMAIN products = S
  BY <1>1, <1>2
<1>4. /\ WeightTotal(S) = SumFunctionOnSet(weights, S)
      /\ SumFunction(products) = SumFunctionOnSet(products, S)
  BY <1>3 DEF WeightTotal, SumFunction
<1>5. /\ WeightedAverage(S) = IF WeightTotal(S) = 0 THEN NoDataRisk
                              ELSE [num |-> SumFunction(products), den |-> WeightTotal(S)]
  BY DEF WeightedAverage
<1> HIDE DEF weights, products
<1>6. SumFunctionOnSet(weights, S) \in Nat /\ SumFunctionOnSet(products, S) \in Nat
  BY <1>3, SumIsNatural DEF AllMeasured
<1> QED
  BY <1>4, <1>5, <1>6 DEF NoDataRisk, Risk

\* The floor is a fraction no smaller than that of any dominant signal.
LEMMA HighestFloor ==
    ASSUME NEW S, AllMeasured(S)
    PROVE  /\ DominantFloor(S) \in Risk /\ DominantFloor(S).den = 10
           /\ \A s \in S : Dominant(s) => 9 * s.score <= DominantFloor(S).num
<1> DEFINE floors == {0} \cup {FloorOf(s) : s \in {t \in S : Dominant(t)}}
<1>1. \A x \in floors : x \in Nat /\ x <= 900
  BY DEF FloorOf, AllMeasured, Measured
<1>2. IsFiniteSet(floors) /\ floors # {} /\ floors \in SUBSET Int
  <2>1. floors # {}
    OBVIOUS
  <2> HIDE DEF floors
  <2>2. floors \in SUBSET Nat /\ \A x \in floors : x <= 900
    BY <1>1
  <2>3. IsFiniteSet(floors)
    BY <2>2, FS_BoundedSetOfNaturals
  <2> QED
    BY <2>1, <2>2, <2>3
<1>3. \A s \in S : Dominant(s) => 9 * s.score \in floors
  BY DEF FloorOf
<1>4. DominantFloor(S) = [num |-> Max(floors), den |-> 10]
  BY DEF DominantFloor
<1> HIDE DEF floors
<1>5. \E x \in floors : \A y \in floors : y <= x
  BY <1>2, GreatestElement
<1>6. Max(floors) \in floors /\ \A y \in floors : Max(floors) >= y
  <2>1. \E x \in floors : \A y \in floors : x >= y
    BY <1>2, <1>5
  <2> QED
    BY <2>1 DEF Max
<1>7. \A s \in S : Dominant(s) => 9 * s.score <= Max(floors)
  <2> SUFFICES ASSUME NEW s \in S, Dominant(s)  PROVE 9 * s.score <= Max(floors)
    OBVIOUS
  <2>1. 9 * s.score \in floors
    BY <1>3
  <2>2. Max(floors) >= 9 * s.score
    BY <1>6, <2>1
  <2>3. Max(floors) \in Int /\ 9 * s.score \in Int
    BY <1>2, <1>6, <2>1
  <2> QED
    BY <2>2, <2>3
<1>8. Max(floors) \in Nat
  BY <1>1, <1>6
<1> QED
  BY <1>4, <1>7, <1>8 DEF Risk

\* No signal dilutes a dominant one: the fused risk is at least nine tenths
\* of its score.
LEMMA FusedOverFloor ==
    ASSUME NEW S, AllMeasured(S), NEW s \in S, Dominant(s)
    PROVE  /\ Fuse(S) \in Risk
           /\ (9 * s.score) * Fuse(S).den <= 10 * Fuse(S).num
<1>1. PICK avg \in Risk : avg = WeightedAverage(S)
  BY AverageType
<1>2. PICK floor \in Risk : /\ floor = DominantFloor(S) /\ floor.den = 10
                            /\ 9 * s.score <= floor.num
  BY HighestFloor
<1>3. Fuse(S) = IF LessEq(avg, floor) THEN floor ELSE avg
  BY <1>1, <1>2 DEF Fuse, Larger
<1>4. avg.num \in Nat /\ avg.den \in Nat /\ floor.num \in Nat /\ s.score \in Nat
  BY DEF Risk, AllMeasured, Measured
<1>5. CASE LessEq(avg, floor)
  BY <1>2, <1>3, <1>4, <1>5
<1>6. CASE ~LessEq(avg, floor)
  <2>1. avg.num * 10 > floor.num * avg.den
    BY <1>2, <1>4, <1>6, NaturalProduct DEF LessEq
  <2>2. /\ (9 * s.score) * avg.den <= floor.num * avg.den
        /\ (9 * s.score) * avg.den \in Int /\ floor.num * avg.den \in Int
    BY <1>2, <1>4, ProductMonotone
  <2>3. (9 * s.score) * avg.den <= 10 * avg.num
    BY <1>4, <2>1, <2>2
  <2> QED
    BY <1>3, <1>6, <2>3
<1> QED
  BY <1>5, <1>6

\* A dominant signal of score 100 blocks at any reputation.
LEMMA ConclusiveBlocks ==
    ASSUME NEW S, AllMeasured(S), NEW s \in S,
           s.score = 100, s.confidence >= DominantConfidence, NEW r \in 0 .. 100
    PROVE  AtLeast(Fuse(S), r, BlockThreshold)
<1>1. Dominant(s)
  BY DEF Dominant, DominantThreshold
<1>2. PICK risk \in Risk : risk = Fuse(S) /\ (9 * 100) * risk.den <= 10 * risk.num
  BY <1>1, FusedOverFloor
<1>3. risk.num \in Nat /\ risk.den \in Nat
  BY DEF Risk
<1>4. 900 * risk.den <= 10 * risk.num
  BY <1>2
<1>5. (-50) * risk.den <= (NeutralScore - r) * risk.den /\ (NeutralScore - r) * risk.den \in Int
  BY <1>3, ProductMonotone DEF NeutralScore
<1>6. 3 * (NeutralScore - r) * risk.den = 3 * ((NeutralScore - r) * risk.den)
  BY <1>3 DEF NeutralScore
<1> QED
  BY <1>2, <1>3, <1>4, <1>5, <1>6 DEF AtLeast, BlockThreshold

\* One of score 92 keeps an action from being allowed, and blocks it up to a
\* reputation of 68.
LEMMA NearlyConclusiveStops ==
    ASSUME NEW S, AllMeasured(S), NEW s \in S,
           s.score = 92, s.confidence >= DominantConfidence, NEW r \in 0 .. 100
    PROVE  /\ AtLeast(Fuse(S), r, WarnThreshold)
           /\ r <= 68 => AtLeast(Fuse(S), r, BlockThreshold)
<1>1. Dominant(s)
  BY DEF Dominant, DominantThreshold
<1>2. PICK risk \in Risk : risk = Fuse(S) /\ (9 * 92) * risk.den <= 10 * risk.num
  BY <1>1, FusedOverFloor
<1>3. risk.num \in Nat /\ risk.den \in Nat
  BY DEF Risk
<1>4. 828 * risk.den <= 10 * risk.num
  BY <1>2
<1>5. (-50) * risk.den <= (NeutralScore - r) * risk.den /\ (NeutralScore - r) * risk.den \in Int
  BY <1>3, ProductMonotone DEF NeutralScore
<1>6. r <= 68 => (-18) * risk.den <= (NeutralScore - r) * risk.den
  BY <1>3, ProductMonotone DEF NeutralScore
<1>7. 3 * (NeutralScore - r) * risk.den = 3 * ((NeutralScore - r) * risk.den)
  BY <1>3 DEF NeutralScore
<1> QED
  BY <1>2, <1>3, <1>4, <1>5, <1>6, <1>7 DEF AtLeast, BlockThreshold, WarnThreshold

-------------------------------------------------------------------------------
(* Reputation *)

\* A score stays in its range.
LEMMA NudgeType ==
    ASSUME NEW score \in 0 .. 100, NEW d \in Decisions
    PROVE  Nudge(score, d) \in 0 .. 100
BY DEF Nudge, Clamp, Delta, Decisions

\* The recursion over the records of the window has a result, which satisfies
\* its equation.
LEMMA ScoreEquation ==
    ASSUME NEW d \in Seq(Decisions)
    PROVE  ScoreAfter(d) = [n \in 0 .. Len(d) |->
                IF n = 0 THEN NeutralScore ELSE Nudge(ScoreAfter(d)[n - 1], d[n])]
<1> DEFINE Scores(f, n) == f = [m \in 0 .. n |->
                IF m = 0 THEN NeutralScore ELSE Nudge(f[m - 1], d[m])]
           T == {n \in Nat : \E f : Scores(f, n)}
<1>1. 0 \in T
  <2> DEFINE f == [m \in 0 .. 0 |-> NeutralScore]
  <2>1. Scores(f, 0)
    OBVIOUS
  <2> QED
    BY <2>1
<1>2. ASSUME NEW n \in Nat, n \in T  PROVE n + 1 \in T
  <2>1. PICK f : Scores(f, n)
    BY <1>2
  <2> DEFINE g == [m \in 0 .. n + 1 |-> IF m = 0 THEN NeutralScore ELSE Nudge(f[m - 1], d[m])]
  <2>2. \A m \in 0 .. n : g[m] = f[m]
    BY <2>1
  <2>3. \A m \in 0 .. n + 1 : m # 0 => m - 1 \in 0 .. n
    OBVIOUS
  <2>4. Scores(g, n + 1)
    BY <2>2, <2>3
  <2> HIDE DEF g, Scores
  <2> QED
    BY <2>4
<1>3. Len(d) \in T
  <2> HIDE DEF T
  <2>1. \A n \in Nat : n \in T
    BY <1>1, <1>2, NatSetInduction
  <2> QED
    BY <2>1
<1>4. PICK f : Scores(f, Len(d))
  BY <1>3
<1>5. ScoreAfter(d) = CHOOSE g : Scores(g, Len(d))
  BY DEF ScoreAfter
<1> HIDE DEF Scores
<1>6. Scores(ScoreAfter(d), Len(d))
  BY <1>4, <1>5
<1> QED
  BY <1>6 DEF Scores

\* The score after each record: where it starts, how it moves, its range.
LEMMA ScoreSteps ==
    ASSUME NEW d \in Seq(Decisions)
    PROVE  /\ Len(d) \in Nat
           /\ ScoreAfter(d)[0] = NeutralScore
           /\ \A n \in 1 .. Len(d) :
                ScoreAfter(d)[n] = Nudge(ScoreAfter(d)[n - 1], d[n]) /\ d[n] \in Decisions
           /\ \A n \in 0 .. Len(d) : ScoreAfter(d)[n] \in 0 .. 100
           /\ ReputationOf(d) = ScoreAfter(d)[Len(d)]
<1> DEFINE score == ScoreAfter(d)
           T == {n \in Nat : n <= Len(d) => score[n] \in 0 .. 100}
<1>1. score = [n \in 0 .. Len(d) |-> IF n = 0 THEN NeutralScore ELSE Nudge(score[n - 1], d[n])]
  BY ScoreEquation
<1> HIDE DEF score
<1>2. Len(d) \in Nat /\ \A n \in 1 .. Len(d) : d[n] \in Decisions
  OBVIOUS
<1>3. score[0] = NeutralScore /\ \A n \in 1 .. Len(d) : score[n] = Nudge(score[n - 1], d[n])
  BY <1>1, <1>2
<1>4. 0 \in T
  BY <1>3 DEF NeutralScore
<1>5. ASSUME NEW n \in Nat, n \in T  PROVE n + 1 \in T
  <2> SUFFICES ASSUME n + 1 <= Len(d)  PROVE score[n + 1] \in 0 .. 100
    OBVIOUS
  <2>1. score[n] \in 0 .. 100
    BY <1>2, <1>5
  <2>2. score[n + 1] = Nudge(score[n], d[n + 1]) /\ d[n + 1] \in Decisions
    BY <1>2, <1>3
  <2> QED
    BY <2>1, <2>2, NudgeType
<1> HIDE DEF T
<1>6. \A n \in Nat : n \in T
  BY <1>4, <1>5, NatSetInduction
<1>7. \A n \in 0 .. Len(d) : score[n] \in 0 .. 100
  BY <1>2, <1>6 DEF T
<1> QED
  BY <1>2, <1>3, <1>7 DEF score, ReputationOf

\* Two scores that differ by no more than a forgotten record made them differ
\* do so after any further record.
LEMMA NudgeTogether ==
    ASSUME NEW x \in 0 .. 100, NEW y \in 0 .. 100, -2 <= x - y, x - y <= 15,
           NEW d \in Decisions
    PROVE  -2 <= Nudge(x, d) - Nudge(y, d) /\ Nudge(x, d) - Nudge(y, d) <= 15
BY DEF Nudge, Clamp, Delta, Decisions

\* One record more, with the same ones before it.
LEMMA ScoreExtended ==
    ASSUME NEW d \in Seq(Decisions), NEW e \in Seq(Decisions), Len(e) = Len(d) + 1,
           \A n \in 1 .. Len(d) : e[n] = d[n]
    PROVE  ReputationOf(e) = Nudge(ReputationOf(d), e[Len(e)])
<1> DEFINE T == {n \in Nat : n <= Len(d) => ScoreAfter(e)[n] = ScoreAfter(d)[n]}
<1>1. Len(d) \in Nat /\ Len(e) = Len(d) + 1
  OBVIOUS
<1>2. /\ ScoreAfter(e)[0] = NeutralScore /\ ScoreAfter(d)[0] = NeutralScore
      /\ \A n \in 1 .. Len(e) : ScoreAfter(e)[n] = Nudge(ScoreAfter(e)[n - 1], e[n])
      /\ \A n \in 1 .. Len(d) : ScoreAfter(d)[n] = Nudge(ScoreAfter(d)[n - 1], d[n])
      /\ ReputationOf(e) = ScoreAfter(e)[Len(e)]
      /\ ReputationOf(d) = ScoreAfter(d)[Len(d)]
  BY ScoreSteps
<1>3. 0 \in T
  BY <1>2
<1>4. ASSUME NEW n \in Nat, n \in T  PROVE n + 1 \in T
  BY <1>1, <1>2, <1>4
<1> HIDE DEF T
<1>5. \A n \in Nat : n \in T
  BY <1>3, <1>4, NatSetInduction
<1>6. ScoreAfter(e)[Len(d)] = ScoreAfter(d)[Len(d)]
  BY <1>1, <1>5 DEF T
<1> QED
  BY <1>1, <1>2, <1>6

\* One record more, and the oldest forgotten.
LEMMA ScoreSlid ==
    ASSUME NEW d \in Seq(Decisions), NEW e \in Seq(Decisions),
           Len(e) = Len(d) /\ Len(d) # 0,
           \A n \in 1 .. Len(d) - 1 : e[n] = d[n + 1]
    PROVE  \E x \in 0 .. 100 :
              /\ -2 <= x - ReputationOf(d) /\ x - ReputationOf(d) <= 15
              /\ ReputationOf(e) = Nudge(x, e[Len(e)])
<1> DEFINE T == {n \in Nat : n < Len(d) =>
                    /\ -2 <= ScoreAfter(e)[n] - ScoreAfter(d)[n + 1]
                    /\ ScoreAfter(e)[n] - ScoreAfter(d)[n + 1] <= 15}
<1>1. Len(d) \in Nat /\ Len(e) = Len(d) /\ Len(d) - 1 \in Nat
  OBVIOUS
<1>2. /\ ScoreAfter(e)[0] = NeutralScore
      /\ \A n \in 1 .. Len(e) : ScoreAfter(e)[n] = Nudge(ScoreAfter(e)[n - 1], e[n])
      /\ \A n \in 0 .. Len(e) : ScoreAfter(e)[n] \in 0 .. 100
      /\ ReputationOf(e) = ScoreAfter(e)[Len(e)]
  BY ScoreSteps
<1>3. /\ ScoreAfter(d)[0] = NeutralScore
      /\ \A n \in 1 .. Len(d) :
            ScoreAfter(d)[n] = Nudge(ScoreAfter(d)[n - 1], d[n]) /\ d[n] \in Decisions
      /\ \A n \in 0 .. Len(d) : ScoreAfter(d)[n] \in 0 .. 100
      /\ ReputationOf(d) = ScoreAfter(d)[Len(d)]
  BY ScoreSteps
<1>4. 0 \in T
  <2>1. ScoreAfter(d)[1] = Nudge(NeutralScore, d[1]) /\ d[1] \in Decisions
    BY <1>1, <1>3
  <2> QED
    BY <1>2, <2>1 DEF Nudge, Clamp, Delta, Decisions, NeutralScore
<1>5. ASSUME NEW n \in Nat, n \in T  PROVE n + 1 \in T
  <2> SUFFICES ASSUME n + 1 < Len(d)
               PROVE  /\ -2 <= ScoreAfter(e)[n + 1] - ScoreAfter(d)[n + 2]
                      /\ ScoreAfter(e)[n + 1] - ScoreAfter(d)[n + 2] <= 15
    OBVIOUS
  <2>1. /\ -2 <= ScoreAfter(e)[n] - ScoreAfter(d)[n + 1]
        /\ ScoreAfter(e)[n] - ScoreAfter(d)[n + 1] <= 15
        /\ ScoreAfter(e)[n] \in 0 .. 100 /\ ScoreAfter(d)[n + 1] \in 0 .. 100
    BY <1>1, <1>2, <1>3, <1>5
  <2>2. e[n + 1] = d[n + 2] /\ d[n + 2] \in Decisions
    BY <1>1, <1>3
  <2>3. /\ ScoreAfter(e)[n + 1] = Nudge(ScoreAfter(e)[n], e[n + 1])
        /\ ScoreAfter(d)[n + 2] = Nudge(ScoreAfter(d)[n + 1], d[n + 2])
    BY <1>1, <1>2, <1>3
  <2> QED
    BY <2>1, <2>2, <2>3, NudgeTogether
<1> HIDE DEF T
<1>6. \A n \in Nat : n \in T
  BY <1>4, <1>5, NatSetInduction
<1>7. /\ -2 <= ScoreAfter(e)[Len(d) - 1] - ScoreAfter(d)[Len(d)]
      /\ ScoreAfter(e)[Len(d) - 1] - ScoreAfter(d)[Len(d)] <= 15
  BY <1>1, <1>6 DEF T
<1>8. ScoreAfter(e)[Len(d) - 1] \in 0 .. 100
  BY <1>1, <1>2
<1>9. ReputationOf(e) = Nudge(ScoreAfter(e)[Len(d) - 1], e[Len(e)])
  BY <1>1, <1>2
<1>10. ReputationOf(d) = ScoreAfter(d)[Len(d)]
  BY <1>3
<1> QED
  BY <1>7, <1>8, <1>9, <1>10

-------------------------------------------------------------------------------
(* The signals every analyzer reports are sound *)

\* A finding of full strength, and nothing that only has its name.
SoundSignal(s) ==
    /\ Measured(s)
    /\ s.name \in RedFlags => s.score = 100 /\ s.confidence >= DominantConfidence
    /\ s.name = "unlimited_approval_confirmed" =>
            s.score = 92 /\ s.confidence >= DominantConfidence

SoundSignals(S) == IsFiniteSet(S) /\ \A s \in S : SoundSignal(s)

\* Sound sets of signals are put together from sound signals.
LEMMA SoundParts ==
    /\ SoundSignals({})
    /\ \A s : SoundSignal(s) => SoundSignals({s})
    /\ \A S, T : SoundSignals(S) /\ SoundSignals(T) => SoundSignals(S \cup T)
<1>1. SoundSignals({})
  BY FS_EmptySet DEF SoundSignals
<1>2. ASSUME NEW s, SoundSignal(s) PROVE SoundSignals({s})
  BY <1>2, FS_Singleton DEF SoundSignals
<1>3. ASSUME NEW S, NEW T, SoundSignals(S), SoundSignals(T) PROVE SoundSignals(S \cup T)
  BY <1>3, FS_Union DEF SoundSignals
<1> QED
  BY <1>1, <1>2, <1>3

LEMMA SoundUnions ==
    ASSUME NEW A, NEW B, NEW C, NEW D, NEW E,
           SoundSignals(A), SoundSignals(B), SoundSignals(C), SoundSignals(D), SoundSignals(E)
    PROVE  SoundSignals(A \cup B \cup C \cup D \cup E)
<1>1. SoundSignals(A \cup B)
  BY SoundParts
<1>2. SoundSignals(A \cup B \cup C)
  BY <1>1, SoundParts
<1>3. SoundSignals(A \cup B \cup C \cup D)
  BY <1>2, SoundParts
<1> QED
  BY <1>3, SoundParts

LEMMA SoundWhen ==
    ASSUME NEW c, NEW s, c => SoundSignal(s)
    PROVE  SoundSignals(When(c, s))
BY SoundParts DEF When

\* Each analyzer reports sound signals only, whatever the profile it is
\* given.
LEMMA WalletSound ==
    ASSUME NEW p
    PROVE  SoundSignals(WalletSignals(p))
<1>1. SoundSignal(WalletAge(p.age_days))
  BY DEF WalletAge, RedFlags, SoundSignal, Signal, Measured
<1>2. /\ SoundSignals(When(p.is_flagged, Signal("flagged_wallet", 95, 30, 60)))
      /\ SoundSignals(When(p.tx_count = Unknown, Signal("tx_count_unknown", 20, 5, 40)))
      /\ SoundSignals(When(p.tx_count # Unknown /\ p.tx_count < 3,
                           Signal("low_activity", 40, 8, 70)))
      /\ SoundSignals(When(p.is_contract, Signal("wallet_is_contract", 30, 7, 85)))
  BY SoundWhen DEF RedFlags, SoundSignal, Signal, Measured
<1>3. SoundSignals({WalletAge(p.age_days)})
  BY <1>1, SoundParts
<1> QED
  BY <1>2, <1>3, SoundUnions DEF WalletSignals

\* Integer division, which the prover does not bound by itself.
LEMMA TaxScore ==
    ASSUME NEW tax \in Int, tax >= 10, tax < 50
    PROVE  40 + (tax * 60) \div 100 \in 0 .. 100
OBVIOUS

LEMMA TokenSound ==
    ASSUME NEW p, TokenProfile(p)
    PROVE  SoundSignals(TokenSignals(p))
<1>1. ASSUME NEW tax \in Int \cup {Unknown}, NEW name,
             name \notin RedFlags, name # "unlimited_approval_confirmed"
      PROVE  SoundSignals(TaxSignals(name, tax))
  <2>1. tax # Unknown /\ tax >= 10 =>
          SoundSignal(Signal(name, IF tax >= 50 THEN 90 ELSE 40 + (tax * 60) \div 100, 13, 70))
    <3>1. tax # Unknown /\ tax >= 10 /\ tax < 50 => 40 + (tax * 60) \div 100 \in 0 .. 100
      BY TaxScore
    <3> QED
      BY <1>1, <3>1 DEF SoundSignal, Signal, Measured
  <2> QED
    BY <2>1, SoundWhen DEF TaxSignals
<1>2. SoundSignals(TaxSignals("high_buy_tax", p.buy_tax))
  BY <1>1 DEF TokenProfile, RedFlags
<1>3. SoundSignals(TaxSignals("high_sell_tax", p.sell_tax))
  BY <1>1 DEF TokenProfile, RedFlags
<1>4. SoundSignals(HolderConcentration(p.top_holder))
  <2> DEFINE share == p.top_holder
             score == IF share > 60 THEN 90 ELSE 30 + share
  <2>1. share \in Int \cup {Unknown}
    BY DEF TokenProfile
  <2> HIDE DEF share
  <2>2. share # Unknown /\ share >= 20 => score \in 0 .. 100
    BY <2>1
  <2> HIDE DEF score
  <2>3. share # Unknown /\ share >= 20
            => SoundSignal(Signal("holder_concentration", score, 12, 60))
    BY <2>2 DEF RedFlags, SoundSignal, Signal, Measured
  <2>4. SoundSignals(When(share # Unknown /\ share >= 20,
                          Signal("holder_concentration", score, 12, 60)))
    BY <2>3, SoundWhen
  <2> QED
    BY <2>4 DEF HolderConcentration, share, score
<1>5. SoundSignal(Liquidity(p))
  BY DEF Liquidity, RedFlags, SoundSignal, Signal, Measured
<1>6. SoundSignals(IF p.goplus THEN {} ELSE {Liquidity(p)})
  BY <1>5, SoundParts
<1>7. /\ SoundSignals(When(p.honeypot, Signal("honeypot", 100, 50, 90)))
      /\ SoundSignals(When(p.goplus /\ p.concentrated,
                           Signal("no_dex_liquidity", 50, 10, 60)))
      /\ SoundSignals(When(p.blacklistable, Signal("has_blacklist_function", 45, 12, 60)))
      /\ SoundSignals(When(p.pausable, Signal("transfer_pausable", 45, 12, 60)))
  BY SoundWhen DEF RedFlags, SoundSignal, Signal, Measured, DominantConfidence
<1>8. SoundSignals(TokenRisks(p))
  <2>1. SoundSignals((IF p.goplus THEN {} ELSE {Liquidity(p)})
            \cup When(p.honeypot, Signal("honeypot", 100, 50, 90))
            \cup When(p.goplus /\ p.concentrated, Signal("no_dex_liquidity", 50, 10, 60))
            \cup TaxSignals("high_buy_tax", p.buy_tax)
            \cup TaxSignals("high_sell_tax", p.sell_tax))
    BY <1>2, <1>3, <1>6, <1>7, SoundUnions
  <2> QED
    BY <2>1, <1>4, <1>7, SoundUnions, SoundParts DEF TokenRisks
<1>9. /\ SoundSignal(Signal("major_token", 2, 10, 95))
      /\ SoundSignal(Signal("token_match_uncertain", 20, 4, 30))
      /\ SoundSignal(Signal("trusted_listed_token", 3, 10, 85))
      /\ SoundSignal(Signal("no_token_risk_indicators", 8, 5, 60))
  BY DEF RedFlags, SoundSignal, Signal, Measured
<1>10. /\ SoundSignals({Signal("major_token", 2, 10, 95)})
       /\ SoundSignals({Signal("token_match_uncertain", 20, 4, 30)})
       /\ SoundSignals({Signal("trusted_listed_token", 3, 10, 85)})
       /\ SoundSignals({Signal("no_token_risk_indicators", 8, 5, 60)})
  BY <1>9, SoundParts
<1> QED
  BY <1>8, <1>10 DEF TokenSignals

LEMMA ContractSound ==
    ASSUME NEW p
    PROVE  SoundSignals(ContractSignals(p))
<1>1. /\ SoundSignal(Verification(p.verified))
      /\ SoundSignal(Signal("known_malicious_contract", 100, 50, 95))
      /\ SoundSignal(Signal("known_safe_contract", 2, 10, 90))
  BY DEF Verification, RedFlags, SoundSignal, Signal, Measured, DominantConfidence
<1>2. /\ SoundSignals({Verification(p.verified)})
      /\ SoundSignals({Signal("known_malicious_contract", 100, 50, 95)})
      /\ SoundSignals({Signal("known_safe_contract", 2, 10, 90)})
  BY <1>1, SoundParts
<1>3. /\ SoundSignals(When(p.upgradeable, Signal("upgradeable_contract", 40, 12, 50)))
      /\ SoundSignals(When(p.owner_can_change_balance,
                           Signal("owner_can_change_balances", 85, 25, 80)))
      /\ SoundSignals(When(p.mintable, Signal("mintable_supply", 45, 10, 70)))
      /\ SoundSignals(When(p.selfdestruct, Signal("has_selfdestruct", 70, 18, 80)))
      /\ SoundSignals(When(p.hidden_owner, Signal("hidden_owner", 55, 13, 60)))
  BY SoundWhen DEF RedFlags, SoundSignal, Signal, Measured
<1>4. SoundSignals({Verification(p.verified)}
            \cup When(p.upgradeable, Signal("upgradeable_contract", 40, 12, 50))
            \cup When(p.owner_can_change_balance,
                      Signal("owner_can_change_balances", 85, 25, 80))
            \cup When(p.mintable, Signal("mintable_supply", 45, 10, 70))
            \cup When(p.selfdestruct, Signal("has_selfdestruct", 70, 18, 80)))
  BY <1>2, <1>3, SoundUnions
<1>5. SoundSignals({Verification(p.verified)}
            \cup When(p.upgradeable, Signal("upgradeable_contract", 40, 12, 50))
            \cup When(p.owner_can_change_balance,
                      Signal("owner_can_change_balances", 85, 25, 80))
            \cup When(p.mintable, Signal("mintable_supply", 45, 10, 70))
            \cup When(p.selfdestruct, Signal("has_selfdestruct", 70, 18, 80))
            \cup When(p.hidden_owner, Signal("hidden_owner", 55, 13, 60)))
  BY <1>3, <1>4, SoundParts
<1> QED
  BY <1>2, <1>5 DEF ContractSignals

LEMMA SimulationSound ==
    ASSUME NEW type, NEW amount, NEW result
    PROVE  SoundSignals(SimulationSignals(type, amount, result))
<1>1. /\ SoundSignal(Signal("simulation_reverts", 100, 60, 98))
      /\ SoundSignal(Signal("simulation_succeeds", 2, 5, 90))
      /\ SoundSignal(Signal("unlimited_approval_confirmed", 92, 20, 95))
      /\ SoundSignal(Signal("finite_approval_confirmed", 5, 5, 95))
      /\ SoundSignal(Signal("unlimited_approval_suspected", 55, 10, 50))
      /\ SoundSignal(Signal("simulation_not_attempted", 0, 0, 0))
  BY DEF RedFlags, SoundSignal, Signal, Measured, DominantConfidence
<1>2. /\ SoundSignals({Signal("simulation_reverts", 100, 60, 98)})
      /\ SoundSignals({Signal("simulation_succeeds", 2, 5, 90)})
      /\ SoundSignals({Signal("unlimited_approval_suspected", 55, 10, 50)})
      /\ SoundSignals({Signal("simulation_not_attempted", 0, 0, 0)})
      /\ SoundSignals(When(result.unlimited, Signal("unlimited_approval_confirmed", 92, 20, 95)))
      /\ SoundSignals(When(~result.unlimited /\ result.decoded # Unknown,
                           Signal("finite_approval_confirmed", 5, 5, 95)))
  BY <1>1, SoundParts, SoundWhen
<1>3. SoundSignals(DryRunSignals(result))
  BY <1>2, SoundParts DEF DryRunSignals
<1>4. SoundSignals(FallbackHeuristic(type, amount))
  BY <1>2 DEF FallbackHeuristic
<1> QED
  BY <1>3, <1>4 DEF SimulationSignals

LEMMA ThreatSound ==
    ASSUME NEW wallet, NEW target
    PROVE  SoundSignals(ThreatSignals(wallet, target))
<1>1. /\ SoundSignals(When(wallet, Signal("sanctioned_wallet", 100, 100, 100)))
      /\ SoundSignals(When(target, Signal("sanctioned_target", 100, 100, 100)))
  BY SoundWhen DEF RedFlags, SoundSignal, Signal, Measured, DominantConfidence
<1> QED
  BY <1>1, SoundParts DEF ThreatSignals

\* And so do all of them together.
LEMMA WorldSound ==
    ASSUME NEW i, NEW w \in Worlds
    PROVE  SoundSignals(WorldSignals(i, w))
<1>1. SoundSignals(IF w.token = Unknown THEN {} ELSE TokenSignals(w.token))
  BY TokenSound, SoundParts, EngineAssumption
<1>2. SoundSignals(IF w.contract = Unknown THEN {} ELSE ContractSignals(w.contract))
  BY ContractSound, SoundParts
<1>3. SoundSignals(WalletSignals(w.wallet))
  BY WalletSound
<1>4. SoundSignals(SimulationSignals(i.action_type, i.amount, SimulationOf(i.action_type, w.run)))
  BY SimulationSound
<1>5. SoundSignals(ThreatSignals(w.walletListed, w.targetListed))
  BY ThreatSound
<1> QED
  BY <1>1, <1>2, <1>3, <1>4, <1>5, SoundParts DEF WorldSignals

\* The statistics of an amount are integers once all amounts are.
LEMMA StatisticsAreIntegers ==
    ASSUME NEW xs, IsFiniteSet(DOMAIN xs), \A n \in DOMAIN xs : xs[n] \in Int, NEW x \in Int
    PROVE  Size(xs) \in Nat /\ Excess(x, xs) \in Int /\ Spread(xs) \in Int
<1> DEFINE squares == [n \in DOMAIN xs |-> Square(xs[n])]
<1>1. \A n \in DOMAIN xs : squares[n] \in Int
  BY DEF Square
<1>2. SumFunction(squares) = SumFunctionOnSet(squares, DOMAIN xs)
  BY DEF SumFunction
<1>3. Spread(xs) = Size(xs) * SumFunction(squares) - SumFunction(xs) * SumFunction(xs)
  BY DEF Spread, Square
<1> HIDE DEF squares
<1>4. SumFunction(squares) \in Int
  BY <1>1, <1>2, SumIsInteger
<1>5. SumFunction(xs) \in Int
  BY SumIsInteger DEF SumFunction
<1>6. Size(xs) \in Nat
  BY FS_CardinalityType DEF Size
<1> QED
  BY <1>3, <1>4, <1>5, <1>6 DEF Excess

\* An outlier's score stays within the bounds the code gives it.
LEMMA OutlierScoreInRange ==
    ASSUME NEW xs, NEW x, Excess(x, xs) \in Int, Spread(xs) \in Int, IsOutlier(x, xs)
    PROVE  OutlierScore(x, xs) \in 40 .. 90
<1> DEFINE scores == {s \in 40 .. 90 : ZAtLeast(x, xs, s - 10)}
<1>1. ZAtLeast(x, xs, 30)
  <2>1. Square(30) = 900
    BY DEF Square
  <2>2. PICK e \in Int : e = Square(Excess(x, xs))
    BY DEF Square
  <2> QED
    BY <2>1, <2>2 DEF ZAtLeast, IsOutlier
<1>2. 40 \in scores
  BY <1>1
<1>3. \A s \in scores : s \in Nat /\ s <= 90 /\ s \in 40 .. 90
  OBVIOUS
<1>4. OutlierScore(x, xs) = Max(scores)
  BY DEF OutlierScore
<1> HIDE DEF scores
<1>5. IsFiniteSet(scores)
  BY <1>3, FS_BoundedSetOfNaturals
<1>6. \E s \in scores : \A t \in scores : t <= s
  BY <1>2, <1>3, <1>5, GreatestElement
<1>7. \E s \in scores : \A t \in scores : s >= t
  BY <1>3, <1>6
<1>8. Max(scores) \in scores
  BY <1>7 DEF Max
<1> QED
  BY <1>3, <1>4, <1>8

\* The amounts an agent's records hold.
LEMMA AmountsAreFinite ==
    ASSUME NEW R, NEW log \in Seq(R)
    PROVE  /\ IsFiniteSet(DOMAIN Amounts(log))
           /\ \A n \in DOMAIN Amounts(log) :
                n \in DOMAIN log /\ Amounts(log)[n] = log[n].amount /\ log[n].amount # Unknown
<1> DEFINE D == DOMAIN Amounts(log)
<1>1. D = {m \in DOMAIN log : log[m].amount # Unknown}
  BY DEF Amounts
<1>2. PICK bound \in Nat : bound = Len(log)
  OBVIOUS
<1>3. D \in SUBSET Nat /\ \A n \in D : n <= bound
  BY <1>1, <1>2
<1>4. \A n \in D : n \in DOMAIN log /\ Amounts(log)[n] = log[n].amount /\ log[n].amount # Unknown
  BY DEF Amounts
<1> HIDE DEF D
<1>5. IsFiniteSet(D)
  BY <1>3, FS_BoundedSetOfNaturals
<1> QED
  BY <1>4, <1>5 DEF D

\* The statistics of the amounts make sound signals when they can be
\* computed.
LEMMA AmountsSound ==
    ASSUME NEW x \in Int, NEW xs, IsFiniteSet(DOMAIN xs),
           Size(xs) >= MinHistory => \A n \in DOMAIN xs : xs[n] \in Int
    PROVE  SoundSignals(AmountSignals(x, xs))
<1>1. Size(xs) \in Nat /\ MinHistory \in Nat
  BY FS_CardinalityType, EngineAssumption DEF Size
<1>2. /\ SoundSignal(Signal("insufficient_history_for_baseline", 10, 3, 30))
      /\ SoundSignal(Signal("amount_deviates_from_fixed_pattern", 35, 7, 50))
  BY DEF RedFlags, SoundSignal, Signal, Measured
<1>3. CASE Size(xs) < MinHistory
  <2>1. AmountSignals(x, xs) = {Signal("insufficient_history_for_baseline", 10, 3, 30)}
    BY <1>1, <1>3 DEF AmountSignals
  <2> QED
    BY <1>2, <2>1, SoundParts
<1>4. CASE Size(xs) >= MinHistory
  <2>1. Excess(x, xs) \in Int /\ Spread(xs) \in Int
    BY <1>4, StatisticsAreIntegers
  <2>2. IsOutlier(x, xs) =>
          SoundSignal(Signal("amount_outlier_for_agent", OutlierScore(x, xs), 12, 75))
    BY <2>1, OutlierScoreInRange DEF RedFlags, SoundSignal, Signal, Measured
  <2>3. /\ SoundSignals(When(IsOutlier(x, xs),
                             Signal("amount_outlier_for_agent", OutlierScore(x, xs), 12, 75)))
        /\ SoundSignals(When(Excess(x, xs) # 0,
                             Signal("amount_deviates_from_fixed_pattern", 35, 7, 50)))
    BY <1>2, <2>2, SoundWhen
  <2>4. CASE Spread(xs) = 0
    <3>1. AmountSignals(x, xs) = When(Excess(x, xs) # 0,
                                      Signal("amount_deviates_from_fixed_pattern", 35, 7, 50))
      BY <1>1, <1>4, <2>4 DEF AmountSignals
    <3> QED
      BY <2>3, <3>1
  <2>5. CASE Spread(xs) # 0
    <3>1. AmountSignals(x, xs) =
            When(IsOutlier(x, xs),
                 Signal("amount_outlier_for_agent", OutlierScore(x, xs), 12, 75))
      BY <1>1, <1>4, <2>5 DEF AmountSignals
    <3> QED
      BY <2>3, <3>1
  <2> QED
    BY <2>4, <2>5
<1> QED
  BY <1>1, <1>3, <1>4

\* And so does everything the anomaly analyzer compares with the history.
LEMMA AnomalySound ==
    ASSUME NEW i, i.amount \in Int \cup {Unknown}, NEW R, NEW log \in Seq(R),
           \A n \in DOMAIN log : AmountRead(log[n].amount), ~BaselineRaises(i, log)
    PROVE  SoundSignals(AnomalySignals(i, log))
<1>1. PICK xs : xs = Amounts(log)
  OBVIOUS
<1>2. /\ IsFiniteSet(DOMAIN xs)
      /\ \A n \in DOMAIN xs : xs[n] \in Int \cup {NonFinite}
  BY <1>1, AmountsAreFinite DEF AmountRead
<1>3. i.amount # Unknown /\ Size(xs) >= MinHistory => \A n \in DOMAIN xs : xs[n] \in Int
  <2>1. i.amount # Unknown /\ Size(xs) >= MinHistory => NonFinite \notin Range(xs)
    BY <1>1 DEF BaselineRaises
  <2> QED
    BY <1>2, <2>1 DEF Range
<1>4. i.amount # Unknown => SoundSignals(AmountSignals(i.amount, xs))
  BY <1>2, <1>3, AmountsSound
<1>5. SoundSignals(IF i.amount = Unknown THEN {} ELSE AmountSignals(i.amount, Amounts(log)))
  BY <1>1, <1>4, SoundParts
<1>6. /\ SoundSignal(Signal("new_action_type_for_agent", 30, 8, 70))
      /\ SoundSignal(Signal("new_chain_for_agent", 20, 6, 70))
  BY DEF RedFlags, SoundSignal, Signal, Measured
<1>7. /\ SoundSignals(When(Unseen(i.action_type, {log[n].action_type : n \in DOMAIN log}),
                           Signal("new_action_type_for_agent", 30, 8, 70)))
      /\ SoundSignals(When(Unseen(i.chain, {log[n].chain : n \in DOMAIN log}),
                           Signal("new_chain_for_agent", 20, 6, 70)))
  BY <1>6, SoundWhen
<1> QED
  BY <1>5, <1>7, SoundParts DEF AnomalySignals

-------------------------------------------------------------------------------
(* The inductive invariant *)

PastRows == UNION {Range(h) : h \in PastHistories}

\* What the evaluations of this process may have recorded.
OwnRows == [decision : Decisions, action_type : {i.action_type : i \in Intents},
            chain : {i.chain : i \in Intents}, amount : {i.amount : i \in Intents},
            by : Calls]

Rows == PastRows \cup OwnRows

Typed ==
    /\ durable \in Deployments
    /\ history \in [Agents -> Seq(Rows)]
    /\ pc \in [Calls -> Stages]
    /\ intent \in [Calls -> Intents \cup {Unknown}]
    /\ rep \in [Calls -> 0 .. 100]
    /\ size \in [Calls -> Nat]
    /\ verdict \in [Calls -> Decisions \cup {Unknown}]
    /\ DOMAIN signals = Calls
    /\ \A k \in Calls : SoundSignals(signals[k])

Log(k) == history[intent[k].agent_id]

\* What is known of an evaluation by the stage it has reached.
Progressed ==
    \A k \in Calls :
        /\ pc[k] # "ready" => intent[k] \in Intents
        /\ pc[k] \in {"reputation", "size", "signals", "policy"} =>
                ~Blocking(HardViolations(intent[k]))
        /\ pc[k] \in {"decided", "returned"} => verdict[k] \in Decisions

\* The size is read after the score: an agent without records has had none
\* when it was scored.
SizeReadLast ==
    \A k \in Calls :
        /\ pc[k] = "ready" => rep[k] = NeutralScore
        /\ pc[k] = "size" => rep[k] = NeutralScore \/ Log(k) # <<>>
        /\ pc[k] \in {"signals", "policy"} /\ Log(k) = <<>> => size[k] = 0

\* Whoever is about to write the first record kept to the cap.
FirstUnderCap ==
    \A k \in Calls :
        /\ pc[k] = "decided" /\ Log(k) = <<>>
        /\ intent[k].amount # Unknown /\ verdict[k] # "BLOCK"
        => intent[k].amount <= Policy.max_amount_unknown_agent

NotYetRecorded ==
    \A k \in Calls, a \in Agents : \A n \in DOMAIN history[a] :
        pc[k] # "returned" => history[a][n].by # k

IInv ==
    /\ Typed /\ Progressed /\ SizeReadLast /\ FirstUnderCap /\ NotYetRecorded
    /\ FindingsStopActions /\ UnknownIsNeutral /\ FirstRecordUnderUnknownCap
    /\ ReturnedOnceRecorded

\* Records hold decisions, and amounts as evaluations read them.
LEMMA RowsRead ==
    \A e \in Rows : e.decision \in Decisions /\ AmountRead(e.amount)
<1>1. \A e \in PastRows : e.decision \in Decisions /\ AmountRead(e.amount)
  BY EngineAssumption DEF PastRows, PastRecord
<1>2. ASSUME NEW e \in OwnRows PROVE e.decision \in Decisions /\ AmountRead(e.amount)
  <2>1. e.decision \in Decisions /\ e.amount \in {i.amount : i \in Intents}
    BY DEF OwnRows
  <2> QED
    BY <2>1, EngineAssumption
<1> QED
  BY <1>1, <1>2 DEF Rows

\* An intent no hard rule blocked has an amount the statistics can work with.
LEMMA PassedHardRules ==
    ASSUME NEW i \in Intents, ~Blocking(HardViolations(i))
    PROVE  i.amount \in Int \cup {Unknown}
<1>1. i.amount = NonFinite => Violation("non_finite_amount", "BLOCK") \in HardViolations(i)
  BY DEF HardViolations, When
<1>2. Violation("non_finite_amount", "BLOCK").severity = "BLOCK"
  BY DEF Violation
<1> QED
  BY <1>1, <1>2, EngineAssumption DEF Blocking, AmountRead

\* What an append leaves of a log: its records, without the first d of them,
\* and the new one.
Shifted(new, log, e, d) ==
    /\ Len(new) = Len(log) + 1 - d
    /\ Len(new) \in Nat \ {0} /\ new[Len(new)] = e
    /\ \A n \in 1 .. Len(new) - 1 : n + d \in DOMAIN log /\ new[n] = log[n + d]
    /\ d # 0 => Len(new) = MaxRows

LEMMA RecordedRows ==
    ASSUME NEW log, NEW e, NEW new,
           log \in Seq(Rows) /\ e \in Rows /\ new = Recorded(log, e)
    PROVE  /\ new \in Seq(Rows) /\ new # <<>>
           /\ \E d \in Nat : Shifted(new, log, e, d)
<1> DEFINE longer == Append(log, e)
<1>1. /\ longer \in Seq(Rows) /\ Len(longer) = Len(log) + 1 /\ Len(log) \in Nat
      /\ longer[Len(log) + 1] = e
      /\ \A n \in 1 .. Len(log) : longer[n] = log[n]
      /\ DOMAIN log = 1 .. Len(log)
  OBVIOUS
<1>2. MaxRows \in Nat \ {0}
  BY EngineAssumption
<1> HIDE DEF longer
<1>3. CASE new = longer
  <2>1. Shifted(new, log, e, 0) /\ new # <<>>
    BY <1>1, <1>3 DEF Shifted
  <2> QED
    BY <1>1, <1>3, <2>1
<1>4. CASE /\ durable /\ Len(longer) > MaxRows
           /\ new = SubSeq(longer, Len(longer) - MaxRows + 1, Len(longer))
  <2>1. PICK d \in Nat : d = Len(log) + 1 - MaxRows
    <3> DEFINE dropped == Len(log) + 1 - MaxRows
    <3>1. dropped \in Nat
      BY <1>1, <1>2, <1>4
    <3> HIDE DEF dropped
    <3> QED
      BY <3>1 DEF dropped
  <2>2. new = SubSeq(longer, d + 1, Len(log) + 1)
    BY <1>1, <1>2, <1>4, <2>1
  <2>3. /\ new \in Seq(Rows) /\ Len(new) = MaxRows
        /\ \A n \in 1 .. MaxRows : new[n] = longer[n + d]
    BY <1>1, <1>2, <2>1, <2>2
  <2>4. new # <<>>
    BY <1>2, <2>3
  <2>5. new[Len(new)] = e
    BY <1>1, <1>2, <2>1, <2>3
  <2>6. \A n \in 1 .. Len(new) - 1 : n + d \in DOMAIN log /\ new[n] = log[n + d]
    <3> TAKE n \in 1 .. Len(new) - 1
    <3>1. n \in 1 .. MaxRows /\ n + d \in 1 .. Len(log)
      BY <1>1, <1>2, <2>1, <2>3
    <3> QED
      BY <1>1, <2>3, <3>1
  <2>7. Len(new) = Len(log) + 1 - d /\ Len(new) \in Nat \ {0}
    BY <1>1, <1>2, <2>1, <2>3
  <2>8. Shifted(new, log, e, d)
    BY <2>3, <2>5, <2>6, <2>7 DEF Shifted
  <2> QED
    BY <2>3, <2>4, <2>8
<1> QED
  BY <1>3, <1>4 DEF Recorded, LastRows, longer

\* The invariant holds at the start, over whatever the store held before.
LEMMA InitKeeps == Init => IInv
<1> SUFFICES ASSUME Init PROVE IInv
  OBVIOUS
<1>1. /\ pc = [k \in Calls |-> "ready"] /\ intent = [k \in Calls |-> Unknown]
      /\ rep = [k \in Calls |-> NeutralScore] /\ size = [k \in Calls |-> 0]
      /\ signals = [k \in Calls |-> {}] /\ verdict = [k \in Calls |-> Unknown]
      /\ durable \in Deployments
  BY DEF Init
<1>2. \A a \in Agents : history[a] = <<>> \/ history[a] \in PastHistories
  BY DEF Init
<1>3. \A a \in Agents : history[a] \in Seq(Rows)
  <2> SUFFICES ASSUME NEW a \in Agents, history[a] \in PastHistories
               PROVE  history[a] \in Seq(Rows)
    <3>1. <<>> \in Seq(Rows)
      OBVIOUS
    <3> QED
      BY <1>2, <3>1
  <2>1. PICK h \in PastHistories : h = history[a]
    OBVIOUS
  <2>2. h \in Seq(Range(h)) /\ Range(h) \subseteq Rows
    BY EngineAssumption DEF Rows, PastRows
  <2> QED
    BY <2>1, <2>2
<1>4. history \in [Agents -> Seq(Rows)]
  <2>1. history = [a \in Agents |-> history[a]]
    BY DEF Init
  <2> QED
    BY <1>3, <2>1
<1>5. \A a \in Agents : \A n \in DOMAIN history[a] : history[a][n].by = Unknown
  <2> SUFFICES ASSUME NEW a \in Agents, NEW n \in DOMAIN history[a]
               PROVE  history[a][n].by = Unknown
    OBVIOUS
  <2>1. PICK h \in PastHistories : h = history[a]
    BY <1>2
  <2>2. h[n] \in Range(h)
    BY <2>1 DEF Range
  <2> QED
    BY <2>1, <2>2, EngineAssumption DEF PastRecord
<1>6. Typed
  BY <1>1, <1>4, SoundParts DEF Typed, Stages, NeutralScore
<1>7. Progressed /\ SizeReadLast /\ FirstUnderCap
  BY <1>1 DEF Progressed, SizeReadLast, FirstUnderCap
<1>8. NotYetRecorded
  BY <1>5, EngineAssumption DEF NotYetRecorded
<1>9. FindingsStopActions /\ UnknownIsNeutral /\ ReturnedOnceRecorded
  BY <1>1 DEF FindingsStopActions, RedFlagBlocks, UnlimitedApprovalStops, UnknownIsNeutral,
              ReturnedOnceRecorded
<1>10. FirstRecordUnderUnknownCap
  <2> SUFFICES ASSUME NEW a \in Agents, history[a] # <<>>
               PROVE  history[a][1].by = Unknown
    BY DEF FirstRecordUnderUnknownCap
  <2>1. 1 \in DOMAIN history[a]
    BY <1>4
  <2> QED
    BY <1>5, <2>1
<1> QED
  BY <1>6, <1>7, <1>8, <1>9, <1>10 DEF IInv

\* An evaluation that has returned stays recorded while the history is only
\* read.
LEMMA RecordsKept ==
    ASSUME ReturnedOnceRecorded, UNCHANGED <<durable, history>>,
           \A j \in Calls : pc'[j] = "returned" =>
              pc[j] = "returned" /\ intent'[j] = intent[j] /\ verdict'[j] = verdict[j]
    PROVE  ReturnedOnceRecorded'
<1> SUFFICES ASSUME NEW j \in Calls, pc'[j] = "returned", durable
             PROVE  LET log == history'[intent'[j].agent_id]
                        own == {n \in DOMAIN log : log[n].by = j}
                    IN  /\ \A m, n \in own : m = n /\ log[n] = Entry(j)'
                        /\ Len(log) < MaxRows => own # {}
  BY DEF ReturnedOnceRecorded
<1>1. /\ pc[j] = "returned" /\ intent'[j] = intent[j] /\ verdict'[j] = verdict[j]
      /\ history' = history
  OBVIOUS
<1>2. PICK e, log : e = Entry(j) /\ log = history[intent[j].agent_id]
  OBVIOUS
<1>3. e = Entry(j)' /\ log = history'[intent'[j].agent_id]
  BY <1>1, <1>2 DEF Entry
<1>4. LET own == {n \in DOMAIN log : log[n].by = j}
      IN  /\ \A m, n \in own : m = n /\ log[n] = e
          /\ Len(log) < MaxRows => own # {}
  BY <1>1, <1>2 DEF ReturnedOnceRecorded
<1> QED
  BY <1>3, <1>4

\* Every action keeps the invariant.
LEMMA HardBlockKeeps ==
    ASSUME IInv, NEW k \in Calls, NEW i \in Intents, HardBlock(k, i)
    PROVE  IInv'
<1>1. /\ Typed /\ Progressed /\ SizeReadLast /\ FirstUnderCap /\ NotYetRecorded
      /\ FindingsStopActions /\ UnknownIsNeutral /\ FirstRecordUnderUnknownCap
      /\ ReturnedOnceRecorded
  BY DEF IInv
<1>2. /\ pc[k] = "ready" /\ pc' = [pc EXCEPT ![k] = "decided"]
      /\ intent' = [intent EXCEPT ![k] = i] /\ verdict' = [verdict EXCEPT ![k] = "BLOCK"]
      /\ UNCHANGED <<durable, history, rep, size, signals>>
  BY DEF HardBlock, Start
<1>3. Typed'
  BY <1>1, <1>2 DEF Typed, Stages, Decisions
<1>4. Progressed'
  BY <1>1, <1>2 DEF Typed, Progressed, Decisions
<1>5. SizeReadLast' /\ UnknownIsNeutral'
  BY <1>1, <1>2 DEF Typed, SizeReadLast, UnknownIsNeutral, Log
<1>6. FirstUnderCap'
  BY <1>1, <1>2 DEF Typed, FirstUnderCap, Log
<1>7. NotYetRecorded' /\ FirstRecordUnderUnknownCap'
  BY <1>1, <1>2 DEF Typed, NotYetRecorded, FirstRecordUnderUnknownCap
<1>8. FindingsStopActions'
  BY <1>1, <1>2 DEF Typed, FindingsStopActions, RedFlagBlocks, UnlimitedApprovalStops
<1>9. ReturnedOnceRecorded'
  BY <1>1, <1>2, RecordsKept DEF Typed
<1> QED
  BY <1>3, <1>4, <1>5, <1>6, <1>7, <1>8, <1>9 DEF IInv

LEMMA SubmitKeeps ==
    ASSUME IInv, NEW k \in Calls, NEW i \in Intents, Submit(k, i)
    PROVE  IInv'
<1>1. /\ Typed /\ Progressed /\ SizeReadLast /\ FirstUnderCap /\ NotYetRecorded
      /\ FindingsStopActions /\ UnknownIsNeutral /\ FirstRecordUnderUnknownCap
      /\ ReturnedOnceRecorded
  BY DEF IInv
<1>2. /\ pc[k] = "ready" /\ pc' = [pc EXCEPT ![k] = "reputation"]
      /\ intent' = [intent EXCEPT ![k] = i] /\ ~Blocking(HardViolations(i))
      /\ UNCHANGED <<durable, history, rep, size, signals, verdict>>
  BY DEF Submit, Start
<1>3. Typed'
  BY <1>1, <1>2 DEF Typed, Stages
<1>4. Progressed'
  BY <1>1, <1>2 DEF Typed, Progressed
<1>5. SizeReadLast' /\ UnknownIsNeutral'
  BY <1>1, <1>2 DEF Typed, SizeReadLast, UnknownIsNeutral, Log
<1>6. FirstUnderCap'
  BY <1>1, <1>2 DEF Typed, FirstUnderCap, Log
<1>7. NotYetRecorded' /\ FirstRecordUnderUnknownCap'
  BY <1>1, <1>2 DEF Typed, NotYetRecorded, FirstRecordUnderUnknownCap
<1>8. FindingsStopActions'
  BY <1>1, <1>2 DEF Typed, FindingsStopActions, RedFlagBlocks, UnlimitedApprovalStops
<1>9. ReturnedOnceRecorded'
  BY <1>1, <1>2, RecordsKept DEF Typed
<1> QED
  BY <1>3, <1>4, <1>5, <1>6, <1>7, <1>8, <1>9 DEF IInv

\* A score is one of the range, and that of an agent without records neutral.
LEMMA ScoreInRange ==
    ASSUME NEW log \in Seq(Rows)
    PROVE  Score(log) \in 0 .. 100 /\ (log = <<>> => Score(log) = NeutralScore)
<1>1. PICK window : window = LastRows(log, HistoryWindow)
  OBVIOUS
<1>2. HistoryWindow \in Nat \ {0}
  BY EngineAssumption
<1>3. window \in Seq(Rows) /\ (log = <<>> => Len(window) = 0)
  BY <1>1, <1>2 DEF LastRows
<1>4. PICK d : d = [n \in DOMAIN window |-> window[n].decision]
  OBVIOUS
<1>5. d \in Seq(Decisions) /\ Len(d) = Len(window)
  <2>1. \A n \in 1 .. Len(window) : window[n].decision \in Decisions
    BY <1>3, RowsRead
  <2>2. d \in [1 .. Len(window) -> Decisions] /\ Len(window) \in Nat
    BY <1>3, <1>4, <2>1
  <2> QED
    BY <2>2, SeqDef, LenProperties
<1>6. Score(log) = ReputationOf(d)
  BY <1>1, <1>4 DEF Score
<1>7. /\ ReputationOf(d) = ScoreAfter(d)[Len(d)] /\ ScoreAfter(d)[0] = NeutralScore
      /\ ScoreAfter(d)[Len(d)] \in 0 .. 100
  <2>1. Len(d) \in 0 .. Len(d)
    BY <1>5
  <2>2. /\ ReputationOf(d) = ScoreAfter(d)[Len(d)] /\ ScoreAfter(d)[0] = NeutralScore
        /\ \A n \in 0 .. Len(d) : ScoreAfter(d)[n] \in 0 .. 100
    BY <1>5, ScoreSteps
  <2> QED
    BY <2>1, <2>2
<1> QED
  BY <1>3, <1>5, <1>6, <1>7

LEMMA ReadReputationKeeps ==
    ASSUME IInv, NEW k \in Calls, ReadReputation(k)
    PROVE  IInv'
<1>1. /\ Typed /\ Progressed /\ SizeReadLast /\ FirstUnderCap /\ NotYetRecorded
      /\ FindingsStopActions /\ UnknownIsNeutral /\ FirstRecordUnderUnknownCap
      /\ ReturnedOnceRecorded
  BY DEF IInv
<1>2. PICK log, score : log = Log(k) /\ score = Score(log)
  OBVIOUS
<1>3. intent[k] \in Intents /\ intent[k].agent_id \in Agents
  BY <1>1, EngineAssumption DEF ReadReputation, Progressed
<1>4. log \in Seq(Rows) /\ score \in 0 .. 100 /\ (log = <<>> => score = NeutralScore)
  BY <1>1, <1>2, <1>3, ScoreInRange DEF Typed, Log
<1>5. /\ pc[k] = "reputation" /\ pc' = [pc EXCEPT ![k] = "size"]
      /\ rep' = [rep EXCEPT ![k] = score]
      /\ UNCHANGED <<durable, history, intent, size, signals, verdict>>
  BY <1>2 DEF ReadReputation, Log
<1>6. Typed'
  BY <1>1, <1>4, <1>5 DEF Typed, Stages
<1>7. Progressed'
  BY <1>1, <1>5 DEF Typed, Progressed
<1>8. SizeReadLast' /\ UnknownIsNeutral'
  BY <1>1, <1>2, <1>4, <1>5 DEF Typed, SizeReadLast, UnknownIsNeutral, Log
<1>9. FirstUnderCap'
  BY <1>1, <1>5 DEF Typed, FirstUnderCap, Log
<1>10. NotYetRecorded' /\ FirstRecordUnderUnknownCap'
  BY <1>1, <1>5 DEF Typed, NotYetRecorded, FirstRecordUnderUnknownCap
<1>11. FindingsStopActions'
  BY <1>1, <1>5 DEF Typed, FindingsStopActions, RedFlagBlocks, UnlimitedApprovalStops
<1>12. ReturnedOnceRecorded'
  BY <1>1, <1>5, RecordsKept DEF Typed
<1> QED
  BY <1>6, <1>7, <1>8, <1>9, <1>10, <1>11, <1>12 DEF IInv

LEMMA ReadSizeKeeps ==
    ASSUME IInv, NEW k \in Calls, ReadSize(k)
    PROVE  IInv'
<1>1. /\ Typed /\ Progressed /\ SizeReadLast /\ FirstUnderCap /\ NotYetRecorded
      /\ FindingsStopActions /\ UnknownIsNeutral /\ FirstRecordUnderUnknownCap
      /\ ReturnedOnceRecorded
  BY DEF IInv
<1>2. PICK log, length : log = Log(k) /\ length = Len(log)
  OBVIOUS
<1>3. intent[k] \in Intents /\ intent[k].agent_id \in Agents
  BY <1>1, EngineAssumption DEF ReadSize, Progressed
<1>4. log \in Seq(Rows) /\ length \in Nat /\ (log = <<>> <=> length = 0)
  BY <1>1, <1>2, <1>3 DEF Typed, Log
<1>5. /\ pc[k] = "size" /\ pc' = [pc EXCEPT ![k] = "signals"]
      /\ size' = [size EXCEPT ![k] = length]
      /\ UNCHANGED <<durable, history, intent, rep, signals, verdict>>
  BY <1>2 DEF ReadSize, Log
<1>6. Typed'
  BY <1>1, <1>4, <1>5 DEF Typed, Stages
<1>7. Progressed'
  BY <1>1, <1>5 DEF Typed, Progressed
<1>8. SizeReadLast' /\ UnknownIsNeutral'
  BY <1>1, <1>2, <1>4, <1>5 DEF Typed, SizeReadLast, UnknownIsNeutral, Log
<1>9. FirstUnderCap'
  BY <1>1, <1>5 DEF Typed, FirstUnderCap, Log
<1>10. NotYetRecorded' /\ FirstRecordUnderUnknownCap'
  BY <1>1, <1>5 DEF Typed, NotYetRecorded, FirstRecordUnderUnknownCap
<1>11. FindingsStopActions'
  BY <1>1, <1>5 DEF Typed, FindingsStopActions, RedFlagBlocks, UnlimitedApprovalStops
<1>12. ReturnedOnceRecorded'
  BY <1>1, <1>5, RecordsKept DEF Typed
<1> QED
  BY <1>6, <1>7, <1>8, <1>9, <1>10, <1>11, <1>12 DEF IInv

LEMMA CollectKeeps ==
    ASSUME IInv, NEW k \in Calls, NEW w \in Worlds, Collect(k, w)
    PROVE  IInv'
<1>1. /\ Typed /\ Progressed /\ SizeReadLast /\ FirstUnderCap /\ NotYetRecorded
      /\ FindingsStopActions /\ UnknownIsNeutral /\ FirstRecordUnderUnknownCap
      /\ ReturnedOnceRecorded
  BY DEF IInv
<1>2. PICK ss : ss = WorldSignals(intent[k], w)
  OBVIOUS
<1>3. SoundSignals(ss)
  BY <1>2, WorldSound
<1>4. /\ pc[k] = "signals" /\ pc' = [pc EXCEPT ![k] = "policy"]
      /\ signals' = [signals EXCEPT ![k] = ss]
      /\ UNCHANGED <<durable, history, intent, rep, size, verdict>>
  BY <1>2 DEF Collect
<1>5. Typed'
  BY <1>1, <1>3, <1>4 DEF Typed, Stages
<1>6. Progressed'
  BY <1>1, <1>4 DEF Typed, Progressed
<1>7. SizeReadLast' /\ UnknownIsNeutral'
  BY <1>1, <1>4 DEF Typed, SizeReadLast, UnknownIsNeutral, Log
<1>8. FirstUnderCap'
  BY <1>1, <1>4 DEF Typed, FirstUnderCap, Log
<1>9. NotYetRecorded' /\ FirstRecordUnderUnknownCap'
  BY <1>1, <1>4 DEF Typed, NotYetRecorded, FirstRecordUnderUnknownCap
<1>10. FindingsStopActions'
  BY <1>1, <1>4 DEF Typed, FindingsStopActions, RedFlagBlocks, UnlimitedApprovalStops
<1>11. ReturnedOnceRecorded'
  BY <1>1, <1>4, RecordsKept DEF Typed
<1> QED
  BY <1>5, <1>6, <1>7, <1>8, <1>9, <1>10, <1>11 DEF IInv

LEMMA FailKeeps ==
    ASSUME IInv, NEW k \in Calls, Fail(k)
    PROVE  IInv'
<1>1. /\ Typed /\ Progressed /\ SizeReadLast /\ FirstUnderCap /\ NotYetRecorded
      /\ FindingsStopActions /\ UnknownIsNeutral /\ FirstRecordUnderUnknownCap
      /\ ReturnedOnceRecorded
  BY DEF IInv
<1>2. /\ pc[k] = "policy" /\ pc' = [pc EXCEPT ![k] = "failed"]
      /\ UNCHANGED <<durable, history, intent, rep, size, signals, verdict>>
  BY DEF Fail
<1>3. Typed'
  BY <1>1, <1>2 DEF Typed, Stages
<1>4. Progressed'
  BY <1>1, <1>2 DEF Typed, Progressed
<1>5. SizeReadLast' /\ UnknownIsNeutral'
  BY <1>1, <1>2 DEF Typed, SizeReadLast, UnknownIsNeutral, Log
<1>6. FirstUnderCap'
  BY <1>1, <1>2 DEF Typed, FirstUnderCap, Log
<1>7. NotYetRecorded' /\ FirstRecordUnderUnknownCap'
  BY <1>1, <1>2 DEF Typed, NotYetRecorded, FirstRecordUnderUnknownCap
<1>8. FindingsStopActions'
  BY <1>1, <1>2 DEF Typed, FindingsStopActions, RedFlagBlocks, UnlimitedApprovalStops
<1>9. ReturnedOnceRecorded'
  BY <1>1, <1>2, RecordsKept DEF Typed
<1> QED
  BY <1>3, <1>4, <1>5, <1>6, <1>7, <1>8, <1>9 DEF IInv

\* What the verdict makes of the findings.
LEMMA VerdictOnFindings ==
    ASSUME NEW S, SoundSignals(S), NEW r \in 0 .. 100, NEW blocked, NEW warned,
           NEW v, v = Verdict(Fuse(S), r, blocked, warned)
    PROVE  /\ v \in Decisions
           /\ blocked => v = "BLOCK"
           /\ (\E s \in S : s.name \in RedFlags) => v = "BLOCK"
           /\ (\E s \in S : s.name = "unlimited_approval_confirmed") =>
                v # "ALLOW" /\ (r <= 68 => v = "BLOCK")
<1>1. AllMeasured(S)
  BY DEF SoundSignals, SoundSignal, AllMeasured
<1>2. v \in Decisions /\ (blocked => v = "BLOCK")
  BY DEF Verdict, Decisions
<1>3. ASSUME NEW s \in S, s.name \in RedFlags  PROVE v = "BLOCK"
  <2>1. s.score = 100 /\ s.confidence >= DominantConfidence
    BY <1>3 DEF SoundSignals, SoundSignal
  <2>2. AtLeast(Fuse(S), r, BlockThreshold)
    BY <1>1, <2>1, ConclusiveBlocks
  <2> QED
    BY <2>2 DEF Verdict
<1>4. ASSUME NEW s \in S, s.name = "unlimited_approval_confirmed"
      PROVE  v # "ALLOW" /\ (r <= 68 => v = "BLOCK")
  <2>1. s.score = 92 /\ s.confidence >= DominantConfidence
    BY <1>4 DEF SoundSignals, SoundSignal
  <2>2. /\ AtLeast(Fuse(S), r, WarnThreshold)
        /\ r <= 68 => AtLeast(Fuse(S), r, BlockThreshold)
    BY <1>1, <2>1, NearlyConclusiveStops
  <2> QED
    BY <2>2 DEF Verdict
<1> QED
  BY <1>2, <1>3, <1>4

\* An agent without records is not allowed more than the cap of unknown ones.
LEMMA UnknownCapBlocks ==
    ASSUME NEW i, NEW r, i.amount \in Int, ~Blocking(PolicyViolations(i, r, 0)),
           i.amount # Unknown
    PROVE  i.amount <= Policy.max_amount_unknown_agent
<1> SUFFICES ASSUME i.amount > Policy.max_amount_unknown_agent
             PROVE  Blocking(PolicyViolations(i, r, 0))
  BY EngineAssumption
<1>1. Violation("amount_exceeds_cap", "BLOCK") \in PolicyViolations(i, r, 0)
  BY DEF PolicyViolations, When, Amount, Cap
<1> QED
  BY <1>1 DEF Blocking, Violation

\* The decision: sound signals stay sound, findings are heeded, the cap is
\* kept.
LEMMA DecideKeeps ==
    ASSUME IInv, NEW k \in Calls, Decide(k)
    PROVE  IInv'
<1>1. /\ Typed /\ Progressed /\ SizeReadLast /\ FirstUnderCap /\ NotYetRecorded
      /\ FindingsStopActions /\ UnknownIsNeutral /\ FirstRecordUnderUnknownCap
      /\ ReturnedOnceRecorded
  BY DEF IInv
<1>2. /\ pc[k] = "policy" /\ intent[k] \in Intents /\ intent[k].agent_id \in Agents
      /\ ~Blocking(HardViolations(intent[k]))
  BY <1>1, EngineAssumption DEF Decide, Progressed
<1>3. PICK i \in Intents, log \in Seq(Rows) : i = intent[k] /\ log = Log(k)
  BY <1>1, <1>2 DEF Typed, Log
<1>4. PICK ss, vs, v :
        /\ ss = signals[k] \cup AnomalySignals(i, log)
        /\ vs = violations[k] \cup PolicyViolations(i, rep[k], size[k])
        /\ v = Verdict(Fuse(ss), rep[k], Blocking(vs), Warning(vs))
  OBVIOUS
<1>5. /\ ~BaselineRaises(i, log) /\ pc[k] = "policy" /\ pc' = [pc EXCEPT ![k] = "decided"]
      /\ signals' = [signals EXCEPT ![k] = ss] /\ verdict' = [verdict EXCEPT ![k] = v]
      /\ UNCHANGED <<durable, history, intent, rep, size>>
  BY <1>3, <1>4 DEF Decide, Log
<1>6. i.amount \in Int \cup {Unknown}
  BY <1>2, <1>3, PassedHardRules
<1>7. SoundSignals(ss)
  <2>1. \A n \in DOMAIN log : AmountRead(log[n].amount)
    BY RowsRead
  <2>2. SoundSignals(AnomalySignals(i, log))
    BY <1>5, <1>6, <2>1, AnomalySound
  <2> QED
    BY <1>1, <1>4, <2>2, SoundParts DEF Typed
<1>8. /\ v \in Decisions
      /\ Blocking(vs) => v = "BLOCK"
      /\ (\E s \in ss : s.name \in RedFlags) => v = "BLOCK"
      /\ (\E s \in ss : s.name = "unlimited_approval_confirmed") =>
           v # "ALLOW" /\ (rep[k] <= 68 => v = "BLOCK")
  <2>1. PICK r \in 0 .. 100 : r = rep[k]
    BY <1>1 DEF Typed
  <2>2. v = Verdict(Fuse(ss), r, Blocking(vs), Warning(vs))
    BY <1>4, <2>1
  <2>3. /\ v \in Decisions
        /\ Blocking(vs) => v = "BLOCK"
        /\ (\E s \in ss : s.name \in RedFlags) => v = "BLOCK"
        /\ (\E s \in ss : s.name = "unlimited_approval_confirmed") =>
             v # "ALLOW" /\ (r <= 68 => v = "BLOCK")
    BY <1>7, <2>2, VerdictOnFindings
  <2> QED
    BY <2>1, <2>3
<1>9. log = <<>> /\ i.amount # Unknown /\ v # "BLOCK"
        => i.amount <= Policy.max_amount_unknown_agent
  <2> SUFFICES ASSUME log = <<>>, i.amount # Unknown, v # "BLOCK"
               PROVE  i.amount <= Policy.max_amount_unknown_agent
    OBVIOUS
  <2>1. size[k] = 0
    BY <1>1, <1>2, <1>3 DEF SizeReadLast
  <2>2. ~Blocking(PolicyViolations(i, rep[k], 0))
    BY <1>4, <1>8, <2>1 DEF Blocking
  <2> QED
    BY <1>6, <2>2, UnknownCapBlocks
<1>10. Typed'
  BY <1>1, <1>5, <1>7, <1>8 DEF Typed, Stages
<1>11. Progressed'
  BY <1>1, <1>5, <1>8 DEF Typed, Progressed
<1>12. SizeReadLast' /\ UnknownIsNeutral'
  BY <1>1, <1>5 DEF Typed, SizeReadLast, UnknownIsNeutral, Log
<1>13. FirstUnderCap'
  BY <1>1, <1>3, <1>5, <1>9 DEF Typed, FirstUnderCap, Log
<1>14. NotYetRecorded' /\ FirstRecordUnderUnknownCap'
  BY <1>1, <1>5 DEF Typed, NotYetRecorded, FirstRecordUnderUnknownCap
<1>15. FindingsStopActions'
  BY <1>1, <1>5, <1>8 DEF Typed, FindingsStopActions, RedFlagBlocks, UnlimitedApprovalStops
<1>16. ReturnedOnceRecorded'
  BY <1>1, <1>5, RecordsKept DEF Typed
<1> QED
  BY <1>10, <1>11, <1>12, <1>13, <1>14, <1>15, <1>16 DEF IInv

\* A restart ends what was under way; without a database it forgets the
\* history.
LEMMA RestartKeeps ==
    ASSUME IInv, Restart
    PROVE  IInv'
<1>1. /\ Typed /\ Progressed /\ SizeReadLast /\ FirstUnderCap /\ NotYetRecorded
      /\ FindingsStopActions /\ UnknownIsNeutral /\ FirstRecordUnderUnknownCap
      /\ ReturnedOnceRecorded
  BY DEF IInv
<1>2. /\ history' = IF durable THEN history ELSE [a \in Agents |-> <<>>]
      /\ pc' = [k \in Calls |-> IF pc[k] \in {"ready", "returned", "failed"}
                                THEN pc[k] ELSE "dead"]
      /\ UNCHANGED <<durable, intent, rep, size, signals, violations, verdict>>
  BY DEF Restart
<1>3. \A k \in Calls : /\ pc'[k] \in {"ready", "returned", "failed"} => pc'[k] = pc[k]
                       /\ pc'[k] \in {"ready", "returned", "failed", "dead"}
                       /\ pc[k] = "ready" => pc'[k] = "ready"
                       /\ pc[k] = "returned" => pc'[k] = "returned"
  BY <1>2
<1>4. history' = history \/ (~durable /\ \A a \in Agents : history'[a] = <<>>)
  BY <1>2
<1>5. Typed'
  <2>1. <<>> \in Seq(Rows)
    OBVIOUS
  <2> QED
    BY <1>1, <1>2, <2>1 DEF Typed, Stages
<1>6. Progressed'
  BY <1>1, <1>2, <1>3 DEF Progressed
<1>7. SizeReadLast' /\ FirstUnderCap'
  BY <1>1, <1>2, <1>3 DEF SizeReadLast, FirstUnderCap, Log
<1>8. UnknownIsNeutral'
  BY <1>1, <1>2, <1>3 DEF UnknownIsNeutral
<1>9. NotYetRecorded'
  BY <1>1, <1>3, <1>4 DEF NotYetRecorded
<1>10. FirstRecordUnderUnknownCap'
  BY <1>1, <1>4 DEF FirstRecordUnderUnknownCap
<1>11. FindingsStopActions'
  BY <1>1, <1>2, <1>3 DEF FindingsStopActions, RedFlagBlocks, UnlimitedApprovalStops
<1>12. ReturnedOnceRecorded'
  <2>1. CASE durable
    BY <1>1, <1>2, <1>3, <2>1, RecordsKept
  <2>2. CASE ~durable
    BY <1>2, <2>2 DEF ReturnedOnceRecorded
  <2> QED
    BY <2>1, <2>2
<1> QED
  BY <1>5, <1>6, <1>7, <1>8, <1>9, <1>10, <1>11, <1>12 DEF IInv

\* The record: one row more, possibly the oldest one less.
LEMMA RecordKeeps ==
    ASSUME IInv, NEW k \in Calls, Record(k)
    PROVE  IInv'
<1>1. /\ Typed /\ Progressed /\ SizeReadLast /\ FirstUnderCap /\ NotYetRecorded
      /\ FindingsStopActions /\ UnknownIsNeutral /\ FirstRecordUnderUnknownCap
      /\ ReturnedOnceRecorded
  BY DEF IInv
<1>2. /\ intent[k] \in Intents /\ intent[k].agent_id \in Agents /\ verdict[k] \in Decisions
  BY <1>1, EngineAssumption DEF Record, Progressed
<1>a. PICK a \in Agents, log \in Seq(Rows) : a = intent[k].agent_id /\ log = history[a]
  BY <1>1, <1>2 DEF Typed
<1>3. PICK e : a = intent[k].agent_id /\ log = history[a] /\ e = Entry(k)
  BY <1>a
<1>4. e \in Rows /\ e.by = k
  BY <1>2, <1>3 DEF Entry, Rows, OwnRows
<1>5. PICK new : new = Recorded(log, e)
  OBVIOUS
<1>6. PICK d \in Nat :
        /\ new \in Seq(Rows) /\ new # <<>>
        /\ Len(new) = Len(log) + 1 - d
        /\ Len(new) \in Nat \ {0} /\ new[Len(new)] = e
        /\ \A n \in 1 .. Len(new) - 1 : n + d \in DOMAIN log /\ new[n] = log[n + d]
        /\ d # 0 => Len(new) = MaxRows
  <2>1. new \in Seq(Rows) /\ new # <<>> /\ \E d \in Nat : Shifted(new, log, e, d)
    BY <1>4, <1>5, RecordedRows
  <2> QED
    BY <2>1 DEF Shifted
<1>7. /\ pc[k] = "decided" /\ pc' = [pc EXCEPT ![k] = "returned"]
      /\ history' = [history EXCEPT ![a] = new]
      /\ UNCHANGED <<durable, intent, rep, size, signals, verdict>>
  BY <1>3, <1>5 DEF Record
<1>8. /\ history'[a] = new /\ \A b \in Agents : b # a => history'[b] = history[b]
      /\ DOMAIN new = 1 .. Len(new) /\ DOMAIN log = 1 .. Len(log) /\ Len(log) \in Nat
      /\ MaxRows \in Nat
  BY <1>1, <1>6, <1>7, EngineAssumption DEF Typed
<1>9. Typed'
  BY <1>1, <1>6, <1>7 DEF Typed, Stages
<1>10. Progressed'
  BY <1>1, <1>7 DEF Typed, Progressed
<1>11. SizeReadLast' /\ FirstUnderCap'
  <2>1. \A j \in Calls : pc'[j] \notin {"ready", "returned"} =>
            intent[j].agent_id \in Agents /\ (Log(j)' = <<>> => Log(j) = <<>>)
    BY <1>1, <1>6, <1>7, <1>8, EngineAssumption DEF Typed, Progressed, Log
  <2>2. SizeReadLast'
    BY <1>1, <1>7, <2>1 DEF Typed, SizeReadLast
  <2>3. FirstUnderCap'
    BY <1>1, <1>7, <2>1 DEF Typed, FirstUnderCap
  <2> QED
    BY <2>2, <2>3
<1>12. UnknownIsNeutral'
  BY <1>1, <1>7 DEF Typed, UnknownIsNeutral
<1>13. FindingsStopActions'
  BY <1>1, <1>7 DEF Typed, FindingsStopActions, RedFlagBlocks, UnlimitedApprovalStops
<1>14. NotYetRecorded'
  <2> SUFFICES ASSUME NEW j \in Calls, NEW b \in Agents, NEW n \in DOMAIN history'[b],
                      pc'[j] # "returned"
               PROVE  history'[b][n].by # j
    BY DEF NotYetRecorded
  <2>1. j # k /\ pc[j] # "returned"
    BY <1>1, <1>7 DEF Typed
  <2>2. CASE b # a
    BY <1>1, <1>8, <2>1, <2>2 DEF NotYetRecorded
  <2>3. CASE b = a /\ n = Len(new)
    BY <1>4, <1>6, <1>8, <2>1, <2>3
  <2>4. CASE b = a /\ n # Len(new)
    <3>1. n \in 1 .. Len(new) - 1
      BY <1>6, <1>8, <2>4
    <3>2. n + d \in DOMAIN history[a] /\ new[n] = history[a][n + d]
      BY <1>3, <1>6, <3>1
    <3>3. history[a][n + d].by # j
      BY <1>1, <2>1, <3>2 DEF NotYetRecorded
    <3> QED
      BY <1>8, <2>4, <3>2, <3>3
  <2> QED
    BY <2>2, <2>3, <2>4
<1>15. FirstRecordUnderUnknownCap'
  <2> SUFFICES ASSUME NEW b \in Agents, history'[b] # <<>>, history'[b][1].by # Unknown,
                      Len(history'[b]) < MaxRows, history'[b][1].amount # Unknown,
                      history'[b][1].decision # "BLOCK"
               PROVE  history'[b][1].amount <= Policy.max_amount_unknown_agent
    BY DEF FirstRecordUnderUnknownCap
  <2>1. CASE b # a
    BY <1>1, <1>8, <2>1 DEF FirstRecordUnderUnknownCap
  <2>2. CASE b = a /\ log = <<>>
    <3>1. Len(new) = 1 /\ new[1] = e
      BY <1>6, <2>2
    <3>2. e.amount = intent[k].amount /\ e.decision = verdict[k]
      BY <1>3 DEF Entry
    <3>3. Log(k) = <<>>
      BY <1>3, <2>2 DEF Log
    <3> QED
      BY <1>1, <1>7, <1>8, <2>2, <3>1, <3>2, <3>3 DEF FirstUnderCap
  <2>3. CASE b = a /\ log # <<>>
    <3>1. d = 0 /\ Len(log) # 0
      BY <1>6, <1>8, <2>3
    <3>2. new[1] = log[1] /\ Len(log) < MaxRows
      BY <1>6, <1>8, <2>3, <3>1
    <3> QED
      BY <1>1, <1>3, <1>8, <2>3, <3>2 DEF FirstRecordUnderUnknownCap
  <2> QED
    BY <2>1, <2>2, <2>3
<1>16. ReturnedOnceRecorded'
  <2> SUFFICES ASSUME NEW j \in Calls, pc'[j] = "returned", durable
               PROVE  LET now == history'[intent'[j].agent_id]
                          own == {n \in DOMAIN now : now[n].by = j}
                      IN  /\ \A m, n \in own : m = n /\ now[n] = Entry(j)'
                          /\ Len(now) < MaxRows => own # {}
    BY <1>7 DEF ReturnedOnceRecorded
  <2>1. PICK f, now : f = Entry(j) /\ now = history'[intent[j].agent_id]
    OBVIOUS
  <2>2. f = Entry(j)' /\ now = history'[intent'[j].agent_id]
    BY <1>7, <2>1 DEF Entry
  <2> SUFFICES LET own == {n \in DOMAIN now : now[n].by = j}
               IN  /\ \A m, n \in own : m = n /\ now[n] = f
                   /\ Len(now) < MaxRows => own # {}
    BY <2>2
  <2>3. CASE j = k
    <3>1. now = new /\ f = e
      BY <1>3, <1>8, <2>1, <2>3
    <3>2. \A n \in DOMAIN log : log[n].by # k
      BY <1>1, <1>3, <1>7 DEF NotYetRecorded
    <3>3. \A n \in DOMAIN new : new[n].by = k => n = Len(new)
      <4> TAKE n \in DOMAIN new
      <4> SUFFICES ASSUME n # Len(new)  PROVE new[n].by # k
        OBVIOUS
      <4>1. n \in 1 .. Len(new) - 1
        BY <1>6, <1>8
      <4> QED
        BY <1>6, <3>2, <4>1
    <3>4. Len(new) \in DOMAIN new /\ new[Len(new)] = e /\ e.by = k
      BY <1>4, <1>6, <1>8
    <3> QED
      BY <2>3, <3>1, <3>3, <3>4
  <2>4. CASE j # k
    <3>1. pc[j] = "returned" /\ intent[j].agent_id \in Agents
      BY <1>1, <1>7, <2>4, EngineAssumption DEF Typed, Progressed
    <3>2. PICK old : old = history[intent[j].agent_id]
      OBVIOUS
    <3>0. ReturnedOnceRecorded
      BY <1>1
    <3>3. LET own == {n \in DOMAIN old : old[n].by = j}
          IN  /\ \A m, n \in own : m = n /\ old[n] = f
              /\ Len(old) < MaxRows => own # {}
      BY <3>0, <2>1, <3>1, <3>2 DEF ReturnedOnceRecorded
    <3>4. CASE intent[j].agent_id # a
      BY <1>8, <2>1, <3>1, <3>2, <3>3, <3>4
    <3>5. CASE intent[j].agent_id = a
      <4>1. now = new /\ old = log
        BY <1>3, <1>8, <2>1, <3>2, <3>5
      <4>2. \A n \in DOMAIN new : new[n].by = j =>
                n + d \in DOMAIN log /\ log[n + d].by = j /\ new[n] = log[n + d]
        <5> TAKE n \in DOMAIN new
        <5> HAVE new[n].by = j
        <5>1. n # Len(new)
          BY <1>4, <1>6, <2>4
        <5>2. n \in 1 .. Len(new) - 1
          BY <1>6, <1>8, <5>1
        <5> QED
          BY <1>6, <5>2
      <4>3. \A m, n \in DOMAIN new : new[m].by = j /\ new[n].by = j => m = n /\ new[n] = f
        BY <1>8, <3>3, <4>1, <4>2
      <4>4. ASSUME Len(new) < MaxRows  PROVE \E n \in DOMAIN new : new[n].by = j
        <5>1. d = 0 /\ Len(log) < MaxRows /\ Len(new) = Len(log) + 1
          BY <1>6, <1>8, <4>4
        <5>2. PICK n \in DOMAIN log : log[n].by = j
          BY <3>3, <4>1, <5>1
        <5>3. n \in DOMAIN new /\ new[n] = log[n]
          BY <1>6, <1>8, <5>1
        <5> QED
          BY <5>2, <5>3
      <4> QED
        BY <4>1, <4>3, <4>4
    <3> QED
      BY <3>4, <3>5
  <2> QED
    BY <2>3, <2>4
<1> QED
  BY <1>9, <1>10, <1>11, <1>12, <1>13, <1>14, <1>15, <1>16 DEF IInv

-------------------------------------------------------------------------------
(* Theorems *)

\* The parts of the invariant hold together at every step.
THEOREM Invariance == Spec => []IInv
<1>1. Init => IInv
  BY InitKeeps
<1>2. IInv /\ [Next]_vars => IInv'
  <2> SUFFICES ASSUME IInv, [Next]_vars  PROVE IInv'
    OBVIOUS
  <2>1. ASSUME Restart  PROVE IInv'
    BY <2>1, RestartKeeps
  <2>2. ASSUME NEW k \in Calls, NEW i \in Intents, HardBlock(k, i)  PROVE IInv'
    BY <2>2, HardBlockKeeps
  <2>3. ASSUME NEW k \in Calls, NEW i \in Intents, Submit(k, i)  PROVE IInv'
    BY <2>3, SubmitKeeps
  <2>4. ASSUME NEW k \in Calls, ReadReputation(k)  PROVE IInv'
    BY <2>4, ReadReputationKeeps
  <2>5. ASSUME NEW k \in Calls, ReadSize(k)  PROVE IInv'
    BY <2>5, ReadSizeKeeps
  <2>6. ASSUME NEW k \in Calls, NEW w \in Worlds, Collect(k, w)  PROVE IInv'
    BY <2>6, CollectKeeps
  <2>7. ASSUME NEW k \in Calls, Fail(k)  PROVE IInv'
    BY <2>7, FailKeeps
  <2>8. ASSUME NEW k \in Calls, Decide(k)  PROVE IInv'
    BY <2>8, DecideKeeps
  <2>9. ASSUME NEW k \in Calls, Record(k)  PROVE IInv'
    BY <2>9, RecordKeeps
  <2>10. CASE UNCHANGED vars
    <3>1. /\ Typed /\ Progressed /\ SizeReadLast /\ FirstUnderCap /\ NotYetRecorded
          /\ FindingsStopActions /\ UnknownIsNeutral /\ FirstRecordUnderUnknownCap
          /\ ReturnedOnceRecorded
      BY DEF IInv
    <3>2. UNCHANGED <<durable, history, pc, intent, rep, size, signals, verdict>>
      BY <2>10 DEF vars, callVars
    <3>3. Typed' /\ Progressed'
      BY <3>1, <3>2 DEF Typed, Progressed
    <3>4. SizeReadLast' /\ FirstUnderCap' /\ NotYetRecorded'
      BY <3>1, <3>2 DEF SizeReadLast, FirstUnderCap, NotYetRecorded, Log
    <3>5. FindingsStopActions' /\ UnknownIsNeutral' /\ FirstRecordUnderUnknownCap'
      BY <3>1, <3>2 DEF FindingsStopActions, RedFlagBlocks, UnlimitedApprovalStops,
                        UnknownIsNeutral, FirstRecordUnderUnknownCap
    <3>6. ReturnedOnceRecorded'
      BY <3>1, <3>2, RecordsKept
    <3> QED
      BY <3>3, <3>4, <3>5, <3>6 DEF IInv
  <2> QED
    BY <2>1, <2>2, <2>3, <2>4, <2>5, <2>6, <2>7, <2>8, <2>9, <2>10 DEF Next, Evaluate
<1> QED
  BY <1>1, <1>2, PTL DEF Spec

\* Evaluations, and the records they leave, have the shape the code assumes;
\* a reputation stays within 0..100 (TypeOK).
THEOREM TypesHold == Spec => []TypeOK
<1>1. IInv => TypeOK
  <2> SUFFICES ASSUME Typed  PROVE TypeOK
    BY DEF IInv
  <2>1. \A a \in Agents : \A n \in DOMAIN history[a] : history[a][n].decision \in Decisions
    <3> TAKE a \in Agents
    <3>1. PICK log \in Seq(Rows) : log = history[a]
      BY DEF Typed
    <3>2. \A n \in DOMAIN log : log[n] \in Rows
      OBVIOUS
    <3> QED
      BY <3>1, <3>2, RowsRead
  <2> QED
    BY <2>1 DEF Typed, TypeOK
<1> QED
  BY <1>1, Invariance, PTL

\* A conclusive finding blocks, and an unlimited approval is never let
\* through, whatever else the analyzers report and whoever asks
\* (FindingsStopActions).
THEOREM FindingsAreHeeded == Spec => []FindingsStopActions
<1>1. IInv => FindingsStopActions
  BY DEF IInv
<1> QED
  BY <1>1, Invariance, PTL

\* An evaluation that treats its agent as unknown has scored it as unknown
\* (UnknownIsNeutral).
THEOREM UnknownAgentsAreNeutral == Spec => []UnknownIsNeutral
<1>1. IInv => UnknownIsNeutral
  BY DEF IInv
<1> QED
  BY <1>1, Invariance, PTL

\* Concurrent first actions of an agent cannot lift its cap
\* (FirstRecordUnderUnknownCap).
THEOREM FirstRecordIsCapped == Spec => []FirstRecordUnderUnknownCap
<1>1. IInv => FirstRecordUnderUnknownCap
  BY DEF IInv
<1> QED
  BY <1>1, Invariance, PTL

\* What is returned has been recorded, once (ReturnedOnceRecorded).
THEOREM DecisionsAreRecorded == Spec => []ReturnedOnceRecorded
<1>1. IInv => ReturnedOnceRecorded
  BY DEF IInv
<1> QED
  BY <1>1, Invariance, PTL

\* A reputation stays in its range.
LEMMA ReputationInRange ==
    ASSUME NEW d \in Seq(Decisions)
    PROVE  ReputationOf(d) \in 0 .. 100
<1>1. Len(d) \in 0 .. Len(d)
  OBVIOUS
<1>2. /\ ReputationOf(d) = ScoreAfter(d)[Len(d)]
      /\ \A n \in 0 .. Len(d) : ScoreAfter(d)[n] \in 0 .. 100
  BY ScoreSteps
<1> QED
  BY <1>1, <1>2

\* The window of a log that is longer.
LEMMA LastRowsIndex ==
    ASSUME NEW log, NEW w, log \in Seq(Rows) /\ Len(log) >= HistoryWindow
                           /\ w = LastRows(log, HistoryWindow)
    PROVE  /\ Len(w) = HistoryWindow
           /\ \A n \in 1 .. HistoryWindow : w[n] = log[n + (Len(log) - HistoryWindow)]
           /\ DOMAIN w = 1 .. HistoryWindow
<1>1. HistoryWindow \in Nat \ {0} /\ Len(log) \in Nat
  BY EngineAssumption
<1>2. CASE Len(log) = HistoryWindow
  BY <1>1, <1>2 DEF LastRows
<1>3. CASE Len(log) > HistoryWindow
  <2>1. w = SubSeq(log, (Len(log) - HistoryWindow) + 1, Len(log))
    BY <1>3 DEF LastRows
  <2> DEFINE dropped == Len(log) - HistoryWindow
  <2>2. dropped \in Nat /\ Len(log) = dropped + HistoryWindow
    BY <1>1, <1>3
  <2>3. w = SubSeq(log, dropped + 1, Len(log))
    BY <2>1
  <2>4. \A n \in 1 .. HistoryWindow : n + (Len(log) - HistoryWindow) = n + dropped
    OBVIOUS
  <2> HIDE DEF dropped
  <2>5. /\ Len(w) = HistoryWindow /\ DOMAIN w = 1 .. HistoryWindow
        /\ \A n \in 1 .. HistoryWindow : w[n] = log[n + dropped]
    BY <1>1, <2>2, <2>3
  <2> QED
    BY <2>4, <2>5
<1> QED
  BY <1>1, <1>2, <1>3

\* A record moves the score by its delta, on top of what a forgotten record
\* may have taken along or given back.
LEMMA NudgeSwings ==
    ASSUME NEW s \in 0 .. 100, NEW r \in 0 .. 100, NEW d \in Decisions,
           -2 <= s - r, s - r <= 15
    PROVE  Nudge(s, d) - r \in Swing[d]
BY DEF Nudge, Clamp, Delta, Swing, Decisions

\* One more record moves the score of an agent within its swing.
LEMMA OneMoreRecord ==
    ASSUME NEW log, NEW e, NEW new, NEW d \in Nat,
           log \in Seq(Rows) /\ new \in Seq(Rows) /\ Shifted(new, log, e, d)
    PROVE  Score(new) - Score(log) \in Swing[e.decision]
<1>1. /\ Len(log) \in Nat /\ HistoryWindow \in Nat \ {0} /\ MaxRows \in Nat
      /\ HistoryWindow <= MaxRows
      /\ DOMAIN log = 1 .. Len(log) /\ DOMAIN new = 1 .. Len(new)
  BY EngineAssumption
<1>2. /\ Len(new) = Len(log) + 1 - d
      /\ Len(new) \in Nat \ {0} /\ new[Len(new)] = e
      /\ \A n \in 1 .. Len(new) - 1 : n + d \in DOMAIN log /\ new[n] = log[n + d]
      /\ d # 0 => Len(new) = MaxRows
  BY DEF Shifted
<1>3. PICK w, v : w = LastRows(log, HistoryWindow) /\ v = LastRows(new, HistoryWindow)
  OBVIOUS
<1>4. PICK x, y : /\ x = [n \in DOMAIN w |-> w[n].decision]
                  /\ y = [n \in DOMAIN v |-> v[n].decision]
  OBVIOUS
<1>5. Score(log) = ReputationOf(x) /\ Score(new) = ReputationOf(y)
  BY <1>3, <1>4 DEF Score
<1>6. /\ \A n \in 1 .. Len(log) : log[n] \in Rows
      /\ \A n \in 1 .. Len(new) : new[n] \in Rows
  OBVIOUS
<1>a. e.decision \in Decisions
  <2>1. e \in Rows
    BY <1>2, <1>6
  <2> QED
    BY <2>1, RowsRead
<1>7. CASE Len(log) < HistoryWindow
  <2>1. d = 0 /\ Len(new) = Len(log) + 1 /\ w = log /\ v = new
    BY <1>1, <1>2, <1>3, <1>7 DEF LastRows
  <2>2. /\ x \in Seq(Decisions) /\ Len(x) = Len(log)
        /\ y \in Seq(Decisions) /\ Len(y) = Len(log) + 1
    <3>1. x \in [1 .. Len(log) -> Decisions] /\ y \in [1 .. Len(new) -> Decisions]
      BY <1>1, <1>4, <1>6, <2>1, RowsRead
    <3> QED
      BY <1>1, <1>2, <2>1, <3>1, SeqDef, LenProperties
  <2>3. \A n \in 1 .. Len(x) : y[n] = x[n]
    BY <1>1, <1>2, <1>4, <2>1, <2>2
  <2>4. y[Len(y)] = e.decision
    BY <1>1, <1>2, <1>4, <2>1, <2>2
  <2>5. ReputationOf(y) = Nudge(ReputationOf(x), e.decision)
    BY <2>2, <2>3, <2>4, ScoreExtended
  <2>6. ReputationOf(x) \in 0 .. 100
    BY <2>2, ReputationInRange
  <2>7. PICK r \in 0 .. 100 : r = ReputationOf(x) /\ -2 <= r - r /\ r - r <= 15
    BY <2>6
  <2>8. Nudge(r, e.decision) - r \in Swing[e.decision]
    BY <1>a, <2>7, NudgeSwings
  <2> QED
    BY <1>5, <2>5, <2>7, <2>8
<1>8. CASE Len(log) >= HistoryWindow
  <2>1. Len(new) >= HistoryWindow
    BY <1>1, <1>2, <1>8
  <2>2. /\ Len(w) = HistoryWindow
        /\ \A n \in 1 .. HistoryWindow : w[n] = log[n + (Len(log) - HistoryWindow)]
        /\ DOMAIN w = 1 .. HistoryWindow
    BY <1>1, <1>3, <1>8, LastRowsIndex
  <2>3. /\ Len(v) = HistoryWindow
        /\ \A n \in 1 .. HistoryWindow : v[n] = new[n + (Len(new) - HistoryWindow)]
        /\ DOMAIN v = 1 .. HistoryWindow
    BY <1>1, <1>3, <2>1, LastRowsIndex
  <2>4. /\ x \in Seq(Decisions) /\ Len(x) = HistoryWindow
        /\ y \in Seq(Decisions) /\ Len(y) = HistoryWindow
    <3>1. \A n \in 1 .. HistoryWindow : w[n] \in Rows /\ v[n] \in Rows
      <4> TAKE n \in 1 .. HistoryWindow
      <4>1. /\ n + (Len(log) - HistoryWindow) \in 1 .. Len(log)
            /\ n + (Len(new) - HistoryWindow) \in 1 .. Len(new)
        BY <1>1, <1>2, <1>8, <2>1
      <4> QED
        BY <1>6, <2>2, <2>3, <4>1
    <3>2. x \in [1 .. HistoryWindow -> Decisions] /\ y \in [1 .. HistoryWindow -> Decisions]
      BY <1>4, <2>2, <2>3, <3>1, RowsRead
    <3> QED
      BY <1>1, <3>2, SeqDef, LenProperties
  <2>5. \A n \in 1 .. HistoryWindow - 1 : y[n] = x[n + 1]
    <3> TAKE n \in 1 .. HistoryWindow - 1
    <3>1. n \in 1 .. HistoryWindow /\ n + 1 \in 1 .. HistoryWindow
      BY <1>1
    <3>2. v[n] = new[n + (Len(new) - HistoryWindow)]
          /\ w[n + 1] = log[n + 1 + (Len(log) - HistoryWindow)]
      BY <2>2, <2>3, <3>1
    <3>3. /\ n + (Len(new) - HistoryWindow) \in 1 .. Len(new) - 1
          /\ n + (Len(new) - HistoryWindow) + d = n + 1 + (Len(log) - HistoryWindow)
      BY <1>1, <1>2, <2>1, <3>1
    <3>4. v[n] = w[n + 1]
      BY <1>2, <3>2, <3>3
    <3> QED
      BY <1>4, <2>2, <2>3, <3>1, <3>4
  <2>6. y[Len(y)] = e.decision
    <3>1. HistoryWindow \in 1 .. HistoryWindow
          /\ HistoryWindow + (Len(new) - HistoryWindow) = Len(new)
      BY <1>1, <1>2
    <3>2. v[HistoryWindow] = e
      BY <1>2, <2>3, <3>1
    <3> QED
      BY <1>4, <2>3, <2>4, <3>1, <3>2
  <2>7. PICK s \in 0 .. 100 :
            /\ -2 <= s - ReputationOf(x) /\ s - ReputationOf(x) <= 15
            /\ ReputationOf(y) = Nudge(s, e.decision)
    <3>1. \A n \in 1 .. Len(x) - 1 : y[n] = x[n + 1]
      BY <2>4, <2>5
    <3>2. Len(y) = Len(x) /\ Len(x) # 0
      BY <1>1, <2>4
    <3> QED
      BY <2>4, <2>6, <3>1, <3>2, ScoreSlid
  <2>8. ReputationOf(x) \in 0 .. 100
    BY <2>4, ReputationInRange
  <2> QED
    BY <1>5, <1>a, <2>7, <2>8, NudgeSwings
<1> QED
  BY <1>1, <1>7, <1>8

\* For any window and any number of evaluations: a decision moves the
\* reputation of its agent its own way, by no more than its delta and that of
\* the record it pushes out (ReputationFollowsOutcome).
THEOREM ReputationMovesWithDecisions == Spec => ReputationFollowsOutcome
<1>1. ASSUME IInv, [Next]_vars
      PROVE  [\A a \in Agents :
                history'[a] # history[a] /\ history'[a] # <<>> =>
                  Score(history'[a]) - Score(history[a]) \in Swing[Appended(a)]]_vars
  <2> SUFFICES ASSUME Next, NEW a \in Agents, history'[a] # history[a], history'[a] # <<>>
               PROVE  Score(history'[a]) - Score(history[a]) \in Swing[Appended(a)]
    BY <1>1
  <2>1. Typed /\ Progressed
    BY <1>1 DEF IInv
  <2>2. ~Restart
    BY <2>1 DEF Restart, Typed
  <2>3. PICK k \in Calls : Record(k)
    BY <2>2 DEF Next, Evaluate, HardBlock, Submit, ReadReputation, ReadSize, Collect, Fail, Decide
  <2>4. intent[k] \in Intents /\ verdict[k] \in Decisions
    BY <2>1, <2>3 DEF Record, Progressed
  <2>5. PICK log, e, new : log = history[a] /\ e = Entry(k) /\ new = history'[a]
    OBVIOUS
  <2>6. log \in Seq(Rows)
    BY <2>1, <2>5 DEF Typed
  <2>7. e \in Rows
    BY <2>4, <2>5 DEF Entry, Rows, OwnRows
  <2>8. new = Recorded(log, e)
    BY <2>1, <2>3, <2>5 DEF Record, Typed
  <2>9. PICK d \in Nat : new \in Seq(Rows) /\ Shifted(new, log, e, d)
    BY <2>6, <2>7, <2>8, RecordedRows
  <2>10. Appended(a) = e.decision
    BY <2>5, <2>9 DEF Appended, Shifted
  <2>11. Score(new) - Score(log) \in Swing[e.decision]
    BY <2>6, <2>9, OneMoreRecord
  <2> QED
    BY <2>5, <2>10, <2>11
<1> QED
  BY <1>1, Invariance, PTL DEF Spec, ReputationFollowsOutcome
===============================================================================
