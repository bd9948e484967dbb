------------------------------ MODULE RiskScoring ------------------------------
(***************************************************************************)
(* guardian/decision/scoring.py, guardian/reputation/agent.py and the      *)
(* thresholds of guardian/decision/engine.py, as operators.                *)
(*                                                                         *)
(* Floats are exact rationals here.  A signal is a record                  *)
(* [name, score, weight, confidence] with its weight in tenths and its     *)
(* confidence in hundredths; a score that is not whole is rounded down.    *)
(* The names of one evaluation's signals differ, so they form a set.       *)
(* A risk is a record [num, den] with den > 0, standing for num / den.     *)
(***************************************************************************)
EXTENDS Integers, Sequences, Functions, FiniteSetsExt

DominantThreshold == 90
DominantConfidence == 80
BlockThreshold == 80
WarnThreshold == 40

NoDataRisk == [num |-> 20, den |-> 1]

LessEq(r, s) == r.num * s.den <= s.num * r.den
Larger(r, s) == IF LessEq(r, s) THEN s ELSE r

\* max(weight, 0) * max(min(confidence, 1), 0)
Clamp(x, lo, hi) == IF x < lo THEN lo ELSE IF x > hi THEN hi ELSE x
EffectiveWeight(s) ==
    (IF s.weight < 0 THEN 0 ELSE s.weight) * Clamp(s.confidence, 0, 100)

WeightTotal(signals) == SumFunction([s \in signals |-> EffectiveWeight(s)])

WeightedAverage(signals) ==
    LET total == WeightTotal(signals)
        weighted == SumFunction([s \in signals |-> s.score * EffectiveWeight(s)])
    IN  IF total = 0 THEN NoDataRisk ELSE [num |-> weighted, den |-> total]

\* A signal strong and certain enough to put a floor under the fused risk.
Dominant(s) == s.score >= DominantThreshold /\ s.confidence >= DominantConfidence

\* Mutant: a lower floor.
FloorOfFourFifths(s) == 8 * s.score

\* In tenths.
FloorOf(s) == 9 * s.score

DominantFloor(signals) ==
    [num |-> Max({0} \cup {FloorOf(s) : s \in {t \in signals : Dominant(t)}}), den |-> 10]

\* RiskFusionEngine.fuse: the average, but never under the highest floor.
\* Scores are between 0 and 100, so its last clamp changes nothing.
Fuse(signals) ==
    IF signals = {} THEN NoDataRisk
    ELSE Larger(WeightedAverage(signals), DominantFloor(signals))

-------------------------------------------------------------------------------
(* Reputation *)

NeutralScore == 50

\* Mutant: a block costs less than a warning.
DeltaMild(decision) ==
    CASE decision = "ALLOW" -> 2
      [] decision = "WARN" -> -5
      [] decision = "BLOCK" -> -4

Delta(decision) ==
    CASE decision = "ALLOW" -> 2
      [] decision = "WARN" -> -5
      [] decision = "BLOCK" -> -15

\* Mutant: the score is not kept within its bounds.
NudgeFreely(score, decision) == score + Delta(decision)

\* One record moves the score, clamped at every step.
Nudge(score, decision) == Clamp(score + Delta(decision), 0, 100)

\* AgentReputation.score_for over the decisions of the window, oldest first:
\* the score after each of them.
ScoreAfter(decisions) ==
    LET score[n \in 0 .. Len(decisions)] ==
            IF n = 0 THEN NeutralScore ELSE Nudge(score[n - 1], decisions[n])
    IN  score

ReputationOf(decisions) == ScoreAfter(decisions)[Len(decisions)]

-------------------------------------------------------------------------------
(* Steps 6 and 7 of DecisionEngine.evaluate.  The adjusted risk is           *)
(* num/den + (50 - rep) * 3/20; clamping it to 0..100 moves it across        *)
(* neither threshold.                                                        *)

AtLeast(risk, rep, threshold) ==
    20 * risk.num + 3 * (NeutralScore - rep) * risk.den >= 20 * threshold * risk.den

\* blocked, warned: some violation has that severity.
Verdict(risk, rep, blocked, warned) ==
    CASE blocked \/ AtLeast(risk, rep, BlockThreshold) -> "BLOCK"
      [] ~blocked /\ ~AtLeast(risk, rep, BlockThreshold)
         /\ (warned \/ AtLeast(risk, rep, WarnThreshold)) -> "WARN"
      [] OTHER -> "ALLOW"
===============================================================================
