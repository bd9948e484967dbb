----------------------------- MODULE PolicyChecks ------------------------------
(***************************************************************************)
(* The deterministic rules of an evaluation: decision/rules.py,            *)
(* policy/engine.py with policy/templates.py, decision/                    *)
(* intent_verification.py and the behavioural checks of anomaly/           *)
(* analyzer.py.  An intent is a record [agent_id, wallet, chain,           *)
(* action_type, amount, acknowledged]; amounts are whole units, NonFinite  *)
(* stands for a NaN or an infinity.                                        *)
(***************************************************************************)
EXTENDS Integers, FiniteSets, FiniteSetsExt, Functions, SignalAnalyzers

CONSTANTS
    SupportedChains,
    NonFinite,
    Policy,        \* the fields of DEFAULT_POLICY
    MinHistory     \* MIN_HISTORY_FOR_BASELINE

Violation(rule, severity) == [rule |-> rule, severity |-> severity]

Amount(i) == IF i.amount = Unknown THEN 0 ELSE i.amount

-------------------------------------------------------------------------------
(* evaluate_hard_rules *)

HardViolations(i) ==
    When(i.chain \notin SupportedChains, Violation("unsupported_chain", "BLOCK"))
        \cup When(i.amount = NonFinite, Violation("non_finite_amount", "BLOCK"))
        \cup When(i.amount \notin {Unknown, NonFinite} /\ i.amount < 0,
                  Violation("negative_amount", "BLOCK"))
        \cup When(i.wallet = Unknown, Violation("missing_wallet", "BLOCK"))

-------------------------------------------------------------------------------
(* PolicyEngine.evaluate, for an agent with `size` records and score `rep` *)

\* Mutant: the branches swapped.
CapSwapped(size) == IF size = 0 THEN Policy.max_amount_per_action
                                ELSE Policy.max_amount_unknown_agent

Cap(size) == IF size = 0 THEN Policy.max_amount_unknown_agent
                         ELSE Policy.max_amount_per_action

PolicyViolations(i, rep, size) ==
    When(i.action_type \in Policy.blocked_action_types,
         Violation("blocked_action_type", "BLOCK"))
        \cup When(Amount(i) > Cap(size),
                  Violation("amount_exceeds_cap", IF size = 0 THEN "BLOCK" ELSE "WARN"))
        \cup When(/\ Amount(i) > Policy.high_value_threshold
                  /\ rep < Policy.min_reputation_for_high_value,
                  Violation("reputation_too_low_for_value", "WARN"))
        \cup When(i.action_type \in Policy.require_confirmation_action_types,
                  Violation("requires_confirmation", "WARN"))

-------------------------------------------------------------------------------
(* verify_intent_matches_simulation: amounts of an approval are compared in  *)
(* atomic units, with a tolerance of one percent of the declared amount.     *)

Atomic(amount, decimals) == amount * 10 ^ decimals

Differs(declared, actual) ==
    IF declared = 0 THEN actual # 0
    ELSE 100 * (IF actual > declared THEN actual - declared ELSE declared - actual)
            > declared

VerificationViolations(i, result, decimals) ==
    CASE ~result.attempted \/ i.action_type # "approve" -> {}
      [] result.attempted /\ i.action_type = "approve" /\ result.unlimited ->
            When(~i.acknowledged, Violation("unconfirmed_unlimited_approval", "BLOCK"))
      [] OTHER ->
            IF result.decoded = Unknown \/ i.amount = Unknown THEN {}
            ELSE IF decimals = Unknown
                 THEN {Violation("intent_verification_skipped", "WARN")}
                 ELSE When(Differs(Atomic(i.amount, decimals), result.decoded),
                           Violation("intent_amount_mismatch", "BLOCK"))

-------------------------------------------------------------------------------
(* AnomalyAnalyzer.analyze: the intent against every record kept for its     *)
(* agent, whatever was decided about it.  With n amounts, S their sum and    *)
(* D = n^2 times their variance, z > 3 iff n * amount - S > 3 * sqrt(D).     *)

\* The amounts there are, by the record they are in.
Amounts(history) ==
    [n \in {m \in DOMAIN history : history[m].amount # Unknown} |-> history[n].amount]

Size(xs) == Cardinality(DOMAIN xs)
Square(x) == x * x

Excess(x, xs) == Size(xs) * x - SumFunction(xs)

Spread(xs) ==
    Size(xs) * SumFunction([n \in DOMAIN xs |-> Square(xs[n])]) - Square(SumFunction(xs))

\* z is at least tenths / 10
ZAtLeast(x, xs, tenths) ==
    Excess(x, xs) > 0 /\ 100 * Square(Excess(x, xs)) >= Square(tenths) * Spread(xs)

\* min(90, 40 + (z - 3) * 10), rounded down
OutlierScore(x, xs) == Max({s \in 40 .. 90 : ZAtLeast(x, xs, s - 10)})

IsOutlier(x, xs) == Excess(x, xs) > 0 /\ Square(Excess(x, xs)) > 9 * Spread(xs)

AmountSignals(x, xs) ==
    CASE Size(xs) < MinHistory -> {Signal("insufficient_history_for_baseline", 10, 3, 30)}
      [] Size(xs) >= MinHistory /\ Spread(xs) = 0 ->
            When(Excess(x, xs) # 0, Signal("amount_deviates_from_fixed_pattern", 35, 7, 50))
      [] OTHER ->
            When(IsOutlier(x, xs),
                 Signal("amount_outlier_for_agent", OutlierScore(x, xs), 12, 75))

\* The spread of a baseline with a NaN or an infinity in it: see Fail in
\* DecisionEngine.
BaselineRaises(i, history) ==
    /\ i.amount # Unknown
    /\ Size(Amounts(history)) >= MinHistory
    /\ NonFinite \in Range(Amounts(history))

Unseen(value, seen) == seen # {} /\ value \notin seen

AnomalySignals(i, history) ==
    When(Unseen(i.action_type, {history[n].action_type : n \in DOMAIN history}),
         Signal("new_action_type_for_agent", 30, 8, 70))
        \cup When(Unseen(i.chain, {history[n].chain : n \in DOMAIN history}),
                  Signal("new_chain_for_agent", 20, 6, 70))
        \cup (IF i.amount = Unknown THEN {} ELSE AmountSignals(i.amount, Amounts(history)))
===============================================================================
