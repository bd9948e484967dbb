------------------------------ MODULE ArcPayment -------------------------------
(***************************************************************************)
(* From an intent to a transaction: the dry run inside DecisionEngine      *)
(* .evaluate (decision/engine.py:155-172) and prepare_arc_payment          *)
(* (guardian/arc.py), with the decimals cache they share                   *)
(* (intelligence/token/decimals.py).  There are two engines, "main" for    *)
(* /decision and "arc" for /arc/prepare, each with a cache of its own;     *)
(* requests run concurrently, and every call to a node is a step that may  *)
(* fail.  Only what bears on the transaction is here of the evaluation:    *)
(* the hard rules, the policy and the dry run; what the other signals make *)
(* of it is any outcome that respects them (see DecisionEngine).           *)
(***************************************************************************)
EXTENDS TransactionBuilder

CONSTANTS
    Payments,      \* requests
    ArcPayloads, MainIntents,
    ArcChain, ArcUSDC,
    Tokens,        \* <<chain, address>> of the token contracts
    TrueDecimals,  \* their decimals, which never change
    ClientChains,  \* the chains with an RPC URL
    Quotes         \* what a router may quote

IntentFields == {"chain", "action_type", "amount", "target", "from_token", "to_token", "wallet"}

ASSUME PaymentAssumption ==
    /\ TrueDecimals \in [Tokens -> Nat]
    /\ <<ArcChain, ArcUSDC>> \in Tokens /\ ArcUSDC # Unknown
    /\ NativeDecimals \in Nat /\ AmountUnit \in Nat \ {0}
    /\ \A i \in ArcPayloads \cup MainIntents :
            IntentFields \subseteq DOMAIN i /\ i.amount \in Int \cup {Unknown, NonFinite}

\* ARC_PAYMENT_POLICY holds an unknown agent to no more than a known one.
ASSUME CapAssumption ==
    /\ Policy.max_amount_unknown_agent \in Nat /\ Policy.max_amount_per_action \in Nat
    /\ Policy.max_amount_unknown_agent <= Policy.max_amount_per_action

\* A fact of arithmetic, for the decimals there are.
AnyDecimals == {0, NativeDecimals} \cup {TrueDecimals[k] : k \in Tokens}
ASSUME UnitAssumption == \A n \in AnyDecimals : 10 ^ n \in Nat

Engines == {"main", "arc"}

VARIABLES
    deployed,   \* the tokens there is code for
    decimals,   \* each engine's cache, RpcTokenDecimalsProvider._cache
    premature,  \* history: tokens looked up before they were deployed
    payment     \* the progress and the local variables of each request

payVars == <<deployed, decimals, premature, payment>>

PaymentStages == {"ready", "build", "simulate", "verify", "decide", "rebuild", "chain", "gas",
                  "prepared", "done"}

NewPayment == [at |-> "ready", engine |-> "main", intent |-> Unknown, built |-> Unknown,
               quote |-> Unknown, dryRun |-> "none", decision |-> Unknown, second |-> Unknown]

IsTransaction(tx) == tx.value \in Nat /\ tx.call.units \in Nat

PaymentTypeOK ==
    /\ deployed \subseteq Tokens
    /\ DOMAIN decimals = Engines
    /\ \A e \in Engines : \A k \in DOMAIN decimals[e] : decimals[e][k] \in Nat
    /\ \A p \in Payments :
        LET r == payment[p]
        IN  /\ r.at \in PaymentStages /\ r.engine \in Engines
            /\ r.built = Unknown \/ IsTransaction(r.built)
            /\ r.second = Unknown \/ IsTransaction(r.second)
            /\ r.dryRun \in {"none", "succeeds", "reverts"}
            /\ r.decision \in {Unknown, "ALLOW", "WARN", "BLOCK"}

PaymentInit ==
    /\ deployed \in SUBSET Tokens
    /\ <<ArcChain, ArcUSDC>> \in deployed
    /\ decimals = [e \in Engines |-> <<>>]
    /\ premature = {}
    /\ payment = [p \in Payments |-> NewPayment]

-------------------------------------------------------------------------------
(* get_decimals.  `answered` is whether the node answers, if it is asked; a  *)
(* call to an address without code answers no bytes, which are read as 0.    *)

TokenKey(chain, token) == <<chain, token>>

ReadDecimals(k) == IF k \in deployed THEN TrueDecimals[k] ELSE 0

\* Mutant: a token that does not answer has 18 decimals like most.
DecimalsGuessed(e, k, answered) ==
    CASE k \in DOMAIN decimals[e] -> decimals[e][k]
      [] k \notin DOMAIN decimals[e] /\ answered -> ReadDecimals(k)
      [] OTHER -> NativeDecimals

DecimalsOf(e, k, answered) ==
    CASE k \in DOMAIN decimals[e] -> decimals[e][k]
      [] k \notin DOMAIN decimals[e] /\ answered -> ReadDecimals(k)
      [] OTHER -> Unknown

\* Mutant: a failed lookup is remembered.
RememberedFailure(e, k, answered) ==
    IF k \in DOMAIN decimals[e] THEN decimals
    ELSE [decimals EXCEPT ![e] = [j \in DOMAIN @ \cup {k} |->
            IF j = k THEN IF answered THEN ReadDecimals(k) ELSE Unknown ELSE @[j]]]

\* Mutant: the cache ignores the chain.
RememberedForAddress(e, k, answered) ==
    IF ~answered \/ k \in DOMAIN decimals[e] THEN decimals
    ELSE [decimals EXCEPT ![e] = [j \in DOMAIN @ \cup {t \in Tokens : t[2] = k[2]} |->
            IF j[2] = k[2] THEN ReadDecimals(k) ELSE @[j]]]

\* A failed lookup is not remembered.
Remembered(e, k, answered) ==
    IF ~answered \/ k \in DOMAIN decimals[e] THEN decimals
    ELSE [decimals EXCEPT ![e] = [j \in DOMAIN @ \cup {k} |->
            IF j = k THEN ReadDecimals(k) ELSE @[j]]]

-------------------------------------------------------------------------------
(* The requests *)

\* engine.tx_builder.build(intent): what it may return, and what it leaves in
\* the cache.
Builds(r) ==
    LET i == r.intent
        k == TokenKey(i.chain, i.from_token)
        client == i.chain \in ClientChains
        asks == client /\ NeedsDecimals(i)
        Outcome(answered, quote) ==
            [tx |-> Build(i, [client |-> client, quote |-> quote,
                              decimals |-> IF asks THEN DecimalsOf(r.engine, k, answered)
                                           ELSE Unknown]),
             quote |-> quote,
             decimals |-> IF asks THEN Remembered(r.engine, k, answered) ELSE decimals,
             premature |-> premature
                \cup (IF asks /\ answered /\ k \notin deployed THEN {k} ELSE {})]
    IN  {Outcome(answered, quote) : answered \in BOOLEAN, quote \in Quotes \cup {Unknown}}

Severity(i) == {v.severity : v \in HardViolations(i)}

\* evaluate() of an intent begins with the hard rules.
Evaluating(engine, i) ==
    [NewPayment EXCEPT !.engine = engine, !.intent = i,
        !.at = IF "BLOCK" \in Severity(i) THEN "done" ELSE "build",
        !.decision = IF "BLOCK" \in Severity(i) THEN "BLOCK" ELSE Unknown]

\* POST /decision
PostDecision(p, i) ==
    /\ payment[p].at = "ready"
    /\ payment' = [payment EXCEPT ![p] = Evaluating("main", i)]
    /\ UNCHANGED <<deployed, decimals, premature>>

\* POST /arc/prepare: what arc_prepare accepts, and the intent it makes of it.
Accepts(i) ==
    /\ i.chain = ArcChain /\ i.action_type = "transfer" /\ i.from_token = ArcUSDC
    /\ Given(i.target) /\ Given(i.wallet)

PostArcPrepare(p, i) ==
    /\ payment[p].at = "ready"
    /\ payment' = [payment EXCEPT ![p] =
            IF Accepts(i) THEN Evaluating("arc", [i EXCEPT !.to_token = Unknown])
            ELSE [NewPayment EXCEPT !.at = "done"]]
    /\ UNCHANGED <<deployed, decimals, premature>>

\* Calldata of the caller's is taken as it is.
BuildForSimulation(p) ==
    /\ payment[p].at = "build"
    /\ IF payment[p].intent.data
       THEN /\ payment' = [payment EXCEPT ![p].at = "simulate"]
            /\ UNCHANGED <<deployed, decimals, premature>>
       ELSE \E b \in Builds(payment[p]) :
                /\ payment' = [payment EXCEPT ![p].at = "simulate", ![p].built = b.tx,
                                              ![p].quote = b.quote]
                /\ decimals' = b.decimals /\ premature' = b.premature
                /\ UNCHANGED deployed

\* The comparison of a declared approval with its calldata has the decimals
\* looked up once more, whatever was built.
Verifies(i) == i.action_type = "approve" /\ LooksLikeAddress(i.from_token)

Evaluated(r) == IF r.engine = "arc" THEN "decide" ELSE "done"

\* simulate(): a node that fails is a dry run that was not attempted.
Simulate(p) ==
    /\ payment[p].at = "simulate"
    /\ \E run \in {"none", "succeeds", "reverts"} :
            /\ run # "none" =>
                    /\ payment[p].intent.chain \in ClientChains
                    /\ \/ Given(payment[p].built)
                       \/ payment[p].intent.data /\ Given(payment[p].intent.target)
            /\ payment' = [payment EXCEPT ![p].dryRun = run,
                    ![p].at = IF Verifies(payment[p].intent) THEN "verify"
                              ELSE Evaluated(payment[p])]
    /\ UNCHANGED <<deployed, decimals, premature>>

VerifyIntent(p) ==
    /\ payment[p].at = "verify"
    /\ LET r == payment[p]
           k == TokenKey(r.intent.chain, r.intent.from_token)
       IN  \E answered \in BOOLEAN :
            /\ answered => r.intent.chain \in ClientChains
            /\ payment' = [payment EXCEPT ![p].at = Evaluated(r)]
            /\ decimals' = Remembered(r.engine, k, answered)
            /\ premature' = premature \cup (IF answered /\ k \notin deployed THEN {k} ELSE {})
    /\ UNCHANGED deployed

\* The rest of evaluate() under the policy of the Arc engine, for an agent
\* with and without a history: see DecisionEngine.Decide and FindingsStopActions.
Decides(r, outcome, rep, size) ==
    LET severities == {v.severity : v \in PolicyViolations(r.intent, rep, size)}
    IN  /\ "BLOCK" \in severities \/ r.dryRun = "reverts" => outcome = "BLOCK"
        /\ "WARN" \in severities => outcome # "ALLOW"

\* Mutant: a warning is good enough.
EvaluateAndGoOnWarned(p) ==
    /\ payment[p].at = "decide"
    /\ \E outcome \in {"ALLOW", "WARN", "BLOCK"}, rep \in {0, 50, 100}, size \in {0, 1} :
            /\ Decides(payment[p], outcome, rep, size)
            /\ payment' = [payment EXCEPT ![p].decision = outcome,
                    ![p].at = IF outcome # "BLOCK" THEN "rebuild" ELSE "done"]
    /\ UNCHANGED <<deployed, decimals, premature>>

EvaluateAndGoOn(p) ==
    /\ payment[p].at = "decide"
    /\ \E outcome \in {"ALLOW", "WARN", "BLOCK"}, rep \in {0, 50, 100}, size \in {0, 1} :
            /\ Decides(payment[p], outcome, rep, size)
            /\ payment' = [payment EXCEPT ![p].decision = outcome,
                    ![p].at = IF outcome = "ALLOW" THEN "rebuild" ELSE "done"]
    /\ UNCHANGED <<deployed, decimals, premature>>

\* The transaction is built again, and nothing is prepared without one.
Rebuild(p) ==
    /\ payment[p].at = "rebuild"
    /\ \E b \in Builds(payment[p]) :
        /\ payment' = [payment EXCEPT ![p].second = b.tx,
                                      ![p].at = IF Given(b.tx) THEN "chain" ELSE "done"]
        /\ decimals' = b.decimals /\ premature' = b.premature
    /\ UNCHANGED deployed

\* The node must be one of Arc mainnet; an error of it ends the request.
CheckChain(p) ==
    /\ payment[p].at = "chain"
    /\ \E ok \in BOOLEAN : payment' = [payment EXCEPT ![p].at = IF ok THEN "gas" ELSE "done"]
    /\ UNCHANGED <<deployed, decimals, premature>>

\* The wallet must be an address, and the node must estimate the gas.
EstimateGas(p) ==
    /\ payment[p].at = "gas"
    /\ \E ok \in BOOLEAN : payment' = [payment EXCEPT
            ![p].at = IF ok /\ LooksLikeAddress(payment[p].intent.wallet)
                      THEN "prepared" ELSE "done"]
    /\ UNCHANGED <<deployed, decimals, premature>>

Deploy(k) ==
    /\ k \notin deployed
    /\ deployed' = deployed \cup {k}
    /\ UNCHANGED <<decimals, premature, payment>>

PaymentStep(p) ==
    \/ \E i \in MainIntents : PostDecision(p, i)
    \/ \E i \in ArcPayloads : PostArcPrepare(p, i)
    \/ BuildForSimulation(p)
    \/ Simulate(p)
    \/ VerifyIntent(p)
    \/ EvaluateAndGoOn(p)
    \/ Rebuild(p)
    \/ CheckChain(p)
    \/ EstimateGas(p)

PaymentNext == (\E k \in Tokens : Deploy(k)) \/ (\E p \in Payments : PaymentStep(p))

PaymentSpec == PaymentInit /\ [][PaymentNext]_payVars

-------------------------------------------------------------------------------
(* Properties *)

\* The decimals an engine goes by are the token's own, forever, if the token
\* was there when it was first asked (token/decimals.py:24-33, 93-114).
CacheIsTruth ==
    \A e \in Engines : \A k \in DOMAIN decimals[e] \ premature :
        decimals[e][k] = TrueDecimals[k]

\* The intents whose fields mean what the builder takes them for: the target
\* is an address, a bridge is used from the chain it is on.
Meaningful(i) ==
    /\ i.action_type \in {"transfer", "approve"} => LooksLikeAddress(i.target)
    /\ i.action_type = "bridge" => i.chain = L1Chain
    /\ Given(i.from_token) => /\ <<i.chain, i.from_token>> \in deployed
                              /\ <<i.chain, i.from_token>> \notin premature

OnChain(chain) == {k[2] : k \in {t \in deployed : t[1] = chain}}
TrueUnits(i) == IF Given(i.from_token) THEN TrueDecimals[<<i.chain, i.from_token>>] ELSE 0

\* A transaction that is built does what the intent asks, in the token's own
\* units, to whom and on the chain it says (tx_builder.py:104-116, 215-432).
BuiltDoesWhatWasAsked ==
    \A p \in Payments :
        LET i == payment[p].intent
        IN  Given(payment[p].built) /\ Meaningful(i) =>
                EffectOf(payment[p].built, i.chain, OnChain(i.chain))
                    = Asked(i, TrueUnits(i), payment[p].quote)

\* What is handed out for signing pays no more USDC than the demo's policy
\* lets an agent spend, to the address the request names, after an ALLOW, and
\* is nothing a dry run has seen to revert (arc.py:28-37, 82-131).  The one
\* exception to the address: a target that is none is never rejected and is
\* paid at whatever its encoding makes of it (tx_builder.py:141-142, 262).
PreparedPaysWhatWasAllowed ==
    \A p \in Payments : payment[p].at = "prepared" =>
        LET i == payment[p].intent
            tx == payment[p].second
        IN  /\ payment[p].decision = "ALLOW" /\ payment[p].dryRun # "reverts"
            /\ tx.to = ArcUSDC /\ tx.value = 0
            /\ tx.call.fn = "transfer"
            /\ LooksLikeAddress(i.target) => tx.call.to = i.target
            /\ tx.call.units * AmountUnit
                 <= Policy.max_amount_per_action * 10 ^ TrueDecimals[<<ArcChain, ArcUSDC>>]

\* What is handed out is what was simulated, if anything was built for the
\* dry run: the second build cannot differ from the first, whatever the node
\* answers in between (arc.py:97, engine.py:159-167).
SecondBuildIsTheFirst ==
    \A p \in Payments :
        payment[p].at = "prepared" /\ Given(payment[p].built)
            => payment[p].second = payment[p].built
===============================================================================
