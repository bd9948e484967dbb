---------------------------- MODULE DecisionEngine -----------------------------
(***************************************************************************)
(* guardian/decision/engine.py over guardian/memory/history.py: evaluations*)
(* of intents, run by concurrent worker threads over one history.  Each    *)
(* read of the history and the final write are separate actions, because   *)
(* evaluate() holds no lock across them.                                   *)
(*                                                                         *)
(* What the outside world shows one evaluation is a World:                 *)
(*   wallet, token, contract  the profiles of SignalAnalyzers, the last    *)
(*                            two Unknown when the intent names none       *)
(*   run, decimals            the dry run [attempted, reverts, approves]   *)
(*                            and the token's decimals()                   *)
(*   walletListed, targetListed  hits on the sanctions list                *)
(*   capability               evaluate_capability reports a violation      *)
(*                            (the module CapabilityRegistry)              *)
(***************************************************************************)
EXTENDS Integers, FiniteSets, Sequences, RiskScoring, PolicyChecks

CONSTANTS
    Agents, Calls, Intents, Worlds,
    PastHistories,  \* what a durable store may hold for an agent at the start
    HistoryWindow,  \* DEFAULT_HISTORY_WINDOW
    MaxRows,        \* rows a database backend keeps per agent
    Deployments     \* does the history outlive the process: a set of BOOLEANs

Decisions == {"ALLOW", "WARN", "BLOCK"}

AmountRead(x) == x \in Int \cup {Unknown, NonFinite}

\* What a provider says in percent of a token, as far as it can tell.
TokenProfile(p) ==
    \A share \in {p.buy_tax, p.sell_tax, p.top_holder} : share \in Int \cup {Unknown}

PastRecord(e) == e.decision \in Decisions /\ AmountRead(e.amount) /\ e.by = Unknown

ASSUME EngineAssumption ==
    /\ HistoryWindow \in Nat \ {0}
    /\ MaxRows \in Nat \ {0} /\ HistoryWindow <= MaxRows
    /\ Deployments \subseteq BOOLEAN /\ Deployments # {}
    /\ \A i \in Intents : i.agent_id \in Agents /\ AmountRead(i.amount)
    /\ \A w \in Worlds : w.token = Unknown \/ TokenProfile(w.token)
    /\ \A h \in PastHistories : h \in Seq(Range(h)) /\ \A e \in Range(h) : PastRecord(e)
    /\ Unknown \notin Calls
    /\ Policy.max_amount_unknown_agent \in Int /\ MinHistory \in Nat

VARIABLES
    durable,          \* the storage backend is a database
    history,          \* the records of each agent, oldest first
    pc, intent,       \* each evaluation's progress and argument
    rep, size,        \* agent_reputation_score and agent_history_size as read
    signals, violations,
    verdict           \* the Decision, before and after it is recorded

callVars == <<pc, intent, rep, size, signals, violations, verdict>>
vars == <<durable, history, callVars>>

Stages == {"ready", "reputation", "size", "signals", "policy", "decided",
           "returned", "failed", "dead"}

Init ==
    /\ durable \in Deployments
    /\ history \in [Agents -> IF durable THEN PastHistories ELSE {<<>>}]
    /\ pc = [k \in Calls |-> "ready"]
    /\ intent = [k \in Calls |-> Unknown]
    /\ rep = [k \in Calls |-> NeutralScore]
    /\ size = [k \in Calls |-> 0]
    /\ signals = [k \in Calls |-> {}]
    /\ violations = [k \in Calls |-> {}]
    /\ verdict = [k \in Calls |-> Unknown]

-------------------------------------------------------------------------------
(* The history *)

LastRows(log, n) == IF Len(log) > n THEN SubSeq(log, Len(log) - n + 1, Len(log)) ELSE log

Score(log) ==
    LET window == LastRows(log, HistoryWindow)
    IN  ReputationOf([n \in DOMAIN window |-> window[n].decision])

\* DecisionHistory.record; `by` is history: the evaluation that wrote it.
Entry(k) ==
    [decision |-> verdict[k], action_type |-> intent[k].action_type,
     chain |-> intent[k].chain, amount |-> intent[k].amount, by |-> k]

\* Mutant: decisions that block are not recorded.
RecordedUnlessBlocked(log, entry) ==
    IF entry.decision = "BLOCK" THEN log ELSE LastRows(Append(log, entry), MaxRows)

Recorded(log, entry) ==
    IF durable THEN LastRows(Append(log, entry), MaxRows) ELSE Append(log, entry)

-------------------------------------------------------------------------------
(* DecisionEngine.evaluate *)

Blocking(vs) == \E v \in vs : v.severity = "BLOCK"
Warning(vs) == \E v \in vs : v.severity = "WARN"

Start(k, i) ==
    /\ pc[k] = "ready"
    /\ intent' = [intent EXCEPT ![k] = i]

\* A hard rule decides at once, and is recorded like any other decision.
HardBlock(k, i) ==
    /\ Start(k, i)
    /\ Blocking(HardViolations(i))
    /\ violations' = [violations EXCEPT ![k] = HardViolations(i)]
    /\ verdict' = [verdict EXCEPT ![k] = "BLOCK"]
    /\ pc' = [pc EXCEPT ![k] = "decided"]
    /\ UNCHANGED <<durable, history, rep, size, signals>>

Submit(k, i) ==
    /\ Start(k, i)
    /\ ~Blocking(HardViolations(i))
    /\ pc' = [pc EXCEPT ![k] = "reputation"]
    /\ UNCHANGED <<durable, history, rep, size, signals, violations, verdict>>

\* reputation.score_for: a read of the most recent window ...
ReadReputation(k) ==
    /\ pc[k] = "reputation"
    /\ rep' = [rep EXCEPT ![k] = Score(history[intent[k].agent_id])]
    /\ pc' = [pc EXCEPT ![k] = "size"]
    /\ UNCHANGED <<durable, history, intent, size, signals, violations, verdict>>

\* Mutant: only the actions that were allowed count as a history.
ReadSizeAllowed(k) ==
    LET log == history[intent[k].agent_id]
    IN  /\ pc[k] = "size"
        /\ size' = [size EXCEPT ![k] =
                      Cardinality({n \in DOMAIN log : log[n].decision = "ALLOW"})]
        /\ pc' = [pc EXCEPT ![k] = "signals"]
        /\ UNCHANGED <<durable, history, intent, rep, signals, violations, verdict>>

\* ... and reputation.history_size: another read, of everything.
ReadSize(k) ==
    /\ pc[k] = "size"
    /\ size' = [size EXCEPT ![k] = Len(history[intent[k].agent_id])]
    /\ pc' = [pc EXCEPT ![k] = "signals"]
    /\ UNCHANGED <<durable, history, intent, rep, signals, violations, verdict>>

WorldSignals(i, w) ==
    WalletSignals(w.wallet)
        \cup (IF w.token = Unknown THEN {} ELSE TokenSignals(w.token))
        \cup (IF w.contract = Unknown THEN {} ELSE ContractSignals(w.contract))
        \cup SimulationSignals(i.action_type, i.amount, SimulationOf(i.action_type, w.run))
        \cup ThreatSignals(w.walletListed, w.targetListed)

\* The analyzers, the dry run, intent verification and the capability check.
Collect(k, w) ==
    /\ pc[k] = "signals"
    /\ signals' = [signals EXCEPT ![k] = WorldSignals(intent[k], w)]
    /\ violations' = [violations EXCEPT ![k] =
            VerificationViolations(intent[k], SimulationOf(intent[k].action_type, w.run),
                                   w.decimals)
                \cup When(w.capability, Violation("capability", "BLOCK"))]
    /\ pc' = [pc EXCEPT ![k] = "policy"]
    /\ UNCHANGED <<durable, history, intent, rep, size, verdict>>

\* statistics.pstdev raises on a NaN or an infinity (Python 3.11, the version
\* of the Dockerfile); nothing catches it, so the evaluation ends without a
\* decision and without a record.
Fail(k) ==
    /\ pc[k] = "policy"
    /\ BaselineRaises(intent[k], history[intent[k].agent_id])
    /\ pc' = [pc EXCEPT ![k] = "failed"]
    /\ UNCHANGED <<durable, history, intent, rep, size, signals, violations, verdict>>

\* The third read of the history, for the anomaly signals; all that follows
\* works on what this evaluation has read by then.
Decide(k) ==
    LET i == intent[k]
        ss == signals[k] \cup AnomalySignals(i, history[i.agent_id])
        vs == violations[k] \cup PolicyViolations(i, rep[k], size[k])
    IN  /\ pc[k] = "policy"
        /\ ~BaselineRaises(i, history[i.agent_id])
        /\ signals' = [signals EXCEPT ![k] = ss]
        /\ violations' = [violations EXCEPT ![k] = vs]
        /\ verdict' = [verdict EXCEPT ![k] =
                          Verdict(Fuse(ss), rep[k], Blocking(vs), Warning(vs))]
        /\ pc' = [pc EXCEPT ![k] = "decided"]
        /\ UNCHANGED <<durable, history, intent, rep, size>>

\* history.record, then the decision is returned.
Record(k) ==
    LET a == intent[k].agent_id
    IN  /\ pc[k] = "decided"
        /\ history' = [history EXCEPT ![a] = Recorded(@, Entry(k))]
        /\ pc' = [pc EXCEPT ![k] = "returned"]
        /\ UNCHANGED <<durable, intent, rep, size, signals, violations, verdict>>

Restart ==
    /\ \E k \in Calls : pc[k] # "ready"
    /\ history' = IF durable THEN history ELSE [a \in Agents |-> <<>>]
    /\ pc' = [k \in Calls |-> IF pc[k] \in {"ready", "returned", "failed"} THEN pc[k] ELSE "dead"]
    /\ UNCHANGED <<durable, intent, rep, size, signals, violations, verdict>>

Evaluate(k) ==
    \/ \E i \in Intents : HardBlock(k, i) \/ Submit(k, i)
    \/ ReadReputation(k)
    \/ ReadSize(k)
    \/ \E w \in Worlds : Collect(k, w)
    \/ Fail(k)
    \/ Decide(k)
    \/ Record(k)

Next == Restart \/ \E k \in Calls : Evaluate(k)

Spec == Init /\ [][Next]_vars

-------------------------------------------------------------------------------
(* Properties *)

TypeOK ==
    /\ durable \in Deployments
    /\ DOMAIN history = Agents
    /\ \A a \in Agents : \A n \in DOMAIN history[a] : history[a][n].decision \in Decisions
    /\ pc \in [Calls -> Stages]
    /\ intent \in [Calls -> Intents \cup {Unknown}]
    /\ rep \in [Calls -> 0 .. 100]
    /\ size \in [Calls -> Nat]
    /\ verdict \in [Calls -> Decisions \cup {Unknown}]

\* The findings analyzers report as conclusive.
RedFlags == {"sanctioned_wallet", "sanctioned_target", "known_malicious_contract",
             "simulation_reverts", "honeypot"}

\* A conclusive finding blocks, whatever the other analyzers found and
\* however good the reputation the agent has earned: no discount lifts the
\* dominant floor of a score of 100 over the BLOCK threshold (scoring.py:36-40,
\* engine.py:222-228).
RedFlagBlocks ==
    \A k \in Calls :
        pc[k] \in {"decided", "returned"}
            /\ (\E s \in signals[k] : s.name \in RedFlags)
        => verdict[k] = "BLOCK"

\* A dry run that shows an unlimited approval keeps the action from being
\* allowed at any reputation, also when the caller acknowledged it, and blocks
\* it unless the agent's record is better than 68: the floor of its score is
\* 82.8, the discount 0.15 a point (simulation/engine.py:77-82, scoring.py:36-40,
\* engine.py:222-228).
UnlimitedApprovalStops ==
    \A k \in Calls :
        pc[k] = "decided"
            /\ (\E s \in signals[k] : s.name = "unlimited_approval_confirmed")
        => /\ verdict[k] # "ALLOW"
           /\ rep[k] <= 68 => verdict[k] = "BLOCK"

\* Neither kind of finding is waved through (scoring.py:20-21, 36-40).
FindingsStopActions == RedFlagBlocks /\ UnlimitedApprovalStops

\* The two reads of the history are made in the order that errs on the side
\* of caution: an agent that is held to the cap of unknown agents has also
\* been scored as one, whatever was recorded in between (engine.py:143-144).
UnknownIsNeutral ==
    \A k \in Calls :
        pc[k] \in {"signals", "policy", "decided", "returned"} /\ size[k] = 0
        => rep[k] = NeutralScore

\* However the evaluations of a new agent interleave, the first decision ever
\* recorded for it was made under the cap of unknown agents
\* (policy/engine.py:31-43).
FirstRecordUnderUnknownCap ==
    \A a \in Agents :
        /\ history[a] # <<>>
        /\ history[a][1].by # Unknown
        /\ Len(history[a]) < MaxRows
        /\ history[a][1].amount # Unknown
        /\ history[a][1].decision # "BLOCK"
        => history[a][1].amount <= Policy.max_amount_unknown_agent

\* A decision is recorded before anyone sees it, once, and as it was
\* returned; a log that is not full has lost none (engine.py:250-251).
ReturnedOnceRecorded ==
    \A k \in Calls :
        pc[k] = "returned" /\ durable =>
        LET log == history[intent[k].agent_id]
            own == {n \in DOMAIN log : log[n].by = k}
        IN  /\ \A m, n \in own : m = n /\ log[n] = Entry(k)
            /\ Len(log) < MaxRows => own # {}

\* Recording a decision moves the reputation the way its outcome says, and by
\* no more than its own delta and that of the oldest record, which a full
\* window drops at the same time: an ALLOW never lowers it, a BLOCK never
\* raises it, and a WARN raises it by 10 at most, when it pushes out a BLOCK.
\* Clamping at every step does not undo this (reputation/agent.py:17-21,37-54).
Appended(a) == history'[a][Len(history'[a])].decision
Swing == [ALLOW |-> 0 .. 17, WARN |-> -7 .. 10, BLOCK |-> -17 .. 0]
ReputationFollowsOutcome ==
    [][\A a \in Agents : history'[a] # history[a] /\ history'[a] # <<>> =>
            Score(history'[a]) - Score(history[a]) \in Swing[Appended(a)]]_vars

-------------------------------------------------------------------------------
(* What the repository says and the code does not do *)

\* README.md:13: Guardian "evaluates each proposed action before signing or
\* broadcast and returns an explainable ALLOW / WARN / BLOCK decision", and
\* decision/rules.py:25-33 turns a non-finite amount into a BLOCK rather than
\* let it through.  So no evaluation ends without a decision, whatever
\* amounts the agent has tried before.
EveryEvaluationDecides == \A k \in Calls : pc[k] # "failed"
===============================================================================
