-------------------------- MODULE CapabilityRegistry --------------------------
(***************************************************************************)
(* guardian/policy/capabilities.py: per-agent grants and the daily-spend   *)
(* window behind them.  Evaluations run in the worker threads of one       *)
(* process, or of several processes that share a database; every read and  *)
(* every write of shared state is therefore an action of its own.  An      *)
(* element of Calls is one run of evaluate_capability.                     *)
(*                                                                         *)
(* Backend selects what keeps the spend log:                               *)
(*   "local"   no storage: the registry's own _daily_spend dictionary      *)
(*   "memory"  InMemoryStorage: lives in the process, never trimmed          *)
(*   "durable" SQLiteStorage or PostgresStorage: survives a restart, each  *)
(*             append trims the key to its MaxRows newest rows             *)
(*                                                                         *)
(* Amounts are whole units, Window stands for the 86400 seconds.           *)
(***************************************************************************)
EXTENDS Integers, FiniteSets, FiniteSetsExt, Sequences, SequencesExt

CONSTANTS
    Agents, Calls,
    Intents,       \* [agent_id, action_type, chain, amount]
    Capabilities,  \* what an operator may grant, see Capability below
    None,          \* Python's None
    Backend, MaxRows, Window,
    Threads,       \* how many calls can be in flight at once
    MaxTime        \* bound of the clock, for model checking

Capability(c) ==
    /\ c.agent_id \in Agents
    /\ c.max_amount_per_action \in Nat \cup {None}
    /\ c.max_daily_amount \in Nat \cup {None}
    /\ c.expires_at \in Int \cup {None}

ASSUME RegistryAssumption ==
    /\ \A c \in Capabilities : Capability(c)
    /\ \A i \in Intents : i.agent_id \in Agents /\ i.amount \in Nat
    /\ Backend \in {"local", "memory", "durable"}
    /\ MaxRows \in Nat \ {0} /\ Window \in Nat \ {0}
    /\ Threads \in Nat \ {0} /\ MaxTime \in Nat
    /\ None \notin Int /\ None \notin Capabilities

StorageBacked == Backend # "local"

-------------------------------------------------------------------------------
VARIABLES
    grants,      \* _grants
    spend,       \* the spend log of each agent, oldest row first
    clock,       \* time.time()
    pc,          \* where each call stands
    intent, cap, \* the arguments of a call and the grant it looked up
    now,         \* the timestamp the call took for its row
    kept,        \* local backend: the pruned list before it is assigned back
    violations,  \* rules the call reports, all of severity BLOCK
    forgotten    \* history: rows of this agent were lost to a trim or a restart

callVars == <<pc, intent, cap, now, kept, violations>>
vars == <<grants, spend, clock, callVars, forgotten>>

Rules == {"capability_expired", "action_type_not_granted", "chain_not_granted",
          "capability_amount_exceeded", "capability_daily_limit_exceeded"}

\* A row of the spend log.  `by` is history: the call that wrote the row.
Row == [t : Int, a : Nat, by : Calls]

Stages == {"ready", "looked_up", "checked", "stamped", "pruned", "assigned",
           "appended", "done", "dead"}

TypeOK ==
    /\ grants \in [Agents -> Capabilities \cup {None}]
    /\ spend \in [Agents -> Seq(Row)]
    /\ clock \in Nat
    /\ pc \in [Calls -> Stages]
    /\ intent \in [Calls -> Intents \cup {None}]
    /\ cap \in [Calls -> Capabilities \cup {None}]
    /\ now \in [Calls -> Int \cup {None}]
    /\ kept \in [Calls -> Seq(Row)]
    /\ violations \in [Calls -> SUBSET Rules]
    /\ forgotten \in [Agents -> BOOLEAN]

Init ==
    /\ grants = [a \in Agents |-> None]
    /\ spend = [a \in Agents |-> <<>>]
    /\ clock = 0
    /\ pc = [k \in Calls |-> "ready"]
    /\ intent = [k \in Calls |-> None]
    /\ cap = [k \in Calls |-> None]
    /\ now = [k \in Calls |-> None]
    /\ kept = [k \in Calls |-> <<>>]
    /\ violations = [k \in Calls |-> {}]
    /\ forgotten = [a \in Agents |-> FALSE]

-------------------------------------------------------------------------------
(* The operator's side of the registry. *)

Grant(c) ==
    /\ grants' = [grants EXCEPT ![c.agent_id] = c]
    /\ UNCHANGED <<spend, clock, callVars, forgotten>>

\* Mutant: revoking clears the agent's spend log as well.
RevokeAndForget(a) ==
    /\ grants' = [grants EXCEPT ![a] = None]
    /\ spend' = [spend EXCEPT ![a] = <<>>]
    /\ UNCHANGED <<clock, callVars, forgotten>>

\* The agent is then unaffected by capabilities, not locked out.
Revoke(a) ==
    /\ grants' = [grants EXCEPT ![a] = None]
    /\ UNCHANGED <<spend, clock, callVars, forgotten>>

-------------------------------------------------------------------------------
(* evaluate_capability *)

Granted(allowed, x) == allowed = None \/ x \in allowed

\* Mutant: a rule that is not one of the documented ones.
StaticViolationsRenamed(i, c) ==
    IF Granted(c.allowed_action_types, i.action_type) THEN {} ELSE {"action_not_granted"}

StaticViolations(i, c) ==
    {r \in Rules :
        \/ /\ r = "action_type_not_granted"
           /\ ~Granted(c.allowed_action_types, i.action_type)
        \/ /\ r = "chain_not_granted"
           /\ ~Granted(c.allowed_chains, i.chain)
        \/ /\ r = "capability_amount_exceeded"
           /\ c.max_amount_per_action # None
           /\ i.amount > c.max_amount_per_action}

InFlight == {k \in Calls : pc[k] \notin {"ready", "done", "dead"}}

\* registry.get: no grant, no violation.
Lookup(k, i) ==
    /\ pc[k] = "ready" /\ Cardinality(InFlight) < Threads
    /\ intent' = [intent EXCEPT ![k] = i]
    /\ cap' = [cap EXCEPT ![k] = grants[i.agent_id]]
    /\ pc' = [pc EXCEPT ![k] = IF grants[i.agent_id] = None THEN "done" ELSE "looked_up"]
    /\ UNCHANGED <<grants, spend, clock, now, kept, violations, forgotten>>

Expired(c) == c.expires_at # None /\ clock > c.expires_at

\* An expired grant returns at once: nothing is charged.
CheckExpired(k) ==
    /\ pc[k] = "looked_up"
    /\ Expired(cap[k])
    /\ violations' = [violations EXCEPT ![k] = {"capability_expired"}]
    /\ pc' = [pc EXCEPT ![k] = "done"]
    /\ UNCHANGED <<grants, spend, clock, intent, cap, now, kept, forgotten>>

\* The static checks.  None of them returns early, so an attempt that is
\* already blocked goes on to be charged against the daily limit.
CheckStatic(k) ==
    /\ pc[k] = "looked_up"
    /\ ~Expired(cap[k])
    /\ violations' = [violations EXCEPT ![k] = StaticViolations(intent[k], cap[k])]
    /\ pc' = [pc EXCEPT ![k] = IF cap[k].max_daily_amount = None THEN "done" ELSE "checked"]
    /\ UNCHANGED <<grants, spend, clock, intent, cap, now, kept, forgotten>>

-------------------------------------------------------------------------------
(* _record_and_sum_today *)

\* Mutant: the clock is read again for the window.
WindowStartLate(k) == clock - Window

WindowStart(k) == now[k] - Window

\* Mutant: the window is one tick short.
InWindowShort(row, start) == row.t > start + 1

InWindow(row, start) == row.t > start

SpendRow(k) == [t |-> now[k], a |-> intent[k].amount, by |-> k]

\* now = time.time(): the timestamp is taken before the log is touched, so
\* rows may be appended in another order than their timestamps.
Stamp(k) ==
    /\ pc[k] = "checked"
    /\ now' = [now EXCEPT ![k] = clock]
    /\ pc' = [pc EXCEPT ![k] = "stamped"]
    /\ UNCHANGED <<grants, spend, clock, intent, cap, kept, violations, forgotten>>

\* What an append leaves of a log: the database backends keep MaxRows rows.
Retained(log) ==
    IF Backend = "durable" /\ Len(log) > MaxRows
    THEN SubSeq(log, Len(log) - MaxRows + 1, Len(log))
    ELSE log

\* Mutant: the insert is tried again when its acknowledgement is lost.
StorageAppendRetried(k) ==
    /\ pc[k] = "stamped" /\ StorageBacked
    /\ spend' = [spend EXCEPT ![intent[k].agent_id] = Retained(Append(@, SpendRow(k)))]
    /\ pc' \in {pc, [pc EXCEPT ![k] = "appended"]}
    /\ UNCHANGED <<grants, clock, intent, cap, now, kept, violations, forgotten>>

\* storage.append: one transaction, insert and trim.
StorageAppend(k) ==
    LET a == intent[k].agent_id
        log == Append(spend[a], SpendRow(k))
    IN  /\ pc[k] = "stamped" /\ StorageBacked
        /\ spend' = [spend EXCEPT ![a] = Retained(log)]
        /\ forgotten' = [forgotten EXCEPT ![a] = @ \/ Retained(log) # log]
        /\ pc' = [pc EXCEPT ![k] = "appended"]
        /\ UNCHANGED <<grants, clock, intent, cap, now, kept, violations>>

\* The comprehension of the in-process list, row by row.
PrunedUpTo(log, start) ==
    LET rows[n \in 0 .. Len(log)] ==
            IF n = 0 THEN <<>>
            ELSE IF InWindow(log[n], start) THEN Append(rows[n - 1], log[n])
            ELSE rows[n - 1]
    IN  rows

Pruned(log, start) == PrunedUpTo(log, start)[Len(log)]

\* `history[:] = [...]` first builds the pruned list ...
LocalPrune(k) ==
    /\ pc[k] = "stamped" /\ ~StorageBacked
    /\ kept' = [kept EXCEPT ![k] = Pruned(spend[intent[k].agent_id], WindowStart(k))]
    /\ pc' = [pc EXCEPT ![k] = "pruned"]
    /\ UNCHANGED <<grants, spend, clock, intent, cap, now, violations, forgotten>>

\* ... then assigns it over the shared one ...
LocalAssign(k) ==
    /\ pc[k] = "pruned"
    /\ spend' = [spend EXCEPT ![intent[k].agent_id] = kept[k]]
    /\ kept' = [kept EXCEPT ![k] = <<>>]
    /\ pc' = [pc EXCEPT ![k] = "assigned"]
    /\ UNCHANGED <<grants, clock, intent, cap, now, violations, forgotten>>

\* ... and only then appends the row.
LocalAppend(k) ==
    /\ pc[k] = "assigned"
    /\ spend' = [spend EXCEPT ![intent[k].agent_id] = Append(@, SpendRow(k))]
    /\ pc' = [pc EXCEPT ![k] = "appended"]
    /\ UNCHANGED <<grants, clock, intent, cap, now, kept, violations, forgotten>>

\* get_since filters on the row's own timestamp; the local list was pruned
\* before and is summed whole.
Counted(k) ==
    LET log == spend[intent[k].agent_id]
    IN  {i \in DOMAIN log : StorageBacked => InWindow(log[i], WindowStart(k))}

TotalToday(k) ==
    SumFunction([i \in Counted(k) |-> spend[intent[k].agent_id][i].a])

SumToday(k) ==
    /\ pc[k] = "appended"
    /\ violations' = [violations EXCEPT ![k] =
                        IF TotalToday(k) > cap[k].max_daily_amount
                        THEN @ \cup {"capability_daily_limit_exceeded"} ELSE @]
    /\ pc' = [pc EXCEPT ![k] = "done"]
    /\ UNCHANGED <<grants, spend, clock, intent, cap, now, kept, forgotten>>

-------------------------------------------------------------------------------
(* The environment. *)

Tick ==
    /\ clock < MaxTime
    /\ clock' = clock + 1
    /\ UNCHANGED <<grants, spend, callVars, forgotten>>

\* A crash or a deploy: calls in flight never answer, grants are forgotten
\* until the bootstrap code grants them again, a durable log stays.
Restart ==
    /\ grants' = [a \in Agents |-> None]
    /\ spend' = IF Backend = "durable" THEN spend ELSE [a \in Agents |-> <<>>]
    /\ pc' = [k \in Calls |-> IF pc[k] \in {"ready", "done"} THEN pc[k] ELSE "dead"]
    /\ kept' = [k \in Calls |-> <<>>]
    /\ forgotten' = [a \in Agents |-> forgotten[a] \/ spend'[a] # spend[a]]
    /\ UNCHANGED <<clock, intent, cap, now, violations>>

Evaluate(k) ==
    \/ \E i \in Intents : Lookup(k, i)
    \/ CheckExpired(k)
    \/ CheckStatic(k)
    \/ Stamp(k)
    \/ StorageAppend(k)
    \/ LocalPrune(k)
    \/ LocalAssign(k)
    \/ LocalAppend(k)
    \/ SumToday(k)

Next ==
    \/ \E c \in Capabilities : Grant(c)
    \/ \E a \in Agents : Revoke(a)
    \/ \E k \in Calls : Evaluate(k)
    \/ Tick
    \/ Restart

Spec == Init /\ [][Next]_vars

-------------------------------------------------------------------------------
(* Properties *)

\* A call under a daily limit that came back without a violation.
Approved(k) == pc[k] = "done" /\ now[k] # None /\ violations[k] = {}

ApprovedIn(a, start) ==
    {k \in Calls : /\ Approved(k)
                   /\ intent[k].agent_id = a
                   /\ start < now[k] /\ now[k] <= start + Window}

\* The daily limit: whatever the calls interleave to, and across restarts,
\* revocations and new grants, the amounts approved for an agent in any
\* period of one Window stay within the daily limit that one of those
\* approvals was decided under (capabilities.py:123-130).  It is claimed as
\* long as no row of the agent has been lost to a trim or a restart.
DailyLimit ==
    \A a \in Agents : \A start \in -Window .. MaxTime :
        LET S == ApprovedIn(a, start)
        IN  ~forgotten[a] /\ S # {} =>
                \E k \in S :
                    SumFunction([j \in S |-> intent[j].amount]) <= cap[k].max_daily_amount

\* An attempt is charged exactly once, before its call can answer, and the
\* row says what the call declared: retries, restarts and new grants neither
\* lose nor repeat a charge while the log is whole.
ChargedOnce ==
    \A k \in Calls :
        pc[k] \in {"appended", "done"} /\ now[k] # None
            /\ ~forgotten[intent[k].agent_id] =>
        LET log == spend[intent[k].agent_id]
        IN  \E n \in DOMAIN log :
                /\ log[n] = [t |-> now[k], a |-> intent[k].amount, by |-> k]
                /\ \A m \in DOMAIN log \ {n} : log[m].by # k

\* Nothing an operator, a restart or a later call does takes back a charge:
\* with a database the log of an agent only grows at its end, and only its
\* oldest rows go.
LogGrows ==
    \A a \in Agents :
        \/ IsPrefix(spend[a], spend'[a])
        \/ /\ Len(spend[a]) = MaxRows /\ Len(spend'[a]) = MaxRows
           /\ SubSeq(spend'[a], 1, MaxRows - 1) = Tail(spend[a])
LogOnlyGrows == [][LogGrows]_vars
===============================================================================
