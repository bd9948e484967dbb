------------------------------ MODULE ApiGateway ------------------------------
(***************************************************************************)
(* api/security.py in front of the endpoints of api/main.py: who gets an   *)
(* evaluation, on whose behalf, and how often.                             *)
(*                                                                         *)
(* RateLimitMiddleware.dispatch does not await before it hands a request   *)
(* on, so a request is admitted or refused in one step.  What an endpoint  *)
(* checks depends on the request and on the configuration only, neither of *)
(* which changes, so the answer is part of that step; the evaluation it    *)
(* starts is the subject of DecisionEngine.                                *)
(*                                                                         *)
(* A request is [header, host, endpoint, agent]: `header` is its           *)
(* Authorization header or None, `agent` the agent_id of its body or path, *)
(* None where the endpoint takes none.  TokenOf gives the token of a       *)
(* header that starts with "Bearer ", and None for any other header.       *)
(***************************************************************************)
EXTENDS Integers, FiniteSets, Sequences, SequencesExt, FiniteSetsExt

CONSTANTS
    Requests,
    Configs,       \* [api_key, agent_api_keys, limit]
    TokenOf,       \* a function on headers
    EmptyToken,    \* the token of "Bearer " with nothing after it
    ArcDemoAgent,  \* ARC_DEMO_AGENT_ID
    DemoAgents,    \* the agents of _DEMO_SCENARIOS
    None,
    MaxTracked,    \* max_tracked_identities
    Window,        \* the 60 seconds
    MaxTime, MaxRequests  \* bounds for model checking

ASSUME GatewayAssumption ==
    /\ MaxTracked \in Nat \ {0} /\ Window \in Nat /\ MaxTime \in Nat /\ MaxRequests \in Nat
    \* config.py: an empty key counts as no key
    /\ \A c \in Configs : /\ c.api_key # EmptyToken /\ c.limit \in Int
                          /\ \A a \in DOMAIN c.agent_api_keys :
                                c.agent_api_keys[a] \notin {EmptyToken, None}

\* The Authorization header if there is one, else the client's address.
Identity(r) == IF r.header = None THEN r.host ELSE r.header
Identities == {Identity(r) : r \in Requests}

VARIABLES
    config,   \* GuardianConfig, read once
    order,    \* the keys of _counters, least recently used first
    bucket,   \* the lists of _counters, <<>> for an identity that has none
    clock,    \* time.monotonic()
    log,      \* history: the requests seen, [id, at, admitted]
    answer    \* the last answer: [request, status, on_behalf_of]

vars == <<config, order, bucket, clock, log, answer>>

Statuses == {200, 401, 429}

TypeOK ==
    /\ config \in Configs
    /\ order \in Seq(Identities) /\ IsInjective(order)
    /\ bucket \in [Identities -> Seq(0 .. MaxTime)]
    /\ clock \in 0 .. MaxTime
    /\ log \in Seq([id : Identities, at : 0 .. MaxTime, admitted : BOOLEAN])
    /\ answer # None => answer.request \in Requests /\ answer.status \in Statuses

Init ==
    /\ config \in Configs
    /\ order = <<>>
    /\ bucket = [x \in Identities |-> <<>>]
    /\ clock = 0
    /\ log = <<>>
    /\ answer = None

-------------------------------------------------------------------------------
(* The endpoints *)

AuthEnabled == config.api_key # None \/ DOMAIN config.agent_api_keys # {}

\* Mutant: without a guard, a missing master key equals an empty token.
IsMasterKeyOrEmpty(token) ==
    token = (IF config.api_key = None THEN EmptyToken ELSE config.api_key)

IsMasterKey(token) == config.api_key # None /\ token = config.api_key

\* require_api_key
MayDemo(header) == ~AuthEnabled \/ (header # None /\ IsMasterKey(TokenOf[header]))

\* check_agent_bound_key
MayActAs(header, agent) ==
    \/ ~AuthEnabled
    \/ /\ header # None /\ TokenOf[header] # None
       /\ \/ IsMasterKey(TokenOf[header])
          \/ /\ agent \in DOMAIN config.agent_api_keys
             /\ TokenOf[header] = config.agent_api_keys[agent]

\* The agents whose history an admitted request writes or reads; none if it is
\* refused.  /arc/prepare asks for no key and replaces the caller's agent_id.
OnBehalfOf(r) ==
    CASE r.endpoint \in {"decision", "history"} ->
            IF MayActAs(r.header, r.agent) THEN {r.agent} ELSE {}
      [] r.endpoint = "demo" -> IF MayDemo(r.header) THEN DemoAgents ELSE {}
      [] r.endpoint = "arc" -> {ArcDemoAgent}
      [] OTHER -> {}

Served(r) ==
    [request |-> r, on_behalf_of |-> OnBehalfOf(r),
     status |-> IF r.endpoint \in {"decision", "history", "demo"} /\ OnBehalfOf(r) = {}
                THEN 401 ELSE 200]

-------------------------------------------------------------------------------
(* RateLimitMiddleware.dispatch *)

Seen(r, ok) == Append(log, [id |-> Identity(r), at |-> clock, admitted |-> ok])

\* A limit of zero or less switches the limiter off; such requests are not in
\* the log.
PassUnlimited(r) ==
    /\ config.limit <= 0
    /\ answer' = Served(r)
    /\ UNCHANGED <<config, order, bucket, clock, log>>

\* Mutant: only admitted requests refresh an identity.
MovedToEndIfNew(x) == IF Contains(order, x) THEN order ELSE Append(order, x)

\* Mutant: the key is appended again.
MovedToEndTwice(x) == Append(order, x)

Place(x) == CHOOSE n \in DOMAIN order : order[n] = x

\* A new key, or move_to_end.
MovedToEnd(x) ==
    IF Contains(order, x) THEN Append(RemoveAt(order, Place(x)), x) ELSE Append(order, x)

\* Mutant: old timestamps are never dropped.
FreshNever(x) == bucket[x]

\* How many times bucket.pop(0) runs: as long as the first is older than the window.
Pops(x) ==
    CHOOSE n \in 0 .. Len(bucket[x]) :
        /\ \A k \in 1 .. n : bucket[x][k] < clock - Window
        /\ n < Len(bucket[x]) => bucket[x][n + 1] >= clock - Window

Fresh(x) == SubSeq(bucket[x], Pops(x) + 1, Len(bucket[x]))

\* A refused request counts as a use of its identity, not against its limit,
\* and returns before the eviction.
Refuse(r) ==
    LET x == Identity(r)
    IN  /\ config.limit > 0 /\ Len(log) < MaxRequests
        /\ Len(Fresh(x)) >= config.limit
        /\ order' = MovedToEnd(x)
        /\ bucket' = [bucket EXCEPT ![x] = Fresh(x)]
        /\ answer' = [request |-> r, on_behalf_of |-> {}, status |-> 429]
        /\ log' = Seen(r, FALSE)
        /\ UNCHANGED <<config, clock>>

\* Mutant: nothing is evicted.
KeptAll(keys) == keys

\* popitem(last=False) until no more than MaxTracked are left.
Kept(keys) ==
    SubSeq(keys, IF Len(keys) > MaxTracked THEN Len(keys) - MaxTracked + 1 ELSE 1, Len(keys))

Admit(r) ==
    LET x == Identity(r)
        keys == Kept(MovedToEnd(x))
    IN  /\ config.limit > 0 /\ Len(log) < MaxRequests
        /\ Len(Fresh(x)) < config.limit
        /\ order' = keys
        /\ bucket' = [y \in Identities |->
                         CASE ~Contains(keys, y) -> <<>>
                           [] y = x /\ Contains(keys, y) -> Append(Fresh(x), clock)
                           [] OTHER -> bucket[y]]
        /\ answer' = Served(r)
        /\ log' = Seen(r, TRUE)
        /\ UNCHANGED <<config, clock>>

Tick ==
    /\ clock < MaxTime
    /\ clock' = clock + 1
    /\ UNCHANGED <<config, order, bucket, log, answer>>

\* A new process starts with empty counters.
Restart ==
    /\ log # <<>>
    /\ order' = <<>> /\ bucket' = [x \in Identities |-> <<>>]
    /\ log' = <<>> /\ answer' = None
    /\ UNCHANGED <<config, clock>>

Dispatch(r) == PassUnlimited(r) \/ Refuse(r) \/ Admit(r)

Next == Tick \/ Restart \/ \E r \in Requests : Dispatch(r)

Spec == Init /\ [][Next]_vars

-------------------------------------------------------------------------------
(* Properties *)

AdmittedIn(x, m, n) == {i \in m .. n : log[i].id = x /\ log[i].admitted}

\* Between its two requests m and n the identity could have been evicted: so
\* many others used the limiter.
Forgettable(m, n) ==
    Cardinality({log[i].id : i \in m + 1 .. n - 1} \ {log[m].id}) >= MaxTracked

\* The rate limit proper: in a period of one Window an identity gets at most
\* `limit` requests through.  The bounded table costs it no more than this: an
\* identity gets a fresh bucket only after MaxTracked others came in between
\* two of its requests (security.py:99-115, 133-148).
LimitPerWindow ==
    \A m, n \in DOMAIN log :
        LET x == log[m].id
            own == {i \in m .. n : log[i].id = x}
        IN  /\ m <= n /\ log[n].id = x
            /\ log[n].at - log[m].at <= Window
            /\ Cardinality(AdmittedIn(x, m, n)) > config.limit
            => \E i, j \in own : i < j /\ own \cap i + 1 .. j - 1 = {} /\ Forgettable(i, j)

\* The limiter refuses nobody whose admitted requests of the last Window are
\* fewer than the limit: being refused does not prolong the wait.
RefusedOnlyWhenFull ==
    \A n \in DOMAIN log :
        ~log[n].admitted =>
            Cardinality({i \in AdmittedIn(log[n].id, 1, n) : log[n].at - log[i].at <= Window})
                >= config.limit

\* The table stays within its bound, and its lists hold no more than the
\* limit, although refused requests return before the eviction.
Bounded ==
    /\ Len(order) <= MaxTracked
    /\ \A x \in Identities :
        /\ Len(bucket[x]) <= (IF config.limit > 0 THEN config.limit ELSE 0)
        /\ bucket[x] # <<>> => Contains(order, x)

\* With authentication on, whoever reads or writes an agent's history holds
\* that agent's key or the master key, by whatever endpoint; the demo agent of
\* Arc is everybody's.  No key is an empty one.
OnlyOnOwnBehalf ==
    answer # None /\ AuthEnabled =>
        \A a \in answer.on_behalf_of \ {ArcDemoAgent} :
            /\ answer.request.header # None
            /\ LET token == TokenOf[answer.request.header]
               IN  /\ token \notin {None, EmptyToken}
                   /\ \/ token = config.api_key
                      \/ /\ a \in DOMAIN config.agent_api_keys
                         /\ token = config.agent_api_keys[a]
===============================================================================
