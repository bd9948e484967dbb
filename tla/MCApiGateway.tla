----------------------------- MODULE MCApiGateway -----------------------------
(* Instances of ApiGateway for TLC. *)
EXTENDS ApiGateway

CONSTANTS admin, keyA, a, b, demo, arc, hA, hAdmin, hEmpty, hBasic, host

MCTokenOf == (hA :> keyA) @@ (hAdmin :> admin) @@ (hEmpty :> EmptyToken) @@ (hBasic :> None)

Ask(header, endpoint, agent) ==
    [header |-> header, host |-> host, endpoint |-> endpoint, agent |-> agent]

\* Every kind of credential at every endpoint that asks for one, and three
\* identities that use the limiter often.
MCRequests ==
    {Ask(hA, "decision", a), Ask(hA, "decision", b),
     Ask(hAdmin, "decision", b), Ask(hAdmin, "demo", None),
     Ask(hEmpty, "demo", None), Ask(hBasic, "history", a),
     Ask(None, "history", a), Ask(None, "arc", b), Ask(None, "health", None)}

MCConfigs ==
    {[api_key |-> None, agent_api_keys |-> a :> keyA, limit |-> 2],
     [api_key |-> admin, agent_api_keys |-> <<>>, limit |-> 2],
     [api_key |-> None, agent_api_keys |-> <<>>, limit |-> 0]}
===============================================================================
