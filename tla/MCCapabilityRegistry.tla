------------------------- MODULE MCCapabilityRegistry -------------------------
(* Instances of CapabilityRegistry for TLC. *)
EXTENDS CapabilityRegistry, TLC

CONSTANTS a1, transfer, approve, base

Grant1(types, perAction, daily, expires) ==
    [agent_id |-> a1, allowed_action_types |-> types, allowed_chains |-> None,
     max_amount_per_action |-> perAction, max_daily_amount |-> daily,
     expires_at |-> expires]

Attempt(type, amount) ==
    [agent_id |-> a1, action_type |-> type, chain |-> base, amount |-> amount]

\* One grant whose limit an attempt can reach alone, one that is stricter in
\* everything else and expires.
MCCapabilities == {Grant1(None, None, 2, None), Grant1({transfer}, 1, 3, 1)}

MCIntents == {Attempt(transfer, 1), Attempt(approve, 2)}

\* The first of them alone.
OneCapability == {Grant1(None, None, 2, None)}

Symmetry == Permutations(Calls)
===============================================================================
