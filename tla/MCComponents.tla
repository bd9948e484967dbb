----------------------------- MODULE MCComponents ------------------------------
(* Four components side by side, which share no state: a behavior is one of  *)
(* `component`, and the others stay as they began.                           *)
EXTENDS GoPlusCache, AddressLists, WalletAgeSearch, OaaAttestation, TLC

VARIABLE component

MCTimestamp == [b \in Blocks |-> 2 * b + 1]

Init ==
    /\ component \in {"cache", "lists", "age", "oaa"}
    /\ CacheInit /\ ListInit /\ OaaInit
    /\ AgeInit
    /\ component # "age" => latest = 0 /\ account = [b \in Blocks |-> FALSE]

Next ==
    \/ /\ component = "cache" /\ CacheNext
       /\ UNCHANGED <<component, listVars, ageVars, oaaVars>>
    \/ /\ component = "lists" /\ ListNext
       /\ UNCHANGED <<component, cacheVars, ageVars, oaaVars>>
    \/ /\ component = "age" /\ AgeNext
       /\ UNCHANGED <<component, cacheVars, listVars, oaaVars>>
    \/ /\ component = "oaa" /\ OaaNext
       /\ UNCHANGED <<component, cacheVars, listVars, ageVars>>

Spec == Init /\ [][Next]_<<component, cacheVars, listVars, ageVars, oaaVars>>

\* The type invariants of the four components.
TypeOK == CacheTypeOK /\ ListTypeOK /\ AgeTypeOK /\ OaaTypeOK

Symmetry == Permutations(Lookups) \cup Permutations(CacheKeys)
===============================================================================
