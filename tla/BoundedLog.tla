------------------------------ MODULE BoundedLog -------------------------------
(***************************************************************************)
(* What guardian/memory/storage.py promises of append() for one key, and   *)
(* what CapabilityRegistry and DecisionEngine take an append to be: one    *)
(* step that adds one row and drops only rows that have MaxRows newer ones.*)
(* A backend may be late with the dropping by up to slack rows.            *)
(***************************************************************************)
EXTENDS Integers, FiniteSets

CONSTANT MaxRows

VARIABLES
    rows,  \* the ids of the rows a fresh reader sees
    ever,  \* history: every id that was ever stored
    slack  \* how many rows too many this store may keep

LogInit == rows = {} /\ ever = {} /\ slack \in Nat

\* Ids need not arrive in order: a database hands them out before the commit.
Store(id) ==
    /\ id \notin ever
    /\ ever' = ever \cup {id}
    /\ rows' \subseteq rows \cup {id}
    /\ \A e \in ever' \ rows' : Cardinality({n \in ever' : n > e}) >= MaxRows
    /\ Cardinality(rows') <= MaxRows + slack
    /\ UNCHANGED slack

LogNext == \E id \in ever' : Store(id)

LogSpec == LogInit /\ [][LogNext]_<<rows, ever, slack>>
===============================================================================
