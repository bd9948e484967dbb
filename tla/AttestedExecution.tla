--------------------------- MODULE AttestedExecution ---------------------------
(***************************************************************************)
(* What an on-chain gate promises an account owner: an operation is let    *)
(* through only by spending a permit that the account's trusted signer     *)
(* issued for exactly this operation, and a permit is spent once.  No      *)
(* hashes, clocks of signers, entry points or installation here.           *)
(***************************************************************************)
EXTENDS Naturals, Sequences

CONSTANTS Operations, Permits, OperationOf(_), MayPass(_)

VARIABLES issued, passed   \* permits issued; permits spent, in order

Init == issued = {} /\ passed = <<>>

Spent == {passed[n] : n \in DOMAIN passed}

Issue(p) ==
    /\ issued' = issued \cup {p}
    /\ UNCHANGED passed

Pass(p) ==
    /\ p \in issued \ Spent
    /\ MayPass(p)
    /\ OperationOf(p) \in Operations
    /\ passed' = Append(passed, p)
    /\ UNCHANGED issued

Next ==
    \/ \E p \in issued' : p \in Permits /\ Issue(p)
    \/ \E p \in issued : Pass(p)

Spec == Init /\ [][Next]_<<issued, passed>>
===============================================================================
