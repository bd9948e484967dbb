-------------------------- MODULE MCGuardianValidator --------------------------
(* Instances of GuardianValidator for TLC. *)
EXTENDS GuardianValidator, TLC

Symmetry == Permutations(Signers) \cup Permutations(RequestIds) \cup Permutations(CallData)
===============================================================================
