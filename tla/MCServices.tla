------------------------------ MODULE MCServices -------------------------------
(* One run for MCComponents and MCArcPayment, which share no state: a         *)
(* behavior is one of `component`, and the others stay as they began.         *)
EXTENDS MCComponents, MCArcPayment

ServicesInit ==
    \/ Init /\ PaymentInit /\ deployed = {<<ArcChain, ArcUSDC>>}
    \/ /\ component = "payment" /\ PaymentInit
       /\ CacheInit /\ ListInit /\ OaaInit
       /\ AgeInit /\ latest = 0 /\ account = [b \in Blocks |-> FALSE]

ServicesNext ==
    \/ component # "payment" /\ Next /\ UNCHANGED payVars
    \/ /\ component = "payment" /\ PaymentNext
       /\ UNCHANGED <<component, cacheVars, listVars, ageVars, oaaVars>>

ServicesSpec ==
    ServicesInit /\ [][ServicesNext]_<<component, cacheVars, listVars, ageVars, oaaVars, payVars>>

ServicesSymmetry == Symmetry \cup PaymentSymmetry
===============================================================================
