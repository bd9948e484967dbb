---------------------------- MODULE WalletAgeSearch ----------------------------
(***************************************************************************)
(* RpcWalletDataProvider.get_profile with estimate_age                     *)
(* (guardian/intelligence/wallet/providers.py): the age of a wallet from a *)
(* binary search for its first active block, one call to the archive node  *)
(* at a time, each of which may fail.                                      *)
(***************************************************************************)
EXTENDS Integers

CONSTANTS
    SearchCap,    \* the 32 rounds of the search
    MaxBlock,     \* bound of the block numbers, for model checking
    Timestamp,    \* the time of every block
    Day,          \* 86400
    NoAge         \* Python's None

ASSUME AgeAssumption ==
    /\ SearchCap \in Nat
    /\ MaxBlock \in Nat
    /\ Timestamp \in [0 .. MaxBlock -> Nat]
    /\ \A b, c \in 0 .. MaxBlock : b <= c => Timestamp[b] <= Timestamp[c]
    /\ Day \in Nat \ {0}
    /\ NoAge \notin Nat

VARIABLES
    account,  \* the wallet: the blocks at which it has a nonce or a balance
    probe,    \* where get_profile has got to
    latest,   \* latest_block
    lo, hi,   \* the interval the first active block is searched in
    rounds,   \* of the loop, so far
    age       \* age_days

ageVars == <<account, probe, latest, lo, hi, rounds, age>>

Blocks == 0 .. MaxBlock

AgeTypeOK ==
    /\ account \in [Blocks -> BOOLEAN]
    /\ probe \in {"profile", "head", "search", "blocks", "done"}
    /\ latest \in Blocks
    /\ lo \in Nat /\ hi \in Blocks
    /\ lo <= hi /\ hi <= latest
    /\ rounds \in 0 .. SearchCap
    /\ age \in Nat \cup {NoAge}

\* The balance of an account without a nonce may return to zero.
AgeInit ==
    /\ account \in [Blocks -> BOOLEAN]
    /\ latest \in Blocks
    /\ probe = "profile"
    /\ lo = 0 /\ hi = 0 /\ rounds = 0
    /\ age = NoAge

\* The nonce and the code; then the age, if estimate_age is on.
Profile ==
    /\ probe = "profile"
    /\ probe' \in {"head", "done"}
    /\ UNCHANGED <<account, latest, lo, hi, rounds, age>>

\* Mutant: the search begins without a look at the latest block.
CheckHeadSkipped ==
    /\ probe = "head"
    /\ probe' = "search"
    /\ lo' = 0 /\ hi' = latest
    /\ UNCHANGED <<account, latest, rounds, age>>

\* active_at(latest_block)
CheckHead ==
    /\ probe = "head"
    /\ probe' = IF account[latest] THEN "search" ELSE "done"
    /\ lo' = 0 /\ hi' = latest
    /\ UNCHANGED <<account, latest, rounds, age>>

Mid == (lo + hi) \div 2

\* A round of the loop.
ProbeMid ==
    /\ probe = "search" /\ rounds < SearchCap /\ lo < hi
    /\ rounds' = rounds + 1
    /\ IF account[Mid] THEN hi' = Mid /\ UNCHANGED lo
                       ELSE lo' = Mid + 1 /\ UNCHANGED hi
    /\ UNCHANGED <<account, probe, latest, age>>

\* Mutant: the search ends with two blocks left.
EndSearchEarly ==
    /\ probe = "search" /\ (rounds = SearchCap \/ lo + 1 >= hi)
    /\ probe' = "blocks"
    /\ UNCHANGED <<account, latest, lo, hi, rounds, age>>

EndSearch ==
    /\ probe = "search" /\ (rounds = SearchCap \/ lo >= hi)
    /\ probe' = "blocks"
    /\ UNCHANGED <<account, latest, lo, hi, rounds, age>>

\* max(0, seconds // 86400)
Days(first) == (Timestamp[latest] - Timestamp[first]) \div Day

ReadBlocks ==
    /\ probe = "blocks"
    /\ age' = Days(hi)
    /\ probe' = "done"
    /\ UNCHANGED <<account, latest, lo, hi, rounds>>

\* Any call to the node may fail: the age is unknown.
NodeFails ==
    /\ probe # "done"
    /\ probe' = "done"
    /\ UNCHANGED <<account, latest, lo, hi, rounds, age>>

AgeNext == Profile \/ CheckHead \/ ProbeMid \/ EndSearch \/ ReadBlocks \/ NodeFails

AgeSpec == AgeInit /\ [][AgeNext]_ageVars

-------------------------------------------------------------------------------
(* Properties *)

\* An age is "never a fabricated number" (wallet/providers.py:77-84): the
\* wallet was active at least that long ago, however its activity came and
\* went and wherever the search stopped.
AgeNeverOverstated ==
    probe = "done" /\ age # NoAge =>
        \E b \in 0 .. latest : account[b] /\ age <= Days(b)

\* Once active, the wallet stays so: it has sent a transaction or never been
\* emptied.
ActiveForGood ==
    \A b, c \in 0 .. latest : b <= c /\ account[b] => account[c]

\* How many blocks n rounds can tell apart.
Reach[n \in 0 .. SearchCap] == IF n = 0 THEN 1 ELSE 2 * Reach[n - 1]

\* The age is exact on a chain the capped search can cover
\* (wallet/providers.py:161-170, "log2(latest_block) is ~25").
AgeIsExact ==
    probe = "done" /\ age # NoAge /\ ActiveForGood /\ latest < Reach[SearchCap] =>
        \A b \in 0 .. latest : account[b] => Days(b) <= age
===============================================================================
