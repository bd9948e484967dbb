--------------------------- MODULE GuardianValidator ---------------------------
(***************************************************************************)
(* onchain/src/GuardianValidator.sol with the signer that feeds it,        *)
(* guardian/onchain_attestation.py, and the ERC-4337 EntryPoint that calls *)
(* it (external: OpenZeppelin and the EntryPoint are not in the            *)
(* repository).  The module binds one chain and one EntryPoint; hashing    *)
(* and ECDSA are taken to be injective: a digest is the record it is the   *)
(* hash of, and a signature is the pair of its digest and its signer.      *)
(*                                                                         *)
(* A transaction is atomic on chain: one that reverts changes nothing and  *)
(* is not an action.                                                       *)
(***************************************************************************)
EXTENDS Integers, Sequences, FiniteSets

CONSTANTS
    Accounts, CallData,
    Signers,      \* the keys of Guardian deployments
    ZeroAddress,  \* address(0): no signer installed
    RequestIds,
    Ttl,          \* ttl_seconds
    Skew,         \* how far a signer's clock is from block.timestamp
    MaxNonce, MaxTime, MaxAttestations  \* bounds for model checking

ASSUME ValidatorAssumption ==
    /\ ZeroAddress \notin Signers
    /\ Ttl \in Nat /\ Skew \in Nat /\ MaxNonce \in Nat
    /\ MaxTime \in Nat /\ MaxAttestations \in Nat

Decisions == {"ALLOW", "WARN", "BLOCK"}

\* What the attestation of one UserOperation hashes.
Digest == [account : Accounts, nonce : Nat, callData : CallData,
           decision : Decisions, expiry : Int, requestId : RequestIds]

VARIABLES
    guardianSignerOf, consumed,  \* the contract's storage
    nonceOf,                     \* the EntryPoint's next nonce of each account
    time,                        \* block.timestamp
    attestations,                \* signatures handed out: [digest, signer]
    accepted                     \* history: the validations that succeeded

vars == <<guardianSignerOf, consumed, nonceOf, time, attestations, accepted>>

Attestation == [digest : Digest, signer : Signers]

Acceptance == [digest : Digest, signer : Signers, at : Nat, path : {"entryPoint", "direct"}]

TypeOK ==
    /\ guardianSignerOf \in [Accounts -> Signers \cup {ZeroAddress}]
    /\ consumed \subseteq Digest
    /\ nonceOf \in [Accounts -> Nat]
    /\ time \in Nat
    /\ attestations \subseteq Attestation
    /\ accepted \in Seq(Acceptance)

Init ==
    /\ guardianSignerOf = [a \in Accounts |-> ZeroAddress]
    /\ consumed = {}
    /\ nonceOf = [a \in Accounts |-> 0]
    /\ time = 0
    /\ attestations = {}
    /\ accepted = <<>>

-------------------------------------------------------------------------------
(* The account owner's calls. *)

\* The zero address is a legal argument and leaves the module uninstalled.
OnInstall(a, signer) ==
    /\ guardianSignerOf[a] = ZeroAddress
    /\ guardianSignerOf' = [guardianSignerOf EXCEPT ![a] = signer]
    /\ UNCHANGED <<consumed, nonceOf, time, attestations, accepted>>

\* The consumed digests stay.
OnUninstall(a) ==
    /\ guardianSignerOf[a] # ZeroAddress
    /\ guardianSignerOf' = [guardianSignerOf EXCEPT ![a] = ZeroAddress]
    /\ UNCHANGED <<consumed, nonceOf, time, attestations, accepted>>

-------------------------------------------------------------------------------
(* sign_onchain_attestation: whatever Guardian decided is signed, with an    *)
(* expiry taken from the signer's own clock; a request id may be repeated,   *)
(* because the caller may supply it.                                         *)

\* Mutant: a decision code the contract does not define is signed too.
SignableAnyCode ==
    [account : Accounts, nonce : 0 .. MaxNonce, callData : CallData,
     decision : Decisions \cup {"OTHER"}, expiry : {time + Ttl}, requestId : RequestIds]

Signable ==
    [account : Accounts, nonce : 0 .. MaxNonce, callData : CallData,
     decision : Decisions, expiry : time + Ttl - Skew .. time + Ttl + Skew,
     requestId : RequestIds]

Sign(signer, d) ==
    /\ Cardinality(attestations) < MaxAttestations
    /\ attestations' = attestations \cup {[digest |-> d, signer |-> signer]}
    /\ UNCHANGED <<guardianSignerOf, consumed, nonceOf, time, accepted>>

-------------------------------------------------------------------------------
(* validateUserOp: `d` is the digest computed from the operation and the     *)
(* fields decoded from userOp.signature, `s` the signature found there.      *)

\* Mutant: any valid signature will do, whoever made it.
RecoversAnyone(d, s, signer) == s.digest = d

\* Mutant: the signature is not bound to the operation.
RecoversAnything(d, s, signer) == s.signer = signer

\* ECDSA: a signature over another digest recovers to nobody's address.
Recovers(d, s, signer) == s.digest = d /\ s.signer = signer

\* Mutant: the expiry is not checked.
ValidatesForever(d, s) ==
    /\ guardianSignerOf[d.account] # ZeroAddress
    /\ d \notin consumed
    /\ Recovers(d, s, guardianSignerOf[d.account])
    /\ d.decision = "ALLOW"

Validates(d, s) ==
    /\ guardianSignerOf[d.account] # ZeroAddress
    /\ d \notin consumed
    /\ Recovers(d, s, guardianSignerOf[d.account])
    /\ d.decision = "ALLOW"
    /\ time <= d.expiry

Accepting(d, s, path) == [digest |-> d, signer |-> s.signer, at |-> time, path |-> path]

\* Mutant: the digest is not marked as used.
ConsumeNothing(d, s, path) ==
    /\ consumed' = consumed
    /\ accepted' = Append(accepted, Accepting(d, s, path))

Consume(d, s, path) ==
    /\ consumed' = consumed \cup {d}
    /\ accepted' = Append(accepted, Accepting(d, s, path))

\* EntryPoint.handleOps: validates, checks that the nonce is the next one,
\* and runs the call.  A failed validation reverts the whole transaction.
HandleOp(d, s) ==
    /\ Validates(d, s)
    /\ d.nonce = nonceOf[d.account]
    /\ Consume(d, s, "entryPoint")
    /\ nonceOf' = [nonceOf EXCEPT ![d.account] = @ + 1]
    /\ UNCHANGED <<guardianSignerOf, time, attestations>>

\* Mutant: the digest is marked as used before the checks.
ValidateDirectlyMarksFirst(d, s) ==
    /\ guardianSignerOf[d.account] # ZeroAddress /\ d \notin consumed
    /\ consumed' = consumed \cup {d}
    /\ accepted' = IF Validates(d, s) THEN Append(accepted, Accepting(d, s, "direct"))
                   ELSE accepted
    /\ UNCHANGED <<guardianSignerOf, nonceOf, time, attestations>>

\* The validator called by another path, which tracks no nonce.  A missing
\* signer and a used digest revert; whatever else is wrong is answered with
\* SIG_VALIDATION_FAILED, in a transaction that succeeds.
ValidateDirectly(d, s) ==
    /\ guardianSignerOf[d.account] # ZeroAddress /\ d \notin consumed
    /\ IF Validates(d, s) THEN Consume(d, s, "direct") ELSE UNCHANGED <<consumed, accepted>>
    /\ UNCHANGED <<guardianSignerOf, nonceOf, time, attestations>>

\* The account's nonce also moves with operations other validators pass.
OtherOperation(a) ==
    /\ nonceOf[a] < MaxNonce
    /\ nonceOf' = [nonceOf EXCEPT ![a] = @ + 1]
    /\ UNCHANGED <<guardianSignerOf, consumed, time, attestations, accepted>>

NextBlock ==
    /\ time < MaxTime
    /\ time' = time + 1
    /\ UNCHANGED <<guardianSignerOf, consumed, nonceOf, attestations, accepted>>

\* Any digest that appears in a signature handed out, and any other field put
\* in its place.
Presentable == {s.digest : s \in attestations}
                   \cup {[s.digest EXCEPT !.decision = "ALLOW"] : s \in attestations}
                   \cup {[s.digest EXCEPT !.expiry = @ + 1] : s \in attestations}

Next ==
    \/ \E a \in Accounts, signer \in Signers \cup {ZeroAddress} : OnInstall(a, signer)
    \/ \E a \in Accounts : OnUninstall(a) \/ OtherOperation(a)
    \/ \E signer \in Signers, d \in Signable : Sign(signer, d)
    \/ \E d \in Presentable, s \in attestations : HandleOp(d, s) \/ ValidateDirectly(d, s)
    \/ NextBlock

Spec == Init /\ [][Next]_vars

-------------------------------------------------------------------------------
(* Properties *)

\* An attestation lets one operation through, once: not again by another
\* path, and not again after the module has been removed and installed anew
\* (GuardianValidator.sol:84-94, 201-203, 227).
SingleUse ==
    \A m, n \in DOMAIN accepted :
        accepted[m].digest = accepted[n].digest => m = n

\* Whatever was let through had been allowed by Guardian: the signer the
\* account trusted at that moment had signed an ALLOW for exactly this
\* account, nonce and call, and it had not expired.
OnlyAttested ==
    \A n \in DOMAIN accepted :
        LET e == accepted[n]
        IN  /\ [digest |-> e.digest, signer |-> e.signer] \in attestations
            /\ e.digest.decision = "ALLOW"
            /\ e.at <= e.digest.expiry

\* Of several attestations outstanding for an account, a nonce or a request
\* id, each stays good until it is spent itself, expires, or its signer is
\* removed: neither the use of another one nor an attempt that fails, with
\* another signature or an altered field, uses it up
\* (GuardianValidator.sol:201-203, 217-227).
KeptUntilSpent ==
    [][\A s \in attestations : Validates(s.digest, s) =>
        \/ Validates(s.digest, s)'
        \/ accepted' # accepted /\ accepted'[Len(accepted')].digest = s.digest
        \/ time' > s.digest.expiry
        \/ guardianSignerOf'[s.digest.account] # s.signer]_vars

\* An account passes only what was signed by the key installed for it right
\* now: removing or replacing the signer takes effect at once on the
\* attestations already handed out, and none passes for an account with no
\* signer (GuardianValidator.sol:79-82, 176-179, 217).
TrustedNow ==
    [][Len(accepted') > Len(accepted) =>
        LET e == accepted'[Len(accepted')]
        IN  e.signer = guardianSignerOf[e.digest.account]
            /\ e.signer = guardianSignerOf'[e.digest.account]
            /\ e.signer # ZeroAddress]_vars

-------------------------------------------------------------------------------
(* The gate implements AttestedExecution: a permit is a signed attestation,  *)
(* a spent one an acceptance.                                                *)

PermitOf(e) == [digest |-> e.digest, signer |-> e.signer]

PermitAllows(p) == p.digest.decision = "ALLOW"
PermitOperation(p) == [account |-> p.digest.account, nonce |-> p.digest.nonce,
                       callData |-> p.digest.callData]

Gate == INSTANCE AttestedExecution WITH
    Operations <- [account : Accounts, nonce : Nat, callData : CallData],
    Permits <- Attestation,
    OperationOf <- PermitOperation,
    MayPass <- PermitAllows,
    issued <- attestations,
    passed <- [n \in DOMAIN accepted |-> PermitOf(accepted[n])]

\* Every behaviour of the validator is one of the gate.
Implements == Gate!Spec
===============================================================================
