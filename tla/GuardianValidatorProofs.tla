------------------------ MODULE GuardianValidatorProofs ------------------------
(* Proofs about GuardianValidator, for all values of its constants. *)
EXTENDS GuardianValidator, SequenceTheorems, TLAPS

-------------------------------------------------------------------------------
(* Type correctness *)

\* Whatever is signed or presented is a digest.
LEMMA SignableType ==
    ASSUME TypeOK
    PROVE  Signable \subseteq Digest
BY ValidatorAssumption DEF TypeOK, Signable, Digest

LEMMA PresentableType ==
    ASSUME TypeOK
    PROVE  Presentable \subseteq Digest
<1> SUFFICES ASSUME NEW d \in Presentable PROVE d \in Digest
  OBVIOUS
<1>1. \A s \in attestations : s.digest \in Digest
  BY DEF TypeOK, Attestation
<1>2. \A e \in Digest : [e EXCEPT !.decision = "ALLOW"] \in Digest
  BY DEF Digest, Decisions
<1>3. \A e \in Digest : [e EXCEPT !.expiry = @ + 1] \in Digest
  BY DEF Digest
<1>4. QED
  BY <1>1, <1>2, <1>3 DEF Presentable

LEMMA AcceptingType ==
    ASSUME TypeOK, NEW d \in Digest, NEW s \in attestations,
           NEW path \in {"entryPoint", "direct"}
    PROVE  Accepting(d, s, path) \in Acceptance
BY DEF TypeOK, Attestation, Acceptance, Accepting

\* A successful validation appends a well-formed entry.
LEMMA ConsumeType ==
    ASSUME TypeOK, NEW d \in Digest, NEW s \in attestations,
           NEW path \in {"entryPoint", "direct"}, Consume(d, s, path)
    PROVE  /\ consumed' \subseteq Digest
           /\ accepted' \in Seq(Acceptance)
<1>1. Accepting(d, s, path) \in Acceptance
  BY AcceptingType
<1>2. QED
  BY <1>1 DEF TypeOK, Consume

LEMMA TypeInit == Init => TypeOK
BY DEF Init, TypeOK

LEMMA TypeNext == TypeOK /\ [Next]_vars => TypeOK'
<1> SUFFICES ASSUME TypeOK, [Next]_vars PROVE TypeOK'
  OBVIOUS
<1>1. ASSUME NEW a \in Accounts, NEW signer \in Signers \cup {ZeroAddress},
             OnInstall(a, signer)
      PROVE  TypeOK'
  BY <1>1 DEF TypeOK, OnInstall
<1>2. ASSUME NEW a \in Accounts, OnUninstall(a)
      PROVE  TypeOK'
  BY <1>2 DEF TypeOK, OnUninstall
<1>3. ASSUME NEW a \in Accounts, OtherOperation(a)
      PROVE  TypeOK'
  BY <1>3 DEF TypeOK, OtherOperation
<1>4. ASSUME NEW signer \in Signers, NEW d \in Signable, Sign(signer, d)
      PROVE  TypeOK'
  <2>1. [digest |-> d, signer |-> signer] \in Attestation
    BY SignableType DEF Attestation
  <2>2. QED
    BY <1>4, <2>1 DEF TypeOK, Sign
<1>5. ASSUME NEW d \in Presentable, NEW s \in attestations, HandleOp(d, s)
      PROVE  TypeOK'
  <2>1. d \in Digest /\ d.account \in Accounts
    BY PresentableType DEF Digest
  <2>2. consumed' \subseteq Digest /\ accepted' \in Seq(Acceptance)
    BY <1>5, <2>1, ConsumeType DEF HandleOp
  <2>3. nonceOf' \in [Accounts -> Nat]
    BY <1>5, <2>1 DEF TypeOK, HandleOp
  <2>4. QED
    BY <1>5, <2>2, <2>3 DEF TypeOK, HandleOp
<1>6. ASSUME NEW d \in Presentable, NEW s \in attestations, ValidateDirectly(d, s)
      PROVE  TypeOK'
  <2>1. CASE Validates(d, s)
    <3>1. Consume(d, s, "direct")
      BY <1>6, <2>1 DEF ValidateDirectly
    <3>2. consumed' \subseteq Digest /\ accepted' \in Seq(Acceptance)
      BY <3>1, PresentableType, ConsumeType
    <3>3. QED
      BY <1>6, <3>2 DEF TypeOK, ValidateDirectly
  <2>2. CASE ~Validates(d, s)
    BY <1>6, <2>2 DEF TypeOK, ValidateDirectly
  <2>3. QED
    BY <2>1, <2>2
<1>7. CASE NextBlock
  BY <1>7 DEF TypeOK, NextBlock
<1>8. CASE UNCHANGED vars
  BY <1>8 DEF TypeOK, vars
<1>9. QED
  BY <1>1, <1>2, <1>3, <1>4, <1>5, <1>6, <1>7, <1>8 DEF Next

\* Every reachable state of the contract, its signers and the EntryPoint is
\* well typed.
THEOREM TypeCorrect == Spec => []TypeOK
BY TypeInit, TypeNext, PTL DEF Spec

-------------------------------------------------------------------------------
(* The inductive invariant.  SingleUse needs that an accepted digest stays   *)
(* consumed.                                                                 *)

AcceptedConsumed == \A n \in DOMAIN accepted : accepted[n].digest \in consumed

IInv ==
    /\ TypeOK
    /\ AcceptedConsumed
    /\ SingleUse
    /\ OnlyAttested

LEMMA IInvInit == Init => IInv
BY DEF Init, IInv, TypeOK, AcceptedConsumed, SingleUse, OnlyAttested

\* What appending one acceptance does to the log.
LEMMA AppendAccepted ==
    ASSUME accepted \in Seq(Acceptance), NEW e \in Acceptance,
           accepted' = Append(accepted, e)
    PROVE  /\ Len(accepted') = Len(accepted) + 1
           /\ DOMAIN accepted' = DOMAIN accepted \cup {Len(accepted) + 1}
           /\ Len(accepted) + 1 \notin DOMAIN accepted
           /\ \A n \in DOMAIN accepted : accepted'[n] = accepted[n]
           /\ accepted'[Len(accepted) + 1] = e
OBVIOUS

\* A successful validation preserves all of it.
LEMMA ConsumeSafe ==
    ASSUME IInv, NEW d \in Digest, NEW s \in attestations,
           NEW path \in {"entryPoint", "direct"},
           Validates(d, s), Consume(d, s, path), UNCHANGED attestations
    PROVE  TypeOK' => IInv'
<1> DEFINE e == Accepting(d, s, path)
           last == Len(accepted) + 1
<1>0. TypeOK /\ AcceptedConsumed /\ SingleUse /\ OnlyAttested
  BY DEF IInv
<1>1. e \in Acceptance
  BY <1>0, AcceptingType
<1>2. accepted \in Seq(Acceptance) /\ accepted' = Append(accepted, e)
      /\ consumed' = consumed \cup {d}
  BY <1>0 DEF TypeOK, Consume
<1>3. /\ DOMAIN accepted' = DOMAIN accepted \cup {last}
      /\ last \notin DOMAIN accepted
      /\ \A n \in DOMAIN accepted : accepted'[n] = accepted[n]
      /\ accepted'[last] = e
  BY <1>1, <1>2, AppendAccepted
<1>4. d \notin consumed
  BY DEF Validates
<1>5. [digest |-> d, signer |-> e.signer] \in attestations /\ d.decision = "ALLOW"
      /\ time <= d.expiry
  <2>1. s = [digest |-> d, signer |-> e.signer]
    BY <1>0 DEF Validates, Recovers, TypeOK, Attestation, Accepting
  <2>2. QED
    BY <2>1 DEF Validates
<1> HIDE DEF last
<1>6. AcceptedConsumed'
  BY <1>0, <1>2, <1>3 DEF AcceptedConsumed, Accepting
<1>7. SingleUse'
  BY <1>0, <1>3, <1>4 DEF SingleUse, AcceptedConsumed, Accepting
<1>8. OnlyAttested'
  BY <1>0, <1>3, <1>5 DEF OnlyAttested, Accepting
<1>9. QED
  BY <1>6, <1>7, <1>8 DEF IInv

\* The fields of an acceptance are typed.
LEMMA AcceptedFields ==
    ASSUME TypeOK, NEW n \in DOMAIN accepted
    PROVE  /\ accepted[n] \in Acceptance
           /\ accepted[n].digest.account \in Accounts
<1>1. accepted[n] \in Acceptance
  BY DEF TypeOK
<1>2. QED
  BY <1>1 DEF Acceptance, Digest

LEMMA IInvNext == IInv /\ [Next]_vars => IInv'
<1> SUFFICES ASSUME IInv, [Next]_vars PROVE IInv'
  OBVIOUS
<1>0. TypeOK /\ TypeOK'
  BY TypeNext DEF IInv
<1>1. ASSUME UNCHANGED <<accepted, consumed>>, attestations \subseteq attestations'
      PROVE  IInv'
  BY <1>0, <1>1 DEF IInv, AcceptedConsumed, SingleUse, OnlyAttested
<1>2. ASSUME NEW a \in Accounts, NEW signer \in Signers \cup {ZeroAddress},
             OnInstall(a, signer)
      PROVE  IInv'
  BY <1>1, <1>2 DEF OnInstall
<1>3. ASSUME NEW a \in Accounts, OnUninstall(a) \/ OtherOperation(a)
      PROVE  IInv'
  BY <1>1, <1>3 DEF OnUninstall, OtherOperation
<1>4. ASSUME NEW signer \in Signers, NEW d \in Signable, Sign(signer, d)
      PROVE  IInv'
  BY <1>1, <1>4 DEF Sign
<1>5. ASSUME NEW d \in Presentable, NEW s \in attestations,
             HandleOp(d, s) \/ ValidateDirectly(d, s)
      PROVE  IInv'
  <2>1. d \in Digest
    BY <1>0, PresentableType
  <2>2. CASE HandleOp(d, s)
    BY <1>0, <2>1, <2>2, ConsumeSafe DEF HandleOp
  <2>3. CASE ValidateDirectly(d, s) /\ Validates(d, s)
    BY <1>0, <2>1, <2>3, ConsumeSafe DEF ValidateDirectly
  <2>4. CASE ValidateDirectly(d, s) /\ ~Validates(d, s)
    BY <1>1, <2>4 DEF ValidateDirectly
  <2>5. QED
    BY <1>5, <2>2, <2>3, <2>4
<1>6. CASE NextBlock
  BY <1>1, <1>6 DEF NextBlock
<1>7. CASE UNCHANGED vars
  BY <1>1, <1>7 DEF vars
<1>8. QED
  BY <1>2, <1>3, <1>4, <1>5, <1>6, <1>7 DEF Next

LEMMA Inductive == Spec => []IInv
BY IInvInit, IInvNext, PTL DEF Spec

\* An attestation is used at most once, by any path, across any number of
\* installations (GuardianValidator.sol:84-94).
THEOREM AttestationsAreSingleUse == Spec => []SingleUse
BY Inductive, PTL DEF IInv

\* Nothing passes that the account's trusted signer did not allow.
THEOREM OnlyAttestedPasses == Spec => []OnlyAttested
BY Inductive, PTL DEF IInv

\* A step that accepts does so for the signer trusted before and after it.
THEOREM AcceptsForTrustedSigner == Spec => TrustedNow
<1>1. ASSUME TypeOK, [Next]_vars, Len(accepted') > Len(accepted)
      PROVE  LET e == accepted'[Len(accepted')]
             IN  /\ e.signer = guardianSignerOf[e.digest.account]
                 /\ e.signer = guardianSignerOf'[e.digest.account]
                 /\ e.signer # ZeroAddress
  <2>1. PICK d \in Presentable, s \in attestations :
            HandleOp(d, s) \/ ValidateDirectly(d, s)
    BY <1>1 DEF Next, vars, TypeOK, OnInstall, OnUninstall, OtherOperation, Sign, NextBlock
  <2>2. d \in Digest
    BY <1>1, PresentableType
  <2>3. /\ Validates(d, s)
        /\ \E path \in {"entryPoint", "direct"} : Consume(d, s, path)
    BY <1>1, <2>1 DEF HandleOp, ValidateDirectly, TypeOK
  <2>a. PICK path \in {"entryPoint", "direct"} : accepted' = Append(accepted, Accepting(d, s, path))
    BY <2>3 DEF Consume
  <2>4. Accepting(d, s, path) \in Acceptance
    BY <1>1, <2>2, AcceptingType
  <2>5. accepted'[Len(accepted')] = Accepting(d, s, path)
    BY <1>1, <2>a, <2>4, AppendAccepted DEF TypeOK
  <2>6. /\ guardianSignerOf' = guardianSignerOf
        /\ guardianSignerOf[d.account] # ZeroAddress
        /\ s.signer = guardianSignerOf[d.account]
    BY <2>1, <2>3 DEF HandleOp, ValidateDirectly, Validates, Recovers
  <2>7. QED
    BY <2>5, <2>6 DEF Accepting
<1>2. QED
  BY <1>1, TypeCorrect, PTL DEF Spec, TrustedNow

\* For any number of accounts, signers and outstanding attestations: an
\* attestation that would pass goes on passing until it is spent, expires or
\* loses its signer (GuardianValidator.sol:201-227).
THEOREM AttestationsKeepUntilSpent == Spec => KeptUntilSpent
<1>1. ASSUME TypeOK, [Next]_vars, NEW s \in attestations, Validates(s.digest, s),
             ~(accepted' # accepted /\ accepted'[Len(accepted')].digest = s.digest),
             ~(time' > s.digest.expiry),
             ~(guardianSignerOf'[s.digest.account] # s.signer)
      PROVE  Validates(s.digest, s)'
  <2>1. s.digest \notin consumed'
    <3>1. CASE consumed' = consumed
      BY <1>1, <3>1 DEF Validates
    <3>2. CASE consumed' # consumed
      <4>1. PICK d \in Presentable, o \in attestations :
                HandleOp(d, o) \/ ValidateDirectly(d, o)
        BY <1>1, <3>2 DEF Next, vars, OnInstall, OnUninstall, OtherOperation, Sign, NextBlock
      <4>2. d \in Digest
        BY <1>1, PresentableType
      <4>3. PICK path \in {"entryPoint", "direct"} : Consume(d, o, path)
        BY <3>2, <4>1 DEF HandleOp, ValidateDirectly
      <4>4. Accepting(d, o, path) \in Acceptance
        BY <1>1, <4>2, AcceptingType
      <4>5. accepted' # accepted /\ accepted'[Len(accepted')].digest = d
        BY <1>1, <4>3, <4>4, AppendAccepted DEF TypeOK, Consume, Accepting
      <4>6. QED
        BY <1>1, <4>3, <4>5 DEF Validates, Consume
    <3>3. QED
      BY <3>1, <3>2
  <2>2. time' \in Nat /\ s.digest.expiry \in Int
    BY <1>1, TypeNext DEF TypeOK, Attestation, Digest
  <2>3. guardianSignerOf'[s.digest.account] = guardianSignerOf[s.digest.account]
    BY <1>1 DEF Validates, Recovers
  <2>4. QED
    BY <1>1, <2>1, <2>2, <2>3 DEF Validates, Recovers
<1>2. TypeOK /\ [Next]_vars =>
        \A s \in attestations : Validates(s.digest, s) =>
            \/ Validates(s.digest, s)'
            \/ accepted' # accepted /\ accepted'[Len(accepted')].digest = s.digest
            \/ time' > s.digest.expiry
            \/ guardianSignerOf'[s.digest.account] # s.signer
  BY <1>1
<1>3. QED
  BY <1>2, TypeCorrect, PTL DEF Spec, KeptUntilSpent

-------------------------------------------------------------------------------
(* Refinement of AttestedExecution *)

Permitted == [n \in DOMAIN accepted |-> PermitOf(accepted[n])]

\* Appending an acceptance appends its permit.
LEMMA PermittedAppend ==
    ASSUME TypeOK, NEW e \in Acceptance, accepted' = Append(accepted, e)
    PROVE  Permitted' = Append(Permitted, PermitOf(e))
<1>1. /\ Len(accepted) \in Nat
      /\ DOMAIN accepted = 1 .. Len(accepted)
      /\ DOMAIN accepted' = 1 .. (Len(accepted) + 1)
      /\ \A n \in 1 .. Len(accepted) : accepted'[n] = accepted[n]
      /\ accepted'[Len(accepted) + 1] = e
  BY DEF TypeOK
<1>2. Permitted \in Seq(Attestation)
  <2>1. \A n \in 1 .. Len(accepted) : PermitOf(accepted[n]) \in Attestation
    BY <1>1, AcceptedFields DEF PermitOf, Attestation, Acceptance
  <2>2. Permitted \in [1 .. Len(accepted) -> Attestation]
    BY <1>1, <2>1 DEF Permitted
  <2>3. QED
    BY <1>1, <2>2, SeqDef
<1>3. Len(Permitted) = Len(accepted)
  BY <1>1, <1>2, LenProperties DEF Permitted
<1>4. PermitOf(e) \in Attestation
  BY DEF PermitOf, Attestation, Acceptance
<1>5. LET longer == Append(Permitted, PermitOf(e))
      IN  /\ longer \in [1 .. (Len(accepted) + 1) -> Attestation]
          /\ \A n \in 1 .. Len(accepted) : longer[n] = Permitted[n]
          /\ longer[Len(accepted) + 1] = PermitOf(e)
  <2>1. Append(Permitted, PermitOf(e)) \in Seq(Attestation)
    BY <1>2, <1>4, AppendProperties
  <2>2. Len(Append(Permitted, PermitOf(e))) = Len(accepted) + 1
    BY <1>2, <1>3, <1>4, AppendProperties
  <2>3. Append(Permitted, PermitOf(e)) \in [1 .. (Len(accepted) + 1) -> Attestation]
    BY <2>1, <2>2, LenProperties
  <2>4. QED
    BY <1>2, <1>3, <1>4, <2>3, AppendProperties
<1>6. Permitted' = [n \in 1 .. (Len(accepted) + 1) |-> PermitOf(accepted'[n])]
  BY <1>1 DEF Permitted
<1>7. \A n \in 1 .. (Len(accepted) + 1) :
        PermitOf(accepted'[n]) = Append(Permitted, PermitOf(e))[n]
  <2> SUFFICES ASSUME NEW n \in 1 .. (Len(accepted) + 1)
               PROVE  PermitOf(accepted'[n]) = Append(Permitted, PermitOf(e))[n]
    OBVIOUS
  <2>1. CASE n \in 1 .. Len(accepted)
    <3>1. Permitted[n] = PermitOf(accepted[n])
      BY <1>1, <2>1 DEF Permitted
    <3>2. QED
      BY <1>1, <1>5, <2>1, <3>1
  <2>2. CASE n = Len(accepted) + 1
    BY <1>1, <1>5, <2>2
  <2>3. Len(accepted) \in Nat /\ n \in 1 .. (Len(accepted) + 1)
    BY <1>1
  <2>4. n \in 1 .. Len(accepted) \/ n = Len(accepted) + 1
    BY <2>3, SMT
  <2>5. QED
    BY <2>1, <2>2, <2>4
<1>8. QED
  BY <1>5, <1>6, <1>7

\* A successful validation spends a permit that was issued and not yet spent.
LEMMA ConsumePasses ==
    ASSUME IInv, NEW d \in Digest, NEW s \in attestations,
           NEW path \in {"entryPoint", "direct"},
           Validates(d, s), Consume(d, s, path), UNCHANGED attestations
    PROVE  \E p \in attestations : Gate!Pass(p)
<1> DEFINE e == Accepting(d, s, path)
<1>1. TypeOK /\ AcceptedConsumed
  BY DEF IInv
<1>2. e \in Acceptance
  BY <1>1, AcceptingType
<1>3. Permitted' = Append(Permitted, PermitOf(e))
  BY <1>1, <1>2, PermittedAppend DEF Consume
<1>4. s = PermitOf(e)
  BY <1>1 DEF Validates, Recovers, TypeOK, Attestation, PermitOf, Accepting
<1>5. \A n \in DOMAIN accepted : PermitOf(accepted[n]) # s
  BY <1>1, <1>4 DEF Validates, AcceptedConsumed, PermitOf, Accepting
<1>6. PermitAllows(s)
  BY <1>4 DEF Validates, PermitAllows, PermitOf, Accepting
<1>7. PermitOperation(s) \in [account : Accounts, nonce : Nat, callData : CallData]
  BY <1>4 DEF PermitOperation, PermitOf, Digest, Accepting
<1>8. Gate!Pass(s)
  BY <1>3, <1>4, <1>5, <1>6, <1>7 DEF Gate!Pass, Gate!Spent, Permitted
<1>9. QED
  BY <1>8

LEMMA GateStep == IInv /\ [Next]_vars => [Gate!Next]_<<attestations, Permitted>>
<1> SUFFICES ASSUME IInv, [Next]_vars PROVE [Gate!Next]_<<attestations, Permitted>>
  OBVIOUS
<1>0. TypeOK
  BY DEF IInv
<1>1. ASSUME UNCHANGED <<attestations, accepted>>
      PROVE  [Gate!Next]_<<attestations, Permitted>>
  BY <1>1 DEF Permitted
<1>2. ASSUME NEW signer \in Signers, NEW d \in Signable, Sign(signer, d)
      PROVE  Gate!Next
  <2>1. [digest |-> d, signer |-> signer] \in Attestation
    BY <1>0, SignableType DEF Attestation
  <2>2. Permitted' = Permitted
    BY <1>2 DEF Sign, Permitted
  <2>3. QED
    BY <1>2, <2>1, <2>2 DEF Sign, Gate!Next, Gate!Issue, Permitted
<1>3. ASSUME NEW d \in Presentable, NEW s \in attestations,
             HandleOp(d, s) \/ ValidateDirectly(d, s)
      PROVE  [Gate!Next]_<<attestations, Permitted>>
  <2>1. CASE Validates(d, s)
    BY <1>0, <1>3, <2>1, PresentableType, ConsumePasses
    DEF HandleOp, ValidateDirectly, Gate!Next
  <2>2. CASE ~Validates(d, s)
    BY <1>1, <1>3, <2>2 DEF HandleOp, ValidateDirectly
  <2>3. QED
    BY <2>1, <2>2
<1>4. QED
  BY <1>1, <1>2, <1>3
  DEF Next, vars, OnInstall, OnUninstall, OtherOperation, NextBlock

\* The validator implements the gate an account owner relies on.
THEOREM ValidatorImplementsGate == Spec => Implements
<1>1. Init => Gate!Init
  BY DEF Init, Gate!Init
<1>2. IInv /\ [Next]_vars => [Gate!Next]_<<attestations, Permitted>>
  BY GateStep
<1>3. QED
  BY <1>1, <1>2, Inductive, PTL DEF Spec, Implements, Gate!Spec, Permitted
===============================================================================
