---------------------------- MODULE ArcPaymentProofs ----------------------------
(* What /arc/prepare hands out for signing, for any number of requests,      *)
(* tokens and payloads, any builder and any answers of the nodes.            *)
EXTENDS ArcPayment, TLAPS

Fields == DOMAIN NewPayment

Shape ==
    /\ DOMAIN decimals = Engines
    /\ DOMAIN payment = Payments
    /\ \A p \in Payments : DOMAIN payment[p] = Fields

ArcToken == <<ArcChain, ArcUSDC>>

\* The transaction for an accepted payload, once the decimals are known.
FromCache(tx, i) ==
    /\ ArcToken \in DOMAIN decimals["arc"]
    /\ tx = BuildTransfer(i, [decimals |-> decimals["arc"][ArcToken]])

\* Only requests to /arc/prepare get past their evaluation, with a payload
\* that was accepted; what is built for them is determined by the cache.
ArcRequest(p) ==
    LET r == payment[p]
    IN  /\ r.at \in {"decide", "rebuild", "chain", "gas", "prepared"} => r.engine = "arc"
        /\ r.at \notin {"ready", "done"} => r.engine \in Engines
        /\ r.at \notin {"ready", "done"} /\ r.engine = "arc" =>
                /\ Accepts(r.intent)
                /\ r.at = "build" => r.built = Unknown
                /\ Given(r.built) => FromCache(r.built, r.intent)
        /\ r.at \in {"chain", "gas", "prepared"} =>
                Given(r.second) /\ FromCache(r.second, r.intent)

PaymentInv == Shape /\ \A p \in Payments : ArcRequest(p)

-------------------------------------------------------------------------------

LEMMA RememberedKeeps ==
    ASSUME DOMAIN decimals = Engines, NEW e \in Engines, NEW k, NEW answered \in BOOLEAN
    PROVE  LET after == Remembered(e, k, answered)
           IN  /\ DOMAIN after = Engines
               /\ \A f \in Engines : \A j \in DOMAIN decimals[f] :
                      j \in DOMAIN after[f] /\ after[f][j] = decimals[f][j]
               /\ Given(DecimalsOf(e, k, answered)) =>
                      k \in DOMAIN after[e] /\ after[e][k] = DecimalsOf(e, k, answered)
               /\ \A f \in Engines : \A j \in DOMAIN after[f] :
                      \/ j \in DOMAIN decimals[f] /\ after[f][j] = decimals[f][j]
                      \/ j = k /\ answered /\ after[f][j] = ReadDecimals(k)
<1> DEFINE after == Remembered(e, k, answered)
           more == [j \in DOMAIN decimals[e] \cup {k} |->
                        IF j = k THEN ReadDecimals(k) ELSE decimals[e][j]]
<1>1. CASE ~answered \/ k \in DOMAIN decimals[e]
  BY <1>1 DEF Remembered, DecimalsOf, Given
<1>2. CASE answered /\ k \notin DOMAIN decimals[e]
  <2>1. after = [decimals EXCEPT ![e] = more]
    BY <1>2 DEF Remembered
  <2>2. /\ DOMAIN after = Engines /\ after[e] = more
        /\ \A f \in Engines \ {e} : after[f] = decimals[f]
    BY <2>1
  <2>3. /\ DOMAIN more = DOMAIN decimals[e] \cup {k} /\ more[k] = ReadDecimals(k)
        /\ \A j \in DOMAIN decimals[e] : more[j] = decimals[e][j]
    BY <1>2
  <2>4. DecimalsOf(e, k, answered) = ReadDecimals(k)
    BY <1>2 DEF DecimalsOf
  <2> QED
    BY <1>2, <2>2, <2>3, <2>4
<1> QED
  BY <1>1, <1>2

\* No build takes back what a cache holds.
LEMMA BuildsGrow ==
    ASSUME DOMAIN decimals = Engines
    PROVE  \A r : r.engine \in Engines => \A b \in Builds(r) :
                /\ DOMAIN b.decimals = Engines
                /\ \A f \in Engines : \A j \in DOMAIN decimals[f] :
                      j \in DOMAIN b.decimals[f] /\ b.decimals[f][j] = decimals[f][j]
<1> SUFFICES ASSUME NEW r, r.engine \in Engines, NEW b \in Builds(r)
             PROVE  /\ DOMAIN b.decimals = Engines
                    /\ \A f \in Engines : \A j \in DOMAIN decimals[f] :
                          j \in DOMAIN b.decimals[f] /\ b.decimals[f][j] = decimals[f][j]
  OBVIOUS
<1> DEFINE i == r.intent
           k == TokenKey(i.chain, i.from_token)
           client == i.chain \in ClientChains
           asks == client /\ NeedsDecimals(i)
<1>1. PICK answered \in BOOLEAN, quote \in Quotes \cup {Unknown} :
        b = [tx |-> Build(i, [client |-> client, quote |-> quote,
                              decimals |-> IF asks THEN DecimalsOf(r.engine, k, answered)
                                           ELSE Unknown]),
             quote |-> quote,
             decimals |-> IF asks THEN Remembered(r.engine, k, answered) ELSE decimals,
             premature |-> premature
                \cup (IF asks /\ answered /\ k \notin deployed THEN {k} ELSE {})]
  BY DEF Builds
<1>2. b.decimals = IF asks THEN Remembered(r.engine, k, answered) ELSE decimals
  BY <1>1
<1> HIDE DEF k, asks
<1> QED
  BY <1>2, RememberedKeeps

\* What it adds is true but for tokens that are not there yet; a build for an
\* accepted payload is determined by the cache it leaves.
LEMMA BuildsKeep ==
    ASSUME DOMAIN decimals = Engines, NEW r, r.engine \in Engines, NEW b \in Builds(r)
    PROVE  /\ premature \subseteq b.premature
           /\ \A f \in Engines : \A j \in DOMAIN b.decimals[f] \ b.premature :
                  \/ j \in DOMAIN decimals[f] /\ b.decimals[f][j] = decimals[f][j]
                  \/ b.decimals[f][j] = TrueDecimals[j]
           /\ ArcToken \in deployed => (ArcToken \in b.premature => ArcToken \in premature)
           /\ r.engine = "arc" /\ Accepts(r.intent) /\ Given(b.tx) =>
                  /\ ArcToken \in DOMAIN b.decimals["arc"]
                  /\ b.tx = BuildTransfer(r.intent, [decimals |-> b.decimals["arc"][ArcToken]])
<1> DEFINE i == r.intent
           k == TokenKey(i.chain, i.from_token)
           client == i.chain \in ClientChains
           asks == client /\ NeedsDecimals(i)
<1>1. PICK answered \in BOOLEAN, quote \in Quotes \cup {Unknown} :
        b = [tx |-> Build(i, [client |-> client, quote |-> quote,
                              decimals |-> IF asks THEN DecimalsOf(r.engine, k, answered)
                                           ELSE Unknown]),
             quote |-> quote,
             decimals |-> IF asks THEN Remembered(r.engine, k, answered) ELSE decimals,
             premature |-> premature
                \cup (IF asks /\ answered /\ k \notin deployed THEN {k} ELSE {})]
  BY DEF Builds
<1> DEFINE d == IF asks THEN DecimalsOf(r.engine, k, answered) ELSE Unknown
           node == [client |-> client, quote |-> quote, decimals |-> d]
<1>2. /\ b.tx = Build(i, node)
      /\ b.decimals = IF asks THEN Remembered(r.engine, k, answered) ELSE decimals
      /\ b.premature = premature
                \cup (IF asks /\ answered /\ k \notin deployed THEN {k} ELSE {})
  BY <1>1
<1>3. /\ DOMAIN b.decimals = Engines
      /\ \A f \in Engines : \A j \in DOMAIN decimals[f] :
            j \in DOMAIN b.decimals[f] /\ b.decimals[f][j] = decimals[f][j]
      /\ asks /\ Given(d) => k \in DOMAIN b.decimals[r.engine] /\ b.decimals[r.engine][k] = d
      /\ \A f \in Engines : \A j \in DOMAIN b.decimals[f] :
            \/ j \in DOMAIN decimals[f] /\ b.decimals[f][j] = decimals[f][j]
            \/ asks /\ j = k /\ answered /\ b.decimals[f][j] = ReadDecimals(k)
  <2>1. CASE asks
    <3> HIDE DEF k
    <3> QED
      BY <1>2, <2>1, RememberedKeeps
  <2>2. CASE ~asks
    BY <1>2, <2>2
  <2> QED
    BY <2>1, <2>2
<1>4. \A f \in Engines : \A j \in DOMAIN b.decimals[f] \ b.premature :
         \/ j \in DOMAIN decimals[f] /\ b.decimals[f][j] = decimals[f][j]
         \/ b.decimals[f][j] = TrueDecimals[j]
  <2> HIDE DEF k, asks
  <2> QED
    BY <1>2, <1>3 DEF ReadDecimals
<1>5. ASSUME r.engine = "arc", Accepts(i), Given(b.tx)
      PROVE  /\ ArcToken \in DOMAIN b.decimals["arc"]
             /\ b.tx = BuildTransfer(i, [decimals |-> b.decimals["arc"][ArcToken]])
  <2>1. i.action_type = "transfer" /\ k = ArcToken /\ Given(i.target) /\ Given(i.from_token)
    BY <1>5, PaymentAssumption DEF Accepts, ArcToken, TokenKey, Given
  <2>2. LooksLikeAddress(i.from_token) /\ node.client /\ b.tx = BuildTransfer(i, node)
    BY <1>2, <1>5, <2>1 DEF Build, Given
  <2>3. Given(i.amount) /\ Given(d)
    BY <1>5, <2>2 DEF BuildTransfer, Given
  <2>4. asks
    BY <2>1, <2>2, <2>3 DEF NeedsDecimals
  <2>5. ArcToken \in DOMAIN b.decimals["arc"] /\ b.decimals["arc"][ArcToken] = d
    BY <1>3, <1>5, <2>1, <2>3, <2>4
  <2> QED
    BY <2>2, <2>5 DEF BuildTransfer
<1>6. ArcToken \in deployed => (ArcToken \in b.premature => ArcToken \in premature)
  BY <1>2
<1> QED
  BY <1>2, <1>3, <1>4, <1>5, <1>6

\* Nor does the lookup for the comparison with the calldata.
LEMMA VerifyKeeps ==
    ASSUME PaymentInv, NEW p \in Payments, VerifyIntent(p)
    PROVE  /\ payment' = [payment EXCEPT ![p].at = Evaluated(payment[p])]
           /\ payment[p].at = "verify" /\ deployed' = deployed
           /\ premature \subseteq premature'
           /\ ArcToken \in deployed => (ArcToken \in premature' => ArcToken \in premature)
           /\ DOMAIN decimals' = Engines
           /\ \A f \in Engines : \A j \in DOMAIN decimals[f] :
                  j \in DOMAIN decimals'[f] /\ decimals'[f][j] = decimals[f][j]
           /\ \A f \in Engines : \A j \in DOMAIN decimals'[f] :
                  \/ j \in DOMAIN decimals[f] /\ decimals'[f][j] = decimals[f][j]
                  \/ /\ decimals'[f][j] = ReadDecimals(j)
                     /\ j \in deployed \cup premature'
<1> DEFINE k == TokenKey(payment[p].intent.chain, payment[p].intent.from_token)
           e == payment[p].engine
<1>1. /\ payment' = [payment EXCEPT ![p].at = Evaluated(payment[p])]
      /\ payment[p].at = "verify" /\ deployed' = deployed
  BY DEF VerifyIntent
<1>2. PICK answered \in BOOLEAN :
        /\ decimals' = Remembered(e, k, answered)
        /\ premature' = premature \cup (IF answered /\ k \notin deployed THEN {k} ELSE {})
  BY DEF VerifyIntent
<1>3. e \in Engines /\ DOMAIN decimals = Engines
  BY <1>1 DEF PaymentInv, ArcRequest, Shape
<1> HIDE DEF k, e
<1>4. /\ DOMAIN decimals' = Engines
      /\ \A f \in Engines : \A j \in DOMAIN decimals[f] :
             j \in DOMAIN decimals'[f] /\ decimals'[f][j] = decimals[f][j]
      /\ \A f \in Engines : \A j \in DOMAIN decimals'[f] :
             \/ j \in DOMAIN decimals[f] /\ decimals'[f][j] = decimals[f][j]
             \/ j = k /\ answered /\ decimals'[f][j] = ReadDecimals(k)
  BY <1>2, <1>3, RememberedKeeps
<1> QED
  BY <1>1, <1>2, <1>4

-------------------------------------------------------------------------------

LEMMA PaymentInitInv == PaymentInit => PaymentInv
  BY DEF PaymentInit, PaymentInv, Shape, ArcRequest, NewPayment, Fields, Engines

\* What a build writes to the caches leaves the other requests alone.
LEMMA CacheGrows ==
    ASSUME PaymentInv,
           \A f \in Engines : \A j \in DOMAIN decimals[f] :
               j \in DOMAIN decimals'[f] /\ decimals'[f][j] = decimals[f][j],
           NEW p \in Payments, payment'[p] = payment[p]
    PROVE  ArcRequest(p)'
  BY DEF PaymentInv, ArcRequest, FromCache, Engines, Accepts

\* A request moves on, and its transactions stay what they are.
LEMMA StageStep ==
    ASSUME PaymentInv, UNCHANGED decimals, NEW p \in Payments, NEW r,
           DOMAIN r = Fields, payment' = [payment EXCEPT ![p] = r],
           ArcRequest(p)'
    PROVE  PaymentInv'
<1>1. Shape'
  BY DEF PaymentInv, Shape
<1>2. ASSUME NEW q \in Payments, q # p PROVE ArcRequest(q)'
  <2>1. payment'[q] = payment[q]
    BY <1>2 DEF PaymentInv, Shape
  <2> QED
    BY <2>1, CacheGrows
<1> QED
  BY <1>1, <1>2 DEF PaymentInv

LEMMA PaymentNextInv == PaymentInv /\ [PaymentNext]_payVars => PaymentInv'
<1> SUFFICES ASSUME PaymentInv, [PaymentNext]_payVars
             PROVE  PaymentInv'
  OBVIOUS
<1>a. DOMAIN decimals = Engines /\ DOMAIN payment = Payments
  BY DEF PaymentInv, Shape
<1>1. ASSUME NEW p \in Payments, NEW i \in MainIntents, PostDecision(p, i) PROVE PaymentInv'
  <2> DEFINE r == Evaluating("main", i)
  <2>1. /\ DOMAIN r = Fields /\ r.engine = "main" /\ r.at \in {"done", "build"}
    BY DEF Evaluating, NewPayment, Fields
  <2>2. payment' = [payment EXCEPT ![p] = r] /\ UNCHANGED decimals
    BY <1>1 DEF PostDecision
  <2> HIDE DEF r
  <2>3. payment'[p] = r
    BY <1>a, <2>2
  <2>4. ArcRequest(p)'
    BY <2>1, <2>3 DEF ArcRequest, Engines
  <2> QED
    BY <2>1, <2>2, <2>4, StageStep
<1>2. ASSUME NEW p \in Payments, NEW i \in ArcPayloads, PostArcPrepare(p, i) PROVE PaymentInv'
  <2> DEFINE j == [i EXCEPT !.to_token = Unknown]
             r == IF Accepts(i) THEN Evaluating("arc", j) ELSE [NewPayment EXCEPT !.at = "done"]
  <2>1. payment' = [payment EXCEPT ![p] = r] /\ UNCHANGED decimals
    BY <1>2 DEF PostArcPrepare
  <2>2. /\ j.chain = i.chain /\ j.action_type = i.action_type /\ j.from_token = i.from_token
        /\ j.target = i.target /\ j.wallet = i.wallet
    BY PaymentAssumption DEF IntentFields
  <2>3. Accepts(i) => Accepts(j)
    BY <2>2 DEF Accepts
  <2> HIDE DEF j
  <2>4. /\ DOMAIN r = Fields
        /\ r.at \notin {"ready", "done"} => /\ Accepts(i) /\ r.at = "build" /\ r.intent = j
                                           /\ r.engine = "arc" /\ r.built = Unknown
        /\ r.at \in {"build", "done"}
    BY DEF Evaluating, NewPayment, Fields
  <2> HIDE DEF r
  <2>5. payment'[p] = r
    BY <1>a, <2>1
  <2>6. ArcRequest(p)'
    BY <2>3, <2>4, <2>5 DEF ArcRequest, Engines, Given, Accepts
  <2> QED
    BY <2>1, <2>4, <2>6, StageStep
<1>3. ASSUME NEW p \in Payments, BuildForSimulation(p) PROVE PaymentInv'
  <2>1. CASE payment[p].intent.data
    <3> DEFINE r == [payment[p] EXCEPT !.at = "simulate"]
    <3>1. payment' = [payment EXCEPT ![p] = r] /\ UNCHANGED decimals
      BY <1>3, <2>1 DEF BuildForSimulation
    <3>2. DOMAIN r = Fields /\ ArcRequest(p)'
      BY <1>3, <1>a, <3>1 DEF BuildForSimulation, ArcRequest, PaymentInv, Shape, FromCache,
                           Fields, NewPayment, Accepts
    <3> QED
      BY <3>1, <3>2, StageStep
  <2>2. CASE ~payment[p].intent.data
    <3>1. PICK b \in Builds(payment[p]) :
            /\ payment' = [payment EXCEPT ![p].at = "simulate", ![p].built = b.tx,
                                          ![p].quote = b.quote]
            /\ decimals' = b.decimals
      BY <1>3, <2>2 DEF BuildForSimulation
    <3>2. payment[p].engine \in Engines /\ payment[p].at = "build"
      BY <1>3 DEF BuildForSimulation, PaymentInv, ArcRequest
    <3>3. /\ DOMAIN decimals' = Engines
          /\ \A f \in Engines : \A j \in DOMAIN decimals[f] :
                  j \in DOMAIN decimals'[f] /\ decimals'[f][j] = decimals[f][j]
      <4>1. /\ DOMAIN b.decimals = Engines
            /\ \A f \in Engines : \A j \in DOMAIN decimals[f] :
                  j \in DOMAIN b.decimals[f] /\ b.decimals[f][j] = decimals[f][j]
        BY <1>a, <3>1, <3>2, BuildsGrow
      <4> QED
        BY <3>1, <4>1
    <3>4. /\ DOMAIN payment'[p] = Fields
          /\ payment'[p].at = "simulate" /\ payment'[p].built = b.tx
          /\ payment'[p].intent = payment[p].intent
          /\ payment'[p].engine = payment[p].engine
      BY <1>a, <3>1 DEF PaymentInv, Shape, Fields, NewPayment
    <3>5. payment[p].engine = "arc" => Accepts(payment[p].intent)
      BY <3>2 DEF PaymentInv, ArcRequest
    <3>6. payment[p].engine = "arc" /\ Given(b.tx) =>
            /\ ArcToken \in DOMAIN decimals'["arc"]
            /\ b.tx = BuildTransfer(payment[p].intent,
                                    [decimals |-> decimals'["arc"][ArcToken]])
      BY <1>a, <3>1, <3>2, <3>5, BuildsKeep
    <3>7. ArcRequest(p)'
      BY <3>2, <3>4, <3>5, <3>6 DEF ArcRequest, FromCache, Accepts, Given, ArcToken
    <3>8. ASSUME NEW q \in Payments, q # p PROVE ArcRequest(q)'
      <4>1. payment'[q] = payment[q]
        BY <3>1, <3>8, <1>a
      <4> QED
        BY <3>3, <4>1, CacheGrows
    <3>9. Shape'
      BY <3>1, <3>3, <3>4, <1>a DEF PaymentInv, Shape
    <3> QED
      BY <3>7, <3>8, <3>9 DEF PaymentInv
  <2> QED
    BY <2>1, <2>2
<1>4. ASSUME NEW p \in Payments, Simulate(p) PROVE PaymentInv'
  <2>1. PICK run \in {"none", "succeeds", "reverts"} :
          payment' = [payment EXCEPT ![p].dryRun = run,
                    ![p].at = IF Verifies(payment[p].intent) THEN "verify"
                              ELSE Evaluated(payment[p])]
    BY <1>4 DEF Simulate
  <2> DEFINE r == [payment[p] EXCEPT !.dryRun = run,
                    !.at = IF Verifies(payment[p].intent) THEN "verify"
                           ELSE Evaluated(payment[p])]
  <2>2. payment' = [payment EXCEPT ![p] = r] /\ UNCHANGED decimals
    BY <1>4, <2>1 DEF Simulate
  <2>3. DOMAIN r = Fields /\ ArcRequest(p)'
    BY <1>4, <1>a, <2>2 DEF Simulate, ArcRequest, PaymentInv, Shape, FromCache, Fields,
                          NewPayment, Accepts, Evaluated
  <2> QED
    BY <2>2, <2>3, StageStep
<1>5. ASSUME NEW p \in Payments, EvaluateAndGoOn(p) PROVE PaymentInv'
  <2>1. PICK outcome \in {"ALLOW", "WARN", "BLOCK"} :
          payment' = [payment EXCEPT ![p].decision = outcome,
                        ![p].at = IF outcome = "ALLOW" THEN "rebuild" ELSE "done"]
    BY <1>5 DEF EvaluateAndGoOn
  <2> DEFINE r == [payment[p] EXCEPT !.decision = outcome,
                        !.at = IF outcome = "ALLOW" THEN "rebuild" ELSE "done"]
  <2>a. UNCHANGED decimals
    BY <1>5 DEF EvaluateAndGoOn
  <2>2. payment' = [payment EXCEPT ![p] = r] /\ UNCHANGED decimals
    BY <2>1, <2>a
  <2>3. DOMAIN r = Fields /\ ArcRequest(p)'
    BY <1>5, <1>a, <2>2 DEF EvaluateAndGoOn, ArcRequest, PaymentInv, Shape, FromCache,
                          Fields, NewPayment, Accepts
  <2> QED
    BY <2>2, <2>3, StageStep
<1>6. ASSUME NEW p \in Payments, Rebuild(p) PROVE PaymentInv'
  <2>1. PICK b \in Builds(payment[p]) :
          /\ payment' = [payment EXCEPT ![p].second = b.tx,
                                        ![p].at = IF Given(b.tx) THEN "chain" ELSE "done"]
          /\ decimals' = b.decimals
    BY <1>6 DEF Rebuild
  <2>2. /\ payment[p].engine = "arc" /\ payment[p].at = "rebuild" /\ "arc" \in Engines
        /\ Accepts(payment[p].intent)
        /\ Given(payment[p].built) => FromCache(payment[p].built, payment[p].intent)
    BY <1>6 DEF Rebuild, PaymentInv, ArcRequest, Engines
  <2>3. /\ DOMAIN decimals' = Engines
        /\ \A f \in Engines : \A j \in DOMAIN decimals[f] :
                j \in DOMAIN decimals'[f] /\ decimals'[f][j] = decimals[f][j]
        /\ Given(b.tx) =>
            /\ ArcToken \in DOMAIN decimals'["arc"]
            /\ b.tx = BuildTransfer(payment[p].intent,
                                    [decimals |-> decimals'["arc"][ArcToken]])
    BY <1>a, <2>1, <2>2, BuildsGrow, BuildsKeep
  <2>4. /\ DOMAIN payment'[p] = Fields
        /\ payment'[p].at = IF Given(b.tx) THEN "chain" ELSE "done"
        /\ payment'[p].second = b.tx
        /\ payment'[p].built = payment[p].built
        /\ payment'[p].intent = payment[p].intent
        /\ payment'[p].engine = payment[p].engine
    BY <1>a, <2>1 DEF PaymentInv, Shape, Fields, NewPayment
  <2>5. ArcRequest(p)'
    BY <2>2, <2>3, <2>4 DEF ArcRequest, FromCache, Accepts, Given, ArcToken
  <2>6. ASSUME NEW q \in Payments, q # p PROVE ArcRequest(q)'
    <3>1. payment'[q] = payment[q]
      BY <2>1, <2>6, <1>a
    <3> QED
      BY <2>3, <3>1, CacheGrows
  <2>7. Shape'
    BY <2>1, <2>3, <2>4, <1>a DEF PaymentInv, Shape
  <2> QED
    BY <2>5, <2>6, <2>7 DEF PaymentInv
<1>7. ASSUME NEW p \in Payments, CheckChain(p) PROVE PaymentInv'
  <2>1. PICK ok \in BOOLEAN :
          payment' = [payment EXCEPT ![p].at = IF ok THEN "gas" ELSE "done"]
    BY <1>7 DEF CheckChain
  <2> DEFINE r == [payment[p] EXCEPT !.at = IF ok THEN "gas" ELSE "done"]
  <2>2. payment' = [payment EXCEPT ![p] = r] /\ UNCHANGED decimals
    BY <1>7, <2>1 DEF CheckChain
  <2>3. DOMAIN r = Fields /\ ArcRequest(p)'
    BY <1>7, <1>a, <2>2 DEF CheckChain, ArcRequest, PaymentInv, Shape, FromCache, Fields,
                          NewPayment, Accepts
  <2> QED
    BY <2>2, <2>3, StageStep
<1>8. ASSUME NEW p \in Payments, EstimateGas(p) PROVE PaymentInv'
  <2>1. PICK at \in {"prepared", "done"} : payment' = [payment EXCEPT ![p].at = at]
    BY <1>8 DEF EstimateGas
  <2> DEFINE r == [payment[p] EXCEPT !.at = at]
  <2>2. payment' = [payment EXCEPT ![p] = r] /\ UNCHANGED decimals
    BY <1>8, <2>1 DEF EstimateGas
  <2>3. DOMAIN r = Fields /\ ArcRequest(p)'
    BY <1>8, <1>a, <2>2 DEF EstimateGas, ArcRequest, PaymentInv, Shape, FromCache, Fields,
                          NewPayment, Accepts
  <2> QED
    BY <2>2, <2>3, StageStep
<1>9. CASE UNCHANGED <<decimals, payment>>
  BY <1>9 DEF PaymentInv, Shape, ArcRequest, FromCache, Accepts
<1>10. ASSUME NEW p \in Payments, VerifyIntent(p) PROVE PaymentInv'
  <2>1. /\ payment' = [payment EXCEPT ![p].at = Evaluated(payment[p])]
        /\ payment[p].at = "verify" /\ DOMAIN decimals' = Engines
        /\ \A f \in Engines : \A j \in DOMAIN decimals[f] :
                j \in DOMAIN decimals'[f] /\ decimals'[f][j] = decimals[f][j]
    BY <1>10, VerifyKeeps
  <2>2. Shape'
    BY <1>a, <2>1 DEF PaymentInv, Shape
  <2>3. /\ payment'[p].at = Evaluated(payment[p]) /\ payment'[p].built = payment[p].built
        /\ payment'[p].intent = payment[p].intent
        /\ payment'[p].engine = payment[p].engine
    BY <1>a, <2>1 DEF PaymentInv, Shape, Fields, NewPayment
  <2>4. ArcRequest(p)'
    BY <2>1, <2>3 DEF PaymentInv, ArcRequest, FromCache, Accepts, Given, Evaluated, Engines
  <2>5. ASSUME NEW q \in Payments, q # p PROVE ArcRequest(q)'
    <3>1. payment'[q] = payment[q]
      BY <1>a, <2>1, <2>5
    <3> QED
      BY <2>1, <3>1, CacheGrows
  <2> QED
    BY <2>2, <2>4, <2>5 DEF PaymentInv
<1> QED
  BY <1>1, <1>2, <1>3, <1>4, <1>5, <1>6, <1>7, <1>8, <1>9, <1>10
  DEF PaymentNext, PaymentStep, Deploy, payVars

-------------------------------------------------------------------------------

\* Whatever the nodes answer or refuse to answer between the two builds: the
\* transaction handed out is the one that was built for the dry run, if one
\* was (arc.py:97).
THEOREM WhatWasSimulatedIsPrepared == PaymentSpec => []SecondBuildIsTheFirst
<1>1. PaymentInv => SecondBuildIsTheFirst
  BY DEF PaymentInv, ArcRequest, FromCache, SecondBuildIsTheFirst
<1> QED
  BY PaymentInitInv, PaymentNextInv, <1>1, PTL DEF PaymentSpec

-------------------------------------------------------------------------------
(* The cache and the amount *)

\* Steps that build nothing leave the caches alone.
LEMMA CacheStaysTrue == PaymentInv /\ CacheIsTruth /\ [PaymentNext]_payVars => CacheIsTruth'
<1> SUFFICES ASSUME PaymentInv, CacheIsTruth, [PaymentNext]_payVars
             PROVE  CacheIsTruth'
  OBVIOUS
<1>1. CASE UNCHANGED <<decimals, premature>>
  BY <1>1 DEF CacheIsTruth
<1>2. ASSUME NEW p \in Payments, payment[p].engine \in Engines, NEW b \in Builds(payment[p]),
             decimals' = b.decimals, premature' = b.premature
      PROVE  CacheIsTruth'
  <2>1. DOMAIN decimals = Engines
    BY DEF PaymentInv, Shape
  <2>2. /\ premature \subseteq b.premature
        /\ \A f \in Engines : \A j \in DOMAIN b.decimals[f] \ b.premature :
               \/ j \in DOMAIN decimals[f] /\ b.decimals[f][j] = decimals[f][j]
               \/ b.decimals[f][j] = TrueDecimals[j]
    BY <1>2, <2>1, BuildsKeep
  <2> QED
    BY <1>2, <2>2 DEF CacheIsTruth
<1>3. ASSUME NEW p \in Payments, BuildForSimulation(p) PROVE CacheIsTruth'
  <2>1. payment[p].engine \in Engines
    BY <1>3 DEF BuildForSimulation, PaymentInv, ArcRequest
  <2> QED
    BY <1>1, <1>2, <1>3, <2>1 DEF BuildForSimulation
<1>4. ASSUME NEW p \in Payments, Rebuild(p) PROVE CacheIsTruth'
  <2>1. payment[p].engine \in Engines
    BY <1>4 DEF Rebuild, PaymentInv, ArcRequest, Engines
  <2> QED
    BY <1>2, <1>4, <2>1 DEF Rebuild
<1>5. ASSUME NEW p \in Payments, VerifyIntent(p) PROVE CacheIsTruth'
  <2>1. /\ premature \subseteq premature'
        /\ \A f \in Engines : \A j \in DOMAIN decimals'[f] :
               \/ j \in DOMAIN decimals[f] /\ decimals'[f][j] = decimals[f][j]
               \/ decimals'[f][j] = ReadDecimals(j) /\ j \in deployed \cup premature'
    BY <1>5, VerifyKeeps
  <2> QED
    BY <2>1 DEF CacheIsTruth, ReadDecimals
<1> QED
  BY <1>1, <1>3, <1>4, <1>5 DEF PaymentNext, PaymentStep, Deploy, payVars, PostDecision,
       PostArcPrepare, Simulate, EvaluateAndGoOn, CheckChain, EstimateGas

\* Arc's USDC is there from the start, so nobody looks it up too early.
UsdcIsThere == ArcToken \in deployed /\ ArcToken \notin premature

LEMMA UsdcStays == PaymentInv /\ UsdcIsThere /\ [PaymentNext]_payVars => UsdcIsThere'
<1> SUFFICES ASSUME PaymentInv, UsdcIsThere, [PaymentNext]_payVars
             PROVE  UsdcIsThere'
  OBVIOUS
<1>1. CASE deployed \subseteq deployed' /\ UNCHANGED premature
  BY <1>1 DEF UsdcIsThere
<1>2. ASSUME NEW p \in Payments, payment[p].engine \in Engines, NEW b \in Builds(payment[p]),
             deployed' = deployed, premature' = b.premature
      PROVE  UsdcIsThere'
  <2>1. DOMAIN decimals = Engines
    BY DEF PaymentInv, Shape
  <2>2. ArcToken \in deployed => (ArcToken \in b.premature => ArcToken \in premature)
    BY <1>2, <2>1, BuildsKeep
  <2> QED
    BY <1>2, <2>2 DEF UsdcIsThere
<1>3. ASSUME NEW p \in Payments, BuildForSimulation(p) PROVE UsdcIsThere'
  <2>1. payment[p].engine \in Engines
    BY <1>3 DEF BuildForSimulation, PaymentInv, ArcRequest
  <2> QED
    BY <1>1, <1>2, <1>3, <2>1 DEF BuildForSimulation
<1>4. ASSUME NEW p \in Payments, Rebuild(p) PROVE UsdcIsThere'
  <2>1. payment[p].engine \in Engines
    BY <1>4 DEF Rebuild, PaymentInv, ArcRequest, Engines
  <2> QED
    BY <1>2, <1>4, <2>1 DEF Rebuild
<1>5. ASSUME NEW p \in Payments, VerifyIntent(p) PROVE UsdcIsThere'
  BY <1>5, VerifyKeeps DEF UsdcIsThere
<1> QED
  BY <1>1, <1>3, <1>4, <1>5 DEF PaymentNext, PaymentStep, Deploy, payVars, PostDecision,
       PostArcPrepare, Simulate, EvaluateAndGoOn, CheckChain, EstimateGas

\* The hard rules refuse an amount that is not a number or negative; the
\* policy, one beyond the cap.
AmountAllowed(p) ==
    LET r == payment[p]
    IN  /\ r.at \notin {"ready", "done"} /\ r.engine = "arc" =>
                r.intent.amount \in Nat \cup {Unknown}
        /\ r.at \in {"rebuild", "chain", "gas", "prepared"} =>
                /\ r.decision = "ALLOW" /\ r.dryRun # "reverts"
                /\ Amount(r.intent) <= Policy.max_amount_per_action

LEMMA HardRulesOnAmount ==
    ASSUME NEW i, i.amount \in Int \cup {Unknown, NonFinite}, "BLOCK" \notin Severity(i)
    PROVE  i.amount \in Nat \cup {Unknown}
<1>1. \A v \in HardViolations(i) : v.severity # "BLOCK"
  BY DEF Severity
<1>2. i.amount # NonFinite
  <2> SUFFICES ASSUME i.amount = NonFinite PROVE FALSE
    OBVIOUS
  <2>1. Violation("non_finite_amount", "BLOCK") \in HardViolations(i)
    BY DEF HardViolations, When
  <2> QED
    BY <1>1, <2>1 DEF Violation
<1>3. i.amount = Unknown \/ ~(i.amount < 0)
  <2> SUFFICES ASSUME i.amount # Unknown, i.amount < 0 PROVE FALSE
    OBVIOUS
  <2>1. Violation("negative_amount", "BLOCK") \in HardViolations(i)
    BY <1>2 DEF HardViolations, When
  <2> QED
    BY <1>1, <2>1 DEF Violation
<1> QED
  BY <1>2, <1>3

LEMMA PolicyOnAmount ==
    ASSUME NEW r, r.intent.amount \in Nat \cup {Unknown}, NEW rep, NEW size \in {0, 1},
           Decides(r, "ALLOW", rep, size)
    PROVE  Amount(r.intent) <= Policy.max_amount_per_action /\ r.dryRun # "reverts"
<1> DEFINE V == PolicyViolations(r.intent, rep, size)
           exceeds == Violation("amount_exceeds_cap", IF size = 0 THEN "BLOCK" ELSE "WARN")
<1>1. \A v \in V : v.severity # "BLOCK" /\ v.severity # "WARN"
  BY DEF Decides
<1>2. Amount(r.intent) \in Nat
  BY DEF Amount
<1>3. ~(Amount(r.intent) > Cap(size))
  <2> SUFFICES ASSUME Amount(r.intent) > Cap(size) PROVE FALSE
    OBVIOUS
  <2>1. exceeds \in V
    BY DEF PolicyViolations, When
  <2> QED
    BY <1>1, <2>1 DEF Violation
<1>4. Cap(size) \in Nat /\ Cap(size) <= Policy.max_amount_per_action
  BY CapAssumption DEF Cap
<1>5. r.dryRun # "reverts"
  BY DEF Decides
<1> QED
  BY <1>2, <1>3, <1>4, <1>5, CapAssumption

LEMMA AmountStep ==
    PaymentInv /\ (\A p \in Payments : AmountAllowed(p)) /\ [PaymentNext]_payVars
        => \A p \in Payments : AmountAllowed(p)'
<1> SUFFICES ASSUME PaymentInv, \A p \in Payments : AmountAllowed(p), [PaymentNext]_payVars,
                    NEW q \in Payments
             PROVE  AmountAllowed(q)'
  OBVIOUS
<1>a. DOMAIN payment = Payments /\ \A p \in Payments : DOMAIN payment[p] = Fields
  BY DEF PaymentInv, Shape
<1>b. CASE payment'[q] = payment[q]
  BY <1>b DEF AmountAllowed
<1>c. ASSUME payment'[q].engine = payment[q].engine, payment'[q].intent = payment[q].intent,
             payment[q].at \notin {"ready", "done"},
             payment'[q].at \in {"rebuild", "chain", "gas", "prepared"} =>
                 /\ payment[q].at \in {"rebuild", "chain", "gas", "prepared"}
                 /\ payment'[q].decision = payment[q].decision
                 /\ payment'[q].dryRun = payment[q].dryRun
      PROVE  AmountAllowed(q)'
  BY <1>c DEF AmountAllowed, Amount
<1>1. ASSUME NEW i \in MainIntents, PostDecision(q, i) PROVE AmountAllowed(q)'
  <2>1. payment'[q] = Evaluating("main", i)
    BY <1>1, <1>a DEF PostDecision
  <2>2. /\ Evaluating("main", i).engine = "main"
        /\ Evaluating("main", i).at \in {"done", "build"}
    BY DEF Evaluating, NewPayment
  <2> QED
    BY <2>1, <2>2 DEF AmountAllowed
<1>2. ASSUME NEW i \in ArcPayloads, PostArcPrepare(q, i) PROVE AmountAllowed(q)'
  <2> DEFINE j == [i EXCEPT !.to_token = Unknown]
             r == IF Accepts(i) THEN Evaluating("arc", j) ELSE [NewPayment EXCEPT !.at = "done"]
  <2>1. payment'[q] = r
    BY <1>2, <1>a DEF PostArcPrepare
  <2>2. j.amount = i.amount /\ j.amount \in Int \cup {Unknown, NonFinite}
    BY PaymentAssumption DEF IntentFields
  <2> HIDE DEF j
  <2>3. /\ r.at \in {"build", "done"}
        /\ r.at = "build" => r.intent = j /\ "BLOCK" \notin Severity(j)
    BY DEF Evaluating, NewPayment
  <2>4. r.at = "build" => r.intent.amount \in Nat \cup {Unknown}
    BY <2>2, <2>3, HardRulesOnAmount
  <2> HIDE DEF r
  <2> QED
    BY <2>1, <2>3, <2>4 DEF AmountAllowed
<1>3. CASE BuildForSimulation(q)
  <2>0. \/ payment' = [payment EXCEPT ![q].at = "simulate"]
        \/ \E b \in Builds(payment[q]) :
                payment' = [payment EXCEPT ![q].at = "simulate", ![q].built = b.tx,
                                           ![q].quote = b.quote]
    BY <1>3 DEF BuildForSimulation
  <2>1. /\ payment[q].at = "build" /\ payment'[q].at = "simulate"
        /\ payment'[q].engine = payment[q].engine /\ payment'[q].intent = payment[q].intent
    <3>1. payment[q].at = "build"
      BY <1>3 DEF BuildForSimulation
    <3>2. CASE payment' = [payment EXCEPT ![q].at = "simulate"]
      BY <3>1, <3>2, <1>a DEF Fields, NewPayment
    <3>3. ASSUME NEW tx, NEW quote,
                 payment' = [payment EXCEPT ![q].at = "simulate", ![q].built = tx,
                                            ![q].quote = quote]
          PROVE  /\ payment'[q].at = "simulate" /\ payment'[q].engine = payment[q].engine
                 /\ payment'[q].intent = payment[q].intent
      BY <3>3, <1>a DEF Fields, NewPayment
    <3> QED
      BY <3>1, <3>2, <3>3, <2>0
  <2> QED
    BY <1>c, <2>1
<1>4. CASE Simulate(q)
  <2>1. PICK stage \in {"verify", "decide", "done"}, run \in {"none", "succeeds", "reverts"} :
          payment' = [payment EXCEPT ![q].dryRun = run, ![q].at = stage]
    BY <1>4 DEF Simulate, Evaluated
  <2>2. /\ payment[q].at = "simulate" /\ payment'[q].at \in {"verify", "decide", "done"}
        /\ payment'[q].engine = payment[q].engine /\ payment'[q].intent = payment[q].intent
    BY <1>4, <1>a, <2>1 DEF Simulate, Fields, NewPayment
  <2> QED
    BY <1>c, <2>2
<1>5. CASE EvaluateAndGoOn(q)
  <2>1. PICK outcome \in {"ALLOW", "WARN", "BLOCK"}, rep \in {0, 50, 100}, size \in {0, 1} :
          /\ Decides(payment[q], outcome, rep, size)
          /\ payment' = [payment EXCEPT ![q].decision = outcome,
                        ![q].at = IF outcome = "ALLOW" THEN "rebuild" ELSE "done"]
    BY <1>5 DEF EvaluateAndGoOn
  <2>2. /\ payment'[q].at = IF outcome = "ALLOW" THEN "rebuild" ELSE "done"
        /\ payment'[q].decision = outcome /\ payment'[q].dryRun = payment[q].dryRun
        /\ payment'[q].engine = payment[q].engine /\ payment'[q].intent = payment[q].intent
    BY <1>a, <2>1 DEF Fields, NewPayment
  <2>3. payment[q].at = "decide" /\ payment[q].engine = "arc"
    BY <1>5 DEF EvaluateAndGoOn, PaymentInv, ArcRequest
  <2>4. payment[q].intent.amount \in Nat \cup {Unknown}
    BY <2>3 DEF AmountAllowed
  <2>5. outcome = "ALLOW" => /\ Amount(payment[q].intent) <= Policy.max_amount_per_action
                             /\ payment[q].dryRun # "reverts"
    BY <2>1, <2>4, PolicyOnAmount
  <2> QED
    BY <2>2, <2>4, <2>5 DEF AmountAllowed, Amount
<1>6. CASE Rebuild(q)
  <2>1. /\ payment[q].at = "rebuild"
        /\ payment'[q].decision = payment[q].decision /\ payment'[q].dryRun = payment[q].dryRun
        /\ payment'[q].engine = payment[q].engine /\ payment'[q].intent = payment[q].intent
    BY <1>6, <1>a DEF Rebuild, Fields, NewPayment
  <2> QED
    BY <1>c, <2>1
<1>7. CASE CheckChain(q) \/ EstimateGas(q)
  <2>1. /\ payment[q].at \in {"chain", "gas"}
        /\ payment'[q].decision = payment[q].decision /\ payment'[q].dryRun = payment[q].dryRun
        /\ payment'[q].engine = payment[q].engine /\ payment'[q].intent = payment[q].intent
    BY <1>7, <1>a DEF CheckChain, EstimateGas, Fields, NewPayment
  <2> QED
    BY <1>c, <2>1
<1>8. ASSUME NEW p \in Payments, p # q, PaymentStep(p) PROVE payment'[q] = payment[q]
  BY <1>8, <1>a DEF PaymentStep, PostDecision, PostArcPrepare, BuildForSimulation, Simulate,
                    VerifyIntent, EvaluateAndGoOn, Rebuild, CheckChain, EstimateGas
<1>9. CASE VerifyIntent(q)
  <2>1. payment[q].at = "verify" /\ payment' = [payment EXCEPT ![q].at = Evaluated(payment[q])]
    BY <1>9, VerifyKeeps
  <2>2. /\ payment'[q].at \in {"decide", "done"}
        /\ payment'[q].engine = payment[q].engine /\ payment'[q].intent = payment[q].intent
    BY <1>a, <2>1 DEF Evaluated, Fields, NewPayment
  <2> QED
    BY <1>c, <2>1, <2>2
<1>10. PaymentStep(q) => AmountAllowed(q)'
  BY <1>1, <1>2, <1>3, <1>4, <1>5, <1>6, <1>7, <1>9 DEF PaymentStep
<1> QED
  BY <1>b, <1>8, <1>10 DEF PaymentNext, Deploy, payVars

LEMMA UnitsWithinAmount ==
    ASSUME NEW a \in Nat, NEW m \in Nat, a <= m, NEW t \in Nat, NEW u \in Nat \ {0}
    PROVE  ((a * t) \div u) * u <= m * t
<1>1. a * t \in Nat /\ m * t \in Nat /\ a * t <= m * t
  OBVIOUS
<1>2. \A n \in Nat : (n \div u) * u <= n
  OBVIOUS
<1>3. (a * t) \div u \in Nat
  BY <1>1
<1> QED
  BY <1>1, <1>2, <1>3

AllInv ==
    /\ PaymentInv
    /\ CacheIsTruth
    /\ UsdcIsThere
    /\ \A p \in Payments : AmountAllowed(p)

LEMMA PreparedWithinPolicy == AllInv => PreparedPaysWhatWasAllowed
<1> SUFFICES ASSUME AllInv, NEW p \in Payments, payment[p].at = "prepared"
             PROVE  LET i == payment[p].intent
                        tx == payment[p].second
                    IN  /\ payment[p].decision = "ALLOW" /\ payment[p].dryRun # "reverts"
                        /\ tx.to = ArcUSDC /\ tx.value = 0
                        /\ tx.call.fn = "transfer"
                        /\ LooksLikeAddress(i.target) => tx.call.to = i.target
                        /\ tx.call.units * AmountUnit
                             <= Policy.max_amount_per_action
                                    * 10 ^ TrueDecimals[<<ArcChain, ArcUSDC>>]
  BY DEF PreparedPaysWhatWasAllowed
<1> DEFINE i == payment[p].intent
           tx == payment[p].second
           d == decimals["arc"][ArcToken]
<1>1. /\ payment[p].decision = "ALLOW" /\ payment[p].dryRun # "reverts"
      /\ Amount(i) <= Policy.max_amount_per_action
      /\ i.amount \in Nat \cup {Unknown} /\ i.from_token = ArcUSDC
      /\ Given(tx) /\ ArcToken \in DOMAIN decimals["arc"]
      /\ tx = BuildTransfer(i, [decimals |-> d])
  BY DEF AllInv, AmountAllowed, PaymentInv, ArcRequest, FromCache, Accepts
<1>2. d = TrueDecimals[ArcToken]
  BY <1>1 DEF AllInv, CacheIsTruth, UsdcIsThere, Engines
<1> HIDE DEF i, tx, d
<1>3. /\ Given(i.amount)
      /\ tx = Transaction(ArcUSDC, 0, Call("transfer", Encoded(i.target),
                                           AtomicUnits(i.amount, d)))
  BY <1>1 DEF BuildTransfer, Given
<1>4. /\ tx.to = ArcUSDC /\ tx.value = 0 /\ tx.call.fn = "transfer"
      /\ tx.call.to = Encoded(i.target) /\ tx.call.units = AtomicUnits(i.amount, d)
  BY <1>3 DEF Transaction, Call
<1>5. i.amount \in Nat /\ i.amount <= Policy.max_amount_per_action
  BY <1>1, <1>3 DEF Given, Amount
<1> DEFINE t == 10 ^ TrueDecimals[ArcToken]
<1>6. t \in Nat /\ AmountUnit \in Nat \ {0} /\ Policy.max_amount_per_action \in Nat
  BY PaymentAssumption, UnitAssumption, CapAssumption DEF ArcToken, AnyDecimals
<1>7. tx.call.units = (i.amount * t) \div AmountUnit
  BY <1>2, <1>4 DEF AtomicUnits
<1> HIDE DEF t
<1>8. tx.call.units * AmountUnit <= Policy.max_amount_per_action * t
  BY <1>5, <1>6, <1>7, UnitsWithinAmount
<1>9. LooksLikeAddress(i.target) => tx.call.to = i.target
  BY <1>4 DEF Encoded
<1> QED
  BY <1>1, <1>4, <1>8, <1>9 DEF i, tx, t, ArcToken

LEMMA AllInvariant == PaymentSpec => []AllInv
<1>1. PaymentInit => AllInv
  BY PaymentInitInv
  DEF AllInv, PaymentInit, CacheIsTruth, UsdcIsThere, ArcToken, AmountAllowed, NewPayment
<1>2. AllInv /\ [PaymentNext]_payVars => AllInv'
  BY PaymentNextInv, CacheStaysTrue, UsdcStays, AmountStep DEF AllInv
<1> QED
  BY <1>1, <1>2, PTL DEF PaymentSpec

\* For any tokens and any failures of the nodes, what an engine remembers of a
\* token that was there when it asked is true (token/decimals.py:93-114).
THEOREM RememberedDecimalsAreTrue == PaymentSpec => []CacheIsTruth
<1>1. AllInv => CacheIsTruth
  BY DEF AllInv
<1> QED
  BY AllInvariant, <1>1, PTL

\* For any payload and policy whose cap for unknown agents is not the looser
\* one: a prepared transaction was allowed, pays the address the request names
\* (if it names an address) and stays within the cap in the token's own units
\* (arc.py:28-37, 82-131).
THEOREM PreparedStaysWithinPolicy == PaymentSpec => []PreparedPaysWhatWasAllowed
  BY AllInvariant, PreparedWithinPolicy, PTL

-------------------------------------------------------------------------------
(* What a build makes of an intent *)

Node(client, quote, d) == [client |-> client, quote |-> quote, decimals |-> d]

\* The decimals a build may go by.
Decimals == AnyDecimals \cup {Unknown}

LEMMA AtomicUnitsType ==
    ASSUME NEW amount \in Nat, NEW d \in AnyDecimals
    PROVE  AtomicUnits(amount, d) \in Nat
<1> DEFINE scale == 10 ^ d
<1>1. scale \in Nat /\ AmountUnit \in Nat \ {0}
  BY UnitAssumption, PaymentAssumption
<1> HIDE DEF scale
<1>2. (amount * scale) \div AmountUnit \in Nat
  <2>1. amount * scale \in Nat
    BY <1>1
  <2> HIDE DEF scale
  <2>2. \A n \in Nat : n \div AmountUnit \in Nat
    BY <1>1
  <2> QED
    BY <2>1, <2>2
<1> QED
  BY <1>2 DEF AtomicUnits, scale

Least(i, node) == (node.quote * (10000 - i.slippage)) \div 10000

LEMMA SwapThatIsBuilt ==
    ASSUME NEW i, NEW node, Given(BuildSwap(i, node))
    PROVE  /\ SwapIsClear(i) /\ Given(i.amount) /\ i.chain \in DOMAIN Routers
           /\ Given(node.decimals)
           /\ BuildSwap(i, node) = Transaction(Routers[i.chain], 0,
                  [fn |-> "swap", to |-> Recipient(i),
                   units |-> AtomicUnits(i.amount, node.decimals),
                   token |-> i.from_token, gets |-> i.to_token, min |-> Least(i, node)])
<1> DEFINE isBuilt == /\ SwapIsClear(i) /\ node.client
                      /\ Given(node.decimals) /\ Given(node.quote)
                      /\ LooksLikeAddress(Recipient(i))
           tx == Transaction(Routers[i.chain], 0,
                  [fn |-> "swap", to |-> Recipient(i),
                   units |-> AtomicUnits(i.amount, node.decimals),
                   token |-> i.from_token, gets |-> i.to_token, min |-> Least(i, node)])
<1>1. BuildSwap(i, node) = IF isBuilt THEN tx ELSE Unknown
  BY DEF BuildSwap, Least
<1>2. isBuilt => SwapIsClear(i) /\ Given(node.decimals)
  OBVIOUS
<1> HIDE DEF isBuilt, tx
<1>3. isBuilt /\ BuildSwap(i, node) = tx
  BY <1>1 DEF Given
<1>4. SwapIsClear(i) => Given(i.amount) /\ i.chain \in DOMAIN Routers
  BY DEF SwapIsClear
<1> QED
  BY <1>2, <1>3, <1>4 DEF tx

LEMMA BuildType ==
    ASSUME NEW i, i.amount \in Nat \cup {Unknown},
           NEW client, NEW quote, NEW d \in Decimals,
           Given(Build(i, Node(client, quote, d)))
    PROVE  IsTransaction(Build(i, Node(client, quote, d)))
<1> DEFINE node == Node(client, quote, d)
<1>1. /\ Given(i.amount) => AtomicUnits(i.amount, NativeDecimals) \in Nat
      /\ Given(i.amount) /\ Given(d) => AtomicUnits(i.amount, d) \in Nat
      /\ UnlimitedApproval \in Nat
  <2>1. UnlimitedApproval \in Nat
    BY BuilderAssumption DEF UnlimitedApproval
  <2>2. NativeDecimals \in AnyDecimals /\ (Given(d) => d \in AnyDecimals)
    BY DEF Decimals, Given, AnyDecimals
  <2>3. Given(i.amount) => i.amount \in Nat
    BY DEF Given
  <2> QED
    BY <2>1, <2>2, <2>3, AtomicUnitsType
<1>2. node.decimals = d
  BY DEF Node
<1> HIDE DEF node
<1>3. Given(BuildSwap(i, node)) => IsTransaction(BuildSwap(i, node))
  BY <1>1, <1>2, SwapThatIsBuilt DEF IsTransaction, Transaction
<1>4. Given(BuildBridge(i, node)) => IsTransaction(BuildBridge(i, node))
  BY <1>1, <1>2 DEF BuildBridge, BridgeIsClear, Given, IsTransaction, Transaction, Call
<1>5. Given(BuildNative(i)) => IsTransaction(BuildNative(i))
  BY <1>1 DEF BuildNative, Given, IsTransaction, Transaction, Call, NoCall
<1>6. Given(BuildTransfer(i, node)) => IsTransaction(BuildTransfer(i, node))
  BY <1>1, <1>2 DEF BuildTransfer, Given, IsTransaction, Transaction, Call
<1>7. Given(BuildApprove(i, node)) => IsTransaction(BuildApprove(i, node))
  BY <1>1, <1>2 DEF BuildApprove, Given, IsTransaction, Transaction, Call
<1> QED
  BY <1>3, <1>4, <1>5, <1>6, <1>7 DEF Build, Given, node

\* Whatever was built by the true decimals does what was asked: by the kinds of
\* transaction there are.
LEMMA BuildDoesWhatWasAsked ==
    ASSUME NEW i, Meaningful(i), NEW client, NEW quote,
           NEW d, Given(i.from_token) => d \in {Unknown, TrueUnits(i)},
           Given(Build(i, Node(client, quote, d)))
    PROVE  EffectOf(Build(i, Node(client, quote, d)), i.chain, OnChain(i.chain))
               = Asked(i, TrueUnits(i), quote)
<1> DEFINE node == Node(client, quote, d)
           tx == Build(i, node)
           units == AtomicUnits(i.amount, TrueUnits(i))
           native == AtomicUnits(i.amount, NativeDecimals)
<1>1. node.decimals = d /\ node.quote = quote /\ node.client = client
  BY DEF Node
<1> HIDE DEF node
<1>2. \A x : LooksLikeAddress(x) => Given(x) /\ Encoded(x) = x
  BY BuilderAssumption DEF LooksLikeAddress, Given, Encoded
<1>3. Given(i.from_token) => i.from_token \in OnChain(i.chain)
  <2> SUFFICES ASSUME Given(i.from_token) PROVE i.from_token \in OnChain(i.chain)
    OBVIOUS
  <2> DEFINE k == <<i.chain, i.from_token>>
  <2>1. k \in deployed /\ k[1] = i.chain /\ k[2] = i.from_token
    BY DEF Meaningful
  <2> QED
    BY <2>1 DEF OnChain
<1>4. CASE i.action_type = "swap"
  <2>1. tx = BuildSwap(i, node) /\ Given(BuildSwap(i, node))
    BY <1>4 DEF Build, node
  <2>2. /\ SwapIsClear(i) /\ Given(d) /\ Given(i.from_token) /\ Given(i.amount)
        /\ d = TrueUnits(i) /\ i.chain \in DOMAIN Routers
    <3>1. SwapIsClear(i) /\ Given(node.decimals) /\ Given(i.amount) /\ i.chain \in DOMAIN Routers
      BY <2>1, SwapThatIsBuilt
    <3>2. Given(i.from_token)
      BY <1>2, <3>1 DEF SwapIsClear
    <3> QED
      BY <1>1, <3>1, <3>2 DEF Given
  <2> DEFINE least == Least(i, node)
  <2>3. BuildSwap(i, node) = Transaction(Routers[i.chain], 0,
            [fn |-> "swap", to |-> Recipient(i), units |-> units,
             token |-> i.from_token, gets |-> i.to_token, min |-> least])
    BY <1>1, <2>1, <2>2, SwapThatIsBuilt
  <2>4. Asked(i, TrueUnits(i), quote) =
            Effect("swap", i.from_token, units, Recipient(i), i.to_token, least, i.chain)
    BY <1>1, <1>4, <2>2 DEF Asked, Least
  <2>5. /\ tx.to = Routers[i.chain] /\ tx.call.fn = "swap" /\ tx.call.units = units
        /\ tx.call.to = Recipient(i) /\ tx.call.token = i.from_token
        /\ tx.call.gets = i.to_token /\ tx.call.min = least
    BY <2>1, <2>3 DEF Transaction
  <2> HIDE DEF tx, units, least
  <2>6. EffectOf(tx, i.chain, OnChain(i.chain)) =
            Effect("swap", i.from_token, units, Recipient(i), i.to_token, least, i.chain)
    BY <2>2, <2>5 DEF EffectOf
  <2> QED
    BY <2>4, <2>6 DEF tx, node
<1>5. CASE i.action_type = "bridge"
  <2>1. tx = BuildBridge(i, node) /\ Given(BuildBridge(i, node))
    BY <1>5 DEF Build, node
  <2>2. /\ BridgeIsClear(i) /\ Given(i.amount)
        /\ i.chain = L1Chain /\ i.destination \in DOMAIN Bridges
        /\ \A e \in DOMAIN Bridges : Bridges[i.destination] = Bridges[e] => e = i.destination
    BY <1>5, <2>1, BuilderAssumption DEF BuildBridge, BridgeIsClear, Given, Meaningful
  <2>3. CASE ~Given(i.from_token)
    <3>1. tx = Transaction(Bridges[i.destination], native, Call("depositETHTo", Recipient(i), 0))
      BY <1>2, <2>1, <2>2, <2>3 DEF BuildBridge
    <3>2. Asked(i, TrueUnits(i), quote) =
              Effect("pay", Unknown, native, Recipient(i), Unknown, 0, i.destination)
      BY <1>5, <2>2, <2>3 DEF Asked, Given
    <3>3. /\ tx.to = Bridges[i.destination] /\ tx.value = native
          /\ tx.call.fn = "depositETHTo" /\ tx.call.to = Recipient(i) /\ tx.call.gets = Unknown
      BY <3>1 DEF Transaction, Call
    <3> HIDE DEF tx, native
    <3>4. EffectOf(tx, i.chain, OnChain(i.chain)) =
              Effect("pay", Unknown, native, Recipient(i), Unknown, 0, i.destination)
      BY <2>2, <3>3 DEF EffectOf
    <3> QED
      BY <3>2, <3>4 DEF tx, node
  <2>4. CASE Given(i.from_token)
    <3> DEFINE call == [Call("depositERC20To", Recipient(i), AtomicUnits(i.amount, d))
                           EXCEPT !.token = i.from_token, !.gets = i.l2_token]
    <3>1. tx = Transaction(Bridges[i.destination], 0, call) /\ Given(d)
      BY <1>1, <2>1, <2>2, <2>4 DEF BuildBridge, Given
    <3>2. d = TrueUnits(i)
      BY <2>4, <3>1 DEF Given
    <3>3. Asked(i, TrueUnits(i), quote) =
              Effect("pay", i.from_token, units, Recipient(i), i.l2_token, 0, i.destination)
      BY <1>5, <2>2, <2>4 DEF Asked, Given
    <3>4. /\ call.fn = "depositERC20To" /\ call.to = Recipient(i) /\ call.units = units
          /\ call.token = i.from_token /\ call.gets = i.l2_token
      BY <3>2 DEF Call
    <3> HIDE DEF call
    <3>5. tx.to = Bridges[i.destination] /\ tx.call = call
      BY <3>1 DEF Transaction
    <3> HIDE DEF tx, units
    <3>6. EffectOf(tx, i.chain, OnChain(i.chain)) =
              Effect("pay", i.from_token, units, Recipient(i), i.l2_token, 0, i.destination)
      BY <2>2, <3>4, <3>5 DEF EffectOf
    <3> QED
      BY <3>3, <3>6 DEF tx, node
  <2> QED
    BY <2>3, <2>4
<1>6. CASE i.action_type = "transfer" /\ ~Given(i.from_token)
  <2>1. tx = Transaction(i.target, native, NoCall) /\ Given(i.amount)
    BY <1>2, <1>6 DEF Build, BuildNative, Given, node
  <2>2. Asked(i, TrueUnits(i), quote) =
            Effect("pay", Unknown, native, i.target, Unknown, 0, i.chain)
    BY <1>6, <2>1 DEF Asked, Given
  <2>3. tx.to = i.target /\ tx.value = native /\ tx.call.fn = "none"
    BY <2>1 DEF Transaction, NoCall, Call
  <2> HIDE DEF tx, native
  <2>4. EffectOf(tx, i.chain, OnChain(i.chain)) =
            Effect("pay", Unknown, native, i.target, Unknown, 0, i.chain)
    BY <2>3 DEF EffectOf
  <2> QED
    BY <2>2, <2>4 DEF tx, node
<1>7. CASE i.action_type = "transfer" /\ Given(i.from_token)
  <2>1. tx = BuildTransfer(i, node)
    BY <1>7 DEF Build, Given, node
  <2>2. Given(i.amount) /\ d = TrueUnits(i) /\ Encoded(i.target) = i.target
    BY <1>1, <1>2, <1>7, <2>1 DEF BuildTransfer, Given, Meaningful, node
  <2>3. tx = Transaction(i.from_token, 0, Call("transfer", i.target, units))
    BY <1>1, <1>7, <2>1, <2>2 DEF BuildTransfer, Given, node
  <2>4. Asked(i, TrueUnits(i), quote) =
            Effect("pay", i.from_token, units, i.target, Unknown, 0, i.chain)
    BY <1>7, <2>2 DEF Asked
  <2>5. /\ tx.to = i.from_token /\ tx.call.fn = "transfer" /\ tx.call.to = i.target
        /\ tx.call.units = units
    BY <2>3 DEF Transaction, Call
  <2> HIDE DEF tx, units
  <2>6. EffectOf(tx, i.chain, OnChain(i.chain)) =
            Effect("pay", i.from_token, units, i.target, Unknown, 0, i.chain)
    BY <1>3, <1>7, <2>5 DEF EffectOf
  <2> QED
    BY <2>4, <2>6 DEF tx, node
<1>8. CASE i.action_type = "approve"
  <2>1. tx = BuildApprove(i, node) /\ LooksLikeAddress(i.from_token)
    BY <1>8 DEF Build, Given, node
  <2>2. Given(i.from_token) /\ Encoded(i.target) = i.target
    BY <1>2, <1>8, <2>1 DEF Meaningful
  <2>3. Given(i.amount) => d = TrueUnits(i)
    BY <1>1, <2>1, <2>2 DEF BuildApprove, Given, node
  <2> DEFINE asked == IF Given(i.amount) THEN units ELSE UnlimitedApproval
  <2>4. tx = Transaction(i.from_token, 0, Call("approve", i.target, asked))
    <3>1. CASE ~Given(i.amount)
      BY <2>1, <2>2, <3>1 DEF BuildApprove
    <3>2. CASE Given(i.amount)
      BY <1>1, <2>1, <2>2, <2>3, <3>2 DEF BuildApprove, Given, node
    <3> QED
      BY <3>1, <3>2
  <2>5. Asked(i, TrueUnits(i), quote) =
            Effect("allow", i.from_token, asked, i.target, Unknown, 0, i.chain)
    BY <1>8, <2>2 DEF Asked
  <2> HIDE DEF asked
  <2>6. /\ tx.to = i.from_token /\ tx.call.fn = "approve" /\ tx.call.to = i.target
        /\ tx.call.units = asked
    BY <2>4 DEF Transaction, Call
  <2> HIDE DEF tx
  <2>7. EffectOf(tx, i.chain, OnChain(i.chain)) =
            Effect("allow", i.from_token, asked, i.target, Unknown, 0, i.chain)
    BY <1>3, <2>2, <2>6 DEF EffectOf
  <2> QED
    BY <2>5, <2>7 DEF tx, node
<1>9. i.action_type \in {"swap", "bridge", "transfer", "approve"}
  BY DEF Build, Given
<1> QED
  BY <1>4, <1>5, <1>6, <1>7, <1>8, <1>9

\* The decimals a build goes by are those of the token, or the token was looked
\* up too early.
TrueOrPremature(i, d, early) ==
    LET k == TokenKey(i.chain, i.from_token)
    IN  k \in early \/ d \in {Unknown, TrueDecimals[k]}

BuiltBy(tx, i, quote, early) ==
    \E client \in BOOLEAN, d \in Decimals :
        tx = Build(i, Node(client, quote, d)) /\ TrueOrPremature(i, d, early)

CachedAreDecimals ==
    /\ deployed \subseteq Tokens
    /\ DOMAIN decimals = Engines
    /\ \A e \in Engines : \A k \in DOMAIN decimals[e] : decimals[e][k] \in AnyDecimals

LEMMA BuildsAreBuilds ==
    ASSUME CachedAreDecimals, CacheIsTruth,
           NEW r, r.engine \in Engines, NEW b \in Builds(r)
    PROVE  /\ DOMAIN b.decimals = Engines
           /\ \A e \in Engines : \A k \in DOMAIN b.decimals[e] :
                  b.decimals[e][k] \in AnyDecimals
           /\ BuiltBy(b.tx, r.intent, b.quote, b.premature)
<1> DEFINE i == r.intent
           k == TokenKey(i.chain, i.from_token)
           client == i.chain \in ClientChains
           asks == client /\ NeedsDecimals(i)
<1>1. PICK answered \in BOOLEAN, quote \in Quotes \cup {Unknown} :
        b = [tx |-> Build(i, [client |-> client, quote |-> quote,
                              decimals |-> IF asks THEN DecimalsOf(r.engine, k, answered)
                                           ELSE Unknown]),
             quote |-> quote,
             decimals |-> IF asks THEN Remembered(r.engine, k, answered) ELSE decimals,
             premature |-> premature
                \cup (IF asks /\ answered /\ k \notin deployed THEN {k} ELSE {})]
  BY DEF Builds
<1> DEFINE d == IF asks THEN DecimalsOf(r.engine, k, answered) ELSE Unknown
<1>2. /\ b.tx = Build(i, Node(client, quote, d)) /\ b.quote = quote
      /\ b.decimals = IF asks THEN Remembered(r.engine, k, answered) ELSE decimals
      /\ b.premature = premature
                \cup (IF asks /\ answered /\ k \notin deployed THEN {k} ELSE {})
  BY <1>1 DEF Node
<1>3. client \in BOOLEAN
  OBVIOUS
<1> HIDE DEF k, asks, client
<1>4. ReadDecimals(k) \in AnyDecimals
  BY DEF ReadDecimals, CachedAreDecimals, AnyDecimals
<1>5. /\ DOMAIN b.decimals = Engines
      /\ \A e \in Engines : \A j \in DOMAIN b.decimals[e] :
             b.decimals[e][j] \in AnyDecimals
  <2>1. /\ DOMAIN Remembered(r.engine, k, answered) = Engines
        /\ \A f \in Engines : \A j \in DOMAIN Remembered(r.engine, k, answered)[f] :
              \/ /\ j \in DOMAIN decimals[f]
                 /\ Remembered(r.engine, k, answered)[f][j] = decimals[f][j]
              \/ Remembered(r.engine, k, answered)[f][j] = ReadDecimals(k)
    BY RememberedKeeps DEF CachedAreDecimals
  <2> QED
    BY <1>2, <1>4, <2>1 DEF CachedAreDecimals
<1>6. d \in Decimals
  BY <1>4 DEF Decimals, DecimalsOf, CachedAreDecimals
<1>7. k \in b.premature \/ d \in {Unknown, TrueDecimals[k]}
  BY <1>2 DEF DecimalsOf, CacheIsTruth, ReadDecimals
<1>8. TrueOrPremature(i, d, b.premature)
  BY <1>7 DEF TrueOrPremature, k
<1> HIDE DEF d, i
<1> QED
  BY <1>2, <1>3, <1>5, <1>6, <1>8 DEF BuiltBy, i

\* The fields of a request, and a number for its amount once it is evaluated.
TypedRequest(r) ==
    /\ r.at \in PaymentStages /\ r.engine \in Engines
    /\ r.built = Unknown \/ IsTransaction(r.built)
    /\ r.second = Unknown \/ IsTransaction(r.second)
    /\ r.dryRun \in {"none", "succeeds", "reverts"}
    /\ r.decision \in {Unknown, "ALLOW", "WARN", "BLOCK"}
    /\ r.at \notin {"ready", "done"} => r.intent.amount \in Nat \cup {Unknown}

BuiltAsAsked(r, early) == Given(r.built) => BuiltBy(r.built, r.intent, r.quote, early)

BuildInv ==
    /\ CachedAreDecimals
    /\ \A p \in Payments : TypedRequest(payment[p]) /\ BuiltAsAsked(payment[p], premature)

LEMMA BuildInvInit == PaymentInit => BuildInv
  BY DEF PaymentInit, BuildInv, CachedAreDecimals, TypedRequest, BuiltAsAsked, NewPayment,
         PaymentStages, Engines, Given

LEMMA EarlierIsStillEarly ==
    ASSUME NEW r, NEW early, NEW later, early \subseteq later, BuiltAsAsked(r, early)
    PROVE  BuiltAsAsked(r, later)
  BY DEF BuiltAsAsked, BuiltBy, TrueOrPremature

\* What a step on one request leaves to be shown.
LEMMA RequestStep ==
    ASSUME PaymentInv, BuildInv, NEW p \in Payments, NEW r,
           payment' = [payment EXCEPT ![p] = r], premature \subseteq premature',
           CachedAreDecimals', TypedRequest(r), BuiltAsAsked(r, premature')
    PROVE  BuildInv'
<1>1. DOMAIN payment = Payments
  BY DEF PaymentInv, Shape
<1>2. ASSUME NEW q \in Payments
      PROVE  TypedRequest(payment'[q]) /\ BuiltAsAsked(payment'[q], premature')
  <2>1. CASE q = p
    BY <1>1, <2>1
  <2>2. CASE q # p
    <3>1. payment'[q] = payment[q]
      BY <1>1, <2>2
    <3>2. TypedRequest(payment[q]) /\ BuiltAsAsked(payment[q], premature)
      BY DEF BuildInv
    <3> QED
      BY <3>1, <3>2, EarlierIsStillEarly
  <2> QED
    BY <2>1, <2>2
<1> QED
  BY <1>2 DEF BuildInv

LEMMA BuildTyped ==
    ASSUME NEW tx, NEW i, i.amount \in Nat \cup {Unknown}, NEW quote, NEW early,
           BuiltBy(tx, i, quote, early)
    PROVE  tx = Unknown \/ IsTransaction(tx)
<1>1. PICK client \in BOOLEAN, d \in Decimals : tx = Build(i, Node(client, quote, d))
  BY DEF BuiltBy
<1> QED
  BY <1>1, BuildType DEF Given

LEMMA EvaluatingTyped ==
    ASSUME NEW engine \in Engines, NEW i, i.amount \in Int \cup {Unknown, NonFinite}
    PROVE  LET r == Evaluating(engine, i)
           IN  TypedRequest(r) /\ r.built = Unknown
<1>1. "BLOCK" \notin Severity(i) => i.amount \in Nat \cup {Unknown}
  BY HardRulesOnAmount
<1> QED
  BY <1>1 DEF Evaluating, TypedRequest, NewPayment, PaymentStages, Engines

LEMMA BuildInvNext ==
    PaymentInv /\ CacheIsTruth /\ BuildInv /\ [PaymentNext]_payVars => BuildInv'
<1> SUFFICES ASSUME PaymentInv, CacheIsTruth, BuildInv, [PaymentNext]_payVars
             PROVE  BuildInv'
  OBVIOUS
<1>a. DOMAIN payment = Payments /\ \A p \in Payments : DOMAIN payment[p] = Fields
  BY DEF PaymentInv, Shape
<1>b. CachedAreDecimals /\ \A p \in Payments : TypedRequest(payment[p])
                                            /\ BuiltAsAsked(payment[p], premature)
  BY DEF BuildInv
<1>c. UNCHANGED <<deployed, decimals>> => CachedAreDecimals'
  BY <1>b DEF CachedAreDecimals
<1>1. CASE UNCHANGED payVars
  BY <1>1, <1>b DEF payVars, BuildInv, CachedAreDecimals
<1>2. ASSUME NEW k \in Tokens, Deploy(k) PROVE BuildInv'
  BY <1>2, <1>b DEF Deploy, BuildInv, CachedAreDecimals
<1>3. ASSUME NEW p \in Payments, NEW i \in MainIntents, PostDecision(p, i) PROVE BuildInv'
  <2> DEFINE r == Evaluating("main", i)
  <2>1. TypedRequest(r) /\ r.built = Unknown
    BY PaymentAssumption, EvaluatingTyped DEF Engines
  <2>2. /\ payment' = [payment EXCEPT ![p] = r]
        /\ UNCHANGED <<deployed, decimals, premature>>
    BY <1>3 DEF PostDecision
  <2> HIDE DEF r
  <2>3. BuiltAsAsked(r, premature')
    BY <2>1 DEF BuiltAsAsked, Given
  <2> QED
    BY <1>c, <2>1, <2>2, <2>3, RequestStep
<1>4. ASSUME NEW p \in Payments, NEW i \in ArcPayloads, PostArcPrepare(p, i) PROVE BuildInv'
  <2> DEFINE j == [i EXCEPT !.to_token = Unknown]
             r == IF Accepts(i) THEN Evaluating("arc", j) ELSE [NewPayment EXCEPT !.at = "done"]
  <2>1. j.amount \in Int \cup {Unknown, NonFinite}
    BY PaymentAssumption DEF IntentFields
  <2>2. /\ payment' = [payment EXCEPT ![p] = r]
        /\ UNCHANGED <<deployed, decimals, premature>>
    BY <1>4 DEF PostArcPrepare
  <2> HIDE DEF j
  <2>3. TypedRequest(Evaluating("arc", j)) /\ Evaluating("arc", j).built = Unknown
    BY <2>1, EvaluatingTyped DEF Engines
  <2>4. LET done == [NewPayment EXCEPT !.at = "done"]
        IN  TypedRequest(done) /\ done.built = Unknown
    BY DEF TypedRequest, NewPayment, PaymentStages, Engines
  <2>5. TypedRequest(r) /\ r.built = Unknown
    BY <2>3, <2>4
  <2> HIDE DEF r
  <2>6. BuiltAsAsked(r, premature')
    BY <2>5 DEF BuiltAsAsked, Given
  <2> QED
    BY <1>c, <2>2, <2>5, <2>6, RequestStep
<1>5. ASSUME NEW p \in Payments, BuildForSimulation(p) PROVE BuildInv'
  <2>1. payment[p].at = "build" /\ TypedRequest(payment[p])
    BY <1>5, <1>b DEF BuildForSimulation
  <2>2. CASE payment[p].intent.data
    <3> DEFINE r == [payment[p] EXCEPT !.at = "simulate"]
    <3>1. /\ payment' = [payment EXCEPT ![p] = r]
          /\ UNCHANGED <<deployed, decimals, premature>>
      BY <1>5, <2>2 DEF BuildForSimulation
    <3>2. TypedRequest(r) /\ BuiltAsAsked(r, premature')
      BY <1>a, <1>b, <2>1, <3>1 DEF TypedRequest, BuiltAsAsked, Fields, NewPayment, PaymentStages
    <3> HIDE DEF r
    <3> QED
      BY <1>c, <3>1, <3>2, RequestStep
  <2>3. CASE ~payment[p].intent.data
    <3>1. PICK b \in Builds(payment[p]) :
            /\ payment' = [payment EXCEPT ![p].at = "simulate", ![p].built = b.tx,
                                          ![p].quote = b.quote]
            /\ decimals' = b.decimals /\ premature' = b.premature
            /\ UNCHANGED deployed
      BY <1>5, <2>3 DEF BuildForSimulation
    <3> DEFINE i == payment[p].intent
               r == [payment[p] EXCEPT !.at = "simulate", !.built = b.tx, !.quote = b.quote]
    <3>2. payment[p].engine \in Engines /\ i.amount \in Nat \cup {Unknown}
      BY <2>1 DEF TypedRequest
    <3>3. /\ DOMAIN b.decimals = Engines
          /\ \A e \in Engines : \A k \in DOMAIN b.decimals[e] :
                 b.decimals[e][k] \in AnyDecimals
          /\ BuiltBy(b.tx, i, b.quote, b.premature)
      BY <1>b, <3>2, BuildsAreBuilds
    <3>4. CachedAreDecimals'
      BY <1>b, <3>1, <3>3 DEF CachedAreDecimals
    <3>5. premature \subseteq premature'
      BY <1>b, <3>1, <3>2, BuildsKeep DEF CachedAreDecimals
    <3>6. b.tx = Unknown \/ IsTransaction(b.tx)
      BY <3>2, <3>3, BuildTyped
    <3>7. payment' = [payment EXCEPT ![p] = r]
      BY <3>1, <1>a
    <3>8. /\ r.at = "simulate" /\ r.built = b.tx /\ r.quote = b.quote
          /\ r.intent = i /\ r.engine = payment[p].engine /\ r.second = payment[p].second
          /\ r.dryRun = payment[p].dryRun /\ r.decision = payment[p].decision
      BY <1>a DEF Fields, NewPayment
    <3> HIDE DEF r, i
    <3>9. TypedRequest(r) /\ BuiltAsAsked(r, premature')
      BY <2>1, <3>1, <3>2, <3>3, <3>6, <3>8 DEF TypedRequest, BuiltAsAsked, PaymentStages
    <3> QED
      BY <3>4, <3>5, <3>7, <3>9, RequestStep
  <2> QED
    BY <2>2, <2>3
<1>6. ASSUME NEW p \in Payments, Simulate(p) PROVE BuildInv'
  <2>1. PICK run \in {"none", "succeeds", "reverts"} :
          payment' = [payment EXCEPT ![p].dryRun = run,
                    ![p].at = IF Verifies(payment[p].intent) THEN "verify"
                              ELSE Evaluated(payment[p])]
    BY <1>6 DEF Simulate
  <2> DEFINE r == [payment[p] EXCEPT !.dryRun = run,
                    !.at = IF Verifies(payment[p].intent) THEN "verify"
                           ELSE Evaluated(payment[p])]
  <2>2. /\ payment' = [payment EXCEPT ![p] = r]
        /\ UNCHANGED <<deployed, decimals, premature>> /\ payment[p].at = "simulate"
    BY <1>6, <2>1 DEF Simulate
  <2>3. TypedRequest(r) /\ BuiltAsAsked(r, premature')
    BY <1>a, <1>b, <2>2 DEF TypedRequest, BuiltAsAsked, Fields, NewPayment, PaymentStages,
                            Evaluated
  <2> HIDE DEF r
  <2> QED
    BY <1>c, <2>2, <2>3, RequestStep
<1>7. ASSUME NEW p \in Payments, EvaluateAndGoOn(p) PROVE BuildInv'
  <2>1. PICK outcome \in {"ALLOW", "WARN", "BLOCK"} :
          payment' = [payment EXCEPT ![p].decision = outcome,
                        ![p].at = IF outcome = "ALLOW" THEN "rebuild" ELSE "done"]
    BY <1>7 DEF EvaluateAndGoOn
  <2> DEFINE r == [payment[p] EXCEPT !.decision = outcome,
                        !.at = IF outcome = "ALLOW" THEN "rebuild" ELSE "done"]
  <2>a. UNCHANGED <<deployed, decimals, premature>> /\ payment[p].at = "decide"
    BY <1>7 DEF EvaluateAndGoOn
  <2>2. /\ payment' = [payment EXCEPT ![p] = r]
        /\ UNCHANGED <<deployed, decimals, premature>> /\ payment[p].at = "decide"
    BY <2>1, <2>a
  <2>3. TypedRequest(r) /\ BuiltAsAsked(r, premature')
    BY <1>a, <1>b, <2>2 DEF TypedRequest, BuiltAsAsked, Fields, NewPayment, PaymentStages
  <2> HIDE DEF r
  <2> QED
    BY <1>c, <2>2, <2>3, RequestStep
<1>8. ASSUME NEW p \in Payments, Rebuild(p) PROVE BuildInv'
  <2>1. PICK b \in Builds(payment[p]) :
          /\ payment' = [payment EXCEPT ![p].second = b.tx,
                                        ![p].at = IF Given(b.tx) THEN "chain" ELSE "done"]
          /\ decimals' = b.decimals /\ premature' = b.premature
    BY <1>8 DEF Rebuild
  <2> DEFINE i == payment[p].intent
             r == [payment[p] EXCEPT !.second = b.tx,
                                     !.at = IF Given(b.tx) THEN "chain" ELSE "done"]
  <2>2. /\ payment[p].engine \in Engines /\ i.amount \in Nat \cup {Unknown}
        /\ payment[p].at = "rebuild"
    BY <1>8, <1>b DEF Rebuild, TypedRequest
  <2>3. /\ DOMAIN b.decimals = Engines
        /\ \A e \in Engines : \A k \in DOMAIN b.decimals[e] :
               b.decimals[e][k] \in AnyDecimals
        /\ BuiltBy(b.tx, i, b.quote, b.premature)
    BY <1>b, <2>2, BuildsAreBuilds
  <2>4. CachedAreDecimals'
    BY <1>8, <1>b, <2>1, <2>3 DEF CachedAreDecimals, Rebuild
  <2>5. premature \subseteq premature'
    BY <1>b, <2>1, <2>2, BuildsKeep DEF CachedAreDecimals
  <2>6. b.tx = Unknown \/ IsTransaction(b.tx)
    BY <2>2, <2>3, BuildTyped
  <2>7. payment' = [payment EXCEPT ![p] = r]
    BY <2>1, <1>a
  <2>8. /\ r.at \in {"chain", "done"} /\ r.second = b.tx /\ r.built = payment[p].built
        /\ r.intent = i /\ r.engine = payment[p].engine /\ r.quote = payment[p].quote
        /\ r.dryRun = payment[p].dryRun /\ r.decision = payment[p].decision
    BY <1>a DEF Fields, NewPayment
  <2> HIDE DEF r, i
  <2>9. TypedRequest(r)
    BY <1>b, <2>2, <2>6, <2>8 DEF TypedRequest, PaymentStages
  <2>10. BuiltAsAsked(r, premature)
    BY <1>b, <2>8 DEF BuiltAsAsked, i
  <2>11. BuiltAsAsked(r, premature')
    BY <2>5, <2>10, EarlierIsStillEarly
  <2> QED
    BY <2>4, <2>5, <2>7, <2>9, <2>11, RequestStep
<1>9. ASSUME NEW p \in Payments, CheckChain(p) \/ EstimateGas(p) PROVE BuildInv'
  <2>1. PICK stage \in {"gas", "prepared", "done"} : payment' = [payment EXCEPT ![p].at = stage]
    BY <1>9 DEF CheckChain, EstimateGas
  <2> DEFINE r == [payment[p] EXCEPT !.at = stage]
  <2>2. /\ payment' = [payment EXCEPT ![p] = r]
        /\ UNCHANGED <<deployed, decimals, premature>> /\ payment[p].at \in {"chain", "gas"}
    BY <1>9, <2>1 DEF CheckChain, EstimateGas
  <2>3. TypedRequest(r) /\ BuiltAsAsked(r, premature')
    BY <1>a, <1>b, <2>2 DEF TypedRequest, BuiltAsAsked, Fields, NewPayment, PaymentStages
  <2> HIDE DEF r
  <2> QED
    BY <1>c, <2>2, <2>3, RequestStep
<1>10. ASSUME NEW p \in Payments, VerifyIntent(p) PROVE BuildInv'
  <2> DEFINE r == [payment[p] EXCEPT !.at = Evaluated(payment[p])]
  <2>1. /\ payment' = [payment EXCEPT ![p] = r] /\ payment[p].at = "verify"
        /\ premature \subseteq premature'
    BY <1>10, <1>a, VerifyKeeps
  <2>2. CachedAreDecimals'
    <3>1. /\ deployed' = deployed /\ DOMAIN decimals' = Engines
          /\ \A f \in Engines : \A j \in DOMAIN decimals'[f] :
                 \/ j \in DOMAIN decimals[f] /\ decimals'[f][j] = decimals[f][j]
                 \/ decimals'[f][j] = ReadDecimals(j)
      BY <1>10, VerifyKeeps
    <3>2. \A j : ReadDecimals(j) \in AnyDecimals
      BY <1>b DEF ReadDecimals, CachedAreDecimals, AnyDecimals
    <3> QED
      BY <1>b, <3>1, <3>2 DEF CachedAreDecimals
  <2>3. TypedRequest(r) /\ BuiltAsAsked(r, premature)
    BY <1>a, <1>b, <2>1 DEF TypedRequest, BuiltAsAsked, Fields, NewPayment, PaymentStages, Evaluated
  <2> HIDE DEF r
  <2>4. BuiltAsAsked(r, premature')
    BY <2>1, <2>3, EarlierIsStillEarly
  <2> QED
    BY <2>1, <2>2, <2>3, <2>4, RequestStep
<1> QED
  BY <1>1, <1>2, <1>3, <1>4, <1>5, <1>6, <1>7, <1>8, <1>9, <1>10 DEF PaymentNext, PaymentStep

LEMMA BuildInvariant == PaymentSpec => []BuildInv
<1>1. AllInv => PaymentInv /\ CacheIsTruth
  BY DEF AllInv
<1> QED
  BY AllInvariant, BuildInvInit, BuildInvNext, <1>1, PTL DEF PaymentSpec

\* For any tokens and intents: amounts are sent to the builder only if they are
\* numbers, and no conversion leaves the integers (tx_builder.py:104-116).
THEOREM PaymentTypeCorrect == PaymentSpec => []PaymentTypeOK
<1>1. BuildInv => PaymentTypeOK
  <2> SUFFICES ASSUME BuildInv PROVE PaymentTypeOK
    OBVIOUS
  <2>1. AnyDecimals \subseteq Nat
    BY PaymentAssumption DEF AnyDecimals
  <2> QED
    BY <2>1 DEF BuildInv, CachedAreDecimals, TypedRequest, PaymentTypeOK
<1> QED
  BY BuildInvariant, <1>1, PTL

\* For any tokens, routers and bridges, whatever the nodes answer and however
\* requests interleave: a transaction that is built does what the intent asks,
\* in the token's own units (tx_builder.py:104-116, 215-432).
THEOREM TransactionsDoWhatWasAsked == PaymentSpec => []BuiltDoesWhatWasAsked
<1>1. BuildInv => BuiltDoesWhatWasAsked
  <2> SUFFICES ASSUME BuildInv, NEW p \in Payments,
                      Given(payment[p].built), Meaningful(payment[p].intent)
               PROVE  EffectOf(payment[p].built, payment[p].intent.chain,
                               OnChain(payment[p].intent.chain))
                        = Asked(payment[p].intent, TrueUnits(payment[p].intent),
                                payment[p].quote)
    BY DEF BuiltDoesWhatWasAsked
  <2> DEFINE i == payment[p].intent
             quote == payment[p].quote
  <2>1. PICK client \in BOOLEAN, d \in Decimals :
          payment[p].built = Build(i, Node(client, quote, d)) /\ TrueOrPremature(i, d, premature)
    BY DEF BuildInv, BuiltAsAsked, BuiltBy
  <2>2. Given(i.from_token) => d \in {Unknown, TrueUnits(i)}
    BY <2>1 DEF TrueOrPremature, Meaningful, TrueUnits, TokenKey
  <2> HIDE DEF i, quote
  <2>3. Meaningful(i) /\ Given(Build(i, Node(client, quote, d)))
    BY <2>1 DEF i
  <2>4. EffectOf(Build(i, Node(client, quote, d)), i.chain, OnChain(i.chain))
            = Asked(i, TrueUnits(i), quote)
    BY <2>2, <2>3, BuildDoesWhatWasAsked
  <2> QED
    BY <2>1, <2>4 DEF i, quote
<1> QED
  BY BuildInvariant, <1>1, PTL
===============================================================================
