----------------------------- MODULE OaaAttestation ----------------------------
(***************************************************************************)
(* guardian/attestation.py and guardian/oaa.py: a decision becomes a       *)
(* signed token, some time after it was made, and a third party with a     *)
(* clock of its own verifies the token.  Between the two, and before, the  *)
(* agent's capability may be granted anew or revoked.  The signature       *)
(* itself, and the checks of jwt.decode, are external.                     *)
(***************************************************************************)
EXTENDS Integers, FiniteSets

CONSTANTS
    Subjects,      \* agents
    Decided,       \* intents, each decided once
    Snapshots,     \* capability grants, as snapshot_for returns them
    NoGrant,       \* None, the snapshot of an agent without one
    TokenTTL,      \* DEFAULT_TTL_SECONDS
    MaxSkew,       \* how far a verifier's clock may be off
    OaaMaxTime,    \* bound of the clock, for model checking
    MaxTokens      \* bound on the tokens issued, for model checking

ASSUME OaaAssumption ==
    TokenTTL \in Nat \ {0} /\ MaxSkew \in Nat /\ OaaMaxTime \in Nat /\ MaxTokens \in Nat

VARIABLES
    oaaClock,   \* time.time() of Guardian
    granted,    \* CapabilityRegistry._grants
    decision,   \* history: the decision about each intent, and under which grant
    tokens,     \* the tokens handed out
    accepted    \* history: the last token a verifier accepted, and when

oaaVars == <<oaaClock, granted, decision, tokens, accepted>>

Outcomes == {"ALLOW", "WARN", "BLOCK"}
Capabilities == Snapshots \cup {NoGrant}
OaaDecision == [agent : Subjects, outcome : Outcomes, under : Capabilities,
                regranted : BOOLEAN]
Token == [sub : Subjects, iat : Nat, exp : Nat, oaa_decision : Outcomes,
          oaa_action : Decided, oaa_policy_ref : Capabilities]

OaaTypeOK ==
    /\ oaaClock \in Nat
    /\ granted \in [Subjects -> Capabilities]
    /\ DOMAIN decision \subseteq Decided
    /\ \A i \in DOMAIN decision : decision[i] \in OaaDecision
    /\ tokens \subseteq Token
    /\ accepted \subseteq [token : Token, at : Nat]

OaaInit ==
    /\ oaaClock = 0
    /\ granted = [a \in Subjects |-> NoGrant]
    /\ decision = [i \in {} |-> NoGrant]
    /\ tokens = {}
    /\ accepted = {}

-------------------------------------------------------------------------------

\* grant() and revoke(); `regranted` marks the decisions the change comes after.
Regrant(a, g) ==
    /\ g # granted[a]
    /\ granted' = [granted EXCEPT ![a] = g]
    /\ decision' = [i \in DOMAIN decision |->
            [decision[i] EXCEPT !.regranted = @ \/ decision[i].agent = a]]
    /\ UNCHANGED <<oaaClock, tokens, accepted>>

Decide(i, a, outcome) ==
    /\ i \notin DOMAIN decision
    /\ decision' = [j \in DOMAIN decision \cup {i} |->
            IF j = i THEN [agent |-> a, outcome |-> outcome, under |-> granted[a],
                           regranted |-> FALSE]
            ELSE decision[j]]
    /\ UNCHANGED <<oaaClock, granted, tokens, accepted>>

\* Mutant: the fingerprint is of the hard rules and the policy alone.
FingerprintOfRules(a) == NoGrant

\* _policy_fingerprint(engine.policy_engine, registry.snapshot_for(agent_id)):
\* what it adds to a fixed ruleset and policy.
Fingerprint(a) == granted[a]

\* Mutant: issue() is told that there is no limit, and takes it for now.
DecisionToOaaTokenEndless(i) ==
    /\ i \in DOMAIN decision /\ Cardinality(tokens) < MaxTokens
    /\ tokens' = tokens \cup
            {[sub |-> decision[i].agent, iat |-> oaaClock, exp |-> OaaMaxTime + 2,
              oaa_decision |-> decision[i].outcome, oaa_action |-> i,
              oaa_policy_ref |-> Fingerprint(decision[i].agent)]}
    /\ UNCHANGED <<oaaClock, granted, decision, accepted>>

\* decision_to_oaa_token with an engine and a registry, and issue().  No
\* ttl_seconds means the default here, so every token has an `exp`.
DecisionToOaaToken(i) ==
    /\ i \in DOMAIN decision /\ Cardinality(tokens) < MaxTokens
    /\ tokens' = tokens \cup
            {[sub |-> decision[i].agent, iat |-> oaaClock, exp |-> oaaClock + TokenTTL,
              oaa_decision |-> decision[i].outcome, oaa_action |-> i,
              oaa_policy_ref |-> Fingerprint(decision[i].agent)]}
    /\ UNCHANGED <<oaaClock, granted, decision, accepted>>

\* verify() on a clock that reads `now`: jwt.decode refuses a token that has
\* expired or is from the future.
Verify(t, now) ==
    /\ t.iat <= now /\ now < t.exp
    /\ accepted' = {[token |-> t, at |-> oaaClock]}
    /\ UNCHANGED <<oaaClock, granted, decision, tokens>>

OaaTick ==
    /\ oaaClock < OaaMaxTime
    /\ oaaClock' = oaaClock + 1
    /\ UNCHANGED <<granted, decision, tokens, accepted>>

OaaNext ==
    \/ \E a \in Subjects, g \in Capabilities : Regrant(a, g)
    \/ \E i \in Decided, a \in Subjects, outcome \in Outcomes : Decide(i, a, outcome)
    \/ \E i \in Decided : DecisionToOaaToken(i)
    \/ \E t \in tokens, skew \in -MaxSkew .. MaxSkew : Verify(t, oaaClock + skew)
    \/ OaaTick

OaaSpec == OaaInit /\ [][OaaNext]_oaaVars

-------------------------------------------------------------------------------
(* Properties *)

\* What a verifier accepts was decided, for that agent and intent, and under
\* the policy the token names, unless the grant was changed between the
\* decision and the token (attestation.py:17-40, 74; capabilities.py:48-58).
AttestedAsDecided ==
    \A v \in accepted :
        /\ v.token.oaa_action \in DOMAIN decision
        /\ LET d == decision[v.token.oaa_action]
           IN  /\ d.agent = v.token.sub /\ d.outcome = v.token.oaa_decision
               /\ d.regranted \/ d.under = v.token.oaa_policy_ref

\* An approval cannot be replayed later than its lifetime, but for the skew
\* of the verifier's clock (oaa.py:38-43).
AcceptedInTime ==
    \A v \in accepted : v.at - v.token.iat < TokenTTL + MaxSkew
===============================================================================
