---------------------------- MODULE SignalAnalyzers ----------------------------
(***************************************************************************)
(* The analyzers of guardian/intelligence: what each makes of the profile  *)
(* its data provider returned.  A profile is a record of what the provider *)
(* could determine; Unknown is Python's None, and a flag that is None acts *)
(* as one that is FALSE unless the code asks for None.  Percentages are    *)
(* whole.                                                                  *)
(***************************************************************************)
EXTENDS Integers

CONSTANTS Unknown, NearMax  \* NEAR_MAX_UINT256

\* A signal: score 0..100, weight in tenths, confidence in hundredths.
Signal(name, score, weight, confidence) ==
    [name |-> name, score |-> score, weight |-> weight, confidence |-> confidence]

When(condition, signal) == IF condition THEN {signal} ELSE {}

-------------------------------------------------------------------------------
(* WalletAnalyzer: [is_flagged, age_days, tx_count, is_contract] *)

WalletAge(age) ==
    CASE age = Unknown -> Signal("wallet_age_unknown", 25, 6, 40)
      [] age # Unknown /\ age < 3 -> Signal("new_wallet", 70, 15, 80)
      [] age # Unknown /\ age \in 3 .. 29 -> Signal("young_wallet", 35, 10, 80)
      [] OTHER -> Signal("established_wallet", 5, 10, 80)

WalletSignals(p) ==
    {WalletAge(p.age_days)}
        \cup When(p.is_flagged, Signal("flagged_wallet", 95, 30, 60))
        \cup When(p.tx_count = Unknown, Signal("tx_count_unknown", 20, 5, 40))
        \cup When(p.tx_count # Unknown /\ p.tx_count < 3, Signal("low_activity", 40, 8, 70))
        \cup When(p.is_contract, Signal("wallet_is_contract", 30, 7, 85))

-------------------------------------------------------------------------------
(* TokenAnalyzer: [major, match, trusted, goplus, liquidity, concentrated,   *)
(* honeypot, buy_tax, sell_tax, blacklistable, pausable, top_holder]; major  *)
(* stands for a symbol in MAJOR_TOKENS, match for the confidence of the      *)
(* provider's match in percent, goplus for the provider.                     *)

TaxSignals(name, tax) ==
    When(tax # Unknown /\ tax >= 10,
         Signal(name, IF tax >= 50 THEN 90 ELSE 40 + (tax * 60) \div 100, 13, 70))

Liquidity(p) ==
    CASE p.liquidity = Unknown -> Signal("liquidity_unknown", 15, 4, 40)
      [] p.liquidity # Unknown /\ p.concentrated -> Signal("thin_liquidity", 60, 13, 70)
      [] OTHER -> Signal("adequate_liquidity", 5, 6, 70)

HolderConcentration(share) ==
    When(share # Unknown /\ share >= 20,
         Signal("holder_concentration", IF share > 60 THEN 90 ELSE 30 + share, 12, 60))

TokenRisks(p) ==
    (IF p.goplus THEN {} ELSE {Liquidity(p)})
        \cup When(p.honeypot, Signal("honeypot", 100, 50, 90))
        \cup When(p.goplus /\ p.concentrated, Signal("no_dex_liquidity", 50, 10, 60))
        \cup TaxSignals("high_buy_tax", p.buy_tax)
        \cup TaxSignals("high_sell_tax", p.sell_tax)
        \cup When(p.blacklistable, Signal("has_blacklist_function", 45, 12, 60))
        \cup When(p.pausable, Signal("transfer_pausable", 45, 12, 60))
        \cup HolderConcentration(p.top_holder)

TokenSignals(p) ==
    CASE p.major -> {Signal("major_token", 2, 10, 95)}
      [] ~p.major /\ p.match < 50 -> {Signal("token_match_uncertain", 20, 4, 30)}
      [] ~p.major /\ p.match >= 50 /\ p.trusted -> {Signal("trusted_listed_token", 3, 10, 85)}
      [] OTHER ->
            IF TokenRisks(p) = {} THEN {Signal("no_token_risk_indicators", 8, 5, 60)}
            ELSE TokenRisks(p)

-------------------------------------------------------------------------------
(* ContractAnalyzer: [malicious, safe, verified, upgradeable,                *)
(* owner_can_change_balance, mintable, selfdestruct, hidden_owner]; the two  *)
(* local lists answer before the provider is asked.                          *)

Verification(verified) ==
    CASE verified = Unknown -> Signal("verification_status_unknown", 30, 6, 40)
      [] verified # Unknown /\ verified -> Signal("verified_contract", 10, 8, 60)
      [] OTHER -> Signal("unverified_contract", 55, 15, 60)

ContractSignals(p) ==
    CASE p.malicious -> {Signal("known_malicious_contract", 100, 50, 95)}
      [] ~p.malicious /\ p.safe -> {Signal("known_safe_contract", 2, 10, 90)}
      [] OTHER ->
            {Verification(p.verified)}
            \cup When(p.upgradeable, Signal("upgradeable_contract", 40, 12, 50))
            \cup When(p.owner_can_change_balance,
                      Signal("owner_can_change_balances", 85, 25, 80))
            \cup When(p.mintable, Signal("mintable_supply", 45, 10, 70))
            \cup When(p.selfdestruct, Signal("has_selfdestruct", 70, 18, 80))
            \cup When(p.hidden_owner, Signal("hidden_owner", 55, 13, 60))

-------------------------------------------------------------------------------
(* SimulationEngine: [attempted, reverts, unlimited, decoded], decoded being *)
(* the approval amount read from the calldata; and ThreatIntelligence, whose *)
(* one signal is here named for the address it is about.                     *)

\* RpcSimulationProvider.simulate, given the outcome of the dry run and the
\* amount its calldata approves, Unknown when it is no approve() at all.  The
\* calldata is only decoded for an intent that says it approves.
SimulationOf(action_type, run) ==
    LET decoded == IF run.attempted /\ action_type = "approve" THEN run.approves ELSE Unknown
    IN  [attempted |-> run.attempted, reverts |-> run.reverts, decoded |-> decoded,
         unlimited |-> decoded # Unknown /\ decoded >= NearMax]

FallbackHeuristic(action_type, amount) ==
    IF action_type = "approve" /\ (amount = Unknown \/ amount <= 0)
    THEN {Signal("unlimited_approval_suspected", 55, 10, 50)}
    ELSE {Signal("simulation_not_attempted", 0, 0, 0)}

DryRunSignals(result) ==
    IF result.reverts THEN {Signal("simulation_reverts", 100, 60, 98)}
    ELSE {Signal("simulation_succeeds", 2, 5, 90)}
         \cup When(result.unlimited, Signal("unlimited_approval_confirmed", 92, 20, 95))
         \cup When(~result.unlimited /\ result.decoded # Unknown,
                   Signal("finite_approval_confirmed", 5, 5, 95))

SimulationSignals(action_type, amount, result) ==
    IF result.attempted THEN DryRunSignals(result)
    ELSE FallbackHeuristic(action_type, amount)

ThreatSignals(walletListed, targetListed) ==
    When(walletListed, Signal("sanctioned_wallet", 100, 100, 100))
        \cup When(targetListed, Signal("sanctioned_target", 100, 100, 100))
===============================================================================
