----------------------------- MODULE DataProviders -----------------------------
(***************************************************************************)
(* The profiles of SignalAnalyzers, from what the configured service       *)
(* answered: guardian/intelligence/contract/providers.py,                  *)
(* token/providers.py and wallet/providers.py.  Unknown stands for an      *)
(* answer that failed, and for None in a profile.                          *)
(***************************************************************************)
EXTENDS SignalAnalyzers, FiniteSetsExt

ThinLiquidity == 20000

\* GoPlus leaves out what it does not know: data is a function on the fields
\* it has, of "0" and "1" as FALSE and TRUE.  An analyzer treats a missing
\* flag like one that is off.
BoolField(data, key) == IF key \in DOMAIN data THEN data[key] ELSE Unknown
IsSet(data, key) == key \in DOMAIN data /\ data[key]

-------------------------------------------------------------------------------
(* Contracts; the two local lists say malicious or safe before a provider    *)
(* is asked.                                                                 *)

\* Also what a provider says of something that is not an address.
UnknownContract ==
    [malicious |-> FALSE, safe |-> FALSE, verified |-> Unknown, upgradeable |-> FALSE,
     owner_can_change_balance |-> FALSE, mintable |-> FALSE, selfdestruct |-> FALSE,
     hidden_owner |-> FALSE]

\* The mock providers draw a profile from the hash of the address: any of them.
MockContract(verified, upgradeable) ==
    [UnknownContract EXCEPT !.verified = verified, !.upgradeable = upgradeable]

\* A 404 is an address with no verified contract; `proxied` is Unknown when
\* the answer has no proxy_type.
BlockscoutContract(answer) ==
    CASE answer = Unknown -> UnknownContract
      [] answer # Unknown /\ answer.status = 404 -> [UnknownContract EXCEPT !.verified = FALSE]
      [] OTHER -> [UnknownContract EXCEPT !.verified = answer.verified,
                                          !.upgradeable = (answer.proxied = TRUE)]

GoPlusContract(data) ==
    IF data = Unknown THEN UnknownContract
    ELSE [UnknownContract EXCEPT
            !.verified = BoolField(data, "is_open_source"),
            !.upgradeable = IsSet(data, "is_proxy"),
            !.owner_can_change_balance = IsSet(data, "owner_change_balance"),
            !.mintable = IsSet(data, "is_mintable"),
            !.selfdestruct = IsSet(data, "selfdestruct"),
            !.hidden_owner = IsSet(data, "hidden_owner")]

-------------------------------------------------------------------------------
(* Tokens *)

UnknownToken ==
    [major |-> FALSE, match |-> 100, trusted |-> FALSE, goplus |-> FALSE,
     liquidity |-> Unknown, concentrated |-> FALSE, honeypot |-> FALSE,
     buy_tax |-> Unknown, sell_tax |-> Unknown, blacklistable |-> FALSE,
     pausable |-> FALSE, top_holder |-> Unknown]

MockToken(concentrated, usd) ==
    [UnknownToken EXCEPT !.concentrated = concentrated,
                         !.liquidity = IF concentrated THEN usd % 5000 ELSE usd % 200000]

\* The pair with the most liquidity, on the requested chain if there is one
\* there; pairs is a set of [chain, usd], usd possibly Unknown.
Dollars(pair) == IF pair.usd = Unknown THEN 0 ELSE pair.usd
Candidates(pairs, chain) ==
    LET here == {p \in pairs : p.chain = chain} IN IF here # {} THEN here ELSE pairs

DexScreenerToken(pairs, chain) ==
    CASE pairs = Unknown -> UnknownToken
      [] pairs = {} -> [UnknownToken EXCEPT !.match = 0]
      [] OTHER ->
            LET best == CHOOSE p \in Candidates(pairs, chain) :
                            \A q \in Candidates(pairs, chain) : Dollars(q) <= Dollars(p)
            IN  [UnknownToken EXCEPT
                    !.match = IF \E p \in pairs : p.chain = chain THEN 80 ELSE 40,
                    !.liquidity = best.usd,
                    !.concentrated = best.usd # Unknown /\ Dollars(best) < ThinLiquidity]

\* Holders that are burnt or locked do not count; holders is a set of
\* [percent, exempt] with readable percentages.
TopUnlockedHolder(holders) ==
    IF holders = {} THEN Unknown
    ELSE Max({0} \cup {h.percent : h \in {g \in holders : ~g.exempt}})

\* A bare symbol is not looked up.
GoPlusToken(is_address, data, holders, buy_tax, sell_tax) ==
    CASE ~is_address -> [UnknownToken EXCEPT !.goplus = TRUE, !.match = 0]
      [] is_address /\ data = Unknown -> [UnknownToken EXCEPT !.goplus = TRUE]
      [] OTHER ->
            IF IsSet(data, "trust_list")
            THEN [UnknownToken EXCEPT !.goplus = TRUE, !.trusted = TRUE]
            ELSE [UnknownToken EXCEPT
                    !.goplus = TRUE,
                    !.concentrated = BoolField(data, "is_in_dex") = FALSE,
                    !.honeypot = IsSet(data, "is_honeypot"),
                    !.buy_tax = buy_tax, !.sell_tax = sell_tax,
                    !.blacklistable = IsSet(data, "is_blacklisted"),
                    !.pausable = IsSet(data, "transfer_pausable"),
                    !.top_holder = TopUnlockedHolder(holders)]

-------------------------------------------------------------------------------
(* Wallets: a node that fails leaves everything unknown, and only the mock    *)
(* flags a wallet.  The age is Unknown unless an archive node is asked.      *)

MockWallet(flagged, age, txs) ==
    [is_flagged |-> flagged, age_days |-> age % 900, tx_count |-> txs % 5000,
     is_contract |-> FALSE]

RpcWallet(answer) ==
    IF answer = Unknown
    THEN [is_flagged |-> FALSE, age_days |-> Unknown, tx_count |-> Unknown,
          is_contract |-> FALSE]
    ELSE [is_flagged |-> FALSE, age_days |-> answer.age_days,
          tx_count |-> answer.tx_count, is_contract |-> answer.has_code]
===============================================================================
