--------------------------- MODULE MCDecisionEngine ----------------------------
(* Instances of DecisionEngine for TLC. *)
EXTENDS DecisionEngine, DataProviders, TLC

CONSTANTS a1, w1, base, arc, tron

MCSupportedChains == {base, arc}

MCPolicy == [max_amount_per_action |-> 50, max_amount_unknown_agent |-> 5,
             high_value_threshold |-> 25, min_reputation_for_high_value |-> 60,
             blocked_action_types |-> {},
             require_confirmation_action_types |-> {"approve"}]

Ask(chain, type, amount, ack) ==
    [agent_id |-> a1, wallet |-> w1, chain |-> chain, action_type |-> type,
     amount |-> amount, acknowledged |-> ack]

Past(decision, amount) ==
    [decision |-> decision, action_type |-> "transfer", chain |-> base,
     amount |-> amount, by |-> Unknown]

Repeated(n, entry) == [x \in 1 .. n |-> entry]

-------------------------------------------------------------------------------
(* The profiles an evaluation can meet: the best and the worst the           *)
(* providers report, nothing known, and each finding on its own.             *)

Node(age, txs, has_code) == [age_days |-> age, tx_count |-> txs, has_code |-> has_code]
OldWallet == RpcWallet(Node(400, 90, FALSE))
Wallets == {OldWallet, MockWallet(TRUE, 0, 0), RpcWallet(Node(10, 1, TRUE)),
            RpcWallet(Unknown)}

\* The fields GoPlus reports, all off but those in `on`.
GoPlusTokenKeys == {"is_in_dex", "is_honeypot", "is_blacklisted", "transfer_pausable"}
GoPlusContractKeys == {"is_open_source", "is_proxy", "owner_change_balance", "is_mintable",
                       "selfdestruct", "hidden_owner"}
Flags(keys, on) == [k \in keys |-> k \in on]
Pair(chain, usd) == [chain |-> chain, usd |-> usd]
Holder(percent, exempt) == [percent |-> percent, exempt |-> exempt]

Listed(on) == GoPlusToken(TRUE, Flags(GoPlusTokenKeys, on \cup {"is_in_dex"}), {}, 0, 0)
Tokens ==
    {Unknown, [UnknownToken EXCEPT !.major = TRUE],
     DexScreenerToken({Pair(base, 1000000), Pair(base, 10), Pair(arc, 5)}, base),
     DexScreenerToken({Pair(arc, 1000000)}, base),
     DexScreenerToken({Pair(base, 10), Pair(base, Unknown), Pair(arc, 1000000)}, base),
     GoPlusToken(TRUE, [trust_list |-> TRUE], {}, 0, 0),
     Listed(GoPlusTokenKeys),
     GoPlusToken(TRUE, Flags(GoPlusTokenKeys, {}),
                 {Holder(95, TRUE), Holder(80, FALSE), Holder(9, FALSE)}, 60, Unknown),
     GoPlusToken(TRUE, Flags(GoPlusTokenKeys, {"is_in_dex"}),
                 {Holder(95, TRUE), Holder(25, FALSE)}, 12, Unknown)}

Malicious == [UnknownContract EXCEPT !.malicious = TRUE, !.safe = TRUE]
KnownSafe == [UnknownContract EXCEPT !.safe = TRUE]
Answered(status, verified, proxied) ==
    [status |-> status, verified |-> verified, proxied |-> proxied]
Contracts == {Unknown, Malicious, KnownSafe, BlockscoutContract(Unknown),
              BlockscoutContract(Answered(200, TRUE, Unknown)),
              BlockscoutContract(Answered(404, FALSE, Unknown)),
              GoPlusContract(Flags(GoPlusContractKeys, GoPlusContractKeys \ {"is_open_source"}))}

DryRun(attempted, reverts, approves) ==
    [attempted |-> attempted, reverts |-> reverts, approves |-> approves]
Succeeds == DryRun(TRUE, FALSE, Unknown)
Runs == {DryRun(FALSE, FALSE, Unknown), Succeeds, DryRun(TRUE, TRUE, Unknown),
         DryRun(TRUE, FALSE, 1000), DryRun(TRUE, FALSE, 100), DryRun(TRUE, FALSE, 102)}

World(wallet, token, contract, run, decimals, wl, tl) ==
    [wallet |-> wallet, token |-> token, contract |-> contract, run |-> run,
     decimals |-> decimals, walletListed |-> wl, targetListed |-> tl,
     capability |-> FALSE]

\* One evaluation in every world.
AllWorlds ==
    {World(w, t, c, r, d, l[1], l[2]) :
        w \in Wallets, t \in Tokens, c \in Contracts, r \in Runs,
        d \in {1, Unknown}, l \in {<<FALSE, FALSE>>, <<TRUE, FALSE>>, <<FALSE, TRUE>>}}
AllReputations == {<<>>, Repeated(25, Past("ALLOW", 10)), Repeated(9, Past("ALLOW", 10)),
                   Repeated(4, Past("BLOCK", 10))}
RiskIntents == {Ask(base, "approve", 10, TRUE), Ask(base, "transfer", 1, FALSE)}

\* Several evaluations over one history, in the worlds that tell decisions
\* apart.
Clean == World(OldWallet, Unknown, KnownSafe, Succeeds, Unknown, FALSE, FALSE)
FewWorlds == {Clean, [Clean EXCEPT !.capability = TRUE],
              [Clean EXCEPT !.wallet = MockWallet(FALSE, 0, 0),
                            !.token = MockToken(TRUE, 5010),
                            !.contract = MockContract(FALSE, FALSE)]}
FewHistories == {<<>>, <<Past("BLOCK", 1)>>, <<Past("ALLOW", 1), Past("WARN", 3)>>}
FewIntents == {Ask(base, "transfer", 1, FALSE), Ask(arc, "swap", 20, FALSE),
               Ask(base, "swap", NonFinite, FALSE)}
UnsupportedToo == FewIntents \cup {Ask(tron, "swap", 1, FALSE)}
CleanOnly == {Clean}
NonFiniteTried == {Ask(base, "swap", NonFinite, FALSE), Ask(base, "swap", 1, FALSE)}
FourAllowed == {Repeated(4, Past("ALLOW", 1))}

Symmetry == Permutations(Calls)
===============================================================================
