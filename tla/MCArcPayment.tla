----------------------------- MODULE MCArcPayment ------------------------------
(* Instances of ArcPayment for TLC. *)
EXTENDS ArcPayment, TLC

CONSTANTS agent, wallet, payee, junk, usdc, dai, router, bridge, ethereum, base, arc

MCSupportedChains == {ethereum, base, arc}
MCWellFormed == {wallet, payee, usdc, dai}
MCRouters == ethereum :> router
MCBridges == base :> bridge

\* The same address on two chains is two tokens.
MCTokens == {<<arc, usdc>>, <<ethereum, usdc>>, <<ethereum, dai>>}
MCTrueDecimals == (<<arc, usdc>> :> 1) @@ (<<ethereum, usdc>> :> 2) @@ (<<ethereum, dai>> :> 0)

\* ARC_PAYMENT_POLICY, in tenths.
MCPolicy == [max_amount_per_action |-> 50, max_amount_unknown_agent |-> 50,
             high_value_threshold |-> 50, min_reputation_for_high_value |-> 60,
             blocked_action_types |-> {"approve", "swap", "bridge", "contract_call"},
             require_confirmation_action_types |-> {}]

Ask(type, chain, target, from, amount) ==
    [agent_id |-> agent, wallet |-> wallet, chain |-> chain, action_type |-> type,
     amount |-> amount, acknowledged |-> FALSE, target |-> target, from_token |-> from,
     to_token |-> Unknown, slippage |-> Unknown, recipient |-> Unknown,
     destination |-> Unknown, l2_token |-> Unknown, data |-> FALSE]

Pay(target, amount) == Ask("transfer", arc, target, usdc, amount)
MCArcPayloads ==
    {Pay(payee, 15), Pay(payee, 51), Pay(junk, 50), [Pay(payee, 5) EXCEPT !.data = TRUE],
     [Pay(payee, 5) EXCEPT !.wallet = junk], Pay(payee, NonFinite), Pay(payee, Unknown),
     Pay(Unknown, 5)}

Swap(from, slippage) ==
    [Ask("swap", ethereum, Unknown, from, 15) EXCEPT !.to_token = dai, !.slippage = slippage]
Deposit(chain, from, l2) ==
    [Ask("bridge", chain, Unknown, from, 15) EXCEPT !.destination = base, !.l2_token = l2]

MCMainIntents ==
    {Ask("transfer", ethereum, payee, usdc, 15), Ask("transfer", ethereum, payee, dai, 15),
     Ask("transfer", base, payee, Unknown, 15), Ask("transfer", ethereum, junk, dai, 15),
     Ask("approve", arc, payee, usdc, 15), Ask("approve", ethereum, payee, usdc, Unknown),
     Ask("transfer", base, payee, junk, 15), Swap(usdc, 100), Swap(dai, Unknown),
     Deposit(ethereum, Unknown, dai),
     Deposit(ethereum, usdc, dai), Deposit(ethereum, usdc, junk), Deposit(base, Unknown, Unknown),
     Ask("contract_call", ethereum, payee, Unknown, Unknown)}

PaymentSymmetry == Permutations(Payments)
===============================================================================
