--------------------------- MODULE TransactionBuilder --------------------------
(***************************************************************************)
(* RpcTransactionBuilder of guardian/intelligence/simulation/tx_builder.py *)
(* as operators: the transaction a node's answers turn an intent into, or  *)
(* Unknown when it builds none.  Calldata is a record of what it encodes.  *)
(*                                                                         *)
(* An intent has the fields of PolicyChecks and target, from_token,        *)
(* to_token, slippage, recipient, destination and l2_token, each Unknown   *)
(* when it is not given.  An amount n stands for n / AmountUnit tokens.    *)
(***************************************************************************)
EXTENDS PolicyChecks

CONSTANTS
    WellFormed,      \* strings _looks_like_address accepts
    Garbled,         \* what the encoding makes of any other string
    Routers,         \* DEFAULT_ROUTER_ADDRESSES
    Bridges,         \* BRIDGE_CONTRACTS
    L1Chain,         \* the chain those contracts are on
    AmountUnit,
    NativeDecimals   \* 18

\* An address is a string, and each destination has a bridge of its own.
ASSUME BuilderAssumption ==
    /\ Unknown \notin WellFormed
    /\ \A d, e \in DOMAIN Bridges : Bridges[d] = Bridges[e] => d = e
    /\ NearMax \in Nat

LooksLikeAddress(x) == x \in WellFormed
Encoded(x) == IF LooksLikeAddress(x) THEN x ELSE Garbled
Given(x) == x # Unknown

UnlimitedApproval == NearMax + 1

\* int(amount * 10**decimals)
AtomicUnits(amount, decimals) == (amount * 10 ^ decimals) \div AmountUnit

Call(fn, to, units) == [fn |-> fn, to |-> to, units |-> units, token |-> Unknown,
                        gets |-> Unknown, min |-> 0]
NoCall == Call("none", Unknown, 0)
Transaction(to, value, call) == [to |-> to, value |-> value, call |-> call]

-------------------------------------------------------------------------------
\* Whether a builder with a client looks up the decimals of from_token.

Recipient(i) == IF Given(i.recipient) THEN i.recipient ELSE i.wallet

SwapIsClear(i) ==
    /\ LooksLikeAddress(i.from_token) /\ LooksLikeAddress(i.to_token)
    /\ Given(i.amount)
    /\ i.chain \in DOMAIN Routers
    /\ Given(i.slippage) /\ i.slippage \in 0 .. 10000

BridgeIsClear(i) ==
    /\ i.destination \in DOMAIN Bridges
    /\ Given(i.amount)
    /\ LooksLikeAddress(Recipient(i))

NeedsDecimals(i) ==
    \/ /\ i.action_type \in {"transfer", "approve"}
       /\ Given(i.target) /\ Given(i.amount) /\ LooksLikeAddress(i.from_token)
    \/ i.action_type = "swap" /\ SwapIsClear(i)
    \/ /\ i.action_type = "bridge" /\ BridgeIsClear(i)
       /\ LooksLikeAddress(i.l2_token) /\ LooksLikeAddress(i.from_token)

-------------------------------------------------------------------------------
(* A node is [client, decimals, quote]: whether there is a client for the    *)
(* chain, and the answers it gives, Unknown if it does not.                  *)

BuildNative(i) ==
    IF Given(i.amount)
    THEN Transaction(i.target, AtomicUnits(i.amount, NativeDecimals), NoCall)
    ELSE Unknown

\* Mutant: the transaction goes to the address the intent names.
BuildTransferToTarget(i, node) ==
    IF Given(i.amount) /\ Given(node.decimals)
    THEN Transaction(i.target, 0, Call("transfer", Encoded(i.target),
                                       AtomicUnits(i.amount, node.decimals)))
    ELSE Unknown

BuildTransfer(i, node) ==
    IF Given(i.amount) /\ Given(node.decimals)
    THEN Transaction(i.from_token, 0, Call("transfer", Encoded(i.target),
                                           AtomicUnits(i.amount, node.decimals)))
    ELSE Unknown

\* An approval without an amount is an unlimited one.
BuildApprove(i, node) ==
    CASE ~Given(i.amount) ->
            Transaction(i.from_token, 0, Call("approve", Encoded(i.target), UnlimitedApproval))
      [] Given(i.amount) /\ Given(node.decimals) ->
            Transaction(i.from_token, 0, Call("approve", Encoded(i.target),
                                              AtomicUnits(i.amount, node.decimals)))
      [] OTHER -> Unknown

BuildSwap(i, node) ==
    IF /\ SwapIsClear(i) /\ node.client
       /\ Given(node.decimals) /\ Given(node.quote) /\ LooksLikeAddress(Recipient(i))
    THEN Transaction(Routers[i.chain], 0,
            [fn |-> "swap", to |-> Recipient(i),
             units |-> AtomicUnits(i.amount, node.decimals),
             token |-> i.from_token, gets |-> i.to_token,
             min |-> (node.quote * (10000 - i.slippage)) \div 10000])
    ELSE Unknown

BuildBridge(i, node) ==
    CASE BridgeIsClear(i) /\ ~Given(i.from_token) ->
            Transaction(Bridges[i.destination], AtomicUnits(i.amount, NativeDecimals),
                        Call("depositETHTo", Recipient(i), 0))
      [] /\ BridgeIsClear(i)
         /\ LooksLikeAddress(i.l2_token) /\ LooksLikeAddress(i.from_token)
         /\ node.client /\ Given(node.decimals) ->
            Transaction(Bridges[i.destination], 0,
                [Call("depositERC20To", Recipient(i), AtomicUnits(i.amount, node.decimals))
                    EXCEPT !.token = i.from_token, !.gets = i.l2_token])
      [] OTHER -> Unknown

Build(i, node) ==
    CASE i.action_type = "swap" -> BuildSwap(i, node)
      [] i.action_type = "bridge" -> BuildBridge(i, node)
      [] i.action_type = "transfer" /\ Given(i.target) /\ ~Given(i.from_token) ->
            BuildNative(i)
      [] /\ i.action_type \in {"transfer", "approve"}
         /\ Given(i.target) /\ LooksLikeAddress(i.from_token) /\ node.client ->
            IF i.action_type = "approve" THEN BuildApprove(i, node)
            ELSE BuildTransfer(i, node)
      [] OTHER -> Unknown

-------------------------------------------------------------------------------
(* The reference: what executing a transaction does, and what an intent asks *)
(* for.  An effect is [kind, asset, units, who, gets, min, on].              *)

Effect(kind, asset, units, who, gets, min, on) ==
    [kind |-> kind, asset |-> asset, units |-> units, who |-> who, gets |-> gets,
     min |-> min, on |-> on]
Nothing == Effect("nothing", Unknown, 0, Unknown, Unknown, 0, Unknown)

\* `contracts` are the tokens deployed on the chain the transaction is sent to.
EffectOf(tx, chain, contracts) ==
    CASE tx.call.fn = "none" -> Effect("pay", Unknown, tx.value, tx.to, Unknown, 0, chain)
      [] tx.call.fn = "transfer" /\ tx.to \in contracts ->
            Effect("pay", tx.to, tx.call.units, tx.call.to, Unknown, 0, chain)
      [] tx.call.fn = "approve" /\ tx.to \in contracts ->
            Effect("allow", tx.to, tx.call.units, tx.call.to, Unknown, 0, chain)
      [] tx.call.fn = "swap" /\ chain \in DOMAIN Routers /\ tx.to = Routers[chain] ->
            Effect("swap", tx.call.token, tx.call.units, tx.call.to, tx.call.gets,
                   tx.call.min, chain)
      [] /\ tx.call.fn \in {"depositETHTo", "depositERC20To"}
         /\ chain = L1Chain /\ \E d \in DOMAIN Bridges : tx.to = Bridges[d] ->
            LET d == CHOOSE d \in DOMAIN Bridges : tx.to = Bridges[d]
            IN  IF tx.call.fn = "depositETHTo"
                THEN Effect("pay", Unknown, tx.value, tx.call.to, tx.call.gets, 0, d)
                ELSE Effect("pay", tx.call.token, tx.call.units, tx.call.to, tx.call.gets, 0, d)
      [] OTHER -> Nothing

\* With the token's true decimals and the quote the node gave.  Bridged ETH
\* arrives as ETH, whatever token the intent names there.
Asked(i, decimals, quote) ==
    LET units == CASE ~Given(i.amount) -> UnlimitedApproval
                   [] Given(i.amount) /\ ~Given(i.from_token) ->
                        AtomicUnits(i.amount, NativeDecimals)
                   [] OTHER -> AtomicUnits(i.amount, decimals)
    IN  CASE i.action_type = "transfer" ->
                Effect("pay", i.from_token, units, i.target, Unknown, 0, i.chain)
          [] i.action_type = "approve" ->
                Effect("allow", i.from_token, units, i.target, Unknown, 0, i.chain)
          [] i.action_type = "swap" ->
                Effect("swap", i.from_token, units, Recipient(i), i.to_token,
                       (quote * (10000 - i.slippage)) \div 10000, i.chain)
          [] i.action_type = "bridge" ->
                Effect("pay", i.from_token, units, Recipient(i),
                       IF Given(i.from_token) THEN i.l2_token ELSE Unknown, 0, i.destination)
===============================================================================
