------------------------------ MODULE Execution ------------------------------
(***************************************************************************)
(* sidecar/src/execution.rs and contracts/ExperimentalExecutorRouter.sol:   *)
(* what the sidecar packs into an executable swap, and what the deployed    *)
(* router does with it. The two agree on the packed route only by           *)
(* convention: protocol tags, endpoints and the bytes that follow them.     *)
(*                                                                         *)
(* A token is a number, in the order of addresses; 0 is the zero address.   *)
(* A packed hop is a record of its fields; its trailing bytes are the       *)
(* sequence extra. An operator returns <<>> where the code fails.           *)
(* A definition whose name says what it gets wrong is a mutation of the one *)
(* that follows it, never used.                                             *)
(***************************************************************************)
EXTENDS Integers, Sequences, FiniteSets, SequencesExt

CONSTANTS
  Registered,  \* pool -> [kind, endpoint, id, fee, coins, variant], the registry's metadata
  Rate,        \* pool -> (<<token in, token out>> -> output per unit of input), the chain's
  Holds,       \* pool -> the largest input a concentrated-liquidity pool can consume whole
  Rounds,      \* the StableSwap pools whose exchange gives one unit less than get_dy
  Weth

Kinds == {"v2", "v3", "pancake", "slipstream", "solidly", "balancer", "curve", "custom"}
Variants == {"stable", "crypto", "cryptoNG"}
Bps == 10000   \* the whole, in basis points

\* The registry's key of a pool is its protocol and address, or its id in the vault. Only a
\* StableSwap pool rounds, and no pool pays out less than nothing.
ASSUME ExecutionAssumption ==
  /\ \A p \in DOMAIN Registered : Registered[p].kind \in Kinds /\ Registered[p].coins \in Seq(Nat)
  /\ \A p, q \in DOMAIN Registered :
       (/\ Registered[p].kind = Registered[q].kind /\ Registered[p].endpoint = Registered[q].endpoint
        /\ Registered[p].kind = "balancer" => Registered[p].id = Registered[q].id) => p = q
  /\ \A p \in DOMAIN Registered : \A pair \in DOMAIN Rate[p] : Rate[p][pair] \in Nat
  /\ \A p \in Rounds : p \in DOMAIN Registered /\ Registered[p].kind = "curve"
                        /\ Registered[p].variant = "stable"

\* What a quote says a hop gives, and the quote of a route between two tokens.
HopOut(h, amount) == Rate[h.pool][<<h.token_in, h.token_out>>] * amount
PathHop == [pool : DOMAIN Registered, token_in : Nat, token_out : Nat]
IsQuote(q) ==
  /\ q.path \in Seq(PathHop) /\ q.path # <<>> /\ Head(q.path).token_in # Last(q.path).token_out
  /\ \A i \in DOMAIN q.path : <<q.path[i].token_in, q.path[i].token_out>> \in DOMAIN Rate[q.path[i].pool]
  /\ q.amount_in \in Nat /\ q.trace[1] = q.amount_in /\ q.amount_out = q.trace[Len(q.path) + 1]
  /\ \A i \in DOMAIN q.path : q.trace[i + 1] = HopOut(q.path[i], q.trace[i])

------------------------------------------------------------------------------
(* The sidecar packs a route *)

\* min_amount_out_from_slippage, without overflow for any amount: 0 if it is refused.
MinFromSlippage(amount, bps) ==
  IF bps >= Bps THEN 0
  ELSE (amount \div Bps) * (Bps - bps) + (((amount % Bps) * (Bps - bps)) \div Bps)

\* validate_quote: amounts and tokens are continuous along the route.
ValidQuote(q) ==
  /\ q.amount_in # 0
  /\ Len(q.trace) = Len(q.path) + 1 /\ q.trace[1] = q.amount_in
  /\ \A i \in 1 .. Len(q.path) - 1 : q.path[i].token_out = q.path[i + 1].token_in
  /\ q.trace[Len(q.trace)] = q.amount_out

\* validate_request
ValidRequest(r) ==
  r.router # 0 /\ r.weth # 0 /\ r.permit2 # 0 /\ r.recipient # 0 /\ r.deadline # 0
  /\ (r.authorization = "permit2" => r.permit_deadline # 0)

\* The floor of the output: the caller's, or what the second route gives. Below 0 is none.
MinAmountOut(routes, minimum) ==
  IF minimum >= 0 THEN minimum
  ELSE IF Len(routes) < 2 \/ ~ValidQuote(routes[2]) THEN 0
  ELSE LET best == routes[1]
           other == routes[2]
       IN IF /\ other.amount_in = best.amount_in
             /\ Head(other.path).token_in = Head(best.path).token_in
             /\ Last(other.path).token_out = Last(best.path).token_out
             /\ best.amount_out >= other.amount_out
          THEN other.amount_out ELSE 0

\* The tag of a protocol.
Tag(p) ==
  CASE p.kind = "v2" -> 0 [] p.kind = "v3" -> 1 [] p.kind = "pancake" -> 2
    [] p.kind = "slipstream" -> 3 [] p.kind = "solidly" -> 4 [] p.kind = "balancer" -> 5
    [] p.kind = "curve" -> (CASE p.variant = "stable" -> 6 [] p.variant = "crypto" -> 7
                              [] p.variant = "cryptoNG" -> 8)

\* A hop can be packed: no custom adapter, a fee below 100 %, two different coins.
Packable(h) ==
  LET p == Registered[h.pool]
  IN /\ h.pool \in DOMAIN Registered /\ p.kind # "custom"
     /\ p.kind = "v2" => p.fee \in 0 .. Bps - 1
     /\ p.kind = "curve" => {h.token_in, h.token_out} \subseteq ToSet(p.coins)
                            /\ h.token_in # h.token_out
     /\ p.kind = "curve" => p.variant \in Variants

\* position: the first place of a coin, counted from 0.
CoinIndex(coins, t) == SelectInSeq(coins, LAMBDA c : c = t) - 1

ExtraInPoolOrder(h) ==
  LET p == Registered[h.pool]
  IN CASE p.kind = "v2" -> <<p.fee>> [] p.kind = "balancer" -> <<p.id>>
       [] p.kind = "curve" -> <<0, 1>> [] OTHER -> <<>>
Extra(h) ==
  LET p == Registered[h.pool]
  IN CASE p.kind = "v2" -> <<p.fee>>
       [] p.kind = "balancer" -> <<p.id>>
       [] p.kind = "curve" -> <<CoinIndex(p.coins, h.token_in), CoinIndex(p.coins, h.token_out)>>
       [] OTHER -> <<>>

PackHop(h) ==
  [tag |-> Tag(Registered[h.pool]), endpoint |-> Registered[h.pool].endpoint,
   token_in |-> h.token_in, token_out |-> h.token_out, extra |-> Extra(h)]

\* build_executable_swap: the transaction of the best route, or <<>>.
BuildExecutableSwap(routes, request) ==
  IF \/ ~ValidRequest(request) \/ routes = <<>>
     \/ ~ValidQuote(routes[1]) \/ routes[1].path = <<>>
     \/ MinAmountOut(routes, request.minimum) = 0
     \/ \E i \in DOMAIN routes[1].path : ~Packable(routes[1].path[i])
     \/ request.authorization = "native" /\ Head(routes[1].path).token_in # request.weth
  THEN <<>>
  ELSE LET best == routes[1]
           first == Head(best.path).token_in
       IN <<[call |-> request.authorization,
             token_in |-> first, token_out |-> Last(best.path).token_out,
             amount_in |-> best.amount_in, min |-> MinAmountOut(routes, request.minimum),
             recipient |-> request.recipient, deadline |-> request.deadline,
             final |-> Last(best.path).token_out,
             route |-> [i \in DOMAIN best.path |-> PackHop(best.path[i])],
             value |-> IF request.authorization = "native" THEN best.amount_in ELSE 0,
             spender |-> CASE request.authorization = "allowance" -> request.router
                           [] request.authorization = "permit2" -> request.permit2
                           [] OTHER -> 0]>>

------------------------------------------------------------------------------
(* The router executes it *)

\* The pool a packed hop reaches: by its id in the vault, by its address otherwise. A call
\* of another protocol's function fails.
Reached(h) ==
  {p \in DOMAIN Registered :
     /\ Registered[p].endpoint = h.endpoint
     /\ h.tag = 5 => h.extra = <<Registered[p].id>>
     /\ Registered[p].kind =
          CASE h.tag = 0 -> "v2" [] h.tag = 1 -> "v3" [] h.tag = 2 -> "pancake"
            [] h.tag = 3 -> "slipstream" [] h.tag = 4 -> "solidly" [] h.tag = 5 -> "balancer"
            [] h.tag \in 6 .. 8 -> "curve" [] OTHER -> "unsupported"
     /\ h.tag \in 6 .. 8 => Registered[p].variant = <<"stable", "crypto", "cryptoNG">>[h.tag - 5]}

\* A hop's swap gives <<[consumed, out]>>: what leaves the router and the change of its
\* balance of the hop's output token; <<>> if a call reverts.
Swap(consumed, out) == <<[consumed |-> consumed, out |-> out]>>

\* The constant product at a fee: the pool's own gives what is quoted, another misses it.
GetAmountOut(p, h, amount, fee) ==
  Rate[p][<<h.token_in, h.token_out>>] * amount
    + (IF fee > Registered[p].fee THEN -1 ELSE IF fee < Registered[p].fee THEN 1 ELSE 0)

\* A pair is paid first and asked for an output, which must keep its invariant.
CallPairSwap(p, h, amount, out) ==
  IF out > Rate[p][<<h.token_in, h.token_out>>] * amount THEN <<>> ELSE Swap(amount, out)
SwapV2(p, h, amount) ==
  IF h.extra[1] >= Bps THEN <<>>
  ELSE CallPairSwap(p, h, amount, GetAmountOut(p, h, amount, h.extra[1]))
SwapSolidlyV2(p, h, amount) ==
  CallPairSwap(p, h, amount, Rate[p][<<h.token_in, h.token_out>>] * amount)

\* A concentrated-liquidity pool calls back for its payment, which may be less than offered.
CallV3Swap(p, amount) == IF amount <= Holds[p] THEN amount ELSE Holds[p]
PayCallback(caller, pool, due, remaining) == caller = pool /\ due \in 1 .. remaining
SwapV3Family(p, h, amount) ==
  LET due == CallV3Swap(p, amount)
  IN IF PayCallback(Registered[p].endpoint, h.endpoint, due, amount)
     THEN Swap(due, Rate[p][<<h.token_in, h.token_out>>] * due) ELSE <<>>

SwapBalancerV2(p, h, amount) == Swap(amount, Rate[p][<<h.token_in, h.token_out>>] * amount)

\* Curve goes by coin indices: it can take the approved token only, and what it gives
\* counts only if it is the hop's output token.
CallCurve(p, i, j, amount) ==
  LET coins == Registered[p].coins
  IN IF {i + 1, j + 1} \subseteq DOMAIN coins /\ i # j
     THEN <<[from |-> coins[i + 1], to |-> coins[j + 1],
             out |-> Rate[p][<<coins[i + 1], coins[j + 1]>>] * amount
                     - (IF p \in Rounds THEN 1 ELSE 0)]>>
     ELSE <<>>
SwapCurve(p, h, amount) ==
  LET call == CallCurve(p, h.extra[1], h.extra[2], amount)
  IN IF call = <<>> THEN <<>>
     ELSE IF call[1].from # h.token_in THEN <<>>
     ELSE Swap(amount, IF call[1].to = h.token_out THEN call[1].out ELSE 0)

\* The function the protocol's tag selects.
SwapHop(p, h, amount) ==
  CASE h.tag = 0 -> SwapV2(p, h, amount)
    [] h.tag \in 1 .. 3 -> SwapV3Family(p, h, amount)
    [] h.tag = 4 -> SwapSolidlyV2(p, h, amount)
    [] h.tag = 5 -> SwapBalancerV2(p, h, amount)
    [] h.tag \in 6 .. 8 -> SwapCurve(p, h, amount)

\* One turn of the loop of _execute, on [token, amount], <<>> once it reverted: the hop
\* must start from the current token and consume the whole amount.
RunHop(acc, h) ==
  IF acc = <<>> \/ h.token_in # acc[1].token \/ Reached(h) = {} THEN <<>>
  ELSE LET amount == acc[1].amount
           swap == SwapHop(CHOOSE p \in Reached(h) : TRUE, h, amount)
       IN IF swap = <<>> THEN <<>>
          ELSE IF swap[1].consumed # amount THEN <<>>
          ELSE <<[token |-> h.token_out, amount |-> swap[1].out]>>

\* _validate, and what the four entry points ask of the payment.
Validated(tx, now) ==
  tx.recipient # 0 /\ tx.token_in # tx.token_out /\ tx.min # 0 /\ now <= tx.deadline
Funded(tx) ==
  IF tx.call = "native" THEN tx.token_in = Weth /\ tx.value = tx.amount_in ELSE tx.value = 0

\* The loop of _execute over the packed hops.
RunRoute(tx) ==
  LET run[i \in 0 .. Len(tx.route)] ==
        IF i = 0 THEN <<[token |-> tx.token_in, amount |-> tx.amount_in]>>
        ELSE RunHop(run[i - 1], tx.route[i])
  IN run[Len(tx.route)]

\* The result is what the recipient gets, or <<>> if the call reverts.
Execute(tx, now) ==
  LET ran == RunRoute(tx)
  IN IF ~Validated(tx, now) \/ ~Funded(tx) \/ tx.route = <<>> \/ tx.final # tx.token_out
        \/ ran = <<>>
     THEN <<>>
     ELSE IF ran[1].token # tx.token_out \/ ran[1].amount < tx.min THEN <<>> ELSE <<ran[1].amount>>

\* is_final_stableswap_rounding: the one difference from the quote that is accepted.
FinalRounding(best, amount) ==
  /\ amount + 1 = best.amount_out
  /\ Registered[Last(best.path).pool].kind = "curve"
  /\ Registered[Last(best.path).pool].variant = "stable"
==============================================================================
