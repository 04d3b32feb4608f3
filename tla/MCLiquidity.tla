------------------------------ MODULE MCLiquidity ------------------------------
EXTENDS Liquidity, TLC

\* Two pools at one address (registered under two protocols), a Balancer pool, whose two
\* balances share a word, and a pool that comes and goes.
MCHolder == <<7, 7, 0>>

Off == [kind |-> "none", tokens |-> {}, needed |-> {}, cash |-> <<>>]
Pair == [Off EXCEPT !.kind = "erc20", !.tokens = {1, 2}, !.needed = {1, 2}]
Half == [Pair EXCEPT !.needed = {2}]
Vaulted == [Pair EXCEPT !.kind = "balancer",
                        !.cash = <<[slot |-> 1, high |-> FALSE], [slot |-> 1, high |-> TRUE]>>]
Opaque == [Vaulted EXCEPT !.cash = <<>>]

MCRegistries ==
  {<<Pair, Off, Vaulted>>, <<Pair, Half, Off>>, <<Off, Pair, Vaulted>>, <<Off, Half, Opaque>>,
   <<[Pair EXCEPT !.kind = "custom"], Pair, Vaulted>>}
==============================================================================
