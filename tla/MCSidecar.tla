------------------------------ MODULE MCSidecar ------------------------------
EXTENDS Sidecar

MCNodes == 1 .. 2
MCRequests == 1 .. 2
MCTokens == 1 .. 4
Without == [p |-> {1, 3}, q |-> {}]
With == [p |-> {1, 3}, q |-> {2, 3}]
Wide == [p |-> {1, 2, 3}, q |-> {}]
MCPools == {"p", "q"}
MCTopologies == {Without, With, Wide}

Nobody == [kind |-> "none"]
NoOptions == [quality |-> "default", max_hops |-> -1, top_k |-> -1, timeout |-> -1]
AQuote(discovery) ==
  [kind |-> "quote", discovery |-> discovery, amount |-> 200, options |-> NoOptions, admin |-> FALSE]
APrewarm(discovery, wait) ==
  [kind |-> "prewarm", discovery |-> discovery, wait |-> wait, admin |-> TRUE]
AnExecutable(min, bps, authorization, ttl) ==
  [kind |-> "executable", discovery |-> "off", amount |-> 200, options |-> NoOptions,
   min |-> min, bps |-> bps, deadline |-> 0, ttl |-> ttl, authorization |-> authorization,
   permit_deadline |-> 2, recipient |-> 1]
Signed == [AnExecutable(-1, 100, "erc2612", 0) EXCEPT !.deadline = 2]
Late == [AnExecutable(-1, 100, "allowance", 0) EXCEPT !.deadline = 3]
Top1 == [AnExecutable(-1, 0, "allowance", 1) EXCEPT !.options.top_k = 1]
Refused ==
  {[AQuote("off") EXCEPT !.options.quality = "exhaustive"],
   [AQuote("off") EXCEPT !.options.max_hops = 0], AQuote("refresh"),
   [APrewarm("refresh", TRUE) EXCEPT !.admin = FALSE], AnExecutable(-1, 100, "allowance", 2)}
MCRouting ==
  [default_quality |-> "balanced", allow_exhaustive |-> FALSE, default_max_hops |-> 3, max_hops |-> 3,
   default_top_k |-> 2, max_top_k |-> 2, default_timeout |-> 1, max_timeout |-> 1]

ALoad(requests, nodes, versions, topologies) ==
  [requests |-> requests, nodes |-> nodes, versions |-> versions, topologies |-> topologies,
   configured |-> FALSE,
   stops |-> FALSE, pauses |-> FALSE, leaves |-> FALSE, polls |-> FALSE, fails |-> FALSE]

\* Two quotes over a rebuild and a shutdown; a quote that prepares its token, and an
\* executable quote, over a rebuild; requests that are refused; a token that two requests
\* prepare; versions that are committed, lost on the way and caught up with while one
\* request prepares.
MCLoads ==
  {[ALoad(<<AQuote("off"), AQuote("off")>>, 2, 1, {With}) EXCEPT !.stops = TRUE],
   ALoad(<<AQuote("ifMissing"), Nobody>>, 2, 1, {Without, With}),
   [ALoad(<<APrewarm("ifMissing", TRUE), APrewarm("ifMissing", FALSE)>>, 1, 1, {Without, With})
      EXCEPT !.leaves = TRUE],
   [ALoad(<<APrewarm("ifMissing", FALSE), APrewarm("refresh", FALSE)>>, 1, 1, {Without, With})
      EXCEPT !.polls = TRUE],
   [ALoad(<<APrewarm("ifMissing", FALSE), Nobody>>, 1, 3, {Without, Wide}) EXCEPT !.fails = TRUE]}
  \cup {[ALoad(<<a, APrewarm("ifMissing", TRUE)>>, 1, 1, {Without}) EXCEPT !.configured = TRUE] :
          a \in Refused}
  \cup {[ALoad(<<e, Nobody>>, 2, 1, {With}) EXCEPT !.leaves = TRUE, !.pauses = (e.min = 1)] :
          e \in {AnExecutable(-1, 100, "allowance", 1), AnExecutable(1, -1, "native", 1),
                 AnExecutable(-1, -1, "permit2", 1), Top1, Late,
                 AnExecutable(1, 1, "allowance", 1), Signed}}

MCRegistered ==
  [v2 |-> [kind |-> "v2", endpoint |-> 11, id |-> 0, fee |-> 30, coins |-> <<>>, variant |-> ""],
   v3 |-> [kind |-> "v3", endpoint |-> 12, id |-> 0, fee |-> 0, coins |-> <<>>, variant |-> ""],
   bal |-> [kind |-> "balancer", endpoint |-> 13, id |-> 1, fee |-> 0, coins |-> <<>>, variant |-> ""],
   bal2 |-> [kind |-> "balancer", endpoint |-> 13, id |-> 2, fee |-> 0, coins |-> <<>>, variant |-> ""],
   crv |-> [kind |-> "curve", endpoint |-> 14, id |-> 0, fee |-> 0, coins |-> <<3, 1, 2>>,
            variant |-> "stable"],
   ng |-> [kind |-> "curve", endpoint |-> 15, id |-> 0, fee |-> 0, coins |-> <<2, 4, 1>>,
           variant |-> "cryptoNG"],
   cl |-> [kind |-> "slipstream", endpoint |-> 17, id |-> 0, fee |-> 0, coins |-> <<>>, variant |-> ""],
   cry |-> [kind |-> "curve", endpoint |-> 20, id |-> 0, fee |-> 0, coins |-> <<3, 4>>,
            variant |-> "crypto"],
   pc |-> [kind |-> "pancake", endpoint |-> 19, id |-> 0, fee |-> 0, coins |-> <<>>, variant |-> ""],
   sol |-> [kind |-> "solidly", endpoint |-> 18, id |-> 0, fee |-> 0, coins |-> <<>>, variant |-> ""],
   own |-> [kind |-> "custom", endpoint |-> 16, id |-> 0, fee |-> 0, coins |-> <<>>, variant |-> ""]]
MCRate == [p \in DOMAIN MCRegistered |->
             [pair \in MCTokens \X MCTokens |-> IF p \in {"bal2", "ng"} THEN 3 ELSE 2]]
MCHolds == [p \in DOMAIN MCRegistered |-> IF p = "v3" THEN 200 ELSE 100000]
MCRounds == {"crv"}

Hop(pool, from, to) == [pool |-> pool, token_in |-> from, token_out |-> to]
Trace(path, amount) ==
  FoldLeft(LAMBDA acc, h : Append(acc, HopOut(h, acc[Len(acc)])), <<amount>>, path)
Q(path) ==
  LET trace == Trace(path, 200)
  IN [path |-> path, amount_in |-> 200, trace |-> trace, amount_out |-> Last(trace)]
MCReports ==
  {<<Q(<<Hop("pc", 1, 4), Hop("cry", 4, 3), Hop("bal2", 3, 2)>>), Q(<<Hop("v2", 1, 2)>>)>>,
   <<Q(<<Hop("ng", 1, 4), Hop("sol", 4, 3), Hop("crv", 3, 2)>>)>>,
   <<Q(<<Hop("v2", 1, 3), Hop("crv", 3, 2)>>), Q(<<Hop("v3", 1, 2)>>)>>,
   <<Q(<<Hop("cl", 1, 3), Hop("v3", 3, 2)>>)>>,
   <<Q(<<Hop("crv", 1, 3), Hop("bal", 3, 2)>>)>>,
   <<Q(<<Hop("own", 1, 2)>>), Q(<<Hop("ng", 1, 2)>>)>>}
MCAllowed == {"v2", "v3", "slipstream", "solidly", "balancer", "curve", "pancake"}
==============================================================================
