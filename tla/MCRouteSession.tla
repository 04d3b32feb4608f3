---------------------------- MODULE MCRouteSession ----------------------------
EXTENDS RouteSession, TLC

CONSTANTS p1, p2, p3

\* A pool over the first pair, one over the second, one over all three tokens.
MCLinks == (p1 :> {"a", "b"}) @@ (p2 :> {"b", "c"}) @@ (p3 :> {"a", "b", "c"})
==============================================================================
