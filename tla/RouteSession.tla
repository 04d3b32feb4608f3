----------------------------- MODULE RouteSession -----------------------------
(***************************************************************************)
(* RouteSearchSession of src/search.rs: a route search that is kept and     *)
(* refreshed in place when pools change, instead of being run again.        *)
(*                                                                         *)
(* An exact-in simulation multiplies the amount by the pool's rate, and a   *)
(* rate of 0 is a pool that cannot be quoted. The search that starts the    *)
(* session evaluates some of the routes; which ones is left open, since a   *)
(* heuristic or stopped search evaluates only some. The caller does what    *)
(* README.md asks: it reports every changed pool, and after                 *)
(* RecomputeRequired it starts a fresh session.                             *)
(* A definition whose name says what it gets wrong (InvalidateNothing, ...)  *)
(* is a mutation of the one that follows it, never used.                    *)
(***************************************************************************)
EXTENDS Integers, Sequences, FiniteSets

CONSTANTS
  None,         \* Option::None
  Pools, Links, \* the pools, and the tokens each one trades
  TokenIn, TokenOut, MaxHops,  \* the RouteRequest
  Rates,        \* the rates a pool may have; 0 cannot be quoted
  MaxProbes,    \* max_probe_paths_per_refresh
  MaxUpdates,   \* bound: batches of state changes
  MaxChanged    \* bound: pools one batch changes

ASSUME SessionAssumption ==
  /\ Rates \subseteq Nat /\ MaxHops \in Nat \ {0} /\ MaxProbes \in Nat
  /\ MaxUpdates \in Nat /\ MaxChanged \in Nat /\ None \notin Nat
  /\ IsFiniteSet(Pools) /\ \A p \in Pools : IsFiniteSet(Links[p])

AmountIn == 1

Hop == {h \in [pool: Pools, token_in: UNION {Links[p] : p \in Pools},
               token_out: UNION {Links[p] : p \in Pools}] :
          h.token_in # h.token_out /\ {h.token_in, h.token_out} \subseteq Links[h.pool]}

\* RoutePath: the simple routes of the request, no token and no pool twice.
IsRoute(r) ==
  /\ r[1].token_in = TokenIn /\ r[Len(r)].token_out = TokenOut
  /\ \A i \in 1 .. (Len(r) - 1) : r[i].token_out = r[i + 1].token_in
  /\ \A i, j \in 1 .. Len(r) : i # j => r[i].pool # r[j].pool /\ r[i].token_out # r[j].token_out
  /\ \A i \in 1 .. Len(r) : r[i].token_out # TokenIn

Routes == {r \in UNION {[1 .. n -> Hop] : n \in 1 .. MaxHops} : IsRoute(r)}

PoolsOf(r) == {r[i].pool : i \in DOMAIN r}

VARIABLES
  rate, graph, version, updates,  \* pool state, the pools of the graph, GraphVersion
  changed,                        \* pools changed since they were last reported
  active,                         \* there is a session the caller may use
  stopped,                        \* where a callback last stopped one of its refreshes
  route_table, pool_to_routes, parallel_probe_index, best, quote_cache, graph_version

worldVars == <<rate, graph, version, updates>>
tableVars == <<route_table, pool_to_routes, parallel_probe_index, best>>
vars == <<worldVars, changed, active, stopped, tableVars, quote_cache, graph_version>>

\* A route's entry: absent, Failed (0) or Quoted (its amount). A cached hop quote is
\* keyed by the hop and its input amount.
Keys == Hop \X Nat
TypeOK ==
  /\ rate \in [Pools -> Rates] /\ graph \subseteq Pools /\ version \in Nat /\ updates \in Nat
  /\ changed \subseteq Pools /\ active \in BOOLEAN
  /\ stopped \in {"never", "at start", "at quote"}
  /\ route_table \in [Routes -> Nat \cup {None}]
  /\ pool_to_routes \subseteq Pools \X Routes /\ parallel_probe_index \subseteq Pools \X Routes
  /\ best \in Nat \cup {None}
  /\ \A q \in quote_cache : q.key \in Keys /\ q.out \in Nat
  /\ graph_version \in Nat

------------------------------------------------------------------------------
(* Quoting *)

\* HopQuoteKey: the request's simulation config is the same for all keys of a session.
HopQuoteKey(h, amount) == <<h, amount>>

\* get_or_quote in one thread: the cached result, else the pool is simulated.
HopOut(c, h, amount) ==
  IF \E q \in c : q.key = HopQuoteKey(h, amount)
    THEN (CHOOSE q \in c : q.key = HopQuoteKey(h, amount)).out
    ELSE amount * rate[h.pool]

\* The amounts along a route; 0 from the hop that cannot be quoted.
Amounts(c, r) ==
  LET f[i \in 0 .. Len(r)] == IF i = 0 THEN AmountIn ELSE HopOut(c, r[i], f[i - 1]) IN f

QuoteOf(c, r) == Amounts(c, r)[Len(r)]

\* The cache after the routes of S were evaluated, each up to its first failure.
CachedAfter(c, S) ==
  c \cup UNION {{[key |-> HopQuoteKey(r[i], Amounts(c, r)[i - 1]), out |-> Amounts(c, r)[i]] :
                   i \in {j \in DOMAIN r : Amounts(c, r)[j - 1] # 0}} : r \in S}

\* invalidate_pools
InvalidateNothing(c, F) == c
InvalidateMaterialized(c, F) ==
  {q \in c : q.key[1].pool \notin {p \in F : \E r \in Routes : <<p, r>> \in pool_to_routes}}
InvalidatePools(c, F) == {q \in c : q.key[1].pool \notin F}

------------------------------------------------------------------------------
(* The indexes of a session *)

\* index_route_path
IndexRoutePath(S) == UNION {PoolsOf(r) \X {r} : r \in S}

\* The route with hop i through pool p instead.
Replaced(r, i, p) == [r EXCEPT ![i] = [r[i] EXCEPT !.pool = p]]

\* index_probe_paths_for_route: a same-pair replacement of one hop is found under
\* both the replaced pool and its replacement.
ProbesOf(r) ==
  {x \in (DOMAIN r) \X graph : /\ {r[x[1]].token_in, r[x[1]].token_out} \subseteq Links[x[2]]
                             /\ x[2] \notin PoolsOf(r)}
IndexProbesReplacedOnly(S) ==
  UNION {{<<r[x[1]].pool, Replaced(r, x[1], x[2])>> : x \in ProbesOf(r)} : r \in S}
IndexProbePaths(S) ==
  UNION {UNION {{r[x[1]].pool, x[2]} \X {Replaced(r, x[1], x[2])} : x \in ProbesOf(r)} : r \in S}

\* best_from_table: the best amount; which of equal routes it names is left open.
BestOf(table) ==
  LET quoted == {table[r] : r \in Routes} \ {None, 0}
  IN IF quoted = {} THEN None ELSE CHOOSE m \in quoted : \A n \in quoted : n <= m

\* insert_quote for every route of S, quoted with cache c, over a table.
InsertQuotes(table, S, c) == [r \in Routes |-> IF r \in S THEN QuoteOf(c, r) ELSE table[r]]

Viable(c, S) == {r \in S : QuoteOf(c, r) # 0}

------------------------------------------------------------------------------
NoTable == [r \in Routes |-> None]

Init ==
  /\ rate \in [Pools -> Rates] /\ graph = Pools /\ version = 0 /\ updates = 0
  /\ changed = {} /\ active = FALSE /\ stopped = "never"
  /\ route_table = NoTable /\ pool_to_routes = {} /\ parallel_probe_index = {}
  /\ best = None /\ quote_cache = {} /\ graph_version = 0

\* start_route_session; the search evaluated S, nothing if it was stopped at once.
StartRouteSession(S) ==
  /\ ~active /\ active' = TRUE /\ changed' = {} /\ stopped' = "never"
  /\ S \subseteq {r \in Routes : PoolsOf(r) \subseteq graph}
  /\ route_table' = InsertQuotes(NoTable, Viable({}, S), {})
  /\ pool_to_routes' = IndexRoutePath(Viable({}, S))
  /\ parallel_probe_index' = IndexProbePaths(Viable({}, S))
  /\ best' = BestOf(route_table')
  /\ quote_cache' = CachedAfter({}, S) /\ graph_version' = version
  /\ UNCHANGED worldVars

\* Live sync applies a batch of updates to the cache the simulations read (external).
UpdatePools(C) ==
  /\ active /\ updates < MaxUpdates /\ updates' = updates + 1
  /\ C # {} /\ Cardinality(C) <= MaxChanged
  /\ \E new \in [C -> Rates] :
       /\ \A p \in C : new[p] # rate[p]
       /\ rate' = [p \in Pools |-> IF p \in C THEN new[p] ELSE rate[p]]
  /\ changed' = changed \cup C
  /\ UNCHANGED <<graph, version, active, stopped, tableVars, quote_cache, graph_version>>

\* A pool enters or leaves the graph (external).
ChangeTopology(p) ==
  /\ active /\ updates < MaxUpdates /\ updates' = updates + 1
  /\ graph' = IF p \in graph THEN graph \ {p} ELSE graph \cup {p}
  /\ version' = version + 1 /\ changed' = changed \cup {p}
  /\ UNCHANGED <<rate, active, stopped, tableVars, quote_cache, graph_version>>

------------------------------------------------------------------------------
(* refresh_affected *)

\* AffectedPools: the pools that the logs of a batch belong to, whether some log belongs
\* to no known pool, and whether some log was removed by a reorganisation.
AffectedPools(F, unknown, removed) == [pools |-> F, unknown_logs |-> unknown, removed_logs |-> removed]

\* A batch came in: its logs name what it changed, and perhaps pools it did not.
Reported(A) ==
  /\ active /\ changed # {} /\ changed' = {}
  /\ changed \subseteq A.pools \/ A.unknown_logs \/ A.removed_logs

\* early_recompute_reason. (The session of a static searcher has no state point.)
EarlyRecompute(A) == A.removed_logs \/ A.unknown_logs \/ graph_version # version

\* The materialized routes, and the other replacement routes, that F touches.
MaterializedPaths(F) == {r \in Routes : \E p \in F : <<p, r>> \in pool_to_routes}
ProbePaths(F) ==
  {r \in Routes : \E p \in F : <<p, r>> \in parallel_probe_index} \ MaterializedPaths(F)

\* recompute_required: an early reason, an affected pool that is unknown or degraded, or
\* too many probes. The caller gives the session up.
RefreshRecompute(A, degraded) ==
  /\ Reported(A) /\ active' = FALSE
  /\ \/ EarlyRecompute(A)
     \/ A.pools # {} /\ (degraded \/ Cardinality(ProbePaths(A.pools)) > MaxProbes)
  /\ UNCHANGED <<worldVars, stopped, tableVars, quote_cache, graph_version>>

\* The refresh is on, with the pools F.
Refreshing(F) ==
  LET A == AffectedPools(F, FALSE, FALSE) IN Reported(A) /\ ~EarlyRecompute(A)

\* The callback stops the refresh at its first event.
RefreshStoppedAtStart(F) ==
  /\ Refreshing(F) /\ stopped' = "at start"
  /\ UNCHANGED <<worldVars, active, tableVars, quote_cache, graph_version>>

\* No route of the session is touched: Unchanged, and nothing is invalidated.
RefreshUntouched(F) ==
  /\ Refreshing(F) /\ MaterializedPaths(F) = {} /\ ProbePaths(F) = {}
  /\ UNCHANGED <<worldVars, active, stopped, tableVars, quote_cache, graph_version>>

\* The touched routes are quoted again, first the materialized ones, which count as
\* failed unless a quote comes back, then the probes. M and P are the ones quoted,
\* tried the ones evaluated at all.
Requote(F, M, P, tried) ==
  /\ Refreshing(F)
  /\ MaterializedPaths(F) # {} \/ ProbePaths(F) # {}
  /\ Cardinality(ProbePaths(F)) <= MaxProbes
  /\ LET c == InvalidatePools(quote_cache, F)
         failed == [r \in Routes |-> IF r \in MaterializedPaths(F) THEN 0 ELSE route_table[r]]
     IN /\ route_table' = InsertQuotes(failed, M \cup P, c)
        /\ quote_cache' = CachedAfter(c, tried)
  /\ pool_to_routes' = pool_to_routes \cup IndexRoutePath(M \cup P)
  /\ parallel_probe_index' = parallel_probe_index \cup IndexProbePaths(M \cup P)
  /\ best' = BestOf(route_table')
  /\ UNCHANGED <<worldVars, active, graph_version>>

TouchedViable(F, S) == Viable(InvalidatePools(quote_cache, F), S)

RefreshRequote(F) ==
  /\ Requote(F, TouchedViable(F, MaterializedPaths(F)), TouchedViable(F, ProbePaths(F)),
             MaterializedPaths(F) \cup ProbePaths(F))
  /\ UNCHANGED stopped

\* What has been quoted of the viable routes V when the callback stops at one of them.
UpToStop(V) == IF V = {} THEN {{}} ELSE (SUBSET V) \ {{}}

\* The callback stops at a quote, of the materialized routes or of the probes or of
\* both: the materialized routes not reached stay failed. (Of the routes that cannot
\* be quoted, those tried before the stop are not put in the cache here.)
RefreshRequoteStopped(F) ==
  /\ \E M \in UpToStop(TouchedViable(F, MaterializedPaths(F))),
        P \in UpToStop(TouchedViable(F, ProbePaths(F))) :
       M \cup P # {} /\ Requote(F, M, P, M \cup P)
  /\ stopped' = "at quote"

Next ==
  \/ \E S \in SUBSET Routes : StartRouteSession(S)
  \/ \E C \in SUBSET Pools : UpdatePools(C)
  \/ \E p \in Pools : ChangeTopology(p)
  \/ \E F \in SUBSET Pools :
       \/ \E why \in {"unknown", "removed", "degraded", "other"} :
            RefreshRecompute(AffectedPools(F, why = "unknown", why = "removed"), why = "degraded")
       \/ RefreshStoppedAtStart(F)
       \/ RefreshUntouched(F) \/ RefreshRequote(F) \/ RefreshRequoteStopped(F)

Spec == Init /\ [][Next]_vars

------------------------------------------------------------------------------
\* The amount a route gives in the current state, computed without any cache.
Fresh(r) == QuoteOf({}, r)

\* Every change has been reported and the session was not given up.
Refreshed == active /\ changed = {}

\* Every materialized route shows what it would give if it were quoted from scratch,
\* or Failed if it cannot be, and best is the best of them.
TableIsExact ==
  /\ \A r \in Routes : route_table[r] # None => route_table[r] = Fresh(r)
  /\ best = BestOf(route_table)

\* While no callback stops a refresh, the session's routes and its best are exact
\* after every one, whatever pools changed and whichever routes were materialized.
ExactWithinMaterialized == Refreshed /\ stopped = "never" => TableIsExact

\* A refresh that a callback stops at a quote reports Updated, which says that the
\* affected routes were re-evaluated: they too are exact then.
ExactAfterStop == Refreshed /\ stopped = "at quote" => TableIsExact

\* No cached hop quote that a route or a probe of the session could use is stale,
\* although a refresh that touches no route leaves the cache as it is.
CacheFresh ==
  Refreshed /\ stopped = "never" =>
    \A q \in quote_cache :
      LET h == q.key[1] IN
      (\E r \in Routes : <<h.pool, r>> \in pool_to_routes \cup parallel_probe_index)
        => q.out = q.key[2] * rate[h.pool]

\* A refresh sees the replacements around touched hops: no same-pair replacement of a
\* materialized route that goes through a changed pool beats the best it settles on.
RefreshSeesReplacements ==
  [][active /\ active' /\ changed' = {} /\ stopped' = "never" =>
       \A r \in {s \in Routes : route_table[s] # None} : \A x \in ProbesOf(r) :
         (x[2] \in changed /\ Fresh(Replaced(r, x[1], x[2])) # 0) =>
            best' # None /\ Fresh(Replaced(r, x[1], x[2])) <= best']_vars
==============================================================================
