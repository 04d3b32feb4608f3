---------------------------- MODULE HeuristicSearch ----------------------------
(***************************************************************************)
(* find_routes and find_cycles of src/search.rs. SearchMode::Heuristic is a *)
(* breadth-first search that quotes prefixes while it expands them and      *)
(* drops the ones that, it argues, cannot lead to a better route.           *)
(* SearchMode::Exhaustive enumerates every route, then quotes them all.     *)
(*                                                                         *)
(* A step is one prefix expanded, one level closed or one pass ended. The   *)
(* snapshot (which tokens a pool trades, its rate, its reserves, and which  *)
(* balances the liquidity index knows) and the configuration are chosen at  *)
(* the start and stay. Tokens and pools are numbers, in the order of their  *)
(* sort keys. An amount of 0 stands for none: a quote that fails.           *)
(* A definition whose name says what it gets wrong is a mutation of the one *)
(* that follows it, never used.                                             *)
(***************************************************************************)
EXTENDS Integers, Sequences, FiniteSets, SequencesExt

CONSTANTS
  Tokens, Pools,  \* numbers
  Source,         \* token_in
  AmountIn,       \* amount_in
  Inputs,         \* [target, links, rate, reserve, fresh, bonus], see IsInput
  Configs         \* SearchConfig with its HeuristicSearchConfig, see ValidConfig

\* AdapterRegistry and PoolLiquidityIndex as the search reads them. A cycle search
\* has its source as target.
IsInput(x) ==
  /\ x.target \in Tokens
  /\ x.links \in [Pools -> SUBSET Tokens]
  /\ x.rate \in [Pools -> Nat] /\ x.reserve \in [Pools -> Nat]
  /\ x.fresh \subseteq Pools /\ x.bonus \in [Pools -> 0 .. 99]

\* FastLaneConfig: enabled and disabled, the setters being EXCEPT, and what it accepts.
FastLaneConfig(on) ==
  [fast_lane |-> on, fast_connectors |-> 8, direct_edges |-> 1, connector_edges |-> 1,
   direct_first |-> TRUE]
ValidFastLane(c) ==
  /\ {c.fast_connectors, c.direct_edges, c.connector_edges} \subseteq Nat
  /\ c.fast_lane => c.direct_edges >= 1 /\ c.connector_edges >= 1

\* AdaptiveEdgeShortlistConfig: disabled, ordering_only and enabled.
EdgeShortlistConfig(on, ordering) ==
  [shortlist |-> on, initial_edges |-> 1, refinement_edges |-> 3, refine |-> on,
   protocol_ordering |-> ordering]
ValidEdgeShortlist(c) ==
  /\ {c.initial_edges, c.refinement_edges} \subseteq Nat
  /\ c.shortlist => c.initial_edges >= 1 /\ c.refinement_edges >= 1

\* UpperBoundPruningConfig: disabled and conservative. Its other two fields change nothing.
UpperBoundPruningConfig(on) == [upper_bound |-> on, balance_cap |-> on]

\* LiquidityPruningConfig: disabled and enabled, without the knobs that are ignored.
LiquidityPruningConfig(on) ==
  [liquidity |-> on, order_by_balance |-> TRUE, prune_dominated |-> TRUE, rank_branches |-> on]

\* HeuristicSearchConfig: balanced, or latency_first. A limit of 0 is None.
HeuristicSearchConfig(latencyFirst) ==
  [max_connectors |-> 8, min_degree |-> 6, beam_width |-> 64, parallel_edge_limit |-> 1,
   max_finalists |-> 16, target_first |-> TRUE, dominance |-> TRUE]
  @@ FastLaneConfig(TRUE) @@ EdgeShortlistConfig(latencyFirst, TRUE) @@ UpperBoundPruningConfig(TRUE)
ValidHeuristic(c) ==
  /\ {c.parallel_edge_limit, c.max_finalists} \subseteq Nat \ {0}
  /\ {c.max_connectors, c.min_degree, c.beam_width} \subseteq Nat
  /\ ValidFastLane(c) /\ ValidEdgeShortlist(c)

\* SearchConfig, its default but for the mode and the balances.
SearchConfig(mode, heuristic, liquidity) ==
  [mode |-> mode, min_hops |-> 1, max_hops |-> 3, max_candidates |-> 0, connectors |-> {}]
  @@ heuristic @@ liquidity
ValidConfig(c) ==
  /\ c.mode \in {"heuristic", "exhaustive"} /\ {c.max_hops, c.max_candidates} \subseteq Nat
  /\ c.min_hops \in 1 .. c.max_hops /\ c.connectors \subseteq Tokens
  /\ c.mode = "heuristic" => ValidHeuristic(c)

ASSUME HeuristicAssumption ==
  /\ Tokens \subseteq Nat /\ Pools \subseteq Nat /\ IsFiniteSet(Tokens) /\ IsFiniteSet(Pools)
  /\ Source \in Tokens /\ AmountIn \in Nat \ {0}
  /\ \A x \in Inputs : IsInput(x)
  /\ \A c \in Configs : ValidConfig(c)

VARIABLES
  in, cfg,      \* the snapshot and the configuration
  graph,        \* outgoing_edges of each token
  connectors,   \* connector_tokens
  pc,           \* "enumerate", "fast lane", "expand", "done"
  pass,         \* HeuristicPassMode
  frontier,     \* the prefixes of this level still to expand
  next,         \* next_frontier
  labels,       \* PrefixDominanceIndex
  quotes, evaluated, incumbent,  \* quotes, evaluated_paths, incumbent_amount
  deferred,     \* deferred_edges_seen
  results       \* what the caller gets

fixed == <<in, cfg, graph, connectors>>
vars == <<fixed, pc, pass, frontier, next, labels, quotes, evaluated, incumbent, deferred,
          results>>

\* The elements of S from the greatest key down; keys are tuples, compared in order. The
\* elements of a list at some of its places, and all of them from the greatest key down,
\* equals in the order they were in.
Above(a, b) == \E i \in DOMAIN a : a[i] > b[i] /\ \A j \in 1 .. (i - 1) : a[j] = b[j]
Sorted(S, key) ==
  LET keyed == {<<x, key[x]>> : x \in S}
  IN [i \in 1 .. Cardinality(S) |->
        (CHOOSE e \in keyed : Cardinality({d \in keyed : Above(d[2], e[2])}) = i - 1)[1]]
Those(s, places) ==
  LET order == Sorted(places, [i \in places |-> <<-i>>]) IN [k \in DOMAIN order |-> s[order[k]]]
SortedSeq(s, key) ==
  LET order == Sorted(DOMAIN s, [i \in DOMAIN s |-> <<key[i], -i>>])
  IN [k \in DOMAIN order |-> s[order[k]]]
Take(s, n) == SubSeq(s, 1, Min({n, Len(s)}))
Better(a, b) == Max({a, b})

\* The sum of n over a set, as the number of its units.
Total(S, n) == Cardinality(UNION {{x} \X (1 .. n[x]) : x \in S})

------------------------------------------------------------------------------
(* Paths over the graph *)

\* One edge for each ordered pair of tokens a pool trades.
EdgesOf(links) ==
  [t \in Tokens |->
     {h \in [pool : Pools, token_in : {t}, token_out : Tokens \ {t}] :
        {t, h.token_out} \subseteq links[h.pool]}]

HopsOf(path) == {path[i] : i \in DOMAIN path}
VisitedTokens(path) == {Source} \cup {h.token_out : h \in HopsOf(path)}
UsedPools(path) == {h.pool : h \in HopsOf(path)}
NodeOf(path) == IF path = <<>> THEN Source ELSE path[Len(path)].token_out
IsCycle == in.target = Source
ClosesTarget(h) == h.token_out = in.target

\* token_degree: incoming and outgoing edges.
TokenDegree(g, t) == 2 * Cardinality(g[t])

\* connector_tokens_for_heuristic and auto_connector_tokens: the caller's set, or the
\* tokens of highest degree.
ConnectorTokens(c, x, g) ==
  LET able == {t \in Tokens \ {Source, x.target} : TokenDegree(g, t) >= c.min_degree}
  IN IF c.connectors # {} THEN c.connectors
     ELSE IF c.mode = "exhaustive" THEN Tokens
     ELSE ToSet(Take(Sorted(able, [t \in able |-> <<TokenDegree(g, t), -t>>]), c.max_connectors))
ConnectorAllowed(t) == t \in {Source, in.target} \/ t \in connectors

\* The test every walk over the graph makes before it follows an edge: a pool once, a
\* token once unless it closes a cycle, and only connectors in between.
OpenHop(path, h) ==
  /\ h.pool \notin UsedPools(path)
  /\ h.token_out \notin VisitedTokens(path) \/ (IsCycle /\ ClosesTarget(h))
  /\ ClosesTarget(h) \/ ConnectorAllowed(h.token_out)
OpenHops(path) == {h \in graph[NodeOf(path)] : OpenHop(path, h)}

\* The open paths of n more hops after a prefix, none of them at the target before its
\* last hop: what a breadth-first walk reaches at depth n.
WalkFrom(path, n) ==
  LET walk[i \in 0 .. n] ==
        IF i = 0 THEN {path}
        ELSE UNION {{Append(p, h) : h \in OpenHops(p)} :
                      p \in {p \in walk[i - 1] : p = path \/ NodeOf(p) # in.target}}
  IN walk[n]

\* has_static_route_to_target
HasStaticRouteToTarget(path, hops) ==
  \E n \in 1 .. hops : \E p \in WalkFrom(path, n) : NodeOf(p) = in.target

\* enumerate_routes: the candidates of a request, in the order a queue finds them.
RoutesOf(n) == {p \in WalkFrom(<<>>, n) : NodeOf(p) = in.target}
EnumerateRoutes == UNION {RoutesOf(n) : n \in cfg.min_hops .. cfg.max_hops}
PathKey(p) ==
  [k \in 1 .. (2 * cfg.max_hops + 1) |->
     IF k = 1 THEN -Len(p)
     ELSE IF k \div 2 > Len(p) THEN 0
     ELSE IF k % 2 = 0 THEN -p[k \div 2].pool ELSE -p[k \div 2].token_out]
Enumerated == Sorted(EnumerateRoutes, [p \in EnumerateRoutes |-> PathKey(p)])

------------------------------------------------------------------------------
(* Quotes and balances *)

\* simulate_swap of an adapter: no pool pays out more than it holds.
SimulateSwap(h, amount) == Min({amount * in.rate[h.pool], in.reserve[h.pool]})

\* quote_path: the output of a path, 0 once a hop cannot be quoted.
QuotePath(path) ==
  LET out[i \in 0 .. Len(path)] ==
        IF i = 0 THEN AmountIn ELSE SimulateSwap(path[i], out[i - 1])
  IN out[Len(path)]

QuoteRecord(path) == [path |-> path, amount |-> QuotePath(path)]

\* balance_state(..).fresh(): -1 is unknown or stale.
Fresh(p) == IF p \in in.fresh THEN in.reserve[p] ELSE -1

\* u256_log2
Log2(n) == Cardinality({k \in 1 .. n : 2 ^ k <= n})

\* liquidity_ranked_hops: known balances first, by bucket and protocol, then balance.
RankedHops(hops) ==
  LET active == cfg.liquidity /\ Cardinality(hops) >= 2
      known(h) == active /\ Fresh(h.pool) >= 0
      bonus(h) == IF cfg.protocol_ordering THEN in.bonus[h.pool] ELSE 0
      score(h) == 100 * Log2(Fresh(h.pool)) + bonus(h)
      key(h) == IF known(h) THEN <<1, score(h), Fresh(h.pool), -h.pool>>
                ELSE <<0, in.bonus[h.pool], -h.pool, 0>>
  IN IF (active /\ cfg.order_by_balance) \/ cfg.protocol_ordering
       THEN Sorted(hops, [h \in hops |-> key(h)])
     ELSE Sorted(hops, [h \in hops |-> <<-h.pool>>])

\* target_balance_cap: no route from here pays out more than the largest balance that a
\* last hop within reach can draw on; unknown (-1) if one of those is unknown.
TargetBalanceCap(path) ==
  LET reach[i \in 0 .. cfg.max_hops] ==
        IF i = 0 THEN {NodeOf(path)}
        ELSE UNION {{h.token_out : h \in graph[t]} : t \in reach[i - 1]} \ {in.target}
      nodes == UNION {reach[i] : i \in 0 .. (cfg.max_hops - Len(path) - 1)}
      last == {Fresh(h.pool) : h \in {g \in UNION {graph[t] : t \in nodes} :
                                        ClosesTarget(g)}}
  IN IF last = {} \/ -1 \in last THEN -1 ELSE Max(last)

\* should_prune_upper_bound_prefix
PruneUpperBound(path) ==
  /\ cfg.upper_bound /\ cfg.balance_cap /\ ~IsCycle /\ incumbent # 0 /\ NodeOf(path) # in.target
  /\ TargetBalanceCap(path) # -1 /\ TargetBalanceCap(path) <= incumbent

------------------------------------------------------------------------------
(* Prefix dominance *)

\* future_blocked_pools: the used pools that have an edge to follow at this node.
FutureBlockedPools(path) ==
  {h.pool : h \in {g \in graph[NodeOf(path)] :
                     /\ g.pool \in UsedPools(path)
                     /\ g.token_out \notin VisitedTokens(path) \/ (IsCycle /\ ClosesTarget(g))
                     /\ ClosesTarget(g) \/ ConnectorAllowed(g.token_out)}}

LabelOf(path) ==
  [token |-> NodeOf(path), amount |-> QuotePath(path), visited |-> VisitedTokens(path),
   used |-> FutureBlockedPools(path)]

Dominates(a, b) ==
  /\ a.token = b.token /\ a.amount >= b.amount
  /\ a.visited \subseteq b.visited /\ a.used \subseteq b.used

\* is_strictly_dominated
IsStrictlyDominated(index, path) ==
  \E a \in index : Dominates(a, LabelOf(path)) /\ ~Dominates(LabelOf(path), a)

\* insert_or_dominated: None if some label dominates the new one, else the new index.
InsertLabel(index, path) ==
  {a \in index : ~Dominates(LabelOf(path), a)} \cup {LabelOf(path)}
DominatedAnyToken(index, path) ==
  \E a \in index : a.token = NodeOf(path) /\ a.amount >= QuotePath(path)
Dominated(index, path) == \E a \in index : Dominates(a, LabelOf(path))

------------------------------------------------------------------------------
(* One prefix expanded *)

\* HeuristicPassMode::edge_limit
EdgeLimit == IF pass = "initial" THEN cfg.initial_edges ELSE cfg.refinement_edges

\* group_heuristic_hops: the open hops to one token, if a route to the target is left.
GroupHops(path, t) ==
  {h \in OpenHops(path) :
     /\ h.token_out = t
     /\ \/ ClosesTarget(h)
        \/ /\ Len(path) + 1 < cfg.max_hops
           /\ HasStaticRouteToTarget(Append(path, h), cfg.max_hops - Len(path) - 1)}

\* branch_liquidity_score: the greatest and the total known balance of the token paid in.
BranchScore(hops) ==
  LET known == {h.pool : h \in hops} \cap in.fresh
  IN IF ~(cfg.liquidity /\ cfg.rank_branches) \/ known = {} THEN <<-1, -1>>
     ELSE <<Max({in.reserve[p] : p \in known}), Total(known, in.reserve)>>

\* sorted_heuristic_hop_groups: the target first, then by liquidity, connector, degree.
SortedGroups(path) ==
  LET tokens == {t \in Tokens : GroupHops(path, t) # {}}
      score(t) == IF t = in.target THEN <<-1, -1>> ELSE BranchScore(GroupHops(path, t))
      key(t) == <<IF cfg.target_first /\ t = in.target THEN 1 ELSE 0, score(t)[1], score(t)[2],
                  IF t \in connectors THEN 1 ELSE 0, TokenDegree(graph, t), -t>>
  IN Sorted(tokens, [t \in tokens |-> key(t)])

\* shortlisted_ranked_hops
Shortlisted(ranked) == IF cfg.shortlist THEN Take(ranked, EdgeLimit) ELSE ranked

\* should_prune_liquidity_hop: its balance cannot beat what the group already quoted. Only
\* at the last hop, or for a pool of two tokens.
PruneLiquidityHop(h, group, best) ==
  /\ cfg.liquidity /\ cfg.prune_dominated /\ Cardinality(group) >= 2
  /\ best # 0 /\ Fresh(h.pool) # -1
  /\ ClosesTarget(h) \/ Cardinality(in.links[h.pool]) = 2
  /\ Fresh(h.pool) <= best

\* The hops of a group that are quoted, best first, and no more than are retained.
QuotedHops(path, t) ==
  LET group == GroupHops(path, t)
      ranked == Shortlisted(RankedHops(group))
      out(h) == SimulateSwap(h, QuotePath(path))
      skip(h, best) == PruneLiquidityHop(h, group, best) \/ out(h) = 0
      best[i \in 0 .. Len(ranked)] ==
        IF i = 0 THEN 0
        ELSE IF skip(ranked[i], best[i - 1]) THEN best[i - 1]
        ELSE Better(best[i - 1], out(ranked[i]))
      quoted == Those(ranked, {i \in DOMAIN ranked : ~skip(ranked[i], best[i - 1])})
  IN Take(SortedSeq(quoted, [i \in DOMAIN quoted |-> out(quoted[i])]),
          IF cfg.shortlist THEN EdgeLimit ELSE cfg.parallel_edge_limit)

\* max_candidates_reached
MaxCandidatesReached(n) == cfg.max_candidates # 0 /\ n >= cfg.max_candidates

\* The rest of the loop body for one quoted hop: a route that reaches the target is
\* recorded once, any other prefix goes to the next level unless it is dominated.
KeepHop(path, acc, h) ==
  LET longer == Append(path, h)
  IN IF acc.broke THEN acc
     ELSE IF ClosesTarget(h) THEN
       IF Len(longer) < cfg.min_hops \/ longer \in acc.evaluated THEN acc
       ELSE [acc EXCEPT !.evaluated = @ \cup {longer},
                        !.quotes = Append(@, QuoteRecord(longer)),
                        !.incumbent = Better(@, QuotePath(longer)),
                        !.broke = MaxCandidatesReached(Len(acc.quotes) + 1)]
     ELSE IF Len(longer) >= cfg.max_hops \/ (cfg.dominance /\ Dominated(acc.labels, longer))
       THEN acc
     ELSE [acc EXCEPT !.next = Append(@, longer),
                      !.labels = IF cfg.dominance THEN InsertLabel(@, longer) ELSE @]

\* heuristic_pass_modes
HasRefinementPass == cfg.shortlist /\ cfg.refine /\ cfg.refinement_edges > cfg.initial_edges

\* The loop over the groups, for the hops to token t. A first pass notes that it left
\* edges out.
ExpandGroup(path, acc, t) ==
  LET leaves == /\ pass = "initial" /\ HasRefinementPass
                /\ Cardinality(GroupHops(path, t)) > EdgeLimit
      hops == QuotedHops(path, t)
      kept[i \in 0 .. Len(hops)] ==
        IF i = 0 THEN [acc EXCEPT !.deferred = @ \/ leaves] ELSE KeepHop(path, kept[i - 1], hops[i])
  IN IF acc.broke THEN acc ELSE kept[Len(hops)]

ExpandGroups(path, acc) ==
  LET groups == SortedGroups(path)
      after[i \in 0 .. Len(groups)] ==
        IF i = 0 THEN acc ELSE ExpandGroup(path, after[i - 1], groups[i])
  IN after[Len(groups)]

------------------------------------------------------------------------------
(* The search *)

\* The quotes by output, ties in the order they were found, and no more than finalists.
ByAmount(qs) == SortedSeq(qs, [i \in DOMAIN qs |-> qs[i].amount])
Finalists(qs) == Take(ByAmount(qs), cfg.max_finalists)

Init ==
  /\ in \in Inputs /\ cfg \in Configs
  /\ graph = EdgesOf(in.links) /\ connectors = ConnectorTokens(cfg, in, graph)
  /\ pc = IF cfg.mode = "exhaustive" THEN "enumerate" ELSE "fast lane"
  /\ pass = "initial" /\ frontier = <<>> /\ next = <<>> /\ labels = {}
  /\ quotes = <<>> /\ evaluated = {} /\ incumbent = 0 /\ deferred = FALSE /\ results = <<>>

\* The candidates that the cap leaves, ranked by output: find_routes_with_quote_cache and
\* find_cycles_with_quote_cache in exhaustive mode.
UpToCap(paths) == IF cfg.max_candidates = 0 THEN paths ELSE Take(paths, cfg.max_candidates)
ViableQuotes(paths) ==
  LET viable == Those(paths, {i \in DOMAIN paths : QuotePath(paths[i]) # 0})
  IN [i \in DOMAIN viable |-> QuoteRecord(viable[i])]
QuoteAndRank ==
  /\ pc = "enumerate" /\ pc' = "done"
  /\ results' = ByAmount(ViableQuotes(UpToCap(Enumerated)))
  /\ UNCHANGED <<fixed, pass, frontier, next, labels, quotes, evaluated, incumbent, deferred>>

\* ranked_central_connectors: known balances, degree and depth decide.
CentralConnectors ==
  LET pools(t) == {p \in Pools : t \in in.links[p] /\ Cardinality(in.links[p]) >= 2}
      known(t) == pools(t) \cap in.fresh
      depth(t) == Total(known(t), [p \in Pools |-> Log2(Fresh(p))])
      key(t) == <<Cardinality(known(t)), TokenDegree(graph, t), depth(t), -t>>
      between == connectors \ {Source, in.target}
  IN Take(Sorted(between, [t \in between |-> key(t)]), cfg.fast_connectors)

\* The legs of a connector route must not share a pool.
OnePoolTwice(g, h) == g # h
TwoPools(g, h) == g.pool # h.pool

\* fast_lane_paths: the best direct edges, then two hops through each connector.
Between(s, t, n) == Take(RankedHops({h \in graph[s] : h.token_out = t}), n)
DirectPaths ==
  LET edges == Between(Source, in.target, cfg.direct_edges)
  IN IF cfg.direct_first /\ cfg.min_hops <= 1 THEN [i \in DOMAIN edges |-> <<edges[i]>>] ELSE <<>>
ConnectorPaths ==
  LET central == CentralConnectors
      first(x) == Between(Source, central[x[1]], cfg.connector_edges)
      second(x) == Between(central[x[1]], in.target, cfg.connector_edges)
      edge == 1 .. cfg.connector_edges
      legs == {x \in (DOMAIN central) \X edge \X edge :
                 /\ x[2] \in DOMAIN first(x) /\ x[3] \in DOMAIN second(x)
                 /\ TwoPools(first(x)[x[2]], second(x)[x[3]])}
      order == Sorted(legs, [x \in legs |-> <<-x[1], -x[2], -x[3]>>])
  IN IF cfg.max_hops >= 2 /\ cfg.min_hops <= 2
       THEN [k \in DOMAIN order |-> <<first(order[k])[order[k][2]], second(order[k])[order[k][3]]>>]
     ELSE <<>>
FastLanePaths == DirectPaths \o ConnectorPaths

\* The fast lane quotes all of its paths, keeps the quotes up to the candidate cap, and
\* ends the search there if the cap is reached.
FastLane ==
  /\ pc = "fast lane"
  /\ LET paths == IF ~IsCycle /\ cfg.fast_lane THEN FastLanePaths ELSE <<>>
         kept == UpToCap(ViableQuotes(paths))
     IN /\ evaluated' = ToSet(paths) /\ quotes' = kept
        /\ incumbent' = IF kept = <<>> THEN 0 ELSE Max({kept[i].amount : i \in DOMAIN kept})
        /\ IF MaxCandidatesReached(Len(kept))
             THEN /\ pc' = "done" /\ frontier' = <<>>
                  /\ results' = Finalists(quotes')
             ELSE pc' = "expand" /\ frontier' = <<<<>>>> /\ UNCHANGED results
  /\ UNCHANGED <<fixed, pass, next, labels, deferred>>

\* The body of the loop over the frontier, for its first prefix.
Expand ==
  /\ pc = "expand" /\ frontier # <<>>
  /\ LET path == Head(frontier)
         pruned == \/ Len(path) >= cfg.max_hops \/ PruneUpperBound(path)
                   \/ cfg.dominance /\ IsStrictlyDominated(labels, path)
         acc0 == [quotes |-> quotes, evaluated |-> evaluated, incumbent |-> incumbent,
                  next |-> next, labels |-> labels, deferred |-> deferred, broke |-> FALSE]
         acc == IF pruned THEN acc0 ELSE ExpandGroups(path, acc0)
     IN /\ quotes' = acc.quotes /\ evaluated' = acc.evaluated /\ incumbent' = acc.incumbent
        /\ labels' = acc.labels /\ deferred' = acc.deferred
        /\ next' = IF acc.broke THEN <<>> ELSE acc.next
        /\ frontier' = IF acc.broke THEN <<>> ELSE Tail(frontier)
  /\ UNCHANGED <<fixed, pc, pass, results>>

\* apply_beam_width
ApplyBeamWidth(paths) ==
  LET keep == cfg.liquidity /\ cfg.rank_branches
      over == cfg.beam_width # 0 /\ Len(paths) > cfg.beam_width
      sorted == SortedSeq(paths, [i \in DOMAIN paths |-> QuotePath(paths[i])])
  IN IF over THEN Take(sorted, cfg.beam_width) ELSE IF keep THEN paths ELSE sorted

\* The end of a level: drop what the level's own labels dominate, keep the beam.
EndLevel ==
  /\ pc = "expand" /\ frontier = <<>> /\ next # <<>>
  /\ LET dominated(p) == cfg.dominance /\ IsStrictlyDominated(labels, p)
     IN frontier' = ApplyBeamWidth(Those(next, {i \in DOMAIN next : ~dominated(next[i])}))
  /\ next' = <<>>
  /\ UNCHANGED <<fixed, pc, pass, labels, quotes, evaluated, incumbent, deferred, results>>

\* The end of a pass: the refinement pass starts over from the source, with the labels,
\* the quotes and the incumbent of the first. Quoting the finalists again changes
\* nothing: the snapshot is the same.
EndPass ==
  /\ pc = "expand" /\ frontier = <<>> /\ next = <<>>
  /\ IF pass = "initial" /\ HasRefinementPass /\ deferred
       THEN pass' = "refinement" /\ frontier' = <<<<>>>> /\ UNCHANGED <<pc, results>>
       ELSE /\ pc' = "done" /\ results' = Finalists(quotes)
            /\ UNCHANGED <<pass, frontier>>
  /\ UNCHANGED <<fixed, next, labels, quotes, evaluated, incumbent, deferred>>

Next == QuoteAndRank \/ FastLane \/ Expand \/ EndLevel \/ EndPass

Spec == Init /\ [][Next]_vars

------------------------------------------------------------------------------
(* Properties *)

TwoTokenPools == \A p \in Pools : Cardinality(in.links[p]) <= 2

\* No limit of the configuration cuts candidates off: no candidate cap, no beam, no
\* shortlist, and either all parallel edges are kept or the best one stands for them.
Unlimited ==
  /\ cfg.max_candidates = 0 /\ cfg.beam_width = 0 /\ ~cfg.shortlist
  /\ cfg.parallel_edge_limit >= Cardinality(Pools) \/ (TwoTokenPools /\ ~IsCycle)

BestOf(S) == IF S = {} THEN 0 ELSE Max({QuotePath(p) : p \in S})

\* Pruning never loses the best route. With two-token pools, dropping dominated prefixes,
\* hops that a known balance caps and prefixes that the incumbent beats leaves the best
\* output that enumerating every route finds; with pools of more tokens the
\* upper bound does (should_prune_upper_bound_prefix, future_blocked_pools,
\* should_prune_liquidity_hop).
PruningKeepsBest ==
  (/\ pc = "done" /\ Unlimited
   /\ cfg.dominance => TwoTokenPools /\ cfg.min_hops <= IF IsCycle THEN 2 ELSE 1
   /\ cfg.liquidity /\ cfg.prune_dominated => TwoTokenPools /\ ~IsCycle)
     => BestOf({results[i].path : i \in DOMAIN results}) = BestOf(EnumerateRoutes)

\* Every route handed out, from the fast lane, the first pass or the refinement pass, is
\* a candidate of the request, found once, and the list is ordered by output.
ResultsAreCandidates ==
  /\ \A i \in DOMAIN results : results[i].path \in EnumerateRoutes
  /\ \A i, j \in DOMAIN results :
       i < j => results[i].path # results[j].path /\ results[i].amount >= results[j].amount
==============================================================================
