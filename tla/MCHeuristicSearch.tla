--------------------------- MODULE MCHeuristicSearch ---------------------------
EXTENDS HeuristicSearch

MCPools == 1 .. 5
MCTokens == 1 .. 5

\* Two-token pools: parallel edges between 1 and 2 and between 2 and 3, and 1-3 directly.
Parallel == <<{1, 2}, {1, 2}, {2, 3}, {1, 3}, {2, 3}>>
\* A pool of four tokens that can serve the first hop or the last one, not both.
Weighted == <<{1, 2, 4, 5}, {1, 2}, {2, 3}, {3, 4}, {}>>

Snapshots(links, targets, rates, reserves, fresh) ==
  [target: targets, links: {links}, rate: [MCPools -> rates], reserve: reserves,
   fresh: fresh, bonus: {<<10, 30, 10, 30, 10>>}]

\* HeuristicSearchConfig::balanced with its limits lifted.
Base ==
  [SearchConfig("heuristic", HeuristicSearchConfig(FALSE), LiquidityPruningConfig(FALSE))
     EXCEPT !.max_hops = 4, !.min_degree = 1, !.beam_width = 0, !.parallel_edge_limit = 5,
            !.max_finalists = 3, !.rank_branches = TRUE]

\* Some reserves bind: a pool cannot pay out what its rate promises.
Reserves == {r \in [MCPools -> {2, 3}] : r[1] = 3 /\ r[5] = 3}

MCInputs ==
  Snapshots(Parallel, {3, 1}, {1, 2}, Reserves, {MCPools, MCPools \ {2}})
  \cup Snapshots(Weighted, {5}, {1, 2}, {<<4, 4, 8, 8, 8>>}, {MCPools})
MCConfigs ==
  {Base,
   [Base EXCEPT !.parallel_edge_limit = 1, !.liquidity = TRUE],
   [Base EXCEPT !.fast_lane = FALSE, !.dominance = FALSE],
   [Base EXCEPT !.mode = "exhaustive", !.min_hops = 2, !.max_candidates = 3],
   [SearchConfig("heuristic", HeuristicSearchConfig(TRUE), LiquidityPruningConfig(FALSE))
      EXCEPT !.max_hops = 4, !.min_degree = 1, !.beam_width = 2, !.parallel_edge_limit = 5,
             !.max_finalists = 3, !.refinement_edges = 5, !.max_candidates = 3]}
==============================================================================
