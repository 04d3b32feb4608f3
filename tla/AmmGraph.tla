------------------------------- MODULE AmmGraph -------------------------------
(***************************************************************************)
(* The token graph of src/graph.rs as a value, and the operations on it.    *)
(*                                                                         *)
(* A pool's tokens are the sorted, deduplicated list of normalize_tokens,   *)
(* so a set; the empty set stands for a pool the graph does not hold. A     *)
(* node is identified by its token, an edge by its pool and two tokens.     *)
(* PruneNothing is a mutation of the definition after it, never used.       *)
(***************************************************************************)
CONSTANTS
  Pools,            \* pool keys
  Tokens,           \* token addresses
  IncludeDegraded,  \* GraphBuildOptions::include_degraded
  ParallelOnly      \* LiquidityIndexScope::ParallelEdgeOutputs, else every edge token

ASSUME OptionAssumption == IncludeDegraded \in BOOLEAN /\ ParallelOnly \in BOOLEAN

Edges == Pools \X Tokens \X Tokens

\* AmmGraph: edge_map with the petgraph graph, and the adjacency cache apart from it.
Graph == [pool_tokens: [Pools -> SUBSET Tokens],
          node_map: SUBSET Tokens,
          edge_map: SUBSET Edges,
          outgoing_edges: SUBSET Edges,
          pair_pools: SUBSET (Pools \X SUBSET Tokens)]

IsIndexableStatus(status) ==
  status = "Ready" \/ (IncludeDegraded /\ status = "Degraded")

\* At least two distinct tokens.
HasPair(tokens) == \E a, b \in tokens : a # b

\* tokens_for_pool: a pool without token metadata, or with fewer than two, has none.
TokensForPool(tokens) == IF HasPair(tokens) THEN tokens ELSE {}

\* for_each_token_pair
TokenPairs(tokens) == {{q[1], q[2]} : q \in {r \in tokens \X tokens : r[1] # r[2]}}

\* One directed edge of the pool for each ordered pair of its tokens.
PoolEdges(pool, tokens) == {e \in {pool} \X tokens \X tokens : e[2] # e[3]}

------------------------------------------------------------------------------
\* from_registry: add_pool_edges for every pool, with the tokens it is indexed by.
FromRegistry(tokensOf) ==
  [pool_tokens |-> tokensOf,
   node_map |-> UNION {tokensOf[p] : p \in Pools},
   edge_map |-> UNION {PoolEdges(p, tokensOf[p]) : p \in Pools},
   outgoing_edges |-> UNION {PoolEdges(p, tokensOf[p]) : p \in Pools},
   pair_pools |-> UNION {{p} \X TokenPairs(tokensOf[p]) : p \in Pools}]

AddPoolEdges(g, pool, tokens) ==
  [pool_tokens |-> [g.pool_tokens EXCEPT ![pool] = tokens],
   node_map |-> g.node_map \cup tokens,
   edge_map |-> g.edge_map \cup PoolEdges(pool, tokens),
   outgoing_edges |-> g.outgoing_edges \cup PoolEdges(pool, tokens),
   pair_pools |-> g.pair_pools \cup ({pool} \X TokenPairs(tokens))]

\* remove_pool_edges: the pool's tokens, pairs and edges, and in the adjacency of
\* each of its tokens the entries of the pool.
RemovePoolEdges(g, pool) ==
  [pool_tokens |-> [g.pool_tokens EXCEPT ![pool] = {}],
   node_map |-> g.node_map,
   edge_map |-> {e \in g.edge_map : e[1] # pool},
   outgoing_edges |-> {e \in g.outgoing_edges :
                         ~(e[1] = pool /\ e[2] \in g.pool_tokens[pool])},
   pair_pools |-> g.pair_pools \ ({pool} \X TokenPairs(g.pool_tokens[pool]))]

\* prune_orphan_tokens: the nodes of tokens that no edge enters or leaves.
Orphans(g, tokens) == {t \in tokens : \A e \in g.edge_map : t # e[2] /\ t # e[3]}

PruneNothing(g, tokens) == g
PruneOrphanTokens(g, tokens) ==
  [pool_tokens |-> g.pool_tokens,
   node_map |-> g.node_map \ Orphans(g, tokens),
   edge_map |-> g.edge_map,
   outgoing_edges |-> {e \in g.outgoing_edges : e[2] \notin Orphans(g, tokens)},
   pair_pools |-> g.pair_pools]

RemovePoolCompacting(g, pool) ==
  PruneOrphanTokens(RemovePoolEdges(g, pool), g.pool_tokens[pool])

\* apply_pool, of a registration that is indexed by tokens; with none, remove_or_skip.
\* The removal of a pool the graph does not hold finds nothing to remove.
ApplyPool(g, pool, tokens) ==
  IF tokens = {} THEN RemovePoolCompacting(g, pool)
  ELSE IF g.pool_tokens[pool] = tokens THEN g
  ELSE AddPoolEdges(RemovePoolCompacting(g, pool), pool, tokens)

------------------------------------------------------------------------------
(* What liquidity tracking reads off the graph *)

\* Two pools share the pair.
Parallel(g, pair) == \E p, q \in Pools :
  p # q /\ <<p, pair>> \in g.pair_pools /\ <<q, pair>> \in g.pair_pools

\* tracked_tokens_for_pool, by the pair index.
TrackedTokensForPool(g, pool) ==
  {t \in g.pool_tokens[pool] :
     ParallelOnly => \E pair \in TokenPairs(g.pool_tokens[pool]) : t \in pair /\ Parallel(g, pair)}

\* tracked_tokens_by_pool, by a scan of every edge.
TrackedTokensByPool(g) ==
  [p \in Pools |->
     {t \in Tokens : \E e \in g.edge_map :
        /\ e[1] = p
        /\ IF ParallelOnly
             THEN t = e[3] /\ \E f \in g.edge_map : f[1] # p /\ f[2] = e[2] /\ f[3] = e[3]
             ELSE t = e[2] \/ t = e[3]}]

ParallelNeighbors(g, pool) ==
  {q \in Pools : \E pair \in TokenPairs(g.pool_tokens[pool]) : <<q, pair>> \in g.pair_pools}
==============================================================================
