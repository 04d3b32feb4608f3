---------------------------- MODULE LiveGraphProofs ----------------------------
(***************************************************************************)
(* Proofs about LiveGraph for any pools, tokens, metadata and length of the *)
(* commit stream: the incremental graph, index and liquidity targets are    *)
(* those of a rebuild, and the graph version marks every topology change.   *)
(* The first part is about the operations of AmmGraph alone: one applied    *)
(* pool turns the graph of a registry into that of the changed registry,    *)
(* and liquidity tracking depends only on the pools that share a pair.      *)
(***************************************************************************)
EXTENDS LiveGraph, SequenceTheorems, TLAPS

------------------------------------------------------------------------------
(* The token/pool graph *)

\* The tokens every pool is indexed by: none, or at least two.
Indexing == {m \in [Pools -> SUBSET Tokens] : \A p \in Pools : m[p] = {} \/ HasPair(m[p])}

\* What tokens_for_pool returns is none or at least two tokens.
LEMMA TokensForPoolProper ==
  ASSUME NEW ts \in SUBSET Tokens
  PROVE  /\ TokensForPool(ts) \in SUBSET Tokens
         /\ TokensForPool(ts) = {} \/ HasPair(TokensForPool(ts))
BY DEF TokensForPool

\* Membership in the pairs of a token list.
LEMMA PairMember ==
  ASSUME NEW ts, NEW pair
  PROVE  pair \in TokenPairs(ts) <=> \E a, b \in ts : a # b /\ pair = {a, b}
<1>1. ASSUME pair \in TokenPairs(ts) PROVE \E a, b \in ts : a # b /\ pair = {a, b}
  <2>1. PICK q \in {r \in ts \X ts : r[1] # r[2]} : pair = {q[1], q[2]}
    BY <1>1 DEF TokenPairs
  <2>2. q[1] \in ts /\ q[2] \in ts /\ q[1] # q[2] BY <2>1
  <2> QED BY <2>1, <2>2
<1>2. ASSUME NEW a \in ts, NEW b \in ts, a # b, pair = {a, b} PROVE pair \in TokenPairs(ts)
  <2>1. <<a, b>> \in {r \in ts \X ts : r[1] # r[2]} BY <1>2
  <2>2. pair = {<<a, b>>[1], <<a, b>>[2]} BY <1>2
  <2> QED BY <2>1, <2>2 DEF TokenPairs
<1> QED BY <1>1, <1>2

\* Membership in the directed edges of a pool.
LEMMA EdgeMember ==
  ASSUME NEW p, NEW ts, NEW e
  PROVE  e \in PoolEdges(p, ts) <=> \E a, b \in ts : a # b /\ e = <<p, a, b>>
<1>1. ASSUME e \in PoolEdges(p, ts) PROVE \E a, b \in ts : a # b /\ e = <<p, a, b>>
  <2>1. e \in {p} \X ts \X ts /\ e[2] # e[3] BY <1>1 DEF PoolEdges
  <2>2. e = <<p, e[2], e[3]>> /\ e[2] \in ts /\ e[3] \in ts BY <2>1
  <2> QED BY <2>1, <2>2
<1>2. ASSUME NEW a \in ts, NEW b \in ts, a # b, e = <<p, a, b>> PROVE e \in PoolEdges(p, ts)
  BY <1>2 DEF PoolEdges
<1> QED BY <1>1, <1>2

\* The edges, adjacency and pairs from_registry builds.
LEMMA RegistryEdges ==
  ASSUME NEW m \in Indexing, NEW e
  PROVE  /\ e \in FromRegistry(m).edge_map <=>
              \E p \in Pools : \E a, b \in m[p] : a # b /\ e = <<p, a, b>>
         /\ FromRegistry(m).outgoing_edges = FromRegistry(m).edge_map
<1>1. e \in FromRegistry(m).edge_map <=> \E p \in Pools : e \in PoolEdges(p, m[p])
  BY DEF FromRegistry
<1>2. \A p \in Pools : e \in PoolEdges(p, m[p]) <=>
                         \E a, b \in m[p] : a # b /\ e = <<p, a, b>>
  BY EdgeMember
<1>3. FromRegistry(m).outgoing_edges = FromRegistry(m).edge_map BY DEF FromRegistry
<1> QED BY <1>1, <1>2, <1>3

LEMMA RegistryPairs ==
  ASSUME NEW m \in Indexing, NEW x
  PROVE  x \in FromRegistry(m).pair_pools <=>
           \E p \in Pools : \E pair \in TokenPairs(m[p]) : x = <<p, pair>>
<1>1. x \in FromRegistry(m).pair_pools <=> \E p \in Pools : x \in {p} \X TokenPairs(m[p])
  BY DEF FromRegistry
<1>2. \A p \in Pools : x \in {p} \X TokenPairs(m[p]) <=>
                         \E pair \in TokenPairs(m[p]) : x = <<p, pair>>
  OBVIOUS
<1> QED BY <1>1, <1>2

\* Two graphs with the same five indexes are equal.
LEMMA GraphExt ==
  ASSUME NEW g, NEW m,
         g = [pool_tokens |-> g.pool_tokens, node_map |-> g.node_map, edge_map |-> g.edge_map,
              outgoing_edges |-> g.outgoing_edges, pair_pools |-> g.pair_pools],
         g.pool_tokens = m,
         g.node_map = FromRegistry(m).node_map,
         g.edge_map = FromRegistry(m).edge_map,
         g.outgoing_edges = FromRegistry(m).outgoing_edges,
         g.pair_pools = FromRegistry(m).pair_pools
  PROVE  g = FromRegistry(m)
BY DEF FromRegistry

\* A token of an indexed pool has an edge of that pool.
LEMMA TokenHasEdge ==
  ASSUME NEW m \in Indexing, NEW p \in Pools, NEW t \in m[p]
  PROVE  \E b \in m[p] : b # t /\ <<p, t, b>> \in FromRegistry(m).edge_map
<1>1. HasPair(m[p]) BY DEF Indexing
<1>2. PICK b \in m[p] : b # t BY <1>1 DEF HasPair
<1>3. <<p, t, b>> \in FromRegistry(m).edge_map BY <1>2, RegistryEdges
<1> QED BY <1>2, <1>3

\* Removing a pool with its orphan tokens from the graph of a registry gives the
\* graph of the registry without the pool.
LEMMA RemoveRebuild ==
  ASSUME NEW m \in Indexing, NEW p \in Pools
  PROVE  /\ [m EXCEPT ![p] = {}] \in Indexing
         /\ RemovePoolCompacting(FromRegistry(m), p) = FromRegistry([m EXCEPT ![p] = {}])
<1> DEFINE n == [m EXCEPT ![p] = {}]
           g == FromRegistry(m)
           r == RemovePoolEdges(g, p)
           h == RemovePoolCompacting(g, p)
<1>1. n \in Indexing BY DEF Indexing
<1>2. n \in [Pools -> SUBSET Tokens] /\ n[p] = {} /\ \A q \in Pools : q # p => n[q] = m[q]
  BY DEF Indexing
<1>n. n = [m EXCEPT ![p] = {}] OBVIOUS
<1> HIDE DEF n
<1>3. g.pool_tokens = m /\ g.node_map = UNION {m[q] : q \in Pools} BY DEF FromRegistry
<1>4. r.edge_map = FromRegistry(n).edge_map
  <2>1. r.edge_map = {e \in g.edge_map : e[1] # p} BY DEF RemovePoolEdges
  <2>2. ASSUME NEW e PROVE e \in r.edge_map <=> e \in FromRegistry(n).edge_map
    <3>1. e \in g.edge_map <=> \E q \in Pools : \E a, b \in m[q] : a # b /\ e = <<q, a, b>>
      BY RegistryEdges
    <3>2. e \in FromRegistry(n).edge_map <=>
            \E q \in Pools : \E a, b \in n[q] : a # b /\ e = <<q, a, b>>
      BY <1>1, RegistryEdges
    <3>3. ASSUME NEW q \in Pools, NEW a \in m[q], NEW b \in m[q], e = <<q, a, b>>
          PROVE  e[1] = q
      BY <3>3
    <3> HIDE DEF r, g
    <3> QED BY <2>1, <3>1, <3>2, <3>3, <1>2
  <2> HIDE DEF r
  <2> QED BY <2>2
<1>5. r.outgoing_edges = r.edge_map
  <2>1. r.outgoing_edges = {e \in g.outgoing_edges : ~(e[1] = p /\ e[2] \in m[p])}
    BY <1>3 DEF RemovePoolEdges
  <2>2. r.edge_map = {e \in g.edge_map : e[1] # p} BY DEF RemovePoolEdges
  <2>3. g.outgoing_edges = g.edge_map BY RegistryEdges
  <2>4. ASSUME NEW e \in g.edge_map, e[1] = p PROVE e[2] \in m[p]
    <3>1. PICK q \in Pools : \E a, b \in m[q] : a # b /\ e = <<q, a, b>>
      BY RegistryEdges
    <3>2. PICK a \in m[q], b \in m[q] : e = <<q, a, b>> BY <3>1
    <3>3. e[1] = q /\ e[2] = a BY <3>2
    <3> QED BY <3>2, <3>3, <2>4
  <2> HIDE DEF r, g
  <2> QED BY <2>1, <2>2, <2>3, <2>4
<1>6. r.pair_pools = FromRegistry(n).pair_pools
  <2>1. r.pair_pools = g.pair_pools \ ({p} \X TokenPairs(m[p])) BY <1>3 DEF RemovePoolEdges
  <2>2. TokenPairs({}) = {} BY PairMember
  <2>3. ASSUME NEW x PROVE x \in r.pair_pools <=> x \in FromRegistry(n).pair_pools
    <3>1. x \in g.pair_pools <=> \E q \in Pools : \E pair \in TokenPairs(m[q]) : x = <<q, pair>>
      BY RegistryPairs
    <3>2. x \in FromRegistry(n).pair_pools <=>
            \E q \in Pools : \E pair \in TokenPairs(n[q]) : x = <<q, pair>>
      BY <1>1, RegistryPairs
    <3>3. x \in {p} \X TokenPairs(m[p]) <=> \E pair \in TokenPairs(m[p]) : x = <<p, pair>>
      OBVIOUS
    <3>4. \A q1, q2, a1, a2 : <<q1, a1>> = <<q2, a2>> => q1 = q2 OBVIOUS
    <3> HIDE DEF r, g
    <3> QED BY <2>1, <2>2, <3>1, <3>2, <3>3, <3>4, <1>2
  <2> HIDE DEF r
  <2> QED BY <2>3
<1>7. Orphans(r, m[p]) = {t \in m[p] : \A q \in Pools : t \notin n[q]}
  <2>1. ASSUME NEW t \in m[p], NEW q \in Pools, t \in n[q]
        PROVE  \E e \in r.edge_map : t = e[2]
    <3>1. PICK b \in n[q] : <<q, t, b>> \in FromRegistry(n).edge_map
      BY <1>1, <2>1, TokenHasEdge
    <3>2. <<q, t, b>>[2] = t OBVIOUS
    <3> HIDE DEF r
    <3> QED BY <3>1, <3>2, <1>4
  <2>2. ASSUME NEW t \in m[p], NEW e \in r.edge_map, t = e[2] \/ t = e[3]
        PROVE  \E q \in Pools : t \in n[q]
    <3>1. e \in FromRegistry(n).edge_map BY <1>4
    <3>2. PICK q \in Pools : \E a, b \in n[q] : a # b /\ e = <<q, a, b>>
      BY <1>1, <3>1, RegistryEdges
    <3>3. PICK a \in n[q], b \in n[q] : e = <<q, a, b>> BY <3>2
    <3>4. e[2] = a /\ e[3] = b BY <3>3
    <3> QED BY <2>2, <3>3, <3>4
  <2> HIDE DEF r
  <2> QED BY <2>1, <2>2 DEF Orphans
<1>8. h.node_map = FromRegistry(n).node_map
  <2>1. h.node_map = g.node_map \ Orphans(r, m[p])
    BY <1>3 DEF RemovePoolCompacting, PruneOrphanTokens, RemovePoolEdges
  <2>2. FromRegistry(n).node_map = UNION {n[q] : q \in Pools} BY DEF FromRegistry
  <2> HIDE DEF h, g, r
  <2> QED BY <2>1, <2>2, <1>2, <1>3, <1>7
<1>9. h.outgoing_edges = FromRegistry(n).outgoing_edges
  <2>1. h.outgoing_edges = {e \in r.outgoing_edges : e[2] \notin Orphans(r, m[p])}
    BY <1>3 DEF RemovePoolCompacting, PruneOrphanTokens
  <2>2. \A e \in r.outgoing_edges : e[2] \notin Orphans(r, m[p]) BY <1>5 DEF Orphans
  <2>3. FromRegistry(n).outgoing_edges = FromRegistry(n).edge_map BY <1>1, RegistryEdges
  <2> HIDE DEF h, g, r
  <2> QED BY <2>1, <2>2, <2>3, <1>4, <1>5
<1>10. /\ h.pool_tokens = n /\ h.edge_map = r.edge_map /\ h.pair_pools = r.pair_pools
       /\ h = [pool_tokens |-> h.pool_tokens, node_map |-> h.node_map, edge_map |-> h.edge_map,
               outgoing_edges |-> h.outgoing_edges, pair_pools |-> h.pair_pools]
  BY <1>3, <1>n DEF RemovePoolCompacting, PruneOrphanTokens, RemovePoolEdges
<1>11. h = FromRegistry(n)
  <2> HIDE DEF h, g, r
  <2> QED BY <1>4, <1>6, <1>8, <1>9, <1>10, GraphExt
<1> QED BY <1>1, <1>11, <1>n

\* Adding a pool the graph of a registry does not hold gives the graph of the
\* registry with the pool.
LEMMA AddRebuild ==
  ASSUME NEW m \in Indexing, NEW p \in Pools, m[p] = {},
         NEW ts \in SUBSET Tokens, HasPair(ts)
  PROVE  /\ [m EXCEPT ![p] = ts] \in Indexing
         /\ AddPoolEdges(FromRegistry(m), p, ts) = FromRegistry([m EXCEPT ![p] = ts])
<1> DEFINE n == [m EXCEPT ![p] = ts]
           g == FromRegistry(m)
           h == AddPoolEdges(g, p, ts)
<1>1. n \in Indexing BY DEF Indexing
<1>2. n \in [Pools -> SUBSET Tokens] /\ n[p] = ts /\ \A q \in Pools : q # p => n[q] = m[q]
  BY DEF Indexing
<1>n. n = [m EXCEPT ![p] = ts] OBVIOUS
<1> HIDE DEF n
<1>3. g.pool_tokens = m /\ g.node_map = UNION {m[q] : q \in Pools} BY DEF FromRegistry
<1>4. h.node_map = FromRegistry(n).node_map
  <2>1. h.node_map = g.node_map \cup ts BY DEF AddPoolEdges
  <2>2. FromRegistry(n).node_map = UNION {n[q] : q \in Pools} BY DEF FromRegistry
  <2> HIDE DEF h, g
  <2> QED BY <2>1, <2>2, <1>2, <1>3
<1>5. h.edge_map = FromRegistry(n).edge_map
  <2>1. h.edge_map = g.edge_map \cup PoolEdges(p, ts) BY DEF AddPoolEdges
  <2>2. ASSUME NEW e PROVE e \in h.edge_map <=> e \in FromRegistry(n).edge_map
    <3>1. e \in g.edge_map <=> \E q \in Pools : \E a, b \in m[q] : a # b /\ e = <<q, a, b>>
      BY RegistryEdges
    <3>2. e \in FromRegistry(n).edge_map <=>
            \E q \in Pools : \E a, b \in n[q] : a # b /\ e = <<q, a, b>>
      BY <1>1, RegistryEdges
    <3>3. e \in PoolEdges(p, ts) <=> \E a, b \in ts : a # b /\ e = <<p, a, b>>
      BY EdgeMember
    <3> HIDE DEF h, g
    <3> QED BY <2>1, <3>1, <3>2, <3>3, <1>2
  <2> HIDE DEF h
  <2> QED BY <2>2
<1>6. h.outgoing_edges = FromRegistry(n).outgoing_edges
  <2>1. h.outgoing_edges = h.edge_map BY RegistryEdges DEF AddPoolEdges
  <2>2. FromRegistry(n).outgoing_edges = FromRegistry(n).edge_map BY <1>1, RegistryEdges
  <2> HIDE DEF h
  <2> QED BY <2>1, <2>2, <1>5
<1>7. h.pair_pools = FromRegistry(n).pair_pools
  <2>1. h.pair_pools = g.pair_pools \cup ({p} \X TokenPairs(ts)) BY DEF AddPoolEdges
  <2>2. TokenPairs({}) = {} BY PairMember
  <2>3. ASSUME NEW x PROVE x \in h.pair_pools <=> x \in FromRegistry(n).pair_pools
    <3>1. x \in g.pair_pools <=> \E q \in Pools : \E pair \in TokenPairs(m[q]) : x = <<q, pair>>
      BY RegistryPairs
    <3>2. x \in FromRegistry(n).pair_pools <=>
            \E q \in Pools : \E pair \in TokenPairs(n[q]) : x = <<q, pair>>
      BY <1>1, RegistryPairs
    <3>3. x \in {p} \X TokenPairs(ts) <=> \E pair \in TokenPairs(ts) : x = <<p, pair>>
      OBVIOUS
    <3> HIDE DEF h, g
    <3> QED BY <2>1, <2>2, <3>1, <3>2, <3>3, <1>2
  <2> HIDE DEF h
  <2> QED BY <2>3
<1>8. /\ h.pool_tokens = n
      /\ h = [pool_tokens |-> h.pool_tokens, node_map |-> h.node_map, edge_map |-> h.edge_map,
              outgoing_edges |-> h.outgoing_edges, pair_pools |-> h.pair_pools]
  BY <1>3, <1>n DEF AddPoolEdges
<1>9. h = FromRegistry(n)
  <2> HIDE DEF h, g
  <2> QED BY <1>4, <1>5, <1>6, <1>7, <1>8, GraphExt
<1> QED BY <1>1, <1>9, <1>n

\* apply_pool on the graph of a registry gives the graph of the registry in which the
\* pool is indexed by its new tokens, whatever it was indexed by before.
THEOREM ApplyPoolRebuild ==
  ASSUME NEW m \in Indexing, NEW p \in Pools,
         NEW ts \in SUBSET Tokens, ts = {} \/ HasPair(ts)
  PROVE  /\ [m EXCEPT ![p] = ts] \in Indexing
         /\ ApplyPool(FromRegistry(m), p, ts) = FromRegistry([m EXCEPT ![p] = ts])
<1>1. m \in [Pools -> SUBSET Tokens] BY DEF Indexing
<1>2. FromRegistry(m).pool_tokens = m BY DEF FromRegistry
<1>3. CASE ts = {}
  <2>1. ApplyPool(FromRegistry(m), p, ts) = RemovePoolCompacting(FromRegistry(m), p)
    BY <1>3 DEF ApplyPool
  <2> QED BY <2>1, <1>3, RemoveRebuild
<1>4. CASE ts # {} /\ m[p] = ts
  <2>1. [m EXCEPT ![p] = ts] = m BY <1>1, <1>4
  <2>2. ApplyPool(FromRegistry(m), p, ts) = FromRegistry(m) BY <1>2, <1>4 DEF ApplyPool
  <2> QED BY <2>1, <2>2
<1>5. CASE ts # {} /\ m[p] # ts
  <2> DEFINE k == [m EXCEPT ![p] = {}]
  <2>1. k \in Indexing /\ RemovePoolCompacting(FromRegistry(m), p) = FromRegistry(k)
    BY RemoveRebuild
  <2>2. k[p] = {} /\ [k EXCEPT ![p] = ts] = [m EXCEPT ![p] = ts] BY <1>1
  <2>3. ApplyPool(FromRegistry(m), p, ts) =
          AddPoolEdges(RemovePoolCompacting(FromRegistry(m), p), p, ts)
    BY <1>2, <1>5 DEF ApplyPool
  <2> HIDE DEF k
  <2>4. /\ [k EXCEPT ![p] = ts] \in Indexing
        /\ AddPoolEdges(FromRegistry(k), p, ts) = FromRegistry([k EXCEPT ![p] = ts])
    BY <2>1, <2>2, <1>5, AddRebuild
  <2> QED BY <2>1, <2>2, <2>3, <2>4
<1> QED BY <1>3, <1>4, <1>5

------------------------------------------------------------------------------
\* Two pools share a pair in the graph of a registry when both are indexed by it.
LEMMA ParallelMember ==
  ASSUME NEW m \in Indexing, NEW q \in Pools, NEW pair
  PROVE  <<q, pair>> \in FromRegistry(m).pair_pools <=> pair \in TokenPairs(m[q])
<1>1. <<q, pair>> \in FromRegistry(m).pair_pools <=>
        \E p \in Pools : \E s \in TokenPairs(m[p]) : <<q, pair>> = <<p, s>>
  BY RegistryPairs
<1>2. \A p, s : <<q, pair>> = <<p, s>> => q = p /\ pair = s OBVIOUS
<1> QED BY <1>1, <1>2

\* The two ways of finding the tokens to track, by the pair index for one pool and by
\* a scan of all edges, agree on the graph of every registry.
THEOREM TrackedAgree ==
  ASSUME NEW m \in Indexing, NEW p \in Pools
  PROVE  TrackedTokensForPool(FromRegistry(m), p) = TrackedTokensByPool(FromRegistry(m))[p]
<1> DEFINE g == FromRegistry(m)
<1>1. g.pool_tokens = m BY DEF FromRegistry
<1>2. m \in [Pools -> SUBSET Tokens] BY DEF Indexing
<1>3. \A q \in Pools : \A a, b : <<q, a, b>> \in g.edge_map <=> a \in m[q] /\ b \in m[q] /\ a # b
  <2> SUFFICES ASSUME NEW q \in Pools, NEW a, NEW b
               PROVE <<q, a, b>> \in g.edge_map <=> a \in m[q] /\ b \in m[q] /\ a # b
    OBVIOUS
  <2>1. <<q, a, b>> \in g.edge_map <=>
          \E r \in Pools : \E c, d \in m[r] : c # d /\ <<q, a, b>> = <<r, c, d>>
    BY RegistryEdges
  <2>2. \A r, c, d : <<q, a, b>> = <<r, c, d>> => q = r /\ a = c /\ b = d OBVIOUS
  <2> HIDE DEF g
  <2> QED BY <2>1, <2>2
<1>4. \A e \in g.edge_map : /\ e = <<e[1], e[2], e[3]>> /\ e[1] \in Pools
                            /\ e[2] \in m[e[1]] /\ e[3] \in m[e[1]] /\ e[2] # e[3]
  <2> SUFFICES ASSUME NEW e \in g.edge_map
               PROVE /\ e = <<e[1], e[2], e[3]>> /\ e[1] \in Pools
                     /\ e[2] \in m[e[1]] /\ e[3] \in m[e[1]] /\ e[2] # e[3]
    OBVIOUS
  <2>1. PICK r \in Pools : \E c, d \in m[r] : c # d /\ e = <<r, c, d>> BY RegistryEdges
  <2>2. PICK c \in m[r], d \in m[r] : c # d /\ e = <<r, c, d>> BY <2>1
  <2>3. e[1] = r /\ e[2] = c /\ e[3] = d BY <2>2
  <2> QED BY <2>2, <2>3
<1>5. TrackedTokensByPool(g)[p] =
        {t \in Tokens : \E e \in g.edge_map :
           /\ e[1] = p
           /\ IF ParallelOnly
                THEN t = e[3] /\ \E f \in g.edge_map : f[1] # p /\ f[2] = e[2] /\ f[3] = e[3]
                ELSE t = e[2] \/ t = e[3]}
  BY DEF TrackedTokensByPool
<1>6. ASSUME NEW t, ParallelOnly
      PROVE t \in TrackedTokensForPool(g, p) <=> t \in TrackedTokensByPool(g)[p]
  <2>1. ASSUME t \in TrackedTokensForPool(g, p) PROVE t \in TrackedTokensByPool(g)[p]
    <3>1. t \in m[p] BY <2>1, <1>1 DEF TrackedTokensForPool
    <3>2. PICK pair \in TokenPairs(m[p]) : t \in pair /\ Parallel(g, pair)
      BY <2>1, <1>1, <1>6 DEF TrackedTokensForPool
    <3>3. PICK q1 \in Pools, q2 \in Pools :
            q1 # q2 /\ <<q1, pair>> \in g.pair_pools /\ <<q2, pair>> \in g.pair_pools
      BY <3>2 DEF Parallel
    <3>4. PICK q \in Pools : q # p /\ pair \in TokenPairs(m[q]) BY <3>3, ParallelMember
    <3>5. PICK u \in m[p] : u # t /\ pair = {u, t} BY <3>2, PairMember
    <3>6. u \in m[q] /\ t \in m[q] BY <3>4, <3>5, PairMember
    <3>7. <<p, u, t>> \in g.edge_map /\ <<q, u, t>> \in g.edge_map
      BY <1>3, <3>1, <3>5, <3>6
    <3>8. <<p, u, t>>[1] = p /\ <<p, u, t>>[2] = u /\ <<p, u, t>>[3] = t
          /\ <<q, u, t>>[1] = q /\ <<q, u, t>>[2] = u /\ <<q, u, t>>[3] = t
      OBVIOUS
    <3>9. t \in Tokens BY <3>1, <1>2
    <3> HIDE DEF g
    <3> QED BY <1>5, <1>6, <3>4, <3>7, <3>8, <3>9
  <2>2. ASSUME t \in TrackedTokensByPool(g)[p] PROVE t \in TrackedTokensForPool(g, p)
    <3>1. PICK e \in g.edge_map :
            e[1] = p /\ t = e[3] /\ \E f \in g.edge_map : f[1] # p /\ f[2] = e[2] /\ f[3] = e[3]
      BY <1>5, <1>6, <2>2
    <3>2. PICK f \in g.edge_map : f[1] # p /\ f[2] = e[2] /\ f[3] = e[3] BY <3>1
    <3>3. e[2] \in m[p] /\ t \in m[p] /\ e[2] # t BY <1>4, <3>1
    <3>4. f[1] \in Pools /\ e[2] \in m[f[1]] /\ t \in m[f[1]] BY <1>4, <3>1, <3>2
    <3>5. {e[2], t} \in TokenPairs(m[p]) /\ {e[2], t} \in TokenPairs(m[f[1]])
      BY <3>3, <3>4, PairMember
    <3>6. Parallel(g, {e[2], t}) BY <3>2, <3>4, <3>5, ParallelMember DEF Parallel
    <3> HIDE DEF g
    <3> QED BY <1>1, <3>3, <3>5, <3>6 DEF TrackedTokensForPool
  <2> QED BY <2>1, <2>2
<1>7. ASSUME NEW t, ~ParallelOnly
      PROVE t \in TrackedTokensForPool(g, p) <=> t \in TrackedTokensByPool(g)[p]
  <2>1. t \in TrackedTokensForPool(g, p) <=> t \in m[p]
    BY <1>1, <1>7 DEF TrackedTokensForPool
  <2>2. t \in TrackedTokensByPool(g)[p] <=>
          t \in Tokens /\ \E e \in g.edge_map : e[1] = p /\ (t = e[2] \/ t = e[3])
    BY <1>5, <1>7
  <2>3. ASSUME t \in m[p] PROVE \E e \in g.edge_map : e[1] = p /\ t = e[2]
    <3>1. PICK b \in m[p] : <<p, t, b>> \in g.edge_map BY <2>3, TokenHasEdge
    <3>2. <<p, t, b>>[1] = p /\ <<p, t, b>>[2] = t OBVIOUS
    <3> HIDE DEF g
    <3> QED BY <3>1, <3>2
  <2> HIDE DEF g
  <2> QED BY <1>2, <1>4, <2>1, <2>2, <2>3
<1> HIDE DEF g
<1>8. TrackedTokensForPool(g, p) = TrackedTokensByPool(g)[p] BY <1>6, <1>7
<1> QED BY <1>8 DEF g

\* What is tracked for a pool depends only on its own tokens and on which pools share
\* its pairs.
LEMMA TrackedLocal ==
  ASSUME NEW m \in Indexing, NEW n \in Indexing, NEW p \in Pools,
         m[p] = n[p],
         ParallelOnly => \A q \in Pools, pair \in TokenPairs(m[p]) :
                           pair \in TokenPairs(m[q]) <=> pair \in TokenPairs(n[q])
  PROVE  TrackedTokensForPool(FromRegistry(m), p) = TrackedTokensForPool(FromRegistry(n), p)
<1>1. FromRegistry(m).pool_tokens = m /\ FromRegistry(n).pool_tokens = n BY DEF FromRegistry
<1>2. ASSUME ParallelOnly, NEW pair \in TokenPairs(m[p])
      PROVE Parallel(FromRegistry(m), pair) <=> Parallel(FromRegistry(n), pair)
  BY <1>2, ParallelMember DEF Parallel
<1> QED BY <1>1, <1>2 DEF TrackedTokensForPool

------------------------------------------------------------------------------
(* The live graph *)

\* The snapshot the i-th outstanding commit was made from.
Before(i) == IF i = 1 THEN source ELSE stream[i - 1].registry

\* A commit names every pool in which it differs from its predecessor, unless it
\* asks for a full refresh; the last one is the runtime's newest snapshot.
StreamInv ==
  /\ \A i \in 1 .. Len(stream) : ~stream[i].full =>
       \A p \in Pools \ stream[i].changed : stream[i].registry[p] = Before(i)[p]
  /\ registry = IF stream = <<>> THEN source ELSE stream[Len(stream)].registry

\* The tokens by pool when the deltas in todo are still to be applied.
Mixed == [p \in Pools |-> IF p \in todo THEN IndexedTokens(source, p)
                          ELSE IndexedTokens(commit.registry, p)]

\* The copy apply_commit works on is the graph of a registry in between.
MutationInv ==
  pc = "mutating" =>
    /\ stream # <<>> /\ commit = Head(stream) /\ ~commit.full
    /\ Readable(commit.registry, commit.changed)
    /\ \E p \in commit.changed :
         Impact(indexed[p], IndexedPoolOf(commit.registry, p)) # "Unchanged"
    /\ todo \subseteq PoolDeltas(commit)
    /\ next_graph = FromRegistry(Mixed)

IInv == /\ TypeOK /\ StreamInv /\ MutationInv
        /\ GraphIsRebuild /\ IndexIsCurrent /\ TargetsAreRebuild

------------------------------------------------------------------------------
\* What a snapshot says of a pool's tokens.
LEMMA IndexedTokensProper ==
  ASSUME NEW reg \in Registry, NEW p \in Pools
  PROVE  /\ IndexedTokens(reg, p) \in SUBSET Tokens
         /\ IndexedTokens(reg, p) = {} \/ HasPair(IndexedTokens(reg, p))
         /\ IndexedTokens(reg, p) \subseteq RegistrationTokens(reg, p)
<1>1. CASE IndexedTokens(reg, p) = {}
  BY <1>1
<1>2. CASE IndexedTokens(reg, p) # {}
  <2>1. reg[p] # None /\ IndexedTokens(reg, p) = TokensForPool(reg[p].meta.tokens)
    BY <1>2 DEF IndexedTokens
  <2>2. reg[p].meta.tokens \in SUBSET Tokens
    BY <2>1, MetadataAssumption DEF Registry, Registered
  <2>3. TokensForPool(reg[p].meta.tokens) \subseteq reg[p].meta.tokens BY DEF TokensForPool
  <2> QED BY <2>1, <2>2, <2>3, TokensForPoolProper DEF RegistrationTokens
<1> QED BY <1>1, <1>2

LEMMA TokensOfIndexing ==
  ASSUME NEW reg \in Registry
  PROVE  TokensOf(reg) \in Indexing /\ \A p \in Pools : TokensOf(reg)[p] = IndexedTokens(reg, p)
BY IndexedTokensProper DEF TokensOf, Indexing

LEMMA FromRegistryType ==
  ASSUME NEW m \in Indexing
  PROVE  FromRegistry(m) \in Graph
<1> DEFINE g == FromRegistry(m)
<1>1. m \in [Pools -> SUBSET Tokens] BY DEF Indexing
<1>2. g.pool_tokens = m /\ g.node_map \subseteq Tokens BY <1>1 DEF FromRegistry
<1>3. g.edge_map \subseteq Edges
  <2> SUFFICES ASSUME NEW e \in g.edge_map PROVE e \in Edges
    OBVIOUS
  <2>1. PICK p \in Pools : \E a, b \in m[p] : a # b /\ e = <<p, a, b>> BY RegistryEdges
  <2> QED BY <1>1, <2>1 DEF Edges
<1>4. g.outgoing_edges = g.edge_map BY RegistryEdges
<1>5. g.pair_pools \subseteq Pools \X SUBSET Tokens
  <2> SUFFICES ASSUME NEW x \in g.pair_pools PROVE x \in Pools \X SUBSET Tokens
    OBVIOUS
  <2>1. PICK p \in Pools : \E pair \in TokenPairs(m[p]) : x = <<p, pair>> BY RegistryPairs
  <2>2. PICK pair \in TokenPairs(m[p]) : x = <<p, pair>> BY <2>1
  <2>3. \E a, b \in m[p] : a # b /\ pair = {a, b} BY <2>2, PairMember
  <2>4. pair \in SUBSET Tokens BY <1>1, <2>3
  <2> QED BY <2>2, <2>4
<1>6. g = [pool_tokens |-> g.pool_tokens, node_map |-> g.node_map, edge_map |-> g.edge_map,
           outgoing_edges |-> g.outgoing_edges, pair_pools |-> g.pair_pools]
  BY DEF FromRegistry
<1> HIDE DEF g
<1>7. g \in Graph BY <1>1, <1>2, <1>3, <1>4, <1>5, <1>6 DEF Graph
<1> QED BY <1>7 DEF g

\* An indexed pool of a readable snapshot.
LEMMA IndexedPoolType ==
  ASSUME NEW reg \in Registry, NEW p \in Pools
  PROVE  /\ IndexedPoolOf(reg, p) = None <=> IndexedTokens(reg, p) = {}
         /\ Readable(reg, {p}) => IndexedPoolOf(reg, p) \in IndexedPool \cup {None}
         /\ IndexedTokens(reg, p) # {} => IndexedPoolOf(reg, p).tokens = IndexedTokens(reg, p)
<1>1. CASE IndexedTokens(reg, p) = {}
  BY <1>1 DEF IndexedPoolOf
<1>2. CASE IndexedTokens(reg, p) # {}
  <2>1. reg[p] \in Registered BY <1>2 DEF IndexedTokens, Registry
  <2>2. IndexedPoolOf(reg, p) =
          [gen |-> reg[p].gen, rev |-> reg[p].rev, tokens |-> IndexedTokens(reg, p)]
    BY <1>2 DEF IndexedPoolOf
  <2>3. reg[p].gen \in Nat /\ reg[p].rev \in Nat \cup {None} BY <2>1 DEF Registered
  <2>4. IndexedPoolOf(reg, p) \in [gen: Nat, rev: Nat \cup {None}, tokens: SUBSET Tokens]
    BY <2>2, <2>3, IndexedTokensProper
  <2>5. IndexedPoolOf(reg, p) # None BY <2>4, NoneAssumption
  <2>6. Readable(reg, {p}) => reg[p].rev \in Nat BY <1>2, <2>3 DEF Readable
  <2> QED BY <1>2, <2>2, <2>3, <2>5, <2>6, IndexedTokensProper DEF IndexedPool
<1> QED BY <1>1, <1>2

\* The index determines the tokens.
LEMMA IndexGivesTokens ==
  ASSUME NEW r1 \in Registry, NEW r2 \in Registry, NEW p \in Pools,
         IndexedPoolOf(r1, p) = IndexedPoolOf(r2, p)
  PROVE  IndexedTokens(r1, p) = IndexedTokens(r2, p)
BY IndexedPoolType

\* Applying the deltas of a commit to a current index gives the index of its snapshot.
LEMMA IndexFollows ==
  ASSUME NEW c \in Commit, IndexIsCurrent,
         \A p \in Pools \ c.changed : c.registry[p] = source[p]
  PROVE  /\ ApplyIndexDeltas(c.registry, PoolDeltas(c)) = IndexedFromSnapshot(c.registry)
         /\ \A p \in Pools \ PoolDeltas(c) : IndexedPoolOf(c.registry, p) = IndexedPoolOf(source, p)
<1>1. \A p \in Pools : indexed[p] = IndexedPoolOf(source, p)
  BY DEF IndexIsCurrent, IndexedFromSnapshot
<1>2. \A p \in Pools \ c.changed : IndexedPoolOf(c.registry, p) = IndexedPoolOf(source, p)
  BY DEF IndexedPoolOf, IndexedTokens
<1>3. \A p \in Pools \ PoolDeltas(c) : IndexedPoolOf(c.registry, p) = IndexedPoolOf(source, p)
  BY <1>1, <1>2 DEF PoolDeltas
<1> QED BY <1>1, <1>3 DEF ApplyIndexDeltas, IndexedFromSnapshot

------------------------------------------------------------------------------
\* A scan of the graph of a snapshot tracks what the pair index says, and only tokens
\* of the registration.
LEMMA TargetsOf ==
  ASSUME NEW reg \in Registry, NEW p \in Pools
  PROVE  /\ LiquidityFromRegistry(reg, FromRegistry(TokensOf(reg)))[p] =
              TrackedTokensForPool(FromRegistry(TokensOf(reg)), p)
         /\ TrackedTokensForPool(FromRegistry(TokensOf(reg)), p) \cap RegistrationTokens(reg, p) =
              TrackedTokensForPool(FromRegistry(TokensOf(reg)), p)
         /\ TrackedTokensForPool(FromRegistry(TokensOf(reg)), p) \subseteq Tokens
<1> DEFINE g == FromRegistry(TokensOf(reg))
<1>1. g.pool_tokens[p] = IndexedTokens(reg, p)
  BY TokensOfIndexing DEF FromRegistry
<1>2. TrackedTokensForPool(g, p) \subseteq IndexedTokens(reg, p)
  BY <1>1 DEF TrackedTokensForPool
<1>3. TrackedTokensForPool(g, p) = TrackedTokensByPool(g)[p]
  BY TokensOfIndexing, TrackedAgree
<1>4. LiquidityFromRegistry(reg, g)[p] = TrackedTokensByPool(g)[p] \cap RegistrationTokens(reg, p)
  BY DEF LiquidityFromRegistry
<1> HIDE DEF g
<1>5. /\ LiquidityFromRegistry(reg, g)[p] = TrackedTokensForPool(g, p)
      /\ TrackedTokensForPool(g, p) \cap RegistrationTokens(reg, p) = TrackedTokensForPool(g, p)
      /\ TrackedTokensForPool(g, p) \subseteq Tokens
  BY <1>2, <1>3, <1>4, IndexedTokensProper
<1> QED BY <1>5 DEF g

\* A pool that liquidity_affected_pools leaves out has the same tokens to track.
LEMMA UnaffectedTracked ==
  ASSUME NEW old \in Registry, NEW new \in Registry, NEW D \in SUBSET Pools, NEW p \in Pools,
         \A q \in Pools \ D : IndexedTokens(old, q) = IndexedTokens(new, q),
         p \notin LiquidityAffectedPools(FromRegistry(TokensOf(old)), FromRegistry(TokensOf(new)), D)
  PROVE  TrackedTokensForPool(FromRegistry(TokensOf(old)), p) =
           TrackedTokensForPool(FromRegistry(TokensOf(new)), p)
<1> DEFINE m == TokensOf(old)
           n == TokensOf(new)
<1>1. m \in Indexing /\ n \in Indexing BY TokensOfIndexing
<1>2. \A q \in Pools \ D : m[q] = n[q] BY TokensOfIndexing
<1>3. p \notin D BY DEF LiquidityAffectedPools
<1>4. m[p] = n[p] BY <1>2, <1>3
<1>5. FromRegistry(m).pool_tokens = m /\ FromRegistry(n).pool_tokens = n BY DEF FromRegistry
<1> HIDE DEF m, n
<1>6. ASSUME ParallelOnly, NEW q \in D
      PROVE p \notin ParallelNeighbors(FromRegistry(m), q)
            /\ p \notin ParallelNeighbors(FromRegistry(n), q)
  BY <1>6 DEF LiquidityAffectedPools, m, n
<1>7. ASSUME ParallelOnly, NEW q \in Pools, NEW pair \in TokenPairs(m[p])
      PROVE pair \in TokenPairs(m[q]) <=> pair \in TokenPairs(n[q])
  <2>1. CASE q \notin D BY <1>2, <2>1
  <2>2. CASE q \in D
    <3>1. <<p, pair>> \in FromRegistry(m).pair_pools BY <1>1, <1>7, ParallelMember
    <3>2. <<p, pair>> \in FromRegistry(n).pair_pools BY <1>1, <1>4, <1>7, ParallelMember
    <3>3. pair \notin TokenPairs(m[q]) BY <1>5, <1>6, <1>7, <2>2, <3>1 DEF ParallelNeighbors
    <3>4. pair \notin TokenPairs(n[q]) BY <1>5, <1>6, <1>7, <2>2, <3>2 DEF ParallelNeighbors
    <3> QED BY <3>3, <3>4
  <2> QED BY <2>1, <2>2
<1>8. TrackedTokensForPool(FromRegistry(m), p) = TrackedTokensForPool(FromRegistry(n), p)
  BY <1>1, <1>4, <1>7, TrackedLocal
<1> QED BY <1>8 DEF m, n

\* Reconciling only the affected pools gives the targets of a full scan.
LEMMA ReconcileRebuild ==
  ASSUME NEW old \in Registry, NEW new \in Registry, NEW D \in SUBSET Pools,
         targets = LiquidityFromRegistry(old, FromRegistry(TokensOf(old))),
         \A q \in Pools \ D : IndexedTokens(old, q) = IndexedTokens(new, q)
  PROVE  ReconcilePools(new, FromRegistry(TokensOf(new)),
           LiquidityAffectedPools(FromRegistry(TokensOf(old)), FromRegistry(TokensOf(new)), D))
         = LiquidityFromRegistry(new, FromRegistry(TokensOf(new)))
<1> DEFINE g == FromRegistry(TokensOf(old))
           h == FromRegistry(TokensOf(new))
           A == LiquidityAffectedPools(g, h, D)
           R == ReconcilePools(new, h, A)
           L == LiquidityFromRegistry(new, h)
<1>1. ASSUME NEW p \in Pools PROVE R[p] = L[p]
  <2>1. L[p] = TrackedTokensForPool(h, p)
        /\ TrackedTokensForPool(h, p) \cap RegistrationTokens(new, p) = TrackedTokensForPool(h, p)
    BY TargetsOf
  <2>2. targets[p] = TrackedTokensForPool(g, p) BY TargetsOf
  <2>3. p \notin A => TrackedTokensForPool(g, p) = TrackedTokensForPool(h, p)
    BY UnaffectedTracked
  <2>4. R[p] = IF p \in A THEN TrackedTokensForPool(h, p) \cap RegistrationTokens(new, p)
               ELSE targets[p]
    BY DEF ReconcilePools
  <2> HIDE DEF g, h, A, R, L
  <2> QED BY <2>1, <2>2, <2>3, <2>4
<1>2. R = [p \in Pools |-> R[p]] /\ L = [p \in Pools |-> L[p]]
  BY DEF ReconcilePools, LiquidityFromRegistry
<1> HIDE DEF g, h, A, R, L
<1>3. R = L BY <1>1, <1>2
<1> QED BY <1>3 DEF R, L, A, g, h

\* Dropping the first k commits and moving to the snapshot of the k-th keeps the
\* stream's invariant.
LEMMA StreamAdvance ==
  ASSUME TypeOK, StreamInv, NEW k \in 1 .. Len(stream),
         source' = stream[k].registry, registry' = registry,
         stream' \in Seq(Commit), Len(stream') = Len(stream) - k,
         \A i \in 1 .. Len(stream') : stream'[i] = stream[i + k]
  PROVE  StreamInv'
<1>1. Len(stream) \in Nat /\ Len(stream') \in Nat BY DEF TypeOK
<1>2. ASSUME NEW i \in 1 .. Len(stream') PROVE Before(i)' = Before(i + k)
  <2>1. CASE i = 1 BY <1>1, <2>1 DEF Before
  <2>2. CASE i # 1
    <3>1. i - 1 \in 1 .. Len(stream') BY <1>1, <2>2
    <3>2. stream'[i - 1] = stream[i - 1 + k] BY <3>1
    <3>3. i - 1 + k = i + k - 1 /\ i + k # 1 BY <1>1, <2>2
    <3>4. Before(i)' = stream'[i - 1].registry BY <2>2 DEF Before
    <3>5. Before(i + k) = stream[i + k - 1].registry BY <3>3 DEF Before
    <3> QED BY <3>2, <3>3, <3>4, <3>5
  <2> QED BY <2>1, <2>2
<1>3. \A i \in 1 .. Len(stream') : i + k \in 1 .. Len(stream) BY <1>1
<1>4. registry = stream[Len(stream)].registry BY <1>1 DEF StreamInv
<1>5. registry' = IF stream' = <<>> THEN source' ELSE stream'[Len(stream')].registry
  <2>1. CASE stream' = <<>>
    <3>1. k = Len(stream) BY <1>1, <2>1
    <3> QED BY <1>4, <2>1, <3>1
  <2>2. CASE stream' # <<>>
    <3>1. Len(stream') \in 1 .. Len(stream') BY <1>1, <2>2
    <3>2. Len(stream') + k = Len(stream) BY <1>1
    <3> QED BY <1>4, <2>2, <3>1, <3>2
  <2> QED BY <2>1, <2>2
<1>6. ASSUME NEW i \in 1 .. Len(stream'), ~stream'[i].full
      PROVE \A p \in Pools \ stream'[i].changed : stream'[i].registry[p] = Before(i)'[p]
  BY <1>2, <1>3, <1>6 DEF StreamInv
<1> QED BY <1>5, <1>6 DEF StreamInv

------------------------------------------------------------------------------
LEMMA InitInv == Init => IInv
<1> SUFFICES ASSUME Init PROVE IInv
  OBVIOUS
<1>1. registry \in Registry /\ source = registry BY DEF Init, Registry, Registered
<1>2. graph = FromRegistry(TokensOf(source)) /\ graph \in Graph
  BY <1>1, TokensOfIndexing, FromRegistryType DEF Init
<1>3. Readable(registry, Pools)
  <2> SUFFICES ASSUME NEW p \in Pools, IndexedTokens(registry, p) # {}
               PROVE registry[p].rev # None
    BY DEF Readable
  <2>1. registry[p] # None BY DEF IndexedTokens
  <2>2. PICK m \in Metadata : registry[p] = [gen |-> 0, rev |-> 0, meta |-> m]
    BY <2>1 DEF Init
  <2>3. registry[p].rev = 0 BY <2>2
  <2>4. None # 0 BY NoneAssumption
  <2> QED BY <2>3, <2>4
<1>4. indexed \in [Pools -> IndexedPool \cup {None}]
  <2>1. indexed = [p \in Pools |-> IndexedPoolOf(registry, p)]
    BY DEF Init, IndexedFromSnapshot
  <2>2. \A p \in Pools : Readable(registry, {p}) BY <1>3 DEF Readable
  <2> QED BY <1>1, <2>1, <2>2, IndexedPoolType
<1>5. targets \in [Pools -> SUBSET Tokens]
  <2>1. targets = LiquidityFromRegistry(registry, FromRegistry(TokensOf(registry)))
    BY <1>1, <1>2 DEF Init
  <2>2. \A p \in Pools : targets[p] \subseteq Tokens BY <1>1, <2>1, TargetsOf
  <2>3. targets = [p \in Pools |-> targets[p]] BY <2>1 DEF LiquidityFromRegistry
  <2> QED BY <2>2, <2>3
<1>6. TypeOK BY <1>1, <1>2, <1>4, <1>5, MetadataAssumption DEF Init, TypeOK
<1>7. StreamInv /\ MutationInv BY DEF Init, StreamInv, MutationInv
<1>8. GraphIsRebuild /\ IndexIsCurrent /\ TargetsAreRebuild
  BY <1>1, <1>2 DEF Init, GraphIsRebuild, IndexIsCurrent, TargetsAreRebuild
<1> QED BY <1>6, <1>7, <1>8 DEF IInv

\* PublishCommit only appends to the stream.
LEMMA PublishInv ==
  ASSUME IInv, NEW C \in SUBSET Pools, NEW named \in SUBSET Pools, NEW full \in BOOLEAN,
         PublishCommit(C, named, full)
  PROVE  IInv'
<1> USE DEF IInv
<1>1. PICK new \in [C -> UNION {Touched(p) : p \in C}] :
        /\ \A p \in C : new[p] \in Touched(p)
        /\ registry' = [p \in Pools |-> IF p \in C THEN new[p] ELSE registry[p]]
  BY DEF PublishCommit
<1>2. \A p \in Pools : Touched(p) \subseteq Registered \cup {None}
  <2> SUFFICES ASSUME NEW p \in Pools, NEW x \in Touched(p), x # None PROVE x \in Registered
    OBVIOUS
  <2>1. published + 1 \in Nat BY MetadataAssumption DEF TypeOK
  <2>2. registry[p] # None => registry[p].gen \in Nat BY DEF TypeOK, Registry, Registered
  <2> QED BY <2>1, <2>2 DEF Touched, Registered
<1>3. registry' \in Registry BY <1>1, <1>2 DEF TypeOK, Registry
<1> DEFINE c == [registry |-> registry', changed |-> named, full |-> full]
<1>4. c \in Commit BY <1>3 DEF Commit
<1>5. stream' = Append(stream, c) BY DEF PublishCommit
<1>6. c.registry = registry' /\ c.changed = named /\ c.full = full OBVIOUS
<1> HIDE DEF c
<1>7. /\ stream \in Seq(Commit) /\ stream' \in Seq(Commit) /\ Len(stream) \in Nat
      /\ Len(stream') = Len(stream) + 1 /\ stream' # <<>>
      /\ stream'[Len(stream) + 1] = c
      /\ \A i \in 1 .. Len(stream) : stream'[i] = stream[i]
  BY <1>4, <1>5 DEF TypeOK
<1>8. UNCHANGED <<source, graph, version, indexed, targets, pc, commit, todo, next_graph>>
  BY DEF PublishCommit, selfVars, workVars
<1>9. TypeOK'
  <2>1. published' \in 0 .. MaxVersion BY MetadataAssumption DEF TypeOK, PublishCommit
  <2> QED BY <2>1, <1>3, <1>7, <1>8 DEF TypeOK
<1>10. StreamInv'
  <2>1. ASSUME NEW i \in 1 .. Len(stream'), ~stream'[i].full,
               NEW p \in Pools \ stream'[i].changed
        PROVE  stream'[i].registry[p] = Before(i)'[p]
    <3>1. CASE i \in 1 .. Len(stream)
      <4>1. stream'[i] = stream[i] BY <1>7, <3>1
      <4>2. Before(i)' = Before(i)
        <5>1. CASE i = 1 BY <1>8, <5>1 DEF Before
        <5>2. CASE i # 1
          <6>1. i - 1 \in 1 .. Len(stream) BY <1>7, <3>1, <5>2
          <6> QED BY <1>7, <5>2, <6>1 DEF Before
        <5> QED BY <5>1, <5>2
      <4> QED BY <2>1, <3>1, <4>1, <4>2 DEF StreamInv
    <3>2. CASE i = Len(stream) + 1
      <4>1. stream'[i] = c BY <1>7, <3>2
      <4>2. C \subseteq named BY <1>6, <2>1, <4>1 DEF PublishCommit
      <4>3. p \notin C BY <1>6, <2>1, <4>1, <4>2
      <4>4. c.registry[p] = registry[p] BY <1>1, <1>6, <4>3
      <4>5. Before(i)' = registry
        <5>1. CASE stream = <<>> BY <1>7, <1>8, <3>2, <5>1 DEF Before, StreamInv
        <5>2. CASE stream # <<>>
          <6>1. i # 1 /\ i - 1 = Len(stream) /\ Len(stream) \in 1 .. Len(stream)
            BY <1>7, <3>2, <5>2
          <6>2. Before(i)' = stream[Len(stream)].registry BY <1>7, <6>1 DEF Before
          <6> QED BY <5>2, <6>2 DEF StreamInv
        <5> QED BY <5>1, <5>2
      <4> QED BY <4>1, <4>4, <4>5
    <3> QED BY <1>7, <3>1, <3>2
  <2>2. registry' = IF stream' = <<>> THEN source' ELSE stream'[Len(stream')].registry
    BY <1>6, <1>7
  <2> QED BY <2>1, <2>2 DEF StreamInv
<1>11. MutationInv'
  <2> SUFFICES ASSUME pc' = "mutating" PROVE MutationInv'
    BY DEF MutationInv
  <2>1. stream # <<>> /\ commit = Head(stream) BY <1>8 DEF MutationInv
  <2>2. Head(stream') = Head(stream) BY <1>7, <2>1
  <2>3. Mixed' = Mixed BY <1>8 DEF Mixed
  <2>4. PoolDeltas(commit)' = PoolDeltas(commit) BY <1>8 DEF PoolDeltas
  <2> QED BY <1>7, <1>8, <2>1, <2>2, <2>3, <2>4 DEF MutationInv
<1>12. GraphIsRebuild' /\ IndexIsCurrent' /\ TargetsAreRebuild'
  BY <1>8 DEF GraphIsRebuild, IndexIsCurrent, TargetsAreRebuild
<1> QED BY <1>9, <1>10, <1>11, <1>12

\* The head of the stream was made from the current snapshot.
LEMMA HeadCommit ==
  ASSUME IInv, stream # <<>>
  PROVE  /\ Head(stream) \in Commit /\ Head(stream).registry \in Registry
         /\ Head(stream).changed \subseteq Pools
         /\ 1 \in 1 .. Len(stream) /\ Head(stream) = stream[1]
         /\ Tail(stream) \in Seq(Commit) /\ Len(Tail(stream)) = Len(stream) - 1
         /\ \A i \in 1 .. Len(Tail(stream)) : Tail(stream)[i] = stream[i + 1]
         /\ ~Head(stream).full =>
              \A p \in Pools \ Head(stream).changed : Head(stream).registry[p] = source[p]
<1>1. stream \in Seq(Commit) BY DEF IInv, TypeOK
<1>2. /\ Head(stream) \in Commit /\ 1 \in 1 .. Len(stream) /\ Head(stream) = stream[1]
      /\ Tail(stream) \in Seq(Commit) /\ Len(Tail(stream)) = Len(stream) - 1
      /\ \A i \in 1 .. Len(Tail(stream)) : Tail(stream)[i] = stream[i + 1]
  BY <1>1
<1>3. Head(stream).registry \in Registry /\ Head(stream).changed \subseteq Pools
  BY <1>2 DEF Commit
<1>4. Before(1) = source BY DEF Before
<1>5. ~Head(stream).full =>
        \A p \in Pools \ Head(stream).changed : Head(stream).registry[p] = source[p]
  BY <1>2, <1>4 DEF IInv, StreamInv
<1> QED BY <1>2, <1>3, <1>5

LEMMA StateOnlyInv ==
  ASSUME IInv, ApplyStateOnly
  PROVE  IInv' /\ Semantic(indexed') = Semantic(indexed) /\ version' = version
<1> DEFINE c == Head(stream)
<1>1. /\ pc = "idle" /\ stream # <<>> /\ ~c.full /\ Readable(c.registry, c.changed)
      /\ \A p \in c.changed : Impact(indexed[p], IndexedPoolOf(c.registry, p)) = "Unchanged"
      /\ indexed' = ApplyIndexDeltas(c.registry, PoolDeltas(c))
      /\ source' = c.registry /\ stream' = Tail(stream)
      /\ UNCHANGED <<registry, published, graph, version, targets, pc, commit, todo, next_graph>>
  BY DEF ApplyStateOnly, Advance, ammVars, workVars
<1>2. /\ c \in Commit /\ c.registry \in Registry /\ c.changed \subseteq Pools
      /\ \A p \in Pools \ c.changed : c.registry[p] = source[p]
  BY <1>1, HeadCommit
<1>3. stream' \in Seq(Commit) /\ StreamInv'
  BY <1>1, HeadCommit, StreamAdvance DEF IInv
<1> HIDE DEF c
<1>4. indexed' = IndexedFromSnapshot(c.registry)
  BY <1>1, <1>2, IndexFollows DEF IInv
<1>5. ASSUME NEW p \in Pools
      PROVE  /\ IndexedTokens(c.registry, p) = IndexedTokens(source, p)
             /\ Semantic(indexed')[p] = Semantic(indexed)[p]
             /\ indexed'[p] \in IndexedPool \cup {None}
  <2>0. indexed[p] = IndexedPoolOf(source, p) /\ indexed'[p] = IndexedPoolOf(c.registry, p)
        /\ source \in Registry /\ indexed[p] \in IndexedPool \cup {None}
    BY <1>4 DEF IInv, TypeOK, IndexIsCurrent, IndexedFromSnapshot
  <2>1. CASE p \notin c.changed
    <3>1. IndexedPoolOf(c.registry, p) = IndexedPoolOf(source, p)
      BY <1>2, <2>1 DEF IndexedPoolOf, IndexedTokens
    <3> QED BY <1>2, <2>0, <3>1, IndexGivesTokens DEF Semantic
  <2>2. CASE p \in c.changed
    <3>1. Impact(indexed[p], indexed'[p]) = "Unchanged" BY <1>1, <2>0, <2>2
    <3>2. \/ indexed[p] = None /\ indexed'[p] = None
          \/ /\ indexed[p] # None /\ indexed'[p] # None
             /\ indexed[p].tokens = indexed'[p].tokens /\ indexed[p].gen = indexed'[p].gen
      BY <3>1 DEF Impact
    <3>3. IndexedTokens(c.registry, p) = IndexedTokens(source, p)
      BY <1>2, <2>0, <3>2, IndexedPoolType, ZenonT(30)
    <3>4. Semantic(indexed')[p] = Semantic(indexed)[p] BY <3>2 DEF Semantic
    <3>5. Readable(c.registry, {p}) BY <1>1, <2>2 DEF Readable
    <3>6. indexed'[p] \in IndexedPool \cup {None} BY <1>2, <2>0, <3>5, IndexedPoolType
    <3> QED BY <3>3, <3>4, <3>6
  <2> QED BY <2>1, <2>2
<1>6. TokensOf(c.registry) = TokensOf(source) BY <1>5 DEF TokensOf
<1>7. GraphIsRebuild' BY <1>1, <1>6 DEF IInv, GraphIsRebuild
<1>8. IndexIsCurrent' BY <1>1, <1>4 DEF IndexIsCurrent
<1>9. TargetsAreRebuild'
  <2>0. source \in Registry BY DEF IInv, TypeOK
  <2>1. graph = FromRegistry(TokensOf(source)) BY DEF IInv, GraphIsRebuild
  <2>2. ASSUME NEW p \in Pools
        PROVE LiquidityFromRegistry(source, graph)[p] = LiquidityFromRegistry(c.registry, graph)[p]
    BY <1>2, <1>6, <2>0, <2>1, TargetsOf
  <2>3. LiquidityFromRegistry(source, graph) = LiquidityFromRegistry(c.registry, graph)
    BY <2>2 DEF LiquidityFromRegistry
  <2> QED BY <1>1, <2>3 DEF IInv, TargetsAreRebuild
<1>10. indexed' \in [Pools -> IndexedPool \cup {None}]
  <2>1. indexed' = [p \in Pools |-> indexed'[p]] BY <1>4 DEF IndexedFromSnapshot
  <2> QED BY <1>5, <2>1
<1>11. TypeOK' BY <1>1, <1>2, <1>3, <1>10 DEF IInv, TypeOK
<1>12. MutationInv' BY <1>1 DEF MutationInv
<1>13. Semantic(indexed') = Semantic(indexed) BY <1>5 DEF Semantic
<1> QED BY <1>1, <1>3, <1>7, <1>8, <1>9, <1>11, <1>12, <1>13 DEF IInv

LEMMA BeginInv ==
  ASSUME IInv, BeginMutation
  PROVE  IInv'
<1> DEFINE c == Head(stream)
<1>1. /\ stream # <<>> /\ ~c.full /\ Readable(c.registry, c.changed)
      /\ \E p \in c.changed : Impact(indexed[p], IndexedPoolOf(c.registry, p)) # "Unchanged"
      /\ commit' = c /\ todo' = PoolDeltas(c) /\ pc' = "mutating" /\ next_graph' = graph
      /\ UNCHANGED <<registry, published, stream, source, graph, version, indexed, targets>>
  BY DEF BeginMutation, ammVars, selfVars
<1>2. /\ c \in Commit /\ c.registry \in Registry /\ c.changed \subseteq Pools
      /\ \A p \in Pools \ c.changed : c.registry[p] = source[p]
  BY <1>1, HeadCommit
<1>3. c = Head(stream) OBVIOUS
<1> HIDE DEF c
<1>4. source \in Registry /\ graph = FromRegistry(TokensOf(source)) /\ graph \in Graph
  BY DEF IInv, TypeOK, GraphIsRebuild
<1>5. \A p \in Pools \ PoolDeltas(c) : IndexedTokens(c.registry, p) = IndexedTokens(source, p)
  BY <1>2, <1>4, IndexFollows, IndexGivesTokens DEF IInv
<1>6. Mixed' = TokensOf(source)
  BY <1>1, <1>5 DEF Mixed, TokensOf
<1>7. PoolDeltas(commit)' = PoolDeltas(c) BY <1>1 DEF PoolDeltas
<1>8. MutationInv'
  BY <1>1, <1>3, <1>4, <1>6, <1>7 DEF MutationInv
<1>9. TypeOK'
  <2>1. PoolDeltas(c) \subseteq Pools BY <1>2 DEF PoolDeltas
  <2> QED BY <1>1, <1>2, <1>4, <2>1 DEF IInv, TypeOK
<1>10. StreamInv' BY <1>1 DEF IInv, StreamInv, Before
<1>11. GraphIsRebuild' /\ IndexIsCurrent' /\ TargetsAreRebuild'
  BY <1>1 DEF IInv, GraphIsRebuild, IndexIsCurrent, TargetsAreRebuild
<1> QED BY <1>8, <1>9, <1>10, <1>11 DEF IInv

LEMMA MutateInv ==
  ASSUME IInv, NEW p \in Pools, MutatePool(p)
  PROVE  IInv'
<1>1. /\ pc = "mutating" /\ p \in todo /\ todo' = todo \ {p}
      /\ next_graph' = ApplyPool(next_graph, p, IndexedTokens(commit.registry, p))
      /\ UNCHANGED <<registry, published, stream, source, graph, version, indexed, targets,
                     pc, commit>>
  BY DEF MutatePool, ammVars, selfVars
<1>2. commit \in Commit /\ commit.registry \in Registry /\ source \in Registry
  BY <1>1 DEF IInv, TypeOK, Commit
<1>3. Mixed \in Indexing BY <1>2, IndexedTokensProper DEF Mixed, Indexing
<1>4. [Mixed EXCEPT ![p] = IndexedTokens(commit.registry, p)] = Mixed'
  BY <1>1 DEF Mixed
<1>5. next_graph = FromRegistry(Mixed) BY <1>1 DEF IInv, MutationInv
<1>6. next_graph' = FromRegistry(Mixed') /\ Mixed' \in Indexing
  <2>1. /\ IndexedTokens(commit.registry, p) \in SUBSET Tokens
        /\ IndexedTokens(commit.registry, p) = {} \/ HasPair(IndexedTokens(commit.registry, p))
    BY <1>2, IndexedTokensProper
  <2>2. [Mixed EXCEPT ![p] = IndexedTokens(commit.registry, p)] \in Indexing
        /\ ApplyPool(FromRegistry(Mixed), p, IndexedTokens(commit.registry, p)) =
             FromRegistry([Mixed EXCEPT ![p] = IndexedTokens(commit.registry, p)])
    BY <1>3, <2>1, ApplyPoolRebuild
  <2> QED BY <1>1, <1>4, <1>5, <2>2
<1>7. next_graph' \in Graph BY <1>6, FromRegistryType
<1>8. TypeOK' BY <1>1, <1>7 DEF IInv, TypeOK
<1>9. PoolDeltas(commit)' = PoolDeltas(commit) BY <1>1 DEF PoolDeltas
<1>10. MutationInv' BY <1>1, <1>6, <1>9 DEF IInv, MutationInv
<1>11. StreamInv' BY <1>1 DEF IInv, StreamInv, Before
<1>12. GraphIsRebuild' /\ IndexIsCurrent' /\ TargetsAreRebuild'
  BY <1>1 DEF IInv, GraphIsRebuild, IndexIsCurrent, TargetsAreRebuild
<1> QED BY <1>8, <1>10, <1>11, <1>12 DEF IInv

LEMMA FinishInv ==
  ASSUME IInv, FinishMutation
  PROVE  IInv' /\ Semantic(indexed') # Semantic(indexed) /\ version' = version + 1
<1> DEFINE D == PoolDeltas(commit)
           reg == commit.registry
<1>1. /\ pc = "mutating" /\ todo = {} /\ graph' = next_graph /\ version' = version + 1
      /\ targets' = ReconcilePools(reg, next_graph, LiquidityAffectedPools(graph, next_graph, D))
      /\ indexed' = ApplyIndexDeltas(reg, D)
      /\ source' = reg /\ stream' = Tail(stream) /\ pc' = "idle" /\ commit' = None
      /\ UNCHANGED <<registry, published, todo, next_graph>>
  BY DEF FinishMutation, Advance, ammVars
<1>2. /\ stream # <<>> /\ commit = Head(stream) /\ ~commit.full
      /\ Readable(commit.registry, commit.changed)
      /\ \E p \in commit.changed : Impact(indexed[p], IndexedPoolOf(reg, p)) # "Unchanged"
      /\ next_graph = FromRegistry(Mixed)
  BY <1>1 DEF IInv, MutationInv
<1>3. /\ commit \in Commit /\ reg \in Registry /\ commit.changed \subseteq Pools
      /\ \A p \in Pools \ commit.changed : reg[p] = source[p]
  BY <1>2, HeadCommit
<1>4. stream' \in Seq(Commit) /\ StreamInv'
  BY <1>1, <1>2, HeadCommit, StreamAdvance DEF IInv
<1>5. /\ indexed' = IndexedFromSnapshot(reg)
      /\ \A p \in Pools \ D : IndexedPoolOf(reg, p) = IndexedPoolOf(source, p)
  BY <1>1, <1>3, IndexFollows DEF IInv
<1>6. /\ source \in Registry /\ graph = FromRegistry(TokensOf(source))
      /\ targets = LiquidityFromRegistry(source, graph)
      /\ indexed = IndexedFromSnapshot(source)
      /\ indexed \in [Pools -> IndexedPool \cup {None}] /\ version \in Nat
  BY DEF IInv, TypeOK, GraphIsRebuild, TargetsAreRebuild, IndexIsCurrent
<1>7. D \subseteq Pools /\ D \subseteq commit.changed BY <1>3 DEF PoolDeltas
<1>8. next_graph = FromRegistry(TokensOf(reg))
  <2>1. Mixed = TokensOf(reg) BY <1>1 DEF Mixed, TokensOf
  <2> QED BY <1>2, <2>1
<1> HIDE DEF D, reg
<1>9. GraphIsRebuild' BY <1>1, <1>8 DEF GraphIsRebuild
<1>10. IndexIsCurrent' BY <1>1, <1>5 DEF IndexIsCurrent
<1>11. TargetsAreRebuild'
  <2>1. \A q \in Pools \ D : IndexedTokens(source, q) = IndexedTokens(reg, q)
    BY <1>3, <1>5, <1>6, IndexGivesTokens
  <2>2. targets' = LiquidityFromRegistry(reg, FromRegistry(TokensOf(reg)))
    BY <1>1, <1>3, <1>6, <1>7, <1>8, <2>1, ReconcileRebuild
  <2> QED BY <1>1, <1>8, <2>2 DEF TargetsAreRebuild
<1>12. indexed' \in [Pools -> IndexedPool \cup {None}]
  <2>1. ASSUME NEW p \in Pools PROVE indexed'[p] \in IndexedPool \cup {None}
    <3>1. CASE p \in D
      <4>1. Readable(reg, {p}) BY <1>2, <1>7, <3>1 DEF Readable, reg
      <4> QED BY <1>3, <1>5, <4>1, IndexedPoolType DEF IndexedFromSnapshot
    <3>2. CASE p \notin D
      <4>1. indexed'[p] = indexed[p] BY <1>5, <1>6, <3>2 DEF IndexedFromSnapshot
      <4> QED BY <1>6, <4>1
    <3> QED BY <3>1, <3>2
  <2>2. indexed' = [p \in Pools |-> indexed'[p]] BY <1>5 DEF IndexedFromSnapshot
  <2> QED BY <2>1, <2>2
<1>13. targets' \in [Pools -> SUBSET Tokens]
  <2>1. targets' = LiquidityFromRegistry(reg, FromRegistry(TokensOf(reg)))
    BY <1>1, <1>8, <1>11 DEF TargetsAreRebuild
  <2>2. \A p \in Pools : targets'[p] \subseteq Tokens BY <1>3, <2>1, TargetsOf
  <2>3. targets' = [p \in Pools |-> targets'[p]] BY <2>1 DEF LiquidityFromRegistry
  <2> QED BY <2>2, <2>3
<1>14. TypeOK' BY <1>1, <1>3, <1>4, <1>6, <1>12, <1>13 DEF IInv, TypeOK
<1>15. MutationInv' BY <1>1 DEF MutationInv
<1>16. Semantic(indexed') # Semantic(indexed)
  <2>1. PICK p \in commit.changed : Impact(indexed[p], IndexedPoolOf(reg, p)) # "Unchanged"
    BY <1>2
  <2>2. p \in Pools /\ indexed'[p] = IndexedPoolOf(reg, p)
    BY <1>3, <1>5 DEF IndexedFromSnapshot
  <2>3. Impact(indexed[p], indexed'[p]) # "Unchanged" BY <2>1, <2>2
  <2>4. \/ indexed[p] = None /\ indexed'[p] # None
        \/ indexed[p] # None /\ indexed'[p] = None
        \/ /\ indexed[p] # None /\ indexed'[p] # None
           /\ indexed[p].tokens # indexed'[p].tokens \/ indexed[p].gen # indexed'[p].gen
    BY <2>3 DEF Impact
  <2>5. \A i \in IndexedPool : <<i.gen, i.tokens>> # None
    BY NoneAssumption DEF IndexedPool
  <2>6. indexed[p] \in IndexedPool \cup {None} /\ indexed'[p] \in IndexedPool \cup {None}
    BY <1>6, <1>12, <2>2
  <2>7. Semantic(indexed)[p] = IF indexed[p] = None THEN None
                               ELSE <<indexed[p].gen, indexed[p].tokens>>
    BY <2>2 DEF Semantic
  <2>8. Semantic(indexed')[p] = IF indexed'[p] = None THEN None
                                ELSE <<indexed'[p].gen, indexed'[p].tokens>>
    BY <2>2 DEF Semantic
  <2>9. Semantic(indexed')[p] # Semantic(indexed)[p] BY <2>4, <2>5, <2>6, <2>7, <2>8
  <2> QED BY <2>9
<1> QED BY <1>1, <1>4, <1>9, <1>10, <1>11, <1>14, <1>15, <1>16 DEF IInv

LEMMA ReconcileInv ==
  ASSUME IInv, NEW i, ReconcileSnapshot(i)
  PROVE  IInv' /\ version' = IF Semantic(indexed) # Semantic(indexed') THEN version + 1 ELSE version
<1> DEFINE reg == stream[i].registry
           D == {p \in Pools : indexed[p] # IndexedFromSnapshot(reg)[p]}
<1>1. /\ pc = "idle" /\ i \in 1 .. Len(stream) /\ Readable(reg, Pools)
      /\ graph' = FromRegistry(TokensOf(reg)) /\ indexed' = IndexedFromSnapshot(reg)
      /\ version' = IF Semantic(indexed) # Semantic(IndexedFromSnapshot(reg))
                      THEN version + 1 ELSE version
      /\ targets' = ReconcilePools(reg, FromRegistry(TokensOf(reg)),
                      LiquidityAffectedPools(graph, FromRegistry(TokensOf(reg)), D))
      /\ source' = reg /\ stream' = SubSeq(stream, i + 1, Len(stream))
      /\ UNCHANGED <<registry, published, pc, commit, todo, next_graph>>
  BY DEF ReconcileSnapshot, ReplaceFromSnapshot, Advance, ammVars, workVars
<1>2. stream \in Seq(Commit) /\ Len(stream) \in Nat BY DEF IInv, TypeOK
<1>3. reg \in Registry
  <2>1. stream[i] \in Commit BY <1>1, <1>2
  <2> QED BY <2>1 DEF Commit
<1>4. /\ stream' \in Seq(Commit) /\ Len(stream') = Len(stream) - i
      /\ \A j \in 1 .. Len(stream') : stream'[j] = stream[j + i]
  <2> DEFINE rest == SubSeq(stream, i + 1, Len(stream))
  <2>1. i + 1 \in Int /\ Len(stream) \in Int /\ i \in Int BY <1>1, <1>2
  <2>2. \A j \in (i + 1) .. Len(stream) : stream[j] \in Commit BY <1>1, <1>2
  <2>3. /\ rest \in Seq(Commit)
        /\ Len(rest) = IF i + 1 <= Len(stream) THEN Len(stream) - (i + 1) + 1 ELSE 0
        /\ \A j \in 1 .. Len(stream) - (i + 1) + 1 : rest[j] = stream[(i + 1) + j - 1]
    BY <2>1, <2>2, SubSeqProperties
  <2> HIDE DEF rest
  <2>4. Len(rest) = Len(stream) - i BY <1>1, <1>2, <2>3
  <2>5. \A j \in 1 .. Len(rest) :
          j \in 1 .. Len(stream) - (i + 1) + 1 /\ (i + 1) + j - 1 = j + i
    BY <1>1, <1>2, <2>4
  <2>6. \A j \in 1 .. Len(rest) : rest[j] = stream[j + i] BY <2>3, <2>5
  <2> QED BY <1>1, <2>3, <2>4, <2>6 DEF rest
<1>5. StreamInv' BY <1>1, <1>4, StreamAdvance DEF IInv
<1>6. /\ source \in Registry /\ graph = FromRegistry(TokensOf(source)) /\ version \in Nat
      /\ targets = LiquidityFromRegistry(source, graph)
      /\ \A p \in Pools : indexed[p] = IndexedPoolOf(source, p)
  BY DEF IInv, TypeOK, GraphIsRebuild, TargetsAreRebuild, IndexIsCurrent, IndexedFromSnapshot
<1>7. D \subseteq Pools
      /\ \A p \in Pools \ D : IndexedPoolOf(reg, p) = IndexedPoolOf(source, p)
  BY <1>6 DEF IndexedFromSnapshot
<1> HIDE DEF D, reg
<1>8. \A p \in Pools \ D : IndexedTokens(source, p) = IndexedTokens(reg, p)
  BY <1>3, <1>6, <1>7, IndexGivesTokens
<1>9. targets' = LiquidityFromRegistry(reg, FromRegistry(TokensOf(reg)))
  BY <1>1, <1>3, <1>6, <1>7, <1>8, ReconcileRebuild
<1>10. GraphIsRebuild' /\ IndexIsCurrent' /\ TargetsAreRebuild'
  BY <1>1, <1>9 DEF GraphIsRebuild, IndexIsCurrent, TargetsAreRebuild
<1>11. indexed' \in [Pools -> IndexedPool \cup {None}]
  <2>1. \A p \in Pools : Readable(reg, {p}) BY <1>1 DEF Readable
  <2> QED BY <1>1, <1>3, <2>1, IndexedPoolType DEF IndexedFromSnapshot
<1>12. targets' \in [Pools -> SUBSET Tokens]
  <2>1. \A p \in Pools : targets'[p] \subseteq Tokens BY <1>3, <1>9, TargetsOf
  <2>2. targets' = [p \in Pools |-> targets'[p]] BY <1>9 DEF LiquidityFromRegistry
  <2> QED BY <2>1, <2>2
<1>13. graph' \in Graph BY <1>1, <1>3, TokensOfIndexing, FromRegistryType
<1>14. version' \in Nat BY <1>1, <1>6
<1>15. TypeOK' BY <1>1, <1>3, <1>4, <1>11, <1>12, <1>13, <1>14 DEF IInv, TypeOK
<1>16. MutationInv' BY <1>1 DEF MutationInv
<1> QED BY <1>1, <1>5, <1>10, <1>15, <1>16 DEF IInv

\* Every step keeps the invariant and treats the graph version as it should.
LEMMA StepInv ==
  ASSUME IInv, [Next]_vars
  PROVE  /\ IInv'
         /\ IF Semantic(indexed') = Semantic(indexed) THEN version' = version
            ELSE version' = version + 1
<1>1. CASE \E C \in SUBSET Pools :
             PublishCommit(C, C, FALSE) \/ PublishCommit(C, Pools, FALSE) \/ PublishCommit(C, {}, TRUE)
  <2>1. IInv' BY <1>1, PublishInv
  <2>2. indexed' = indexed /\ version' = version BY <1>1 DEF PublishCommit, selfVars
  <2> QED BY <2>1, <2>2
<1>2. CASE ApplyStateOnly BY <1>2, StateOnlyInv
<1>3. CASE BeginMutation
  <2>1. indexed' = indexed /\ version' = version BY <1>3 DEF BeginMutation, selfVars
  <2> QED BY <1>3, <2>1, BeginInv
<1>4. CASE \E p \in Pools : MutatePool(p)
  <2>1. indexed' = indexed /\ version' = version BY <1>4 DEF MutatePool, selfVars
  <2> QED BY <1>4, <2>1, MutateInv
<1>5. CASE FinishMutation BY <1>5, FinishInv
<1>6. CASE \E i \in 1 .. MaxVersion : ReconcileSnapshot(i) BY <1>6, ReconcileInv
<1>7. CASE UNCHANGED vars
  <2>1. UNCHANGED <<registry, published, stream, source, graph, version, indexed, targets,
                    pc, commit, todo, next_graph>>
    BY <1>7 DEF vars, ammVars, selfVars, workVars
  <2>2. TypeOK' BY <2>1 DEF IInv, TypeOK
  <2>3. StreamInv' BY <2>1 DEF IInv, StreamInv, Before
  <2>4. MutationInv'
    <3>1. Mixed' = Mixed /\ PoolDeltas(commit)' = PoolDeltas(commit) BY <2>1 DEF Mixed, PoolDeltas
    <3> QED BY <2>1, <3>1 DEF IInv, MutationInv
  <2>5. GraphIsRebuild' /\ IndexIsCurrent' /\ TargetsAreRebuild'
    BY <2>1 DEF IInv, GraphIsRebuild, IndexIsCurrent, TargetsAreRebuild
  <2> QED BY <2>1, <2>2, <2>3, <2>4, <2>5 DEF IInv
<1> QED BY <1>1, <1>2, <1>3, <1>4, <1>5, <1>6, <1>7 DEF Next

LEMMA GraphInductive == Spec => []IInv
<1>1. Init => IInv BY InitInv
<1>2. IInv /\ [Next]_vars => IInv' BY StepInv
<1> QED BY <1>1, <1>2, PTL DEF Spec

\* All state has its type; in particular every indexed pool has a revision.
THEOREM GraphTypeCorrect == Spec => []TypeOK
<1>1. IInv => TypeOK BY DEF IInv
<1> QED BY <1>1, GraphInductive, PTL

\* The incrementally maintained graph always equals a rebuild from its snapshot.
THEOREM IncrementalIsRebuild == Spec => []GraphIsRebuild
<1>1. IInv => GraphIsRebuild BY DEF IInv
<1> QED BY <1>1, GraphInductive, PTL

\* The index of generations and revisions is always that of the current snapshot.
THEOREM IndexAlwaysCurrent == Spec => []IndexIsCurrent
<1>1. IInv => IndexIsCurrent BY DEF IInv
<1> QED BY <1>1, GraphInductive, PTL

\* Reconciling only affected pools always gives the targets of a scan of the graph.
THEOREM TargetsAlwaysRebuild == Spec => []TargetsAreRebuild
<1>1. IInv => TargetsAreRebuild BY DEF IInv
<1> QED BY <1>1, GraphInductive, PTL

\* Every step advances the graph version by one exactly when the topology changes.
THEOREM VersionIsTopology == Spec => VersionMarksTopology
<1>1. IInv /\ [Next]_vars =>
        [IF Semantic(indexed') = Semantic(indexed) THEN version' = version
         ELSE version' = version + 1]_vars
  BY StepInv
<1> QED BY <1>1, GraphInductive, PTL DEF Spec, VersionMarksTopology
==============================================================================
