----------------------------- MODULE RoutingNode -----------------------------
(***************************************************************************)
(* RoutingNode of sidecar/src/node.rs, one per routing generation, with the *)
(* graph index (graph_index.rs) its requests read and the coverage ledger   *)
(* (coverage.rs) its token preparations write. Three parties race: the AMM  *)
(* runtime commits versions, the route runtime turns them into graph deltas *)
(* on a broadcast the index updater may fall behind on, and preparations    *)
(* queue discovery, wait for the runtime to be idle and for the index to    *)
(* catch up, and record what they found. AmmGraph and LiveGraph model       *)
(* where a delta comes from; here it is the difference of two versions.     *)
(*                                                                         *)
(* One token, Wanted, is prepared; preparations of others do not touch it.  *)
(* A definition whose name says what it gets wrong is a mutation of the one *)
(* that follows it, never used.                                             *)
(***************************************************************************)
EXTENDS Integers, Sequences, FiniteSets

CONSTANTS
  Nodes,          \* 1 .. the number of generations, a bound
  Requests,       \* the requests of clients
  Pools, Tokens,
  Wanted,         \* the token that is prepared
  Topologies,     \* what the registry may hold: pool -> its tokens, {} if it is not there
  MaxVersion,     \* bound: AMM versions of a node
  EventCapacity   \* of the broadcast of graph deltas

ASSUME NodeAssumption ==
  /\ Cardinality(Nodes) \in Nat /\ Nodes = 1 .. Cardinality(Nodes) /\ Nodes # {} /\ Wanted \in Tokens
  /\ IsFiniteSet(Pools) /\ IsFiniteSet(Tokens) /\ 0 \notin Requests
  /\ Topologies \subseteq [Pools -> SUBSET Tokens]
  /\ EventCapacity \in Nat \ {0} /\ MaxVersion \in Nat \ {0}

VARIABLES
  history,  \* of each node: the registry at each AMM version
  routed,   \* the version the route runtime is at
  amm,      \* the AMM runtime: "up", "down" once it is shut down, "left" if that took too long
  routes,   \* the route runtime: "up", or "down" when it failed or was shut down
  events,   \* graph deltas on their way to the index updater
  lagged,   \* it missed some
  index,    \* GraphIndex
  work,     \* the discovery jobs the AMM runtime has queued or runs: who asked for them
  found,    \* of each request: the version its job was finished at, 0 before
  cov,      \* CoverageState of Wanted, see CoverageStates
  expired,  \* an Empty verdict is older than negative_ttl
  holder,   \* the request that has the token's preparation lock, 0 if none
  prep,     \* of each request: its preparation
  gaveUp    \* a preparation ended without a verdict: it timed out or its client left

nodeVars == <<history, routed, amm, routes, events, lagged, index, work, found, cov, expired, holder,
              prep, gaveUp>>

Version(n) == Len(history[n])

------------------------------------------------------------------------------
(* graph_index.rs *)

\* directed_edge_count counts the ordered pairs of a pool's tokens, n (n - 1) of them.
TokenPairs(tokens) == {pair \in tokens \X tokens : pair[1] # pair[2]}

\* from_graph: a pool's tokens, its directed edges, and how many pools a token has.
FromGraph(topology, version) ==
  [version |-> version,
   edges |-> Cardinality({e \in Pools \X (Tokens \X Tokens) : e[2] \in TokenPairs(topology[e[1]])}),
   pool_tokens |-> topology,
   token_pools |-> [t \in Tokens |-> Cardinality({p \in Pools : t \in topology[p]})]]

\* The delta between consecutive versions: of each changed pool what it was and is.
Delta(n, v) ==
  [version |-> v,
   changes |-> [p \in {q \in Pools : history[n][v - 1][q] # history[n][v][q]} |->
                  [before |-> history[n][v - 1][p], after |-> history[n][v][p]]]]

\* apply_delta succeeds only on the next version, and on the pools it was made for.
Coherent(idx, d) ==
  /\ d.version = idx.version + 1
  /\ \A p \in DOMAIN d.changes : idx.pool_tokens[p] = d.changes[p].before

\* The edges that pools of the delta gain or lose, and the pools that a token does.
EdgesAfter(c) == {e \in (DOMAIN c) \X (Tokens \X Tokens) : e[2] \in TokenPairs(c[e[1]].after)}
EdgesBefore(c) == {e \in (DOMAIN c) \X (Tokens \X Tokens) : e[2] \in TokenPairs(c[e[1]].before)}
PoolsAfter(c, t) == {p \in DOMAIN c : t \in c[p].after}
PoolsBefore(c, t) == {p \in DOMAIN c : t \in c[p].before}
Changed(tokens, c) == [p \in Pools |-> IF p \in DOMAIN c THEN c[p].after ELSE tokens[p]]

AppliedKeepsCounts(idx, d) ==
  [version |-> d.version,
   edges |-> idx.edges + Cardinality(EdgesAfter(d.changes)) - Cardinality(EdgesBefore(d.changes)),
   pool_tokens |-> Changed(idx.pool_tokens, d.changes),
   token_pools |-> [t \in Tokens |->
      idx.token_pools[t] + Cardinality(PoolsAfter(d.changes, t) \ PoolsBefore(d.changes, t))]]
Applied(idx, d) ==
  [version |-> d.version,
   edges |-> idx.edges + Cardinality(EdgesAfter(d.changes)) - Cardinality(EdgesBefore(d.changes)),
   pool_tokens |-> Changed(idx.pool_tokens, d.changes),
   token_pools |-> [t \in Tokens |->
      idx.token_pools[t] + Cardinality(PoolsAfter(d.changes, t))
                         - Cardinality(PoolsBefore(d.changes, t))]]

\* stats(token).token_present
GraphContains(n, t) == index[n].token_pools[t] > 0

\* rebuild_from_amm: from the AMM runtime's latest snapshot.
Rebuilt(n) == FromGraph(history[n][Version(n)], Version(n))

------------------------------------------------------------------------------
(* coverage.rs, the entry of Wanted *)

\* CoverageState, whose default is unknown; "discovering" stands for Queued too.
CoverageStates == {"unknown", "discovering", "ready", "empty", "failed"}

\* mutate: every write renews the entry's time, on which the expiry of an Empty verdict
\* goes.
Mutate(n, state) == cov' = [cov EXCEPT ![n] = state] /\ expired' = [expired EXCEPT ![n] = FALSE]

\* mark_queued, and mark_discovering right after it.
MarkQueued(n) == Mutate(n, "discovering")
Settled(present) == IF present THEN "ready" ELSE "empty"
MarkSettled(n, present) == Mutate(n, Settled(present))
MarkFailed(n) == Mutate(n, "failed")
RefreshGraphState(n, present) ==
  Mutate(n, IF present /\ cov[n] \in {"unknown", "empty"} THEN "ready" ELSE cov[n])

\* queue_configured_universe and refresh_configured_coverage: what the bootstrap leaves of
\* a configured token, whose discovery is over by then.
ConfiguredCoverage(topology, configured) ==
  IF configured THEN Settled(\E p \in Pools : Wanted \in topology[p]) ELSE "unknown"

------------------------------------------------------------------------------
(* The runtimes and the updater *)

\* bootstrap_with_canonical: the universe is hydrated and the index built. The first node
\* is there when the server starts.
FreshNode(n, topology, configured) ==
  /\ history' = [history EXCEPT ![n] = <<topology>>]
  /\ routed' = [routed EXCEPT ![n] = 1]
  /\ amm' = [amm EXCEPT ![n] = "up"] /\ routes' = [routes EXCEPT ![n] = "up"]
  /\ index' = [index EXCEPT ![n] = FromGraph(topology, 1)]
  /\ Mutate(n, ConfiguredCoverage(topology, configured))
  /\ UNCHANGED <<events, lagged, work, found, holder, prep, gaveUp>>

NodeInit(topology, configured) ==
  /\ history = [n \in Nodes |-> IF n = 1 THEN <<topology>> ELSE <<>>]
  /\ routed = [n \in Nodes |-> IF n = 1 THEN 1 ELSE 0]
  /\ amm = [n \in Nodes |-> IF n = 1 THEN "up" ELSE "down"] /\ routes = amm
  /\ events = [n \in Nodes |-> <<>>] /\ lagged = [n \in Nodes |-> FALSE]
  /\ index = [n \in Nodes |-> IF n = 1 THEN FromGraph(topology, 1)
                              ELSE FromGraph([p \in Pools |-> {}], 0)]
  /\ work = [n \in Nodes |-> {}] /\ found = [r \in Requests |-> 0]
  /\ cov = [n \in Nodes |-> IF n = 1 THEN ConfiguredCoverage(topology, configured) ELSE "unknown"]
  /\ expired = [n \in Nodes |-> FALSE]
  /\ holder = [n \in Nodes |-> 0]
  /\ prep = [r \in Requests |-> [stage |-> "none", refresh |-> FALSE, wait |-> FALSE,
                                 node |-> 1, target |-> 0]]
  /\ gaveUp = FALSE

\* The AMM runtime commits a version.
AmmCommit(n, topology) ==
  /\ amm[n] # "down" /\ Version(n) < MaxVersion
  /\ history' = [history EXCEPT ![n] = Append(@, topology)]
  /\ UNCHANGED <<routed, amm, routes, events, lagged, index, work, found, cov, expired, holder, prep, gaveUp>>

\* The AMM runtime is through with a discovery job, and committed what it found before it
\* shows as done.
DiscoveryDone(n, r, topology) ==
  /\ amm[n] # "down" /\ r \in work[n] /\ work' = [work EXCEPT ![n] = @ \ {r}]
  /\ \/ history' = history
     \/ /\ Version(n) < MaxVersion
        /\ \E p \in Pools : Wanted \in topology[p]
        /\ history' = [history EXCEPT ![n] = Append(@, topology)]
  /\ found' = [found EXCEPT ![r] = Len(history'[n])]
  /\ UNCHANGED <<routed, amm, routes, events, lagged, index, cov, expired, holder, prep, gaveUp>>

\* The route runtime applies the next version and broadcasts its delta; a receiver
\* that is too slow loses the oldest.
RouteCommit(n) ==
  /\ routes[n] = "up" /\ routed[n] < Version(n)
  /\ routed' = [routed EXCEPT ![n] = @ + 1]
  /\ LET sent == Append(events[n], Delta(n, routed[n] + 1))
     IN IF Len(sent) > EventCapacity
        THEN /\ events' = [events EXCEPT ![n] = Tail(sent)]
             /\ lagged' = [lagged EXCEPT ![n] = TRUE]
        ELSE events' = [events EXCEPT ![n] = sent] /\ UNCHANGED lagged
  /\ UNCHANGED <<history, amm, routes, index, work, found, cov, expired, holder, prep, gaveUp>>

\* spawn_graph_index_updater: an event, or the news that some were lost.
IndexEvent(n) ==
  /\ \/ /\ lagged[n] /\ lagged' = [lagged EXCEPT ![n] = FALSE]
        /\ index' = [index EXCEPT ![n] = Rebuilt(n)] /\ UNCHANGED events
     \/ /\ ~lagged[n] /\ events[n] # <<>> /\ events' = [events EXCEPT ![n] = Tail(@)]
        /\ LET d == Head(events[n])
           IN \/ d.version <= index[n].version /\ UNCHANGED index
              \/ /\ d.version > index[n].version
                 /\ index' = [index EXCEPT ![n] =
                                IF Coherent(@, d) THEN Applied(@, d) ELSE Rebuilt(n)]
        /\ UNCHANGED lagged
  /\ UNCHANGED <<history, routed, amm, routes, work, found, cov, expired, holder, prep, gaveUp>>

------------------------------------------------------------------------------
(* prepare_token *)

Stage(r, s) == prep' = [prep EXCEPT ![r].stage = s, ![r].target = 0]

\* A request calls it: with wait it stays until the verdict, without it a task does.
StartPrepare(r, n, refresh, wait) ==
  prep' = [prep EXCEPT ![r] = [stage |-> "lock", refresh |-> refresh, wait |-> wait,
                               node |-> n, target |-> 0]]

\* The token's lock is taken and the ledger read: a preparation under way, a graph that
\* has the token or a recent Empty is an answer, unless a refresh or a scope was asked for.
Covered(n) == cov[n] \in {"discovering", "ready"} \/ (cov[n] = "empty" /\ ~expired[n])
LockIgnored(n) == holder[n] >= 0
LockFree(n) == holder[n] = 0
ReadCoverage(r) ==
  LET n == prep[r].node
  IN /\ prep[r].stage = "lock" /\ LockFree(n)
     /\ IF Covered(n) /\ ~prep[r].refresh
          THEN Stage(r, IF cov[n] = "discovering" THEN "joined" ELSE "done") /\ UNCHANGED holder
          ELSE Stage(r, "queue") /\ holder' = [holder EXCEPT ![n] = r]
     /\ UNCHANGED <<history, routed, amm, routes, events, lagged, index, work, found, cov, expired, gaveUp>>

Unlocked(r) == [holder EXCEPT ![prep[r].node] = IF @ = r THEN 0 ELSE @]

\* queue_token_discovery: no protocol accepts the job, or it is queued and marked. The jobs
\* of its protocols count as one.
QueueDiscovery(r, accepted) ==
  LET n == prep[r].node
  IN /\ prep[r].stage = "queue"
     /\ IF accepted THEN MarkQueued(n) ELSE MarkFailed(n)
     /\ work' = [work EXCEPT ![n] = IF accepted THEN @ \cup {r} ELSE @]
     /\ Stage(r, IF accepted THEN "idle" ELSE "failed")
     /\ holder' = IF accepted /\ prep[r].wait THEN holder ELSE Unlocked(r)
     /\ UNCHANGED <<history, routed, amm, routes, events, lagged, index, found, gaveUp>>

\* wait_for_runtime_idle; the version to wait for is read after it.
WaitIdle(r) ==
  /\ prep[r].stage = "idle" /\ work[prep[r].node] = {}
  /\ prep' = [prep EXCEPT ![r].stage = "version", ![r].target = Version(prep[r].node)]
  /\ UNCHANGED <<history, routed, amm, routes, events, lagged, index, work, found, cov, expired, holder, gaveUp>>

\* wait_for_version, then the verdict of the index.
CaughtUpAtOnce(r) == index[prep[r].node].version >= 0
CaughtUp(r) == index[prep[r].node].version >= prep[r].target
Settle(r) ==
  LET n == prep[r].node
  IN /\ prep[r].stage = "version" /\ CaughtUp(r)
     /\ MarkSettled(n, GraphContains(n, Wanted))
     /\ Stage(r, "done") /\ holder' = Unlocked(r)
     /\ UNCHANGED <<history, routed, amm, routes, events, lagged, index, work, found, gaveUp>>

\* Either wait exceeds its limit. The task of a preparation without wait records a failure;
\* a request that waits returns the error and leaves the ledger as it is.
PrepareTimesOutSilently(r) ==
  /\ prep[r].stage \in {"idle", "version"} /\ Stage(r, "failed")
  /\ holder' = Unlocked(r)
  /\ UNCHANGED <<history, routed, amm, routes, events, lagged, index, work, found, cov, expired, gaveUp>>
PrepareTimesOut(r) ==
  /\ prep[r].stage \in {"idle", "version"} /\ Stage(r, "failed")
  /\ holder' = Unlocked(r)
  /\ IF prep[r].wait THEN UNCHANGED <<cov, expired>> ELSE MarkFailed(prep[r].node)
  /\ gaveUp' = (gaveUp \/ prep[r].wait)
  /\ UNCHANGED <<history, routed, amm, routes, events, lagged, index, work, found>>

\* The client leaves and its handler is dropped, the jobs it queued are not. The task of a
\* preparation without wait goes on.
PrepareDropped(r) ==
  LET n == prep[r].node
  IN /\ \/ prep[r].stage \in {"lock", "queue"}
        \/ prep[r].wait /\ prep[r].stage \in {"idle", "version"}
     /\ Stage(r, "failed") /\ holder' = Unlocked(r)
     /\ gaveUp' = (gaveUp \/ prep[r].stage \in {"idle", "version"})
     /\ \/ work' = work
        \/ prep[r].stage = "queue" /\ work' = [work EXCEPT ![n] = @ \cup {r}]
     /\ UNCHANGED <<history, routed, amm, routes, events, lagged, index, found, cov, expired>>

\* RoutingNode::shutdown
NodeShutdown(n) ==
  /\ amm' = [amm EXCEPT ![n] = "down"] /\ routes' = [routes EXCEPT ![n] = "down"]
  /\ UNCHANGED <<history, routed, events, lagged, index, work, found, cov, expired, holder, prep, gaveUp>>

\* It did not end in time and is given up: what it had not reached yet goes on.
NodeLeft(n) ==
  /\ amm' = [amm EXCEPT ![n] = "left"] /\ routes' \in {routes, [routes EXCEPT ![n] = "down"]}
  /\ UNCHANGED <<history, routed, events, lagged, index, work, found, cov, expired, holder, prep, gaveUp>>

\* A terminal failure of the route runtime.
RoutesFail(n) ==
  /\ routes[n] = "up" /\ routes' = [routes EXCEPT ![n] = "down"]
  /\ UNCHANGED <<history, routed, amm, events, lagged, index, work, found, cov, expired, holder, prep, gaveUp>>

\* token_coverage, of the token endpoint.
RefreshCoverage(n) ==
  /\ RefreshGraphState(n, GraphContains(n, Wanted))
  /\ UNCHANGED <<history, routed, amm, routes, events, lagged, index, work, found, holder, prep, gaveUp>>

NegativeExpires(n) ==
  /\ cov[n] = "empty" /\ ~expired[n] /\ expired' = [expired EXCEPT ![n] = TRUE]
  /\ UNCHANGED <<history, routed, amm, routes, events, lagged, index, work, found, cov, holder, prep, gaveUp>>

------------------------------------------------------------------------------
(* Properties *)

\* The index that answers requests is always that of one AMM version of its node, whatever
\* deltas were lost, repeated by a rebuild or overtaken by one.
IndexIsGraph ==
  \A n \in Nodes : history[n] # <<>> =>
    /\ index[n].version \in 1 .. Version(n)
    /\ index[n] = FromGraph(history[n][index[n].version], index[n].version)

\* A preparation says Empty only of a graph that has all its own discovery found: the
\* token was missing in a version no older than the end of its job.
NoFalseEmpty ==
  [][\A r \in Requests :
       (Settle(r) /\ cov'[prep[r].node] = "empty") =>
         \E v \in found[r] .. Version(prep[r].node) :
           \A p \in Pools : Wanted \notin history[prep[r].node][v][p]]_nodeVars

\* Ensure requests coalesce: of several for one token only one at a time discovers, also
\* after a waiting request gave up, unless a refresh came between, which may end with a
\* verdict before the discovery it overtook.
EnsureCoalesces ==
  (\A r \in Requests : ~prep[r].refresh) =>
    \A n \in Nodes :
      Cardinality({r \in Requests : prep[r].node = n
                                     /\ prep[r].stage \in {"queue", "idle", "version"}}) <= 1

\* A preparation under way comes to a verdict, unless a waiting request gave up on it.
Settles == \A n \in Nodes : (cov[n] = "discovering" /\ ~gaveUp) ~> (cov[n] # "discovering" \/ gaveUp)
==============================================================================
