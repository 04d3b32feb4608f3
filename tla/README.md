# A TLA+ verification of evm-amm-search

TLA+ modules for the stateful parts of `evm-amm-search`, the TLC configurations
that check them on small instances, and TLAPS proofs of the properties that
matter most for every value of the constants. `PROJECT.json` maps every
definition to the source lines it models and lists the hazards, runs, mutants,
findings and theorems. Paths below are relative to the repository root.

Contents: 1 the system, 2 the modules, 3 the runs, 4 the proofs, 5 findings,
6 what is not modelled, 7 the plan, 8 how to run.

## 1. The system

The library finds swap routes over AMM pools whose EVM state a separate runtime
(the crate `evm-amm-state`, outside this repository) keeps in sync. Around it sit
an interactive program and an HTTP sidecar.

| Part | State it keeps | Operations | Talks to |
|---|---|---|---|
| live route runtime (`src/live_routes.rs`) | subscriptions with epoch, attempt, dirty mark and last quote; pending queue; current search view; worker pool | subscribe, replace, unsubscribe, token cancel, drop, shutdown; commit, event and completion handling; scheduling | consumes the commit stream, sends jobs to worker threads, publishes watch states |
| live graph (`src/live_graph.rs`) | graph, graph version, index of active pools, liquidity index | from_snapshot, apply_commit, reconcile_snapshot | fed by commits; read by the route runtime and the sidecar |
| token/pool graph (`src/graph.rs`) | token nodes, directed edges per pool and pair, pair index | from_registry, apply_pool, remove_pool, remove_pool_compacting, queries | used by the two above and by every search |
| liquidity index (`src/liquidity.rs`) | tracked (pool, token) balances, reverse indexes by slot and holder | scan, reconcile_pools, slot and balance updates, pruning queries | follows the graph; consulted by searches |
| search (`src/search.rs`) | sessions; per-search quote cache, best route, phase | exhaustive, heuristic, streaming, parallel and batch searches; sessions with refresh | reads graph, registry and pool state |
| warm checkpoint store (`src/bin/amm_route_tui/warm_store.rs`) | generations, manifest, staging directory | begin, discard, commit, drop | driven by the TUI's start and shutdown |
| route TUI (`src/bin/amm_route_tui.rs`) | live session, discovery, screen | bootstrap, run, shutdown | owns the runtimes above |
| sidecar supervisor (`sidecar/src/node.rs`, `main.rs`) | active node, phase, generation, endpoint, shutdown flag | check, rebuild, shutdown | owns nodes; read by the handlers |
| routing node (`sidecar/src/node.rs`, `graph_index.rs`, `coverage.rs`) | AMM runtime, route runtime, graph index, coverage ledger, discovery lock | bootstrap, prepare_token, index updates, shutdown | owned by the supervisor |
| HTTP handlers (`sidecar/src/api.rs`) | three admission semaphores, the request in flight | quote, executable quote, prewarm, token status | use the active node, twice or more per request |
| execution planning (`sidecar/src/execution.rs`) | none | build_executable_swap | feeds the router contract |
| contracts (`contracts`) | none between calls | execute a planned route | called with calldata the sidecar or the demo router builds |

What is hard here: results of worker threads that arrive after the state they
were computed from has moved; cancellation through two tokens and three paths;
bounded queues between the coordinator and its workers, also at shutdown;
incremental maintenance of graph, index, targets and session tables that must
equal a recomputation; crashes between file system operations; and, in the
sidecar, a generation that changes under a request in flight. `PROJECT.json`
lists these hazards one by one, at their lines.

What makes each part correct:

- *live routes*: what a subscriber reads is of the current state and the current
  request, comes from a whole search, and arrives; no subscription is lost,
  doubled or kept after it was dropped; shutdown ends.
- *live graph, graph, liquidity*: after any sequence of commits and
  reconciliations everything equals a rebuild from the snapshot, and the version
  changes exactly with the topology.
- *sessions*: a refreshed session shows what a fresh evaluation of its routes
  would, and a better replacement through a changed pool is not missed.
- *warm store*: whatever crashes happen, the manifest selects a complete
  generation of one checkpoint, an acknowledged commit is not lost, and a process
  that runs on restored state has state and registrations of one point, whose hash
  was canonical when it was verified.
- *search*: pruning never loses the best route, under the conditions its comments
  give; a report that calls itself exhaustive is; each request of a batch gets its own
  answer, whole; the caller of a streaming search knows the best route of the report,
  also when a stop policy ended it; a search returns, stopped or with a panicking thread.
- *shared quote cache*: each hop is simulated once and everybody gets that result.
- *liquidity balances*: a balance marked fresh is what the pool holds, as far as the
  cache it is read from is not behind the chain.
- *sidecar*: an answer is of one routing generation, the one it is given under; a
  lost generation is replaced, every request is answered, shutdown leaves no node
  running but one whose own shutdown was given up after 15 s;
  the graph index is the graph; a token is called empty only on evidence, and
  requests for one token share its discovery.
- *execution*: what is packed for a route runs on the router to the quoted amount where
  the pools behave as quoted, and in any case reverts or pays between floor and quote.

## 2. The modules

| Module | Models | Used by |
|---|---|---|
| `LiveRoutes` | live route runtime | `MCLiveRoutes`, `LiveRoutesProofs` |
| `AmmGraph` | token/pool graph as pure operators | `LiveGraph`, `LiveGraphProofs` |
| `LiveGraph` | live graph and liquidity targets; composes `AmmGraph` with the commit stream | `MCLiveGraph`, `LiveGraphProofs` |
| `RouteSession` | route sessions and their quote cache | `MCRouteSession`, `RouteSessionProofs` |
| `HeuristicSearch` | `find_routes`, `find_cycles`: heuristic and exhaustive search of one request | `MCHeuristicSearch`, `HeuristicSearchProofs` |
| `QuoteMemo` | abstract specification: a memoised function | `QuoteCache` |
| `QuoteCache` | the shared quote cache, shown to implement `QuoteMemo` | `StreamingSearch` |
| `StreamingSearch` | streaming, parallel and batch searches; composes `QuoteCache` with coordinator and workers | `MCStreamingSearch`, `StreamingSearchProofs` |
| `Liquidity` | balances, their sources and the reverse indexes | `MCLiquidity`, `LiquidityProofs` |
| `RoutingNode` | one routing node of the sidecar: runtimes, graph index, coverage, `prepare_token` | `Sidecar`, `SidecarProofs` |
| `Execution` | `build_executable_swap` and the router contract as pure operators | `Sidecar` |
| `Sidecar` | supervisor, handlers, shutdown; composes `RoutingNode` and `Execution` | `MCSidecar`, `SidecarProofs` |
| `WarmStore` | warm checkpoint store, start and shutdown around it | `MCWarmStore`, `WarmStoreProofs` |

An operator whose name says what it gets wrong (`StaleIgnoresEpoch`,
`SyncTreeNothing`, ...) is the mutated form of the definition that follows it. It
is never used in a specification; it documents which bug the property named in
`PROJECT.json` would catch.

### LiveRoutes

*State.* `entries`, `pending`, `pending_set`, `next_subscription`, `view` and
`watch` are the fields of `LiveRouteActor` and the watch channels. `commands`,
`cleanup`, `jobs` and `results` are the four channels; the command, job and
result channels are bounded by the configured capacities and the cleanup channel
is not. `worker[w]` is what a thread is doing, the message it blocks on included.
`cancelled` and `jobCancelled` are the flags of the subscription tokens and of the
attempt tokens. `pc`, `input`, `streak` say where `run()` is.

*Actions.* One turn of `run()` is a selection, the handler, and then
`schedule_pending` entry by entry (`ScheduleSkip`, `ScheduleSubmit`,
`ScheduleRefused`, `ScheduleDone`): the handlers contain no await, so each is one
step; scheduling is split because a worker may take a job between two
submissions and so decides whether the next `try_submit` finds room. The biased
`select!` is the guards `TakesCommit`, `TakesCommand`, `TakesCleanup`,
`TakesWorker`: an input is taken only if no input of higher priority is ready, and
after `MAX_COMMIT_BURST` commits the priority changes. A worker message is taken
(`SelectWorker`), then ready commits are drained before it is handled
(`DrainOneCommit`, `DrainNoCommit`), as the code does. `close()` and
`stop_threads` are `Close`, one `SendPill` per worker, `JoinDone`.

*Abstractions.* A `RouteProvenance` is the number of commits applied: the live
graph accepts only the contiguous commits of one runtime, so the version
determines the rest. A search is an arbitrary number of progressive events (up
to `MaxEvents`) followed by success or failure; a panic is caught and is a
failure; a search that sees a cancelled token ends with a result marked
`truncated`, a history bit no handler reads. Observer broadcasts are lossy
diagnostics and are left out. Once `run()` has left its loop client calls reach
nothing, so they are not modelled after that (`Running`). `Ops` selects, per
instance, which client calls and failures happen.

### AmmGraph and LiveGraph

`AmmGraph` gives `apply_pool`, `remove_pool_compacting`, `prune_orphan_tokens`,
the pair index and the tracked-token computations as operators on a record with
the struct's four fields. Token lists are sets (`normalize_tokens` deduplicates,
and the properties do not depend on adjacency order); `FromRegistry` is the
closed form of the insertion loop of `from_registry`.

`LiveGraph` is the state machine. `apply_commit` builds the next graph pool by
pool on a copy (`BeginMutation`, `MutatePool`, `FinishMutation`); the code does
this under `&mut self`, the steps are separate so that the order of the pools is
arbitrary and the intermediate graphs are visible to the proof. A commit with
only revision changes is `ApplyStateOnly`; a full refresh and a lagging
consumer's recovery are `ReconcileSnapshot`. Commits the code rejects change
nothing and are no step. The AMM runtime is external: a commit registers,
replaces, updates, degrades or removes pools and names at least those. Targets are
which balances are tracked, per pool; the balances are not modelled.

### RouteSession

The table, both indexes, the best route, the cache and the graph version are the
fields of `RouteSearchSession`. An exact-in simulation is multiplication by the
pool's rate, with rate 0 for a pool that cannot be quoted: enough to make amounts
depend on the whole prefix, so that a changed pool changes the cache keys of the
hops behind it. The search that starts a session evaluates an arbitrary set of
routes, since heuristic, budgeted and stopped searches evaluate only some. The
caller keeps the README's contract (reports every changed pool, starts afresh
after `RecomputeRequired`) and may report more pools than changed.
`refresh_affected` holds the session by `&mut self` and runs in one thread, so
each outcome of it is one action: the early returns, the untouched return, the
full requote, and a requote the callback stops at some quote, in any order the
sorted paths and the quote DAG may give.

### WarmStore

Every object of the store (generation directories, their state and archive, the
manifest, temporary files) has the value processes see and the value sure to
survive a power loss; `fsync` copies the first to the second and `PowerLoss` keeps,
per object and independently, either. A file's content is the canonical point it
was captured at. Each file system operation of `commit()` is one action in the
code's order, so `ProcessDies`, `PowerLoss` and `Abandon` (an operation failed, or
the session was dropped) fall between any two of them. Start is `Begin`, seeding,
`Verify`; shutdown is `StopDelivery`, `SaveLegacy`, `FlushCache`, `SaveArchive`.
The chain grows, reorganises, and may be seen through a lagging provider. `begin` creates
the namespace and generations directories if they are missing (`warm_store.rs:52,67`);
both are taken to exist, and the namespace's own entry in the directory above it to be
durable. `commit` syncs the generations directory and the namespace, never what is above
(`warm_store.rs:243,368`), so for a namespace created in the same session `CommitIsDurable`
relies on the file system keeping that entry.

### HeuristicSearch

One search of one request over one snapshot; `in` and `cfg` are chosen at the start
from `Inputs` and `Configs`. A step is one prefix taken off the frontier and
expanded, a level closed (the beam), or a pass ended; the exhaustive mode
enumerates and quotes in one step. The frontier, the dominance labels, the
quotes, the incumbent and `deferred_edges_seen` are the code's locals. A swap is
multiplication by the pool's rate, capped by its reserve, so that a known balance can bound a
hop; the reserves, the balances known to be fresh and the protocol bonus are part of
the snapshot. Sort keys are tuples, compared in order, as the code's are; `Sorted` lists a
set by its keys, and a stable sort of a list (`SortedSeq`) has the place as its last key.
What the loops of an expanded prefix carry from one hop and one group to the next is a
function on the places of the list (`kept`, `after`, `best`), `break` a field of it. The
reference is `EnumerateRoutes`: the routes that a walk by levels reaches with no limit, no
quote and no pruning.

### QuoteMemo, QuoteCache and StreamingSearch

`QuoteMemo` is what callers may rely on: results are found once, kept and handed to
everyone. `QuoteCache` is how: an entry is absent, in flight or ready; the lookup
loop runs under the mutex, the simulation does not; sleepers wait on the condition
variable; the guard of a panicking simulation removes the entry and wakes them. Its
`Memo` instance of `QuoteMemo` has the ready entries as `memo`, and
`ImplementsMemo` is its specification: waiting, waking and replacing a panicked
thread do not show.

`StreamingSearch` adds the coordinator (`pc`, `StreamingRouteState`), the channel, the
cancellation flag and scoped worker threads, each with its chunk of routes, which
quote hop by hop through the cache and send. The heuristic phase quotes any set of
routes in any order, since `HeuristicSearch` models which. The callback may return
`Stop` at any event. The parallel and batch searches are the settings with
completion `parallel` and `batch`; each request of a batch is exhaustive. With one
worker the code calls back instead of sending, which is one of the interleavings.
The requests of a batch may overlap: a route that two of them want is quoted for each,
from the same cache. `serving` is what a worker has left of its indexed requests, `kept`
what it quoted, tagged with the index of the request it quoted it for (`NextRequest`,
`SendQuote`); `CollectOrdered` sorts the joined results by that tag and drops it, so that
the answer to a request is found by its place alone, as in the code. A sort is `InOrder`: the listing of a finite set by a total order,
which has a closed form and so can be reasoned about.

### Liquidity

`LiveGraph` models which balances are tracked; here are their values. `ix` has the
fields of `PoolLiquidityIndex`, the vector of targets with reused places and the
four reverse indexes. `chain` is the word in each storage slot on the chain, `cache` the
words the EVM cache has, for the slots it has (`hot`). The two differ: a transfer reaches
the cache only at the ends that have a target with a known slot (`CacheAfter`), and a
removed log does not reach it at all. `refresh` reads the chain and writes the cache,
`refresh_from_snapshot` reads the cache. The operations are a transfer log, a removed log, a
storage update, seeding a slot, setting and staling a balance, the two refreshes,
whose probes and reads may fail token by token, and `reconcile_pools`. Logs and
updates are external and tell the truth about the chain; a removed log says that a
transfer is undone. Amounts are small; `Applied` saturates at 0 as `SlotDelta::apply` does,
and saturation at the width of a word is not reached.

`BalanceState::Fresh` is a claim about the current cache point, and the search simulates on
the same cache. What the chain holds is more than the code can promise: after a removed log
the balance is Stale, and a `refresh_from_snapshot` then makes the pre-reorganisation word of
the cache Fresh. So `FreshIsCurrent` says that a fresh balance is the chain's, except of a
slot whose word was behind the chain when a snapshot was read and that was not read from the
chain or written by a sync since (`misread`, a history variable that no action reads): of such
a slot it may be the cache's. Nothing is excused for any other slot or reason.

### RoutingNode

What one node of the sidecar keeps, per node, since requests may hold on to a node
that was replaced. `history` is the graph after each AMM commit, `routed` how far
the route runtime has followed, `events` the bounded broadcast of graph deltas with
`lagged`, `index` the graph index, `cov` the ledger entry of the token being
prepared, `holder` the request that holds the discovery lock. `prepare_token` is the
steps `ReadCoverage`, `QueueDiscovery`, `WaitIdle`, `CaughtUp` as part of `Settle`, and
it may be timed out or dropped at each await. A preparation queues one job per protocol, with
an await each (`node.rs:568-588`); the jobs of one preparation are one here (`work`), queued in
one step, so a preparation is dropped before its jobs or after them, and never between two of
them, which would leave the first running without a mark in the ledger. The refusal of a token for which no connector is left (`node.rs:553-555`) is left out: it
depends on the configuration alone. There the ledger keeps what it had, which no property
looks at. `NodeShutdown` is an orderly shutdown, `NodeLeft` one that was given up after 15 s: its
tasks may go on (`left`). The index keeps the counts of
`graph_index.rs`: `Applied` adds and subtracts, per changed pool, the edges and the token
memberships before and after, and `FromGraph` counts a graph from nothing. Commits and discoveries come from the external AMM runtime.

### Execution

Pure operators: `BuildExecutableSwap` validates and packs hops as
`execution.rs` does, per protocol; `Execute` runs them as
`ExperimentalExecutorRouter.sol` does: funding, one hop after another with the balance
measured around each call, the callbacks of concentrated pools, the floor at the end. Pools are external: a
pool pays its rate, takes no more than `Holds` of its input, and a StableSwap pool (`Rounds`)
pays one unit less than quoted. Tokens move what they are told to, neither more nor less, so three
groups of checks that never fire for such tokens are left out: that the router was funded
exactly (`ExperimentalExecutorRouter.sol:314-318`), that the recipient received the output
(`:298-303`), and that the router's balances end as they began (`:304-311`). The choice of a
pair's reserves by token order (`:322-325`) is left out too, as a pool's rate is given per
direction. An encoding is the tag and fields that the decoder
reads back.

### Sidecar

Node and state are behind two locks, so the supervisor writes and the handlers read
them in two steps each: `Take` and `Invalidate`, `Publish` and `Ready`, `ReadNode` and
`ReadState`. The n-th node is that of generation 2n - 1. A handler's `pc` goes
through readiness, token preparation, subscription, search, the fence, and, for an
executable quote, block context, allowance, simulation and a last fence; every
use of the active node is noted in `used`. `notify_waiters` is lost on a task that
does not wait at that moment. Shutdown is `Signal`, `Shutdown`, `CloseActive`, `Close`. A
`load` is what one behaviour is about: the requests, the number of nodes, commits
and topologies, and which of pauses, lost clients, polls and failures happen.

## 3. The runs

| Run | Instance | States | Shows |
|---|---|---|---|
| `live_routes_fence` | 1 worker, 2 requests, 1 subscription, 2 commits, 2 calls, 1 event per search, all capacities 1 | 0.7 M | late, partial and progressive results against commits, replacements and tokens |
| `live_routes_liveness` | 1 worker, 2 subscriptions, 1 commit, 2 calls, 1 event per search, fairness | 0.25 M | answers, release after drop, shutdown; attempts, the pending queue at a full job queue, no step back of a watch |
| `live_routes_token` | 1 subscription | violation | finding 1 |
| `warm_store` | 2 sessions, 2 blocks, 2 hashes | 0.3 M | crash consistency, start from a verified checkpoint only |
| `warm_store_refused` | 2 sessions, 1 hash | violation | finding 2 |
| `live_graph` | 2 pools, 3 tokens, 2 kinds of registration, 2 commits that change up to 2 pools each, snapshots that may lack a revision | 0.2 M | incremental = rebuild, index and version over streams and skipped commits, parallel-only scope |
| `route_session` | 3 pools (two pairs and a pool over both), 2 hops, rates 0 to 2, 2 updates, probe budget 1 | 0.1 M | exact refresh |
| `route_session_stop` | the same | violation | finding 3 |
| `heuristic_search` | 5 pools over 3 tokens in parallel, or 4 with one of four tokens; up to 4 hops; rates, reserves and fresh balances vary; 5 configurations | 42 k | pruning keeps the best, results are candidates |
| `streaming_search` | 2 workers, 4 routes over 6 hop quotes, 1 panic, 1 failed prefix, 7 settings with a batch of three requests that overlap, fairness | 32 k | exactness and the place of each answer, what the caller was told, refinement of `QuoteMemo`, termination |
| `liquidity` | 3 pools, 2 of one address, 1 of the vault; 2 tokens, 5 registries, 3 steps | 95 k | a fresh balance is the chain's, or the misread cache's |
| `sidecar` | 2 nodes, 2 requests, 2 endpoints of which one works, broadcast of 1, 17 loads, 11 pools of all protocols in 6 reports, fairness | 143 k | the generation fence, recovery, shutdown, index, coverage, execution |

*Why the bounds are enough.* Capacities of 1 make every queue full as soon as it
is used. Two subscriptions and one place in the job queue give the refused
submission; two commits let a result be two views late and let a commit be
drained under a message in hand; two calls are a subscribe and one of the calls
that race with it, three add a second subscription. One event per search lets a
worker block on a full result channel while shutdown begins. The routes of one
subscription never depend on another one's, except through the queues. Two
sessions of the store are the one that leaves something behind and the one that
finds it; two blocks with two hashes give a reorganised checkpoint. Two
commits from *every* initial registry cover each step of the graph and a skipped
one; degraded registrations and larger instances are covered by the theorems
alone. Three pools over two pairs give every replacement of a
two-hop route, and two updates with refreshes in between let the second use what
the first left in the cache. Three tokens with
parallel pools give every shape of a prefix that dominates or is dominated, and the
pool of four tokens the blocked-pool case of the upper bound. Two routes that share
a hop make one worker wait for the other; the panic then happens before, while and
after it waits. Three steps of the liquidity index are a change, a repair and
one more through a reused place, or a slot that is cached, a change the cache misses and
the snapshot that reads it. Three requests on two workers make the order in
which workers are joined differ from the order of the requests. A second node is enough for an answer to be
of the wrong generation, a second request for a semaphore to be full and a discovery to be
shared, and a broadcast of one for the index to lag; a load keeps one behaviour
from multiplying all of these. `CHECK_DEADLOCK FALSE` is used only where an instance
legitimately stops: the coordinator waiting for input, a search that has returned,
a closed server, and streams and updates that have reached their bound.

*Symmetry* is used over requests, hashes and pools, in runs without liveness.

*Fairness.* `LiveRoutes` (`FairSpec`): weak fairness of the coordinator task and of each worker
thread. The executor polls a ready task and the operating system schedules
threads; a worker step that never ends would be a search that does not
terminate, and searches are bounded by hops and candidates. Nothing is assumed
of clients, which may call or drop at any time or never, or of the AMM runtime.
`EventuallyAnswered` relies on commits and commands being finitely many
(`MaxCommits`, `MaxCalls`): under commits faster than searches the code keeps
restarting them by design, and a client that never lets the command queue run
empty starves results (listed as a hazard). `StreamingSearch`: weak fairness of
the coordinator and of each scoped thread; the callback may stop or not. `Sidecar`:
weak fairness of the supervisor's task, of the shutdown and of each handler, whose
timeouts fire. Strong fairness only of `BuildOk`: the endpoints are tried in turn,
and one that works gives a connection if it is tried again and again. No search
is sure to end, no discovery is sure to be done, no client to stay.

## 4. The proofs

All assume only the `ASSUME`s of the modules, which TLC evaluates on every run:
capacities are positive (`ValidRuntimeConfig`, what `LiveRouteRuntimeConfig::validate`
accepts), bounds are naturals, `None` is no record, threads, pools, tokens and paths are
finitely many, a path is a non-empty list of hops, and threads and nodes are
numbered from 1. Nothing is assumed about how many there are.

`LiveRoutesProofs` proves `TypeCorrect`, `WatchIsCurrent`, `QuoteIsCurrent` and
`WholeResults`. The watch properties alone are not inductive: whether an accepted
result is right depends on what jobs and messages carry. `IInv` adds `CargoInv`
(every job, blocked message and result of a live subscription's current epoch
carries that epoch's request), `TokenInv` (an active attempt is never ahead of
the view and epoch, and if its token is cancelled it is behind one of them),
`TruncatedInv` (a truncated result's attempt or subscription token is cancelled)
and `FenceInv` (the watch properties). From `TokenInv`
and `TruncatedInv` a result that passes the staleness test of the Completed
handler is whole, although the handler never reads the attempt's token.

Its second half proves `NothingStranded`, `PreviousIsOld`, `OneAttemptAlways` and
`WatchAdvances`. `SchedInv` ties an entry to the queue and to its
watch: what makes `PreviousIsHistorical` hold is that a dirty mark or a running
attempt implies that the last answer is old, and a dirty mark beside a running attempt
that this attempt is too. `AttemptInv` counts: what a worker holds and is about to send
agrees with its state (`WorkersInv`), and whatever carries an attempt of a live
subscription carries the one its entry names (`CarriersInv`). Without the second a
result of a forgotten attempt could clear the mark of its successor, and the bound of one
attempt in `OneAttempt` would not be preserved by the Completed handler.

`WarmStoreProofs` proves `SelectionComplete`, `VerifiedPoint` and `DurableCommit`. The
strengthening is that *both* the visible and the durable manifest select a
generation that is complete, of its checkpoint, and durable (`Selected`), that
directories not yet begun are absent everywhere (`FreshInv`), what the running
session's directory contains at each step (`SessionInv`), and that an
acknowledged generation is not newer than what both manifests select
(`AckedInv`). `VerifiedPoint` is an action property: of the step by which a process begins to
run on restored state, `SessionInv` gives that what was seeded is of one point, and the test in
`Verify` that this point is on the chain; with a reorganisation later it need not be, and the
runtime's own recovery is outside the store.

`LiveGraphProofs` first proves that `ApplyPool` on a rebuilt graph is the rebuild of the
changed registry (`ApplyPoolRebuild`) and that the two tracked-token computations
agree (`TrackedAgree`). The rest uses them: `MutationInv` says that the
half-built graph is the rebuild of the registry with the pools already mutated
replaced, and `StreamInv` that consecutive snapshots of the stream differ at most
in the pools their commits name; with them `GraphTypeCorrect`,
`IncrementalIsRebuild`, `IndexAlwaysCurrent`, `TargetsAlwaysRebuild` and
`VersionIsTopology` hold for any sets of pools, tokens and registrations.

`RouteSessionProofs` proves `ExactWithinMaterializedAlways`, `CacheFreshAlways` and
`RefreshSeesReplacementsAlways`. The amount of a route is a recursion over its hops; the
library's induction theorems cannot be used, so `SetInduction` derives induction over a *set*
of numbers from the pigeonhole principle, and `AmountsUnfold` from it that the recursion has a
solution. Everything else about amounts needs no induction: if all quotes at the pools of
a route are fresh, or its pools' rates are unchanged, then the equation that `Amounts` chooses a solution of is the
same one (`QuoteFresh`, `FreshSame`). The invariant: the indexes are those of
the table (`IndexInv`), and apart from pools not reported yet the table and the
cached quotes that an index leads to are exact (`ExactInv`). A stale quote that no index leads
to may remain, and the point is that no later refresh can come to use it: what a refresh
indexes newly is parallel to a replaced hop, so was parallel to the hop before, and is
known already (`TouchedKnown`). `RoutesFinite` and `FiniteHasMax` give the best its existence.

`StreamingSearchProofs` is about coordinator, workers and cache together. `IInv` has six
parts. `WorkInv`: a worker asks the cache for the next key of its first route and for no
other, and the reply it holds is that key's. `CacheInv`: a key is in flight exactly
while one thread simulates it, and what is ready is the key's outcome; this gives
`SingleFlightAlways` and, step by step, `CacheImplementsMemo`, the refinement of `QuoteMemo`
(a panic and the wake-up after it map to stuttering or to a forgotten reply).
`ReportInv`: the best is the best of the routes received, each counted once.
`DisjointInv`: a route is in one chunk, in the channel, or received, and never in two of
these (`EachRouteOnceAlways`). `CoverInv`: as long as no worker panicked and nothing was
cancelled, every quotable route is in one of these places, so none is lost when the last
worker ends; it is the streaming half of `ExhaustiveIsExactAlways`. `ServeInv` is the other
half, of parallel and batch searches: what is in a worker's chunk belongs to the request it
serves, what is kept for a request is a quotable route of it, and every quotable route of
every request is kept, in the chunk of the worker that serves it, or of a request still to be served.
`CollectOrderedPlaces` then says that the sort by tag puts each request's result in its
place, since each index was served once (`AllServed`). `CallerKnowsBestAlways` is about what the
events told a listener: a stop policy halts the search before the event of the quote that
satisfied it, so between that and the report the listener is behind, and it is the completion
event of the policy's stop that tells it. The lemma
`InOrderLists` says that a sort by a total order loses and repeats nothing, and the lemmas
on chunks that dealing routes to workers does not either.

`SidecarProofs` proves `OneGenerationAlways` and `ShutdownLeavesNoNodeAlways`. Node and
state are written in two steps and read in two steps, so the property needs what each
step of the supervisor implies: `SupervisorInv` gives, per phase, the active node and
the generation (2n - 1 while node n serves, even in between), and `RequestInv` that a
request past its subscription whose opening generation still is current has used exactly the node of
that generation. A fence that finds its generation unchanged thus
rules out every interleaving with `Take`, `Invalidate`, `Publish` and `Ready`. The
shutdown waits for the requests and for the rebuild it interrupts, which is the last
two conjuncts. `RunningInv` says of every node that it is shut down, was given up, or is in
the hands of someone who will shut it down: it is the active one, taken and not yet drained, or
built and not yet published.

It also proves `IndexIsGraphAlways`, `EnsureCoalescesAlways` and `NoFalseEmptyAlways`, about
the nodes. `AppliedIsGraph` is the arithmetic of `apply_delta`: the counts it
keeps are those of the graph built anew. `EventsInv` says that every delta on its way is
one of a version the route runtime went through; the updater applies one only when it is the
successor of the version it has, and rebuilds otherwise. `PrepInv` follows a
preparation: it holds the discovery lock while it queues its job, and the version it
waits for has what the job found; as long as there was no refresh (`Quiet`) the ledger
says Discovering while somebody waits, and only one does (`LedgerInv`). A request that
gives up leaves the ledger as it is, so the property survives it; with a refresh TLC finds
two preparations past the check.

`RoutesExecuteAsQuotedAlways`, also in `SidecarProofs`, is about what a handler plans, and has
two halves. Whatever the pools take and round, the router reverts or pays at least the floor and at
most the quote: `HopBounded` follows one turn of the loop from any amount up to the quoted
one, `RouteBounded` the route. And it pays the quote, without a revert, if every pool takes its
whole input and no StableSwap pool rounds before the last hop; a last one that rounds costs one unit,
if the floor allows it. For this `HopRuns` says, protocol by protocol, that a hop packed by
`execution.rs` is unpacked by the router into the swap that was quoted; it needs an amount that
is not zero and a pool that takes it. `TraceType` gives both from the report, `RouteTurns` puts
the hops together with `SetInduction`, and `RouteRuns` ends it. The conditions are conditions of
the property and not of the model: TLC's pools include one that takes only part of its input
at a last hop, and one that rounds, at a first or a last; where the conditions fail
the first half applies.
`PlanInv` then follows a request: the report it holds is a
report of quoted routes, and what it has packed is packed of the best of them, however the
supervisor and the other requests interleave.

`LiquidityProofs` proves `FreshIsCurrentAlways` and `IndexesAgreeAlways`. The operations are
functions of the index, so the invariant is a predicate of an index as a value, `Good`: each
place belongs to one pool and a free place to none (`Places`), what is found for a pool and
a token is read from where the pool's registration says (`Tracked`), the reverse indexes lead
to exactly the active targets of a slot or holder (`Indexed`), and a fresh balance is the
decoded word of its slot (`Honest`): the chain's or, of a misread slot, the cache's (`Believed`). There is one lemma per operation (`PushKeeps`,
`RemoveKeeps`, `TransferKeeps`, `UpdateKeeps`, `RefreshKeeps`, ...). A transfer changes the
chain, the cache and the balances at two slots, so `Honest` needs `Indexed`: a target the indexes
missed would keep its old balance. Balance and cached word are changed by the same saturating
sum under the same conditions (`CacheAfterTransfer`), so a balance that was the cache's stays it. A reconciliation goes pool by pool, so in between the
targets are those of a registry that is new for some pools and old for others
(`ReconcileKeeps`), and a place freed by one pool is reused by the next: with a duplicate
in the free list one balance would be two pools'.

`HeuristicSearchProofs` proves `ResultsAreCandidatesAlways`. `SortedLists` is the base: with
different keys of one length, comparison in order is a total order, so `Sorted` lists each
element once. `PathKeysDiffer` shows that candidates have different keys, since the first hop
in which two of them differ leaves from the same token. A walk of n + 1 hops is one of n hops and
an open hop (`WalkUnfold`), whence `WalkShape` and, for the fast lane, `SecondHop`: two legs
over different pools and a connector in between are a walk of the enumeration, although the
fast lane never makes the test of a walk. `AccOk` is the invariant of the loops within one
step, kept by each hop (`KeepHopOk`), group (`ExpandGroupOk`) and prefix. `SearchInv`: every
quote is of a candidate, no two of the same one, and each is in `evaluated`; every
prefix on the frontier is a walk that has not reached the target. The refinement pass
starts over with the quotes and `evaluated` of the first, which is why it repeats no route.

Only model-checked, and why:

- all liveness (`EventuallyAnswered`, `DropReleases`, `ShutdownCompletes`,
  `SearchReturns`, `Recovers`, `Answered`, `Settles`), which the proof system does not
  handle.
- `PruningKeepsBest`: that a dropped prefix is not missed needs an exchange argument, in which
  each route is replaced by one at least as good whose prefixes all survive, by induction
  over levels, passes and the order of the frontier at once, with prefixes that dominate each other
  in turn. Its ingredients would be `WalkUnfold`, the monotony of amounts along a route and
  `SearchInv`.

No module declares a RECURSIVE operator, so each can be proved about.

## 5. Findings

1. `live_routes_token`: `LiveRouteSubscription::cancel()` abandoned between its
   two halves leaves the flag set, and a later use of the public token then
   enqueues no removal, although `docs/live-route-runtime.md` says token use
   cannot strand capacity. Dropping the subscription still releases it.
2. `warm_store_refused`: a process that dies between creating and renaming the
   temporary manifest leaves a file whose name every later process chooses too,
   so orderly commits fail from then on. What was committed before stays intact.
3. `route_session_stop`: a callback that stops a refresh at a quote leaves viable
   routes marked Failed, and the report says Updated.

## 6. What is not modelled

*Input and output.* Pool simulation, RPC profiles, configuration files and
environment, ABI encoding, drawing, key handling, logging and metrics. The TUI's
screens and its live session are mostly this; of the TUI the start and shutdown
around the warm store are modelled. Its quiescence check, read once before delivery
is stopped (`src/bin/amm_route_tui.rs:2940`), is not modelled and no hazard of the list. The overlay cache, the demo router's encoding, the factory and demo
contracts, examples, benches and the vendored solady library are left out: they
keep no state that outlives a call, or are no part of the product.

*Limits of the modules.* `remove_pool` of the standalone graph, which leaves token
nodes behind (`src/graph.rs:290`), and adjacency order; observer events of the live
routes; `next_job` at `u64::MAX`. Real
amounts: rates are small multiplications, so rounding is modelled only where the code
treats it (StableSwap in `Execution`). Time is an order of timeouts, never a duration.

*What the models rely on, and show to be needed.*

- `PruningKeepsBest` has preconditions. Prefix dominance can lose the best
  route with pools of more than two tokens or with `min_hops` above 1, and the
  balance prune with pools of more than two tokens; `README.md:432-443` promises
  no more. The dominance labels of the first pass stay for the refinement pass,
  so an edge deferred behind a prefix of the first pass is not quoted then
  (`src/search.rs:3088`).
- `Stop` from the callback in the heuristic phase still lets the stop policy name
  the finality (`src/search.rs:2252`); `max_candidates` may be exceeded by one when
  a refinement pass follows (`src/search.rs:42`).
- A `refresh_from_snapshot` after a removed log calls fresh what the cache still has from before
  the reorganisation (`src/liquidity.rs:624-656` and `:732-756`); a caller that wants the chain's
  balance calls `refresh` (`FreshIsCurrent`).
- A commit that changes no topology leaves balances fresh
  (`src/live_graph.rs:434`): truth of a fresh balance depends on the caller passing
  on logs or slot updates, as `Liquidity` assumes. A balance set for a
  target without a slot stays fresh until it is staled by hand, and a second,
  different slot for one holder (`src/liquidity.rs:949`) is not exercised.
- Reading a token's status renews `updated_at` (`sidecar/src/coverage.rs:134`), so
  polling keeps an empty verdict from expiring. `prepare_token` that is timed out or
  dropped leaves the entry at Discovering (`gaveUp`), so `Settles` speaks of the others
  only, and a refresh that overtakes another preparation separates the two
  (`EnsureCoalesces`).
- The supervisor watches the chain connection and never the route runtime
  (`sidecar/src/node.rs:893`): a node whose routes have failed is not replaced, and
  its requests are answered with errors (`Answered` holds, `Recovers` speaks of lost
  connections only).

## 7. The plan

Done, in order of importance: `LiveRoutes` (what subscribers see), `WarmStore`
(what survives), `AmmGraph` and `LiveGraph` (what searches run on),
`RouteSession` (what is kept between searches), `HeuristicSearch`, `QuoteCache` and
`StreamingSearch` (how routes are found), `Liquidity` (what they are pruned by),
`RoutingNode`, `Execution` and `Sidecar` (what is served); the proofs of section 4.

Left to prove: `PruningKeepsBest`, first without the shortlist and the balance prune, from
the monotony of amounts along a route and the dominance labels as an antichain.

Later, modelling: the TUI's live session (discovery batches, cold-start queue,
quiescence), and a composition of `LiveGraph` and `LiveRoutes` in which a view is a
graph.

## 8. Running

    tlc -workers 2 -config LiveRoutesFence.cfg MCLiveRoutes    # any cfg with its MC module
    tlapm LiveRoutesProofs.tla                                 # any *Proofs module
