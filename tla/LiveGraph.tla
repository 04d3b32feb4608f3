------------------------------- MODULE LiveGraph -------------------------------
(***************************************************************************)
(* LiveAmmGraph of src/live_graph.rs: the search universe kept up to date   *)
(* by the AMM runtime's commits, with its graph, its index of active pool   *)
(* generations and revisions, and the liquidity targets of src/liquidity.rs *)
(* (which pool balances are tracked; not their values).                     *)
(*                                                                         *)
(* apply_commit builds the next graph pool by pool on a copy, so it is      *)
(* several steps here, and everything it owns is replaced by the last.      *)
(* A commit of another runtime, out of sequence, or whose snapshot lacks a  *)
(* revision changes nothing and is no step of the model.                    *)
(* A definition whose name says what it gets wrong (ReadableUnchecked, ...)  *)
(* is a mutation of the one that follows it, never used.                    *)
(***************************************************************************)
EXTENDS AmmGraph, Integers, Sequences, FiniteSets

CONSTANTS
  None,           \* Option::None
  Metadata,       \* the [status, tokens] a registration may carry
  Coherent,       \* bound: TRUE when every snapshot has every active pool's revision
  MaxVersion,     \* bound: commits the AMM runtime publishes
  MaxChanged      \* bound: pools one commit changes

ASSUME MetadataAssumption ==
  /\ Metadata \subseteq [status: STRING, tokens: SUBSET Tokens]
  /\ Coherent \in BOOLEAN /\ MaxVersion \in Nat /\ MaxChanged \in Nat

\* An active pool: PoolInstanceId generation, PoolStateRevision (absent in an
\* incoherent snapshot) and PoolRegistration.
Registered == [gen: Nat, rev: Nat \cup {None}, meta: Metadata]
Registry == [Pools -> Registered \cup {None}]

\* IndexedPool
IndexedPool == [gen: Nat, rev: Nat, tokens: SUBSET Tokens]

Commit == [registry: Registry, changed: SUBSET Pools, full: BOOLEAN]

ASSUME NoneAssumption ==
  /\ None \notin Nat /\ None \notin Registered /\ None \notin Nat \X SUBSET Tokens
  /\ None \notin [gen: Nat, rev: Nat \cup {None}, tokens: SUBSET Tokens]

VARIABLES
  registry, published,            \* the AMM runtime: its newest snapshot and version
  stream,                         \* the commits not yet applied
  source,                         \* the snapshot the graph was last brought to
  graph, version, indexed, targets,  \* LiveAmmGraph; version is graph.version
  pc, commit, todo, next_graph    \* apply_commit, while it builds the next graph

ammVars == <<registry, published>>
selfVars == <<graph, version, indexed, targets>>
workVars == <<pc, commit, todo, next_graph>>
vars == <<ammVars, stream, source, selfVars, workVars>>

TypeOK ==
  /\ registry \in Registry /\ published \in 0 .. MaxVersion
  /\ stream \in Seq(Commit) /\ source \in Registry
  /\ graph \in Graph /\ version \in Nat
  /\ indexed \in [Pools -> IndexedPool \cup {None}]
  /\ targets \in [Pools -> SUBSET Tokens]
  /\ pc \in {"idle", "mutating"}
  /\ commit \in Commit \cup {None} /\ (pc = "mutating" => commit \in Commit)
  /\ todo \subseteq Pools /\ next_graph \in Graph

------------------------------------------------------------------------------
(* Reading a snapshot *)

\* The tokens a pool is searched by: none unless it is active and indexable.
IndexedTokens(reg, p) ==
  IF reg[p] # None /\ IsIndexableStatus(reg[p].meta.status)
    THEN TokensForPool(reg[p].meta.tokens) ELSE {}

\* indexed_pool
IndexedPoolOf(reg, p) ==
  IF IndexedTokens(reg, p) = {} THEN None
  ELSE [gen |-> reg[p].gen, rev |-> reg[p].rev, tokens |-> IndexedTokens(reg, p)]

\* MissingPoolRevision: the snapshot has no revision for an indexable pool.
ReadableUnchecked(reg, pools) == TRUE
Readable(reg, pools) ==
  \A p \in pools : IndexedTokens(reg, p) # {} => reg[p].rev # None

TokensOf(reg) == [p \in Pools |-> IndexedTokens(reg, p)]

\* indexed_from_snapshot
IndexedFromSnapshot(reg) == [p \in Pools |-> IndexedPoolOf(reg, p)]

\* PoolLiquidityIndex::from_registry_with_scope
RegistrationTokens(reg, p) == IF reg[p] = None THEN {} ELSE reg[p].meta.tokens

LiquidityFromRegistry(reg, g) ==
  [p \in Pools |-> TrackedTokensByPool(g)[p] \cap RegistrationTokens(reg, p)]

------------------------------------------------------------------------------
\* from_snapshot
Init ==
  /\ registry \in [Pools -> {[gen |-> 0, rev |-> 0, meta |-> m] : m \in Metadata} \cup {None}]
  /\ published = 0 /\ stream = <<>> /\ source = registry
  /\ graph = FromRegistry(TokensOf(registry)) /\ version = 0
  /\ indexed = IndexedFromSnapshot(registry)
  /\ targets = LiquidityFromRegistry(registry, graph)
  /\ pc = "idle" /\ commit = None /\ todo = {} /\ next_graph = graph

------------------------------------------------------------------------------
\* The AMM runtime (external). A commit registers, replaces, updates, repairs,
\* degrades or removes pools C; a touched pool keeps its generation or gets a new one.
Touched(p) ==
  {None} \cup {[gen |-> g, rev |-> r, meta |-> m] :
                 g \in {published + 1, IF registry[p] = None THEN published + 1 ELSE registry[p].gen},
                 r \in {published + 1, IF Coherent THEN published + 1 ELSE None}, m \in Metadata}

\* It names every pool it touches, perhaps more; or it asks for a full refresh.
PublishCommit(C, named, full) ==
  /\ published < MaxVersion /\ published' = published + 1
  /\ C \subseteq named \/ full
  /\ \E new \in [C -> UNION {Touched(p) : p \in C}] :
       /\ \A p \in C : new[p] \in Touched(p)
       /\ registry' = [p \in Pools |-> IF p \in C THEN new[p] ELSE registry[p]]
  /\ stream' = Append(stream, [registry |-> registry', changed |-> named, full |-> full])
  /\ UNCHANGED <<source, selfVars, workVars>>

------------------------------------------------------------------------------
(* apply_commit *)

\* GraphTopologyImpact of the change of one pool, from IndexedPool b to a.
ImpactIgnoresIdentity(b, a) ==
  IF b # None /\ a # None /\ b.tokens = a.tokens THEN "Unchanged"
  ELSE IF b = None /\ a = None THEN "Unchanged" ELSE "Localized"
Impact(b, a) ==
  IF b # None /\ a # None /\ b.tokens = a.tokens
    THEN IF b.gen = a.gen THEN "Unchanged" ELSE "IdentityChanged"
  ELSE IF b = None /\ a = None THEN "Unchanged" ELSE "Localized"

\* The pools of a commit whose indexed representation changes.
PoolDeltas(c) == {p \in c.changed : indexed[p] # IndexedPoolOf(c.registry, p)}

\* apply_index_deltas
IndexDeltasKeepsRemoved(reg, deltas) ==
  [p \in Pools |-> IF p \in deltas /\ IndexedPoolOf(reg, p) # None
                   THEN IndexedPoolOf(reg, p) ELSE indexed[p]]
ApplyIndexDeltas(reg, deltas) ==
  [p \in Pools |-> IF p \in deltas THEN IndexedPoolOf(reg, p) ELSE indexed[p]]

\* Commit c is applied: the graph moves to its snapshot, and the commits before the
\* one after it in the stream are behind.
Advance(c, rest) == source' = c.registry /\ stream' = rest

\* Only revisions changed: the index follows, the graph and its version stay.
ApplyStateOnly ==
  /\ pc = "idle" /\ stream # <<>>
  /\ LET c == Head(stream) IN
       /\ ~c.full /\ Readable(c.registry, c.changed)
       /\ \A p \in c.changed : Impact(indexed[p], IndexedPoolOf(c.registry, p)) = "Unchanged"
       /\ indexed' = ApplyIndexDeltas(c.registry, PoolDeltas(c))
       /\ Advance(c, Tail(stream))
  /\ UNCHANGED <<ammVars, graph, version, targets, workVars>>

\* Otherwise the next graph starts as a copy of the current one.
BeginMutation ==
  /\ pc = "idle" /\ stream # <<>>
  /\ LET c == Head(stream) IN
       /\ ~c.full /\ Readable(c.registry, c.changed)
       /\ \E p \in c.changed : Impact(indexed[p], IndexedPoolOf(c.registry, p)) # "Unchanged"
       /\ commit' = c /\ todo' = PoolDeltas(c)
  /\ pc' = "mutating" /\ next_graph' = graph
  /\ UNCHANGED <<ammVars, stream, source, selfVars>>

\* One pool delta on the copy; in key order in the code, in any order here.
MutatePool(p) ==
  /\ pc = "mutating" /\ p \in todo /\ todo' = todo \ {p}
  /\ next_graph' = ApplyPool(next_graph, p, IndexedTokens(commit.registry, p))
  /\ UNCHANGED <<ammVars, stream, source, selfVars, pc, commit>>

\* liquidity_affected_pools: with the parallel scope the pools that share a pair
\* with a changed one, before or after the change.
AffectedOnlyAfter(before, after, changed) ==
  IF ParallelOnly
    THEN changed \cup UNION {ParallelNeighbors(after, p) : p \in changed}
    ELSE changed
LiquidityAffectedPools(before, after, changed) ==
  IF ParallelOnly
    THEN changed \cup UNION {ParallelNeighbors(before, p) \cup ParallelNeighbors(after, p) :
                               p \in changed}
    ELSE changed

\* reconcile_pools: the affected pools' targets, from the next graph and registry.
ReconcilePools(reg, g, pools) ==
  [p \in Pools |-> IF p \in pools
                   THEN TrackedTokensForPool(g, p) \cap RegistrationTokens(reg, p)
                   ELSE targets[p]]

FinishMutation ==
  /\ pc = "mutating" /\ todo = {}
  /\ LET deltas == PoolDeltas(commit) IN
       /\ graph' = next_graph /\ version' = version + 1
       /\ targets' = ReconcilePools(commit.registry, next_graph,
                                    LiquidityAffectedPools(graph, next_graph, deltas))
       /\ indexed' = ApplyIndexDeltas(commit.registry, deltas)
  /\ Advance(commit, Tail(stream))
  /\ pc' = "idle" /\ commit' = None
  /\ UNCHANGED <<ammVars, todo, next_graph>>

------------------------------------------------------------------------------
(* reconcile_snapshot *)

\* semantic_index_changed compares generations and tokens, not revisions.
Semantic(i) == [p \in Pools |-> IF i[p] = None THEN None ELSE <<i[p].gen, i[p].tokens>>]

\* replace_from_snapshot with the snapshot of commit c.
ReplaceFromSnapshot(c) ==
  LET next == FromRegistry(TokensOf(c.registry))
      next_indexed == IndexedFromSnapshot(c.registry)
      changed == {p \in Pools : indexed[p] # next_indexed[p]}
  IN /\ graph' = next /\ indexed' = next_indexed
     /\ version' = IF Semantic(indexed) # Semantic(next_indexed) THEN version + 1 ELSE version
     /\ targets' = ReconcilePools(c.registry, next, LiquidityAffectedPools(graph, next, changed))

\* A commit that requires a full refresh, and a consumer that fell behind and goes
\* straight to the snapshot of the i-th commit it has not applied.
ReconcileSnapshot(i) ==
  /\ pc = "idle" /\ i \in 1 .. Len(stream)
  /\ Readable(stream[i].registry, Pools)
  /\ ReplaceFromSnapshot(stream[i])
  /\ Advance(stream[i], SubSeq(stream, i + 1, Len(stream)))
  /\ UNCHANGED <<ammVars, workVars>>

Next ==
  \/ \E C \in SUBSET Pools :
       /\ Cardinality(C) <= MaxChanged
       /\ PublishCommit(C, C, FALSE) \/ PublishCommit(C, Pools, FALSE) \/ PublishCommit(C, {}, TRUE)
  \/ ApplyStateOnly \/ BeginMutation \/ (\E p \in Pools : MutatePool(p)) \/ FinishMutation
  \/ \E i \in 1 .. MaxVersion : ReconcileSnapshot(i)

Spec == Init /\ [][Next]_vars

------------------------------------------------------------------------------
\* Whatever sequence of commits and recoveries led here, the graph, with its pair and
\* adjacency indexes, is the one from_registry would build from the current snapshot:
\* no edge or token node is lost, and none of a removed or rewired pool is left.
GraphIsRebuild == graph = FromRegistry(TokensOf(source))

\* The index has the generation and the revision the current snapshot has for every
\* indexable pool, and no other pool: quote-cache keys never name an obsolete revision.
IndexIsCurrent == indexed = IndexedFromSnapshot(source)

\* The liquidity targets are those a scan of the whole graph would give, also for the
\* pools a commit did not name but whose pair became, or is no longer, parallel.
TargetsAreRebuild == targets = LiquidityFromRegistry(source, graph)

\* GraphVersion advances by exactly one when the generations or the token edges of the
\* indexed pools change, however many pools do, and never otherwise; on both paths.
VersionMarksTopology ==
  [][IF Semantic(indexed') = Semantic(indexed) THEN version' = version
     ELSE version' = version + 1]_vars
==============================================================================
