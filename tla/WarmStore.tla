------------------------------ MODULE WarmStore ------------------------------
(***************************************************************************)
(* The crash-consistent warm checkpoint store of the route TUI              *)
(* (src/bin/amm_route_tui/warm_store.rs) and the start and orderly shutdown *)
(* of the process that uses it (bootstrap_live_tui_inner and                *)
(* shutdown_live_tui_runtime_with_archive of amm_route_tui.rs).             *)
(*                                                                         *)
(* A file's content is the canonical point it was captured at. A generation *)
(* directory is identified by the unique part of its name, which the rename *)
(* from .staging-* to gen-* keeps. Every object of the file system has the  *)
(* value processes see and the value a power loss is sure to leave (d...).  *)
(* A definition whose name says what it leaves out (SyncTreeNothing, ...)   *)
(* is a mutation of the one that follows it, never used.                    *)
(***************************************************************************)
EXTENDS Integers, FiniteSets

CONSTANTS
  None,          \* Option::None, an absent file
  Hashes,        \* block hashes
  MaxCatchup,    \* AMM_ROUTE_TUI_MAX_WARM_CATCHUP_BLOCKS
  MaxBlock,      \* bound: highest block of the chain
  MaxSessions    \* bound: persistent sessions ever begun

Blocks == 0 .. MaxBlock
Dirs == 1 .. MaxSessions

\* WarmCheckpoint, of the store's own chain.
WarmCheckpoint == [block_number: Blocks, block_hash: Hashes]

\* WarmManifest
WarmManifest == [generation: Dirs, checkpoint: WarmCheckpoint]

ASSUME StoreAssumption ==
  /\ MaxCatchup \in Nat /\ MaxBlock \in Nat /\ MaxSessions \in Nat
  /\ None \notin WarmCheckpoint /\ None \notin WarmManifest /\ None \notin Dirs

VARIABLES
  head, hashOf,                               \* the canonical chain
  kind, state, archive, manifest, temps,      \* the file system, as processes see it
  dKind, dState, dArchive, dManifest, dTemps, \* ... and as a power loss leaves it
  legacy,                                     \* the archive outside any generation
  pc, dir, counter, latest, resume, point,    \* the process and its WarmSession
  nextDir,                                    \* the next unique directory name
  refused,                                    \* the last commit() found its temporary file
  acked                                       \* last generation a commit() returned Ok for

chainVars == <<head, hashOf>>
visibleVars == <<kind, state, archive, manifest, temps>>
durableVars == <<dKind, dState, dArchive, dManifest, dTemps>>
sessionVars == <<dir, counter, latest, resume, point>>
historyVars == <<nextDir, refused, acked>>
vars == <<chainVars, visibleVars, durableVars, legacy, pc, sessionVars, historyVars>>

BeforeCommit == {"seeding", "verify", "running", "stopped", "flushed", "saved"}
InCommit == {"synced", "renamed", "sealed", "written", "replaced", "selected"}

Kinds == {"absent", "staging", "sealed"}

TypeOK ==
  /\ head \in Blocks /\ hashOf \in [Blocks -> Hashes]
  /\ kind \in [Dirs -> Kinds] /\ dKind \in [Dirs -> Kinds]
  /\ state \in [Dirs -> WarmCheckpoint \cup {None}]
  /\ archive \in [Dirs -> WarmCheckpoint \cup {None}]
  /\ dState \in [Dirs -> WarmCheckpoint \cup {None}]
  /\ dArchive \in [Dirs -> WarmCheckpoint \cup {None}]
  /\ manifest \in WarmManifest \cup {None} /\ dManifest \in WarmManifest \cup {None}
  /\ temps \subseteq Nat /\ dTemps \subseteq Nat
  /\ legacy \in WarmCheckpoint \cup {None}
  /\ pc \in {"down"} \cup BeforeCommit \cup InCommit
  /\ dir \in Dirs \cup {None} /\ counter \in Nat /\ latest \in Blocks
  /\ resume \in WarmCheckpoint \cup {None} /\ point \in WarmCheckpoint \cup {None}
  /\ nextDir \in 1 .. (MaxSessions + 1)
  /\ refused \in BOOLEAN /\ acked \in Dirs \cup {0}

Canonical(b) == [block_number |-> b, block_hash |-> hashOf[b]]

Init ==
  /\ head = 0 /\ hashOf \in [Blocks -> Hashes]
  /\ kind = [d \in Dirs |-> "absent"] /\ dKind = kind
  /\ state = [d \in Dirs |-> None] /\ dState = state
  /\ archive = [d \in Dirs |-> None] /\ dArchive = archive
  /\ manifest = None /\ dManifest = None /\ temps = {} /\ dTemps = {}
  /\ legacy = None
  /\ pc = "down" /\ dir = None /\ counter = 0 /\ latest = 0
  /\ resume = None /\ point = None
  /\ nextDir = 1 /\ refused = FALSE /\ acked = 0

------------------------------------------------------------------------------
(* The chain (external): it grows, and a reorganisation replaces its end. *)

NextBlock ==
  /\ head < MaxBlock /\ head' = head + 1
  /\ UNCHANGED <<hashOf, visibleVars, durableVars, legacy, pc, sessionVars, historyVars>>

Reorg(b, h) ==
  /\ b \in 1 .. head /\ h # hashOf[b]
  /\ hashOf' = [i \in Blocks |-> IF i >= b THEN h ELSE hashOf[i]]
  /\ UNCHANGED <<head, visibleVars, durableVars, legacy, pc, sessionVars, historyVars>>

------------------------------------------------------------------------------
(* Start of a process: begin, and the verification of the checkpoint *)

\* load_committed: the selected generation, if all it needs is there.
LoadCommitted ==
  IF /\ manifest # None
     /\ kind[manifest.generation] = "sealed"
     /\ state[manifest.generation] # None /\ archive[manifest.generation] # None
  THEN manifest ELSE None

\* The provider's latest block, fetched before begin; it may lag behind.
FetchLatest == latest' \in 0 .. head

\* AMM_ROUTE_TUI_PERSIST_CACHE=0: no generation, only the legacy archive.
BeginDisabled ==
  /\ pc = "down" /\ pc' = "running" /\ FetchLatest
  /\ UNCHANGED <<chainVars, visibleVars, durableVars, legacy,
                 dir, counter, resume, point, historyVars>>

\* A fresh staging directory; its unique name takes the first value of the
\* process's NEXT_GENERATION counter.
Begin ==
  /\ pc = "down" /\ pc' = "seeding" /\ FetchLatest
  /\ nextDir \in Dirs /\ nextDir' = nextDir + 1
  /\ dir' = nextDir /\ counter' = 1 /\ refused' = FALSE
  /\ kind' = [kind EXCEPT ![nextDir] = "staging"]
  /\ UNCHANGED <<chainVars, state, archive, manifest, temps, durableVars, legacy,
                 resume, point, acked>>

SeedUnchanged ==
  UNCHANGED <<chainVars, kind, manifest, temps, durableVars, legacy,
              dir, counter, latest, point, historyVars>>

\* copy_tree of the committed generation.
SeedCommitted ==
  /\ pc = "seeding" /\ pc' = "verify" /\ LoadCommitted # None
  /\ state' = [state EXCEPT ![dir] = state[LoadCommitted.generation]]
  /\ archive' = [archive EXCEPT ![dir] = archive[LoadCommitted.generation]]
  /\ resume' = LoadCommitted.checkpoint
  /\ SeedUnchanged

\* copy_legacy_registrations: nothing is committed, or copying it failed half way
\* and staging was created anew.
SeedLegacy ==
  /\ pc = "seeding" /\ pc' = "verify"
  /\ archive' = [archive EXCEPT ![dir] = legacy]
  /\ UNCHANGED <<state, resume>>
  /\ SeedUnchanged

\* warm_checkpoint_is_resumable, and the hash the provider now has for that block.
VerifiedByNumber(cp) == cp.block_number <= latest /\ latest - cp.block_number <= MaxCatchup
Verified(cp) ==
  /\ cp.block_number <= latest /\ latest - cp.block_number <= MaxCatchup
  /\ hashOf[cp.block_number] = cp.block_hash

\* discard_unverified_cache: everything but the archive is removed.
DiscardUnverifiedCache == state' = [state EXCEPT ![dir] = None]

Verify ==
  /\ pc = "verify" /\ pc' = "running"
  /\ IF resume # None /\ ~Verified(resume)
       THEN DiscardUnverifiedCache /\ resume' = None
       ELSE UNCHANGED <<state, resume>>
  /\ UNCHANGED archive /\ SeedUnchanged

------------------------------------------------------------------------------
(* Orderly shutdown *)

\* The WarmSession value and the process's counter are gone.
EndSession ==
  /\ pc' = "down" /\ dir' = None /\ counter' = 0 /\ latest' = 0
  /\ resume' = None /\ point' = None

\* Delivery and cold-start work have stopped: the runtime's last coherent point.
StopDelivery(b) ==
  /\ pc = "running" /\ pc' = "stopped" /\ b <= head
  /\ point' = Canonical(b)
  /\ UNCHANGED <<chainVars, visibleVars, durableVars, legacy,
                 dir, counter, latest, resume, historyVars>>

\* Without persistence only the legacy archive is saved.
SaveLegacy ==
  /\ pc = "stopped" /\ dir = None
  /\ legacy' = point /\ EndSession
  /\ UNCHANGED <<chainVars, visibleVars, durableVars, historyVars>>

FlushCache ==
  /\ pc = "stopped" /\ dir # None /\ pc' = "flushed"
  /\ state' = [state EXCEPT ![dir] = point]
  /\ UNCHANGED <<chainVars, kind, archive, manifest, temps, durableVars, legacy,
                 sessionVars, historyVars>>

SaveArchive ==
  /\ pc = "flushed" /\ pc' = "saved"
  /\ archive' = [archive EXCEPT ![dir] = point]
  /\ UNCHANGED <<chainVars, kind, state, manifest, temps, durableVars, legacy,
                 sessionVars, historyVars>>

------------------------------------------------------------------------------
(* commit, one action per operation on the file system *)

CommitUnchanged == UNCHANGED <<chainVars, legacy, sessionVars, historyVars>>

\* sync_tree of the staging directory, once the required files are there.
SyncTreeNothing == UNCHANGED <<dState, dArchive>>
SyncTree ==
  /\ dState' = [dState EXCEPT ![dir] = state[dir]]
  /\ dArchive' = [dArchive EXCEPT ![dir] = archive[dir]]

CommitSync ==
  /\ pc = "saved" /\ pc' = "synced"
  /\ state[dir] # None /\ archive[dir] # None
  /\ SyncTree
  /\ UNCHANGED <<visibleVars, dKind, dManifest, dTemps>> /\ CommitUnchanged

CommitSeal ==
  /\ pc = "synced" /\ pc' = "renamed"
  /\ kind' = [kind EXCEPT ![dir] = "sealed"]
  /\ UNCHANGED <<state, archive, manifest, temps, durableVars>> /\ CommitUnchanged

CommitSyncGenerations ==
  /\ pc = "renamed" /\ pc' = "sealed"
  /\ dKind' = kind
  /\ UNCHANGED <<visibleVars, dState, dArchive, dManifest, dTemps>> /\ CommitUnchanged

\* atomic_write_synced: the temporary file takes the next value of the counter.
CommitWrite ==
  /\ pc = "sealed" /\ pc' = "written" /\ counter \notin temps
  /\ temps' = temps \cup {counter}
  /\ UNCHANGED <<kind, state, archive, manifest, durableVars>> /\ CommitUnchanged

\* create_new finds a temporary file of that name: commit() fails, and the drop of
\* the session finds no staging directory to remove.
CommitRefused ==
  /\ pc = "sealed" /\ counter \in temps
  /\ refused' = TRUE /\ EndSession
  /\ UNCHANGED <<chainVars, visibleVars, durableVars, legacy, nextDir, acked>>

CommitReplace ==
  /\ pc = "written" /\ pc' = "replaced"
  /\ manifest' = [generation |-> dir, checkpoint |-> point]
  /\ temps' = temps \ {counter}
  /\ UNCHANGED <<kind, state, archive, durableVars>> /\ CommitUnchanged

\* sync_dir of the namespace.
SyncNamespaceNothing == UNCHANGED <<dManifest, dTemps>>
SyncNamespace == dManifest' = manifest /\ dTemps' = temps

CommitSyncNamespace ==
  /\ pc = "replaced" /\ pc' = "selected"
  /\ SyncNamespace
  /\ UNCHANGED <<visibleVars, dKind, dState, dArchive>> /\ CommitUnchanged

\* prune_generations removes the other directories, ignoring errors.
CommitPrune(d) ==
  /\ pc = "selected" /\ d # dir /\ kind[d] # "absent"
  /\ kind' = [kind EXCEPT ![d] = "absent"]
  /\ state' = [state EXCEPT ![d] = None] /\ archive' = [archive EXCEPT ![d] = None]
  /\ UNCHANGED <<pc, manifest, temps, durableVars>> /\ CommitUnchanged

CommitDone ==
  /\ pc = "selected"
  /\ acked' = dir /\ EndSession
  /\ UNCHANGED <<chainVars, visibleVars, durableVars, legacy, nextDir, refused>>

------------------------------------------------------------------------------
(* What ends a session early *)

\* A bootstrap error, a quit while work remains, or a failed operation of the
\* shutdown or of commit(): the session is dropped and its staging removed.
Abandon ==
  /\ pc \in (BeforeCommit \cup InCommit) \ {"selected"}
  /\ IF dir # None /\ kind[dir] = "staging"
       THEN /\ kind' = [kind EXCEPT ![dir] = "absent"]
            /\ state' = [state EXCEPT ![dir] = None]
            /\ archive' = [archive EXCEPT ![dir] = None]
       ELSE UNCHANGED <<kind, state, archive>>
  /\ EndSession
  /\ UNCHANGED <<chainVars, manifest, temps, durableVars, legacy, historyVars>>

\* The process dies; what it wrote stays visible.
ProcessDies ==
  /\ pc # "down" /\ EndSession
  /\ UNCHANGED <<chainVars, visibleVars, durableVars, legacy, historyVars>>

\* f with the objects of S as the disk last had them.
Reverted(f, d, S) == [x \in Dirs |-> IF x \in S THEN d[x] ELSE f[x]]

\* Power is lost: whatever was not synced may or may not have reached the disk,
\* each object independently.
PowerLoss ==
  /\ \E S \in SUBSET {d \in Dirs : kind[d] # dKind[d]} : kind' = Reverted(kind, dKind, S)
  /\ \E S \in SUBSET {d \in Dirs : state[d] # dState[d]} : state' = Reverted(state, dState, S)
  /\ \E S \in SUBSET {d \in Dirs : archive[d] # dArchive[d]} :
       archive' = Reverted(archive, dArchive, S)
  /\ manifest' \in {manifest, dManifest} /\ temps' \in {temps, dTemps}
  /\ dKind' = kind' /\ dState' = state' /\ dArchive' = archive'
  /\ dManifest' = manifest' /\ dTemps' = temps'
  /\ EndSession
  /\ UNCHANGED <<chainVars, legacy, historyVars>>

------------------------------------------------------------------------------
StartNext == BeginDisabled \/ Begin \/ SeedCommitted \/ SeedLegacy \/ Verify

ShutdownNext == (\E b \in Blocks : StopDelivery(b)) \/ SaveLegacy \/ FlushCache \/ SaveArchive

CommitNext ==
  \/ CommitSync \/ CommitSeal \/ CommitSyncGenerations \/ CommitWrite \/ CommitRefused
  \/ CommitReplace \/ CommitSyncNamespace \/ (\E d \in Dirs : CommitPrune(d)) \/ CommitDone

Next ==
  \/ NextBlock \/ \E b \in Blocks, h \in Hashes : Reorg(b, h)
  \/ StartNext \/ ShutdownNext \/ CommitNext
  \/ Abandon \/ ProcessDies \/ PowerLoss

Spec == Init /\ [][Next]_vars

------------------------------------------------------------------------------
\* Whenever a process reads the manifest, the generation it selects is complete and
\* its state and archive were both captured at the manifest's checkpoint, after any
\* sequence of crashes, power losses and failed commits.
CommittedIsComplete ==
  manifest # None =>
    /\ LoadCommitted = manifest
    /\ state[manifest.generation] = manifest.checkpoint
    /\ archive[manifest.generation] = manifest.checkpoint

\* The step by which a process with a generation of its own begins to run on what
\* it restored.
RunsOnRestored ==
  /\ pc # "running" /\ pc' = "running" /\ dir' # None
  /\ state'[dir'] # None \/ resume' # None

\* A process begins to run on restored EVM state only together with the archive of
\* the same point, with that point as its baseline, and only if its block is, with
\* that hash, on the chain as it stands then and at most MaxCatchup blocks behind the
\* head the process fetched: neither a reorganisation nor a long stop nor a crash
\* between the capture and the start lets an outdated generation through.
StartsFromVerifiedPoint ==
  [][RunsOnRestored =>
       /\ state'[dir'] = resume' /\ archive'[dir'] = resume'
       /\ resume' = Canonical(resume'.block_number)
       /\ latest - resume'.block_number \in 0 .. MaxCatchup]_vars

\* A generation for which commit() returned Ok stays selected until a later one
\* replaces it, whatever is lost afterwards.
CommitIsDurable ==
  acked # 0 => manifest # None /\ manifest.generation >= acked

\* An orderly commit that meets no failure selects its generation: it is not refused
\* for what an interrupted predecessor left behind.
CommitNotRefused == ~refused
==============================================================================
