--------------------------- MODULE WarmStoreProofs ---------------------------
(***************************************************************************)
(* Proofs about WarmStore for every number of sessions, blocks and hashes:  *)
(* what a manifest selects is complete and of one point, a process starts   *)
(* from a verified point, and an acknowledged commit is never lost.         *)
(***************************************************************************)
EXTENDS WarmStore, TLAPS

\* The generation selected by m is sealed, complete and of m's point, both as
\* processes see it and as a power loss would leave it.
Selected(m) ==
  m # None =>
    /\ m.generation \in Dirs /\ m.generation < nextDir
    /\ kind[m.generation] = "sealed" /\ dKind[m.generation] = "sealed"
    /\ state[m.generation] = m.checkpoint /\ dState[m.generation] = m.checkpoint
    /\ archive[m.generation] = m.checkpoint /\ dArchive[m.generation] = m.checkpoint
    /\ m.checkpoint \in WarmCheckpoint

\* No directory exists, visibly or on disk, under a name not used yet.
FreshInv ==
  \A d \in Dirs : d >= nextDir =>
    /\ kind[d] = "absent" /\ dKind[d] = "absent"
    /\ state[d] = None /\ dState[d] = None
    /\ archive[d] = None /\ dArchive[d] = None

Unsealed == BeforeCommit \cup {"synced"}
Synced == {"synced", "renamed", "sealed", "written", "replaced", "selected"}

\* How far the session has got with its own directory.
SessionInv ==
  /\ pc = "down" => dir = None /\ resume = None
  /\ dir # None => dir \in Dirs /\ dir = nextDir - 1
  /\ pc \in {"seeding", "flushed", "saved"} \cup Synced => dir \in Dirs
  /\ pc \in {"stopped", "flushed", "saved"} \cup Synced => point \in WarmCheckpoint
  /\ dir # None /\ pc \in Unsealed => kind[dir] = "staging"
  /\ pc = "seeding" => state[dir] = None /\ resume = None
  /\ pc \in {"verify", "running"} /\ dir # None =>
       IF resume = None THEN state[dir] = None
       ELSE state[dir] = resume /\ archive[dir] = resume
  /\ pc \in {"flushed", "saved"} \cup Synced => state[dir] = point
  /\ pc \in {"saved"} \cup Synced => archive[dir] = point
  /\ pc \in Synced => dState[dir] = point /\ dArchive[dir] = point
  /\ pc \in Synced \ {"synced"} => kind[dir] = "sealed"
  /\ pc \in Synced \ {"synced", "renamed"} => dKind[dir] = "sealed"
  /\ pc \in {"replaced", "selected"} =>
       manifest = [generation |-> dir, checkpoint |-> point]
  /\ pc = "selected" => dManifest = manifest

\* An acknowledged generation, or a later one, is selected also on disk.
AckedInv ==
  /\ acked < nextDir
  /\ acked # 0 => /\ manifest # None /\ manifest.generation >= acked
                  /\ dManifest # None /\ dManifest.generation >= acked

IInv ==
  /\ TypeOK /\ FreshInv /\ SessionInv /\ AckedInv
  /\ Selected(manifest) /\ Selected(dManifest)

LEMMA InitInv == Init => IInv
<1> SUFFICES ASSUME Init PROVE IInv
  OBVIOUS
<1>1. TypeOK
  <2>1. head \in Blocks /\ latest \in Blocks /\ nextDir \in 1 .. (MaxSessions + 1)
    BY StoreAssumption DEF Init, Blocks
  <2>2. kind \in [Dirs -> Kinds] /\ dKind \in [Dirs -> Kinds]
    BY DEF Init, Kinds
  <2> QED BY <2>1, <2>2 DEF Init, TypeOK
<1>2. FreshInv /\ SessionInv /\ AckedInv /\ Selected(manifest) /\ Selected(dManifest)
  BY StoreAssumption DEF Init, FreshInv, SessionInv, AckedInv, Selected, Unsealed, Synced,
                         BeforeCommit
<1> QED BY <1>1, <1>2 DEF IInv

LEMMA ChainStep ==
  ASSUME IInv, NextBlock \/ (\E b \in Blocks, h \in Hashes : Reorg(b, h))
  PROVE  IInv'
<1> USE DEF visibleVars, durableVars, sessionVars, historyVars
<1>1. UNCHANGED <<visibleVars, durableVars, legacy, pc, sessionVars, historyVars>>
  BY DEF NextBlock, Reorg
<1>2. head' \in Blocks /\ hashOf' \in [Blocks -> Hashes]
  BY StoreAssumption DEF IInv, TypeOK, NextBlock, Reorg, Blocks
<1>3. TypeOK'
  BY <1>1, <1>2 DEF IInv, TypeOK
<1>4. (FreshInv /\ SessionInv /\ AckedInv /\ Selected(manifest) /\ Selected(dManifest))'
  BY <1>1 DEF IInv, FreshInv, SessionInv, AckedInv, Selected
<1> QED BY <1>3, <1>4 DEF IInv

LEMMA StartStep ==
  ASSUME IInv, StartNext
  PROVE  IInv'
<1> USE StoreAssumption DEF visibleVars, durableVars, sessionVars, historyVars, chainVars,
        Dirs, Unsealed, Synced, BeforeCommit, InCommit
<1>0. nextDir \in Nat /\ head \in Nat /\ (\A l \in 0 .. head : l \in Blocks)
  BY DEF IInv, TypeOK, Blocks
<1>1. CASE BeginDisabled
  <2>1. TypeOK'
    <3>1. latest' \in Blocks /\ pc' = "running"
      BY <1>0, <1>1 DEF BeginDisabled, FetchLatest
    <3> QED BY <1>1, <3>1 DEF IInv, TypeOK, BeginDisabled
  <2>2. (FreshInv /\ SessionInv /\ AckedInv /\ Selected(manifest) /\ Selected(dManifest))'
    BY <1>1 DEF IInv, FreshInv, SessionInv, AckedInv, Selected, BeginDisabled
  <2> QED BY <2>1, <2>2 DEF IInv
<1>2. CASE Begin
  <2>0. \A d \in Dirs : kind'[d] = IF d = nextDir THEN "staging" ELSE kind[d]
    BY <1>2 DEF IInv, TypeOK, Begin
  <2>1. TypeOK'
    <3>1. latest' \in Blocks /\ pc' = "seeding"
      BY <1>0, <1>2 DEF Begin, FetchLatest
    <3>2. kind' \in [Dirs -> Kinds] /\ nextDir' \in 1 .. (MaxSessions + 1) /\ dir' \in Dirs
      BY <1>0, <1>2 DEF IInv, TypeOK, Begin, Kinds
    <3> HIDE DEF Dirs
    <3> QED BY <1>2, <3>1, <3>2 DEF IInv, TypeOK, Begin
  <2>2. FreshInv' /\ AckedInv'
    BY <1>0, <1>2, <2>0 DEF IInv, TypeOK, FreshInv, AckedInv, Begin
  <2>3. SessionInv'
    BY <1>0, <1>2, <2>0 DEF IInv, FreshInv, SessionInv, Begin
  <2>4. Selected(manifest)' /\ Selected(dManifest)'
    BY <1>0, <1>2, <2>0 DEF IInv, Selected, Begin
  <2> QED BY <2>1, <2>2, <2>3, <2>4 DEF IInv
<1>3. CASE SeedCommitted \/ SeedLegacy \/ Verify
  <2>0. /\ UNCHANGED <<kind, manifest, dKind, dState, dArchive, dManifest, dir, point, nextDir, acked>>
        /\ \A d \in Dirs : d # dir => state'[d] = state[d] /\ archive'[d] = archive[d]
        /\ pc \in {"seeding", "verify"} /\ pc' \in {"verify", "running"}
    BY <1>3 DEF IInv, TypeOK, SeedCommitted, SeedLegacy, Verify, SeedUnchanged,
                DiscardUnverifiedCache
  <2>1. TypeOK' /\ SessionInv'
    <3>1. CASE SeedCommitted
      <4>1. /\ manifest # None /\ LoadCommitted = manifest
            /\ manifest.generation \in Dirs
            /\ state[manifest.generation] = manifest.checkpoint
            /\ archive[manifest.generation] = manifest.checkpoint
            /\ manifest.checkpoint \in WarmCheckpoint
        BY <3>1 DEF SeedCommitted, LoadCommitted, IInv, Selected
      <4>2. /\ state' = [state EXCEPT ![dir] = manifest.checkpoint]
            /\ archive' = [archive EXCEPT ![dir] = manifest.checkpoint]
            /\ resume' = manifest.checkpoint
        BY <3>1, <4>1 DEF SeedCommitted
      <4>3. TypeOK'
        BY <3>1, <4>1, <4>2 DEF IInv, TypeOK, SeedCommitted, SeedUnchanged
      <4>4. SessionInv'
        BY <3>1, <4>1, <4>2 DEF IInv, TypeOK, SessionInv, SeedCommitted, SeedUnchanged
      <4> QED BY <4>3, <4>4
    <3>2. CASE SeedLegacy
      <4>1. TypeOK'
        BY <3>2 DEF IInv, TypeOK, SeedLegacy, SeedUnchanged
      <4>2. SessionInv'
        BY <3>2 DEF IInv, TypeOK, SessionInv, SeedLegacy, SeedUnchanged
      <4> QED BY <4>1, <4>2
    <3>3. CASE Verify
      <4>1. TypeOK'
        BY <3>3 DEF IInv, TypeOK, Verify, SeedUnchanged, DiscardUnverifiedCache
      <4>2. SessionInv'
        BY <3>3 DEF IInv, TypeOK, SessionInv, Verify, SeedUnchanged, DiscardUnverifiedCache
      <4> QED BY <4>1, <4>2
    <3> QED BY <1>3, <3>1, <3>2, <3>3
  <2>2. FreshInv' /\ AckedInv'
    BY <1>0, <2>0 DEF IInv, SessionInv, FreshInv, AckedInv
  <2>3. Selected(manifest)' /\ Selected(dManifest)'
    BY <2>0 DEF IInv, SessionInv, Selected
  <2> QED BY <2>1, <2>2, <2>3 DEF IInv
<1> QED BY <1>1, <1>2, <1>3 DEF StartNext

\* A step that touches neither generations nor the manifest.
LEMMA ShutdownStep ==
  ASSUME IInv, ShutdownNext
  PROVE  IInv'
<1> USE StoreAssumption DEF visibleVars, durableVars, sessionVars, historyVars, chainVars,
        Dirs, Unsealed, Synced, BeforeCommit, InCommit
<1>0. /\ UNCHANGED <<kind, manifest, dKind, dState, dArchive, dManifest, nextDir, acked>>
      /\ \A d \in Dirs : d # dir => state'[d] = state[d] /\ archive'[d] = archive[d]
      /\ dir = None => UNCHANGED <<state, archive>>
      /\ pc \in {"running", "stopped", "flushed"}
  BY DEF IInv, TypeOK, SessionInv, ShutdownNext, StopDelivery, SaveLegacy, FlushCache, SaveArchive
<1>1. nextDir \in Nat
  BY DEF IInv, TypeOK
<1>2. FreshInv' /\ AckedInv' /\ Selected(manifest)' /\ Selected(dManifest)'
  <2>1. FreshInv' /\ AckedInv'
    BY <1>0, <1>1 DEF IInv, SessionInv, FreshInv, AckedInv
  <2>2. Selected(manifest)' /\ Selected(dManifest)'
    BY <1>0 DEF IInv, SessionInv, Selected
  <2> QED BY <2>1, <2>2
<1>3. TypeOK' /\ SessionInv'
  <2>1. ASSUME NEW b \in Blocks, StopDelivery(b) PROVE TypeOK' /\ SessionInv'
    <3>1. point' \in WarmCheckpoint
      BY <2>1 DEF StopDelivery, Canonical, WarmCheckpoint, IInv, TypeOK
    <3>2. TypeOK'
      BY <2>1, <3>1 DEF IInv, TypeOK, StopDelivery
    <3>3. SessionInv'
      BY <2>1, <3>1 DEF IInv, SessionInv, StopDelivery
    <3> QED BY <3>2, <3>3
  <2>2. CASE SaveLegacy
    <3>1. TypeOK'
      BY <2>2 DEF IInv, TypeOK, SessionInv, SaveLegacy, EndSession, Blocks
    <3>2. SessionInv'
      BY <2>2 DEF IInv, SessionInv, SaveLegacy, EndSession
    <3> QED BY <3>1, <3>2
  <2>3. CASE FlushCache
    <3>1. TypeOK'
      BY <2>3 DEF IInv, TypeOK, FlushCache
    <3>2. SessionInv'
      BY <2>3 DEF IInv, TypeOK, SessionInv, FlushCache
    <3> QED BY <3>1, <3>2
  <2>4. CASE SaveArchive
    <3>1. TypeOK'
      BY <2>4 DEF IInv, TypeOK, SaveArchive
    <3>2. SessionInv'
      BY <2>4 DEF IInv, TypeOK, SessionInv, SaveArchive
    <3> QED BY <3>1, <3>2
  <2> QED BY <2>1, <2>2, <2>3, <2>4 DEF ShutdownNext
<1> QED BY <1>2, <1>3 DEF IInv

LEMMA CommitStep ==
  ASSUME IInv, CommitNext
  PROVE  IInv'
<1> USE StoreAssumption DEF visibleVars, durableVars, sessionVars, historyVars, chainVars,
        Dirs, Unsealed, Synced, BeforeCommit, InCommit, CommitUnchanged
<1>0. nextDir \in Nat /\ (dir \in Dirs => dir \in Nat)
  BY DEF IInv, TypeOK
<1>1. CASE CommitSync
  <2>0. /\ \A d \in Dirs : d # dir => dState'[d] = dState[d] /\ dArchive'[d] = dArchive[d]
        /\ dir \in Dirs /\ kind[dir] = "staging" /\ dir < nextDir
        /\ dState'[dir] = point /\ dArchive'[dir] = point
    BY <1>0, <1>1 DEF IInv, TypeOK, SessionInv, CommitSync, SyncTree
  <2>1. TypeOK'
    BY <1>1 DEF IInv, TypeOK, SessionInv, CommitSync, SyncTree
  <2>2. FreshInv' /\ AckedInv'
    BY <1>0, <1>1, <2>0 DEF IInv, FreshInv, AckedInv, CommitSync
  <2>3. SessionInv'
    BY <1>1, <2>0 DEF IInv, SessionInv, CommitSync
  <2>4. Selected(manifest)' /\ Selected(dManifest)'
    BY <1>1, <2>0 DEF IInv, Selected, CommitSync
  <2> QED BY <2>1, <2>2, <2>3, <2>4 DEF IInv
<1>2. CASE CommitSeal
  <2>0. /\ \A d \in Dirs : kind'[d] = IF d = dir THEN "sealed" ELSE kind[d]
        /\ dir \in Dirs /\ dir < nextDir
    BY <1>0, <1>2 DEF IInv, TypeOK, SessionInv, CommitSeal
  <2>1. TypeOK'
    BY <1>2 DEF IInv, TypeOK, CommitSeal, Kinds
  <2>2. FreshInv' /\ AckedInv'
    BY <1>0, <1>2, <2>0 DEF IInv, FreshInv, AckedInv, CommitSeal
  <2>3. SessionInv'
    BY <1>2, <2>0 DEF IInv, SessionInv, CommitSeal
  <2>4. Selected(manifest)' /\ Selected(dManifest)'
    BY <1>2, <2>0 DEF IInv, Selected, CommitSeal
  <2> QED BY <2>1, <2>2, <2>3, <2>4 DEF IInv
<1>3. CASE CommitSyncGenerations
  <2>1. TypeOK'
    BY <1>3 DEF IInv, TypeOK, CommitSyncGenerations
  <2>2. FreshInv' /\ AckedInv'
    BY <1>3 DEF IInv, FreshInv, AckedInv, CommitSyncGenerations
  <2>3. SessionInv'
    BY <1>3 DEF IInv, SessionInv, CommitSyncGenerations
  <2>4. Selected(manifest)' /\ Selected(dManifest)'
    BY <1>3 DEF IInv, Selected, CommitSyncGenerations
  <2> QED BY <2>1, <2>2, <2>3, <2>4 DEF IInv
<1>4. CASE CommitWrite
  <2>1. TypeOK'
    BY <1>4 DEF IInv, TypeOK, CommitWrite
  <2>2. (FreshInv /\ AckedInv /\ SessionInv /\ Selected(manifest) /\ Selected(dManifest))'
    BY <1>4 DEF IInv, FreshInv, AckedInv, SessionInv, Selected, CommitWrite
  <2> QED BY <2>1, <2>2 DEF IInv
<1>5. CASE CommitRefused
  <2>1. TypeOK'
    BY <1>5 DEF IInv, TypeOK, CommitRefused, EndSession, Blocks
  <2>2. (FreshInv /\ AckedInv /\ SessionInv /\ Selected(manifest) /\ Selected(dManifest))'
    BY <1>5 DEF IInv, FreshInv, AckedInv, SessionInv, Selected, CommitRefused, EndSession
  <2> QED BY <2>1, <2>2 DEF IInv
<1>6. CASE CommitReplace
  <2>0. /\ manifest' = [generation |-> dir, checkpoint |-> point]
        /\ dir \in Dirs /\ dir = nextDir - 1 /\ point \in WarmCheckpoint
        /\ manifest' \in WarmManifest
    BY <1>6 DEF IInv, SessionInv, CommitReplace, WarmManifest
  <2>1. TypeOK'
    BY <1>6, <2>0 DEF IInv, TypeOK, CommitReplace
  <2>2. FreshInv' /\ AckedInv'
    BY <1>0, <1>6, <2>0 DEF IInv, TypeOK, FreshInv, AckedInv, CommitReplace
  <2>3. SessionInv'
    BY <1>6, <2>0 DEF IInv, SessionInv, CommitReplace
  <2>4. Selected(manifest)' /\ Selected(dManifest)'
    BY <1>0, <1>6, <2>0 DEF IInv, SessionInv, Selected, CommitReplace
  <2> QED BY <2>1, <2>2, <2>3, <2>4 DEF IInv
<1>7. CASE CommitSyncNamespace
  <2>1. TypeOK'
    BY <1>7 DEF IInv, TypeOK, CommitSyncNamespace, SyncNamespace
  <2>2. (FreshInv /\ AckedInv /\ SessionInv /\ Selected(manifest) /\ Selected(dManifest))'
    BY <1>7 DEF IInv, FreshInv, AckedInv, SessionInv, Selected, CommitSyncNamespace, SyncNamespace
  <2> QED BY <2>1, <2>2 DEF IInv
<1>8. ASSUME NEW p \in Dirs, CommitPrune(p) PROVE IInv'
  <2>0. /\ \A d \in Dirs : d # p =>
             kind'[d] = kind[d] /\ state'[d] = state[d] /\ archive'[d] = archive[d]
        /\ kind'[p] = "absent" /\ state'[p] = None /\ archive'[p] = None
        /\ p # dir /\ dir \in Dirs
        /\ manifest = [generation |-> dir, checkpoint |-> point] /\ dManifest = manifest
    BY <1>8 DEF IInv, TypeOK, SessionInv, CommitPrune
  <2>1. TypeOK'
    BY <1>8 DEF IInv, TypeOK, CommitPrune, Kinds
  <2>2. FreshInv' /\ AckedInv'
    BY <1>8, <2>0 DEF IInv, FreshInv, AckedInv, CommitPrune
  <2>3. SessionInv'
    BY <1>8, <2>0 DEF IInv, SessionInv, CommitPrune
  <2>4. Selected(manifest)' /\ Selected(dManifest)'
    BY <1>8, <2>0 DEF IInv, Selected, CommitPrune
  <2> QED BY <2>1, <2>2, <2>3, <2>4 DEF IInv
<1>9. CASE CommitDone
  <2>0. /\ dir \in Dirs /\ dir = nextDir - 1 /\ acked' = dir
        /\ manifest = [generation |-> dir, checkpoint |-> point] /\ dManifest = manifest
    BY <1>9 DEF IInv, SessionInv, CommitDone
  <2>1. TypeOK'
    BY <1>9, <2>0 DEF IInv, TypeOK, CommitDone, EndSession, Blocks
  <2>2. AckedInv'
    <3>1. UNCHANGED <<manifest, dManifest, nextDir>> /\ manifest \in WarmManifest
      BY <1>9, <2>0 DEF IInv, TypeOK, SessionInv, CommitDone, WarmManifest
    <3> QED BY <1>0, <2>0, <3>1 DEF AckedInv
  <2>3. (FreshInv /\ SessionInv /\ Selected(manifest) /\ Selected(dManifest))'
    BY <1>9 DEF IInv, FreshInv, SessionInv, Selected, CommitDone, EndSession
  <2> QED BY <2>1, <2>2, <2>3 DEF IInv
<1> QED
  BY <1>1, <1>2, <1>3, <1>4, <1>5, <1>6, <1>7, <1>8, <1>9 DEF CommitNext

LEMMA EndStep ==
  ASSUME IInv, Abandon \/ ProcessDies \/ PowerLoss
  PROVE  IInv'
<1> USE StoreAssumption DEF visibleVars, durableVars, sessionVars, historyVars, chainVars,
        Dirs, Unsealed, Synced, BeforeCommit, InCommit
<1>0. EndSession /\ UNCHANGED <<chainVars, legacy, historyVars>>
  BY DEF Abandon, ProcessDies, PowerLoss
<1>1. SessionInv'
  BY <1>0 DEF SessionInv, EndSession
<1>2. CASE Abandon
  <2>0. /\ UNCHANGED <<manifest, durableVars>>
        /\ \A d \in Dirs :
             \/ kind'[d] = kind[d] /\ state'[d] = state[d] /\ archive'[d] = archive[d]
             \/ kind[d] = "staging" /\ kind'[d] = "absent" /\ state'[d] = None /\ archive'[d] = None
    BY <1>2 DEF IInv, TypeOK, Abandon
  <2>1. TypeOK'
    <3>1. kind' \in [Dirs -> Kinds] /\ state' \in [Dirs -> WarmCheckpoint \cup {None}]
          /\ archive' \in [Dirs -> WarmCheckpoint \cup {None}]
      BY <1>2 DEF IInv, TypeOK, Abandon, Kinds
    <3>2. latest' \in Blocks /\ pc' = "down" /\ dir' = None
      BY <1>0 DEF EndSession, Blocks
    <3> QED BY <1>0, <1>2, <3>1, <3>2 DEF IInv, TypeOK, Abandon, EndSession
  <2>2. FreshInv' /\ AckedInv'
    BY <1>0, <2>0 DEF IInv, FreshInv, AckedInv
  <2>3. Selected(manifest)' /\ Selected(dManifest)'
    BY <1>0, <2>0 DEF IInv, Selected
  <2> QED BY <1>1, <2>1, <2>2, <2>3 DEF IInv
<1>3. CASE ProcessDies
  <2>1. TypeOK'
    BY <1>0, <1>3 DEF IInv, TypeOK, ProcessDies, EndSession, Blocks
  <2>2. (FreshInv /\ AckedInv /\ Selected(manifest) /\ Selected(dManifest))'
    BY <1>0, <1>3 DEF IInv, FreshInv, AckedInv, Selected, ProcessDies
  <2> QED BY <1>1, <2>1, <2>2 DEF IInv
<1>4. CASE PowerLoss
  <2>0. /\ \A d \in Dirs : /\ kind'[d] \in {kind[d], dKind[d]}
                           /\ state'[d] \in {state[d], dState[d]}
                           /\ archive'[d] \in {archive[d], dArchive[d]}
        /\ dKind' = kind' /\ dState' = state' /\ dArchive' = archive'
        /\ dManifest' = manifest' /\ manifest' \in {manifest, dManifest}
    BY <1>4 DEF PowerLoss, Reverted
  <2>1. TypeOK'
    <3>1. kind' \in [Dirs -> Kinds]
      BY <1>4 DEF IInv, TypeOK, PowerLoss, Reverted
    <3>2. state' \in [Dirs -> WarmCheckpoint \cup {None}]
      BY <1>4 DEF IInv, TypeOK, PowerLoss, Reverted
    <3>3. archive' \in [Dirs -> WarmCheckpoint \cup {None}]
      BY <1>4 DEF IInv, TypeOK, PowerLoss, Reverted
    <3>4. temps' \subseteq Nat /\ dTemps' \subseteq Nat
      BY <1>4 DEF IInv, TypeOK, PowerLoss
    <3> QED BY <1>0, <2>0, <3>1, <3>2, <3>3, <3>4 DEF IInv, TypeOK, EndSession, Blocks
  <2>2. FreshInv' /\ AckedInv'
    BY <1>0, <2>0 DEF IInv, FreshInv, AckedInv
  <2>3. Selected(manifest)' /\ Selected(dManifest)'
    BY <1>0, <2>0 DEF IInv, Selected
  <2> QED BY <1>1, <2>1, <2>2, <2>3 DEF IInv
<1> QED BY <1>2, <1>3, <1>4

LEMMA StoreInductive == Spec => []IInv
<1>1. IInv /\ [Next]_vars => IInv'
  <2>1. ASSUME IInv, UNCHANGED vars PROVE IInv'
    BY <2>1 DEF vars, chainVars, visibleVars, durableVars, sessionVars, historyVars, IInv,
                TypeOK, FreshInv, SessionInv, AckedInv, Selected
  <2> QED BY <2>1, ChainStep, StartStep, ShutdownStep, CommitStep, EndStep DEF Next
<1> QED BY <1>1, InitInv, PTL DEF Spec

\* What the manifest selects is complete and of one point, for any number of
\* sessions, crashes and power losses between any two operations of commit().
THEOREM SelectionComplete == Spec => []CommittedIsComplete
<1>1. IInv => CommittedIsComplete
  BY StoreAssumption DEF IInv, Selected, CommittedIsComplete, LoadCommitted
<1> QED BY <1>1, StoreInductive, PTL

\* A process begins to run on restored EVM state only with the archive of the same
\* point, and only if that point is, when it begins, on the canonical chain with that
\* hash and close enough to the head, however the chain was reorganised and whatever
\* was lost since it was captured.
THEOREM VerifiedPoint == Spec => StartsFromVerifiedPoint
<1> DEFINE Start ==
      RunsOnRestored =>
        /\ state'[dir'] = resume' /\ archive'[dir'] = resume'
        /\ resume' = Canonical(resume'.block_number)
        /\ latest - resume'.block_number \in 0 .. MaxCatchup
<1>1. ASSUME IInv, Next PROVE Start
  <2> SUFFICES ASSUME RunsOnRestored
               PROVE  /\ state'[dir'] = resume' /\ archive'[dir'] = resume'
                      /\ resume' = Canonical(resume'.block_number)
                      /\ latest - resume'.block_number \in 0 .. MaxCatchup
    OBVIOUS
  <2> USE DEF RunsOnRestored
  <2>1. Verify \/ BeginDisabled
    BY <1>1 DEF Next, NextBlock, Reorg, StartNext, Begin, SeedCommitted, SeedLegacy,
                ShutdownNext, StopDelivery, SaveLegacy, FlushCache, SaveArchive, CommitNext,
                CommitSync, CommitSeal, CommitSyncGenerations, CommitWrite, CommitRefused,
                CommitReplace, CommitSyncNamespace, CommitPrune, CommitUnchanged, CommitDone,
                Abandon, ProcessDies, PowerLoss, EndSession
  <2>2. Verify
    BY <1>1, <2>1 DEF BeginDisabled, IInv, SessionInv
  <2>3. state \in [Dirs -> WarmCheckpoint \cup {None}] /\ dir' = dir /\ dir \in Dirs
        /\ archive' = archive /\ latest \in Nat
    BY <1>1, <2>2, StoreAssumption
    DEF Verify, SeedUnchanged, IInv, TypeOK, SessionInv, Blocks
  <2>4. resume # None /\ Verified(resume)
    <3>1. CASE resume # None /\ ~Verified(resume)
      BY <2>2, <2>3, <3>1 DEF Verify, DiscardUnverifiedCache
    <3>2. CASE resume = None
      BY <1>1, <2>2, <2>3, <3>2 DEF Verify, IInv, SessionInv
    <3> QED BY <3>1, <3>2
  <2>5. resume' = resume /\ state' = state
    BY <2>2, <2>4 DEF Verify
  <2>6. state[dir] = resume /\ archive[dir] = resume /\ resume \in WarmCheckpoint
    BY <1>1, <2>2, <2>3, <2>4 DEF Verify, IInv, SessionInv, TypeOK
  <2>7. resume = Canonical(resume.block_number)
    BY <2>4, <2>6 DEF Verified, Canonical, WarmCheckpoint
  <2>8. latest - resume.block_number \in 0 .. MaxCatchup
    BY <2>3, <2>4, <2>6, StoreAssumption DEF Verified, WarmCheckpoint, Blocks
  <2> QED BY <2>3, <2>5, <2>6, <2>7, <2>8
<1>2. IInv /\ [Next]_vars => [Start]_vars
  BY <1>1
<1> QED BY <1>2, StoreInductive, PTL DEF Spec, StartsFromVerifiedPoint

\* No crash or power loss takes back a commit() that returned Ok.
THEOREM DurableCommit == Spec => []CommitIsDurable
<1>1. IInv => CommitIsDurable
  BY DEF IInv, AckedInv, CommitIsDurable
<1> QED BY <1>1, StoreInductive, PTL
==============================================================================
