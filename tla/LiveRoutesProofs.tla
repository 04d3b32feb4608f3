--------------------------- MODULE LiveRoutesProofs ---------------------------
(***************************************************************************)
(* Proofs about LiveRoutes for every number of workers, subscriptions,      *)
(* commits and queue capacities: type correctness, and the fence that keeps *)
(* late, superseded and truncated results out of the watch publications;    *)
(* then that no subscription is forgotten by the pending queue, each has at *)
(* most one attempt in flight, and its watch only advances.                 *)
(***************************************************************************)
EXTENDS LiveRoutes, FiniteSetTheorems, SequenceTheorems, TLAPS

\* A job or message c fits the subscription table t with n ids issued: its
\* subscription existed, its epoch is not ahead, and if its epoch is the current
\* one then so is its request.
Fits(c, t, n) ==
  /\ c.stamp.sub < n
  /\ t[c.stamp.sub] # None =>
       /\ c.stamp.epoch <= t[c.stamp.sub].epoch
       /\ c.stamp.epoch = t[c.stamp.sub].epoch => c.spec = t[c.stamp.sub].spec

\* The states in which a worker has a job and a message, and the actor an input.
HasJob(st) == st \in {"searching", "sending", "completing"}
HasMsg(st) == st \in {"sending", "completing"}
HasInput == pc \in {"drain", "message"}

\* Everything queued, running, sent or being handled fits the table.
CargoInv ==
  /\ \A i \in DOMAIN jobs : jobs[i] # None => Fits(jobs[i], entries, next_subscription)
  /\ \A w \in Workers :
       /\ HasJob(worker[w].st) => Fits(worker[w].job, entries, next_subscription)
       /\ HasMsg(worker[w].st) => Fits(worker[w].msg, entries, next_subscription)
  /\ \A i \in DOMAIN results : Fits(results[i], entries, next_subscription)
  /\ HasInput => Fits(input, entries, next_subscription)

\* The attempt a of entry e of subscription id, at view v with cancelled jobs jc: a
\* cancelled attempt is one for an older view or an older epoch.
AttemptOK(id, e, v, jc) ==
  e.active # None =>
    /\ e.active.sub = id
    /\ e.active.job < e.next_job
    /\ e.active.source <= v
    /\ e.active.epoch <= e.epoch
    /\ <<id, e.active.job>> \in jc => e.active.source < v \/ e.active.epoch < e.epoch

TokenInv ==
  /\ \A id \in live : id < next_subscription
  /\ \A id \in live : AttemptOK(id, entries[id], view, jobCancelled)
  /\ \A id \in Ids, j \in Nat : <<id, j>> \in jobCancelled =>
       id < next_subscription /\ (id \in live => j < entries[id].next_job)

\* A truncated result m comes with the cancellation that cut it short.
Excused(m, c, jc) ==
  m.truncated => m.stamp.sub \in c \/ <<m.stamp.sub, m.stamp.job>> \in jc

TruncatedInv ==
  /\ \A i \in DOMAIN results : Excused(results[i], cancelled, jobCancelled)
  /\ HasInput => Excused(input, cancelled, jobCancelled)
  /\ \A w \in Workers : HasMsg(worker[w].st) /\ resultsOpen =>
       Excused(worker[w].msg, cancelled, jobCancelled)

FenceInv == WatchCurrent /\ QuoteAnswersRequest

IInv == CargoInv /\ TokenInv /\ TruncatedInv /\ FenceInv

------------------------------------------------------------------------------
\* The ascending listing of a set of ids is a sequence of its members.
LEMMA InOrderType ==
  ASSUME NEW S \in SUBSET Ids, NEW s \in InOrder(S)
  PROVE  s \in Seq(S)
<1>1. IsFiniteSet(Ids)
  BY BoundAssumption, FS_Interval DEF Ids
<1>2. Cardinality(S) \in Nat
  BY <1>1, FS_Subset, FS_CardinalityType
<1>3. s \in [1 .. Cardinality(S) -> S]
  BY DEF InOrder
<1> QED
  BY <1>2, <1>3, IsASeq

\* A queue stays a queue of the same elements when its head is taken.
LEMMA TailType ==
  ASSUME NEW S, NEW q \in Seq(S), q # <<>>
  PROVE  /\ Head(q) \in S /\ Tail(q) \in Seq(S)
         /\ DOMAIN Tail(q) = 1 .. (Len(q) - 1)
         /\ \A i \in DOMAIN Tail(q) : i + 1 \in DOMAIN q /\ Tail(q)[i] = q[i + 1]
         /\ 1 \in DOMAIN q /\ Head(q) = q[1]
  BY HeadTailProperties, LenProperties

\* ... and when an element is added.
LEMMA AppendType ==
  ASSUME NEW S, NEW q \in Seq(S), NEW x \in S
  PROVE  /\ Append(q, x) \in Seq(S)
         /\ \A i \in DOMAIN Append(q, x) :
              \/ i \in DOMAIN q /\ Append(q, x)[i] = q[i]
              \/ Append(q, x)[i] = x
  BY AppendProperties, LenProperties

LEMMA TypeClients ==
  TypeOK /\ (ClientNext \/ AmmNext) => TypeOK'
<1> SUFFICES ASSUME TypeOK, ClientNext \/ AmmNext PROVE TypeOK'
  OBVIOUS
<1> USE DEF ammVars, clientVars, controlVars, tableVars, pendingVars, workVars, tokenVars,
            ClientUnchanged
<1>1. ASSUME NEW cmd \in Command, Send(cmd) PROVE TypeOK'
  BY <1>1, AppendType DEF TypeOK, Send
<1>2. ASSUME NEW spec \in Specs, SendSubscribe(spec) PROVE TypeOK'
  <2>1. [op |-> "subscribe", id |-> None, spec |-> spec] \in Command
    BY DEF Command
  <2> QED BY <2>1, <1>1, <1>2 DEF SendSubscribe
<1>3. ASSUME NEW id \in Ids, NEW spec \in Specs, SendReplace(id, spec) PROVE TypeOK'
  <2>1. [op |-> "replace", id |-> id, spec |-> spec] \in Command
    BY DEF Command
  <2> QED BY <2>1, <1>1, <1>3 DEF SendReplace
<1>4. ASSUME NEW id \in Ids, SendUnsubscribe(id) PROVE TypeOK'
  <2>1. [op |-> "cancel", id |-> id, spec |-> None] \in Command
    BY DEF Command
  <2> QED BY <2>1, <1>1, <1>4 DEF SendUnsubscribe
<1>5. ASSUME SendShutdown PROVE TypeOK'
  <2>1. [op |-> "shutdown", id |-> None, spec |-> None] \in Command
    BY DEF Command
  <2> QED BY <2>1, <1>1, <1>5 DEF SendShutdown
<1>6. ASSUME NEW id \in Ids, RequestCancel(id) PROVE TypeOK'
  BY <1>6 DEF TypeOK, RequestCancel
<1>7. ASSUME NEW id \in Ids, TokenCancel(id) PROVE TypeOK'
  <2>1. PICK first \in InOrder({id} \ cancelled) : cleanup' = cleanup \o first
    BY <1>7 DEF TokenCancel, CancelTokens
  <2>2. first \in Seq(Ids)
    BY InOrderType, SeqMonotonic, {id} \ cancelled \in SUBSET Ids
  <2> QED BY <1>7, <2>1, <2>2 DEF TypeOK, TokenCancel, CancelTokens
<1>8. ASSUME NEW id \in Ids, DropSubscription(id) PROVE TypeOK'
  BY <1>8 DEF TypeOK, DropSubscription, DropSends
<1>9. ASSUME DropHandle PROVE TypeOK'
  BY <1>9 DEF TypeOK, DropHandle
<1>10. ASSUME PublishCommit PROVE TypeOK'
  BY <1>10 DEF TypeOK, PublishCommit
<1>11. ASSUME StopStream PROVE TypeOK'
  BY <1>11 DEF TypeOK, StopStream
<1> QED
  BY <1>2, <1>3, <1>4, <1>5, <1>6, <1>7, <1>8, <1>9, <1>10, <1>11
  DEF ClientNext, AmmNext

LEMMA TypeWorkers ==
  ASSUME TypeOK, NEW w \in Workers, WorkerNext(w)
  PROVE  TypeOK'
<1> USE DEF ammVars, clientVars, controlVars, tableVars, pendingVars, workVars, tokenVars,
            WorkerUnchanged, SetWorker
<1>1. worker[w] \in WorkerState
  BY DEF TypeOK
<1>2. ASSUME NEW job \in Job, NEW outcome \in {"best", "progress", "none", "error"},
             NEW truncated \in BOOLEAN
      PROVE  /\ CompletedMsg(job, outcome, truncated) \in Message
             /\ EventMsg(job, outcome) \in Message
  BY DEF CompletedMsg, EventMsg, Job, Message
<1>3. ASSUME NEW st \in {"idle", "searching", "sending", "completing", "exited"},
             NEW job \in Job \cup {None}, NEW msg \in Message \cup {None}, NEW sent \in Nat,
             st \in {"searching", "sending", "completing"} => job \in Job,
             st \in {"sending", "completing"} => msg \in Message,
             SetWorker(w, st, job, msg, sent)
      PROVE  /\ worker' \in [Workers -> WorkerState]
             /\ \A v \in Workers :
                  /\ worker'[v].st \in {"searching", "sending", "completing"}
                       => worker'[v].job \in Job
                  /\ worker'[v].st \in {"sending", "completing"}
                       => worker'[v].msg \in Message
  BY <1>3 DEF TypeOK, WorkerState
<1>4. CASE WorkerTake(w)
  <2>1. Head(jobs) \in Job \cup {None} /\ jobs' \in Seq(Job \cup {None})
    BY <1>4, TailType DEF TypeOK, WorkerTake
  <2>2. CASE Head(jobs) = None
    BY <1>3, <1>4, <2>1, <2>2 DEF TypeOK, WorkerTake
  <2>3. CASE Head(jobs) # None /\ IsCancelled(Head(jobs))
    BY <1>2, <1>3, <1>4, <2>1, <2>3, ZenonT(30) DEF TypeOK, WorkerTake
  <2>4. CASE Head(jobs) # None /\ ~IsCancelled(Head(jobs))
    BY <1>3, <1>4, <2>1, <2>4 DEF TypeOK, WorkerTake
  <2> QED BY <2>2, <2>3, <2>4
<1>5. ASSUME NEW outcome \in {"best", "progress"}, WorkerEvent(w, outcome)
      PROVE  TypeOK'
  <2>1. worker[w].job \in Job /\ worker[w].sent + 1 \in Nat
    BY <1>1, <1>5, SMTT(30) DEF TypeOK, WorkerEvent, WorkerState
  <2>2. EventMsg(worker[w].job, outcome) \in Message
    BY <1>2, <2>1
  <2> QED BY <1>3, <1>5, <2>1, <2>2, ZenonT(30) DEF TypeOK, WorkerEvent
<1>6. CASE WorkerSend(w)
  <2>1. worker[w].job \in Job /\ worker[w].sent \in Nat /\ worker[w].msg \in Message
    BY <1>1, <1>6 DEF TypeOK, WorkerSend, WorkerState
  <2>2. results' \in Seq(Message)
    BY <1>6, <2>1, AppendType DEF TypeOK, WorkerSend
  <2> QED BY <1>3, <1>6, <2>1, <2>2 DEF TypeOK, WorkerSend
<1>7. ASSUME NEW outcome \in {"best", "none", "error"}, WorkerSendClosed(w, outcome)
      PROVE  TypeOK'
  <2>1. worker[w].job \in Job
    BY <1>1, <1>7 DEF TypeOK, WorkerSendClosed
  <2>2. CompletedMsg(worker[w].job, outcome, TRUE) \in Message
    BY <1>2, <2>1
  <2> QED BY <1>3, <1>7, <2>1, <2>2 DEF TypeOK, WorkerSendClosed
<1>8. ASSUME NEW outcome \in {"best", "none", "error"}, WorkerFinish(w, outcome)
      PROVE  TypeOK'
  <2>1. worker[w].job \in Job
    BY <1>1, <1>8 DEF TypeOK, WorkerFinish
  <2>2. PICK truncated \in {FALSE, IsCancelled(worker[w].job)} :
          SetWorker(w, "completing", worker[w].job,
                    CompletedMsg(worker[w].job, outcome, truncated), 0)
    BY <1>8 DEF WorkerFinish
  <2>3. truncated \in BOOLEAN
    BY DEF IsCancelled
  <2>4. CompletedMsg(worker[w].job, outcome, truncated) \in Message
    BY <1>2, <2>1, <2>3
  <2> QED BY <1>3, <1>8, <2>1, <2>2, <2>4, ZenonT(30) DEF TypeOK, WorkerFinish
<1>9. CASE WorkerComplete(w)
  <2>1. worker[w].msg \in Message
    BY <1>1, <1>9 DEF TypeOK, WorkerComplete
  <2>2. results' \in Seq(Message)
    BY <1>9, <2>1, AppendType DEF TypeOK, WorkerComplete
  <2> QED BY <1>3, <1>9, <2>2 DEF TypeOK, WorkerComplete
<1> QED
  BY <1>4, <1>5, <1>6, <1>7, <1>8, <1>9 DEF WorkerNext

\* The helpers of the coordinator's handlers keep their variables typed.
LEMMA HelperTypes ==
  ASSUME TypeOK
  PROVE  /\ \A id \in live : id \in Ids /\ entries[id] \in Entry
         /\ \A ids \in SUBSET Ids :
              EnqueuePending(ids) => pending' \in Seq(Ids) /\ pending_set' \subseteq Ids
         /\ \A ids \in SUBSET Ids, queue \in Seq(Ids) :
              CancelTokens(ids, queue) => cancelled' \subseteq Ids /\ cleanup' \in Seq(Ids)
         /\ \A ids \in SUBSET live : CancelActive(ids) => jobCancelled' \subseteq Ids \X Nat
<1>1. \A id \in live : id \in Ids /\ entries[id] \in Entry
  BY DEF TypeOK, live
<1>2. ASSUME NEW ids \in SUBSET Ids, EnqueuePending(ids)
      PROVE  pending' \in Seq(Ids) /\ pending_set' \subseteq Ids
  <2>1. PICK new \in InOrder(ids \ pending_set) : pending' = pending \o new
    BY <1>2 DEF EnqueuePending
  <2>2. new \in Seq(Ids)
    BY InOrderType, SeqMonotonic, ids \ pending_set \in SUBSET Ids
  <2> QED BY <1>2, <2>1, <2>2, ConcatProperties DEF TypeOK, EnqueuePending
<1>3. ASSUME NEW ids \in SUBSET Ids, NEW queue \in Seq(Ids), CancelTokens(ids, queue)
      PROVE  cancelled' \subseteq Ids /\ cleanup' \in Seq(Ids)
  <2>1. PICK first \in InOrder(ids \ cancelled) : cleanup' = queue \o first
    BY <1>3 DEF CancelTokens
  <2>2. first \in Seq(Ids)
    BY InOrderType, SeqMonotonic, ids \ cancelled \in SUBSET Ids
  <2> QED BY <1>3, <2>1, <2>2, ConcatProperties DEF TypeOK, CancelTokens
<1>4. ASSUME NEW ids \in SUBSET live, CancelActive(ids)
      PROVE  jobCancelled' \subseteq Ids \X Nat
  <2>1. ASSUME NEW id \in ids, entries[id].active # None
        PROVE  <<id, entries[id].active.job>> \in Ids \X Nat
    BY <1>1, <2>1 DEF Entry, Stamp
  <2> QED BY <1>4, <2>1 DEF TypeOK, CancelActive
<1> QED BY <1>1, <1>2, <1>3, <1>4

LEMMA SnapshotTypes ==
  /\ \A e \in Entry, source \in Nat : PendingSnapshot(e, source) \in Snapshot
  /\ \A e \in Entry, source \in Nat, quote \in Quote \cup {None} :
       SearchingSnapshot(e, source, quote) \in Snapshot
  /\ \A kind \in WatchKinds, source \in Nat, epoch \in Nat, quote \in Quote \cup {None} :
       FinalSnapshot(kind, source, epoch, quote) \in Snapshot
  /\ \A m \in Message : QuoteOf(m) \in Quote
  BY DEF PendingSnapshot, SearchingSnapshot, FinalSnapshot, QuoteOf, Snapshot, Entry,
         WatchKinds, Message, Quote, Stamp

LEMMA EntryTypes ==
  ASSUME NEW e \in Entry
  PROVE  /\ Invalidated(e) \in Entry
         /\ \A spec \in Specs : Replaced(e, spec) \in Entry
         /\ \A stamp \in Stamp : Submitted(e, stamp) \in Entry
<1>1. e.epoch + 1 \in Nat /\ e.next_job + 1 \in Nat
  BY DEF Entry
<1>2. Invalidated(e) \in Entry
  BY DEF Invalidated, Entry
<1>3. ASSUME NEW spec \in Specs PROVE Replaced(e, spec) \in Entry
  BY <1>1 DEF Replaced, Entry
<1>4. ASSUME NEW stamp \in Stamp PROVE Submitted(e, stamp) \in Entry
  BY <1>1 DEF Submitted, Entry
<1> QED BY <1>2, <1>3, <1>4

LEMMA TypeActor ==
  TypeOK /\ ActorNext => TypeOK'
<1> SUFFICES ASSUME TypeOK, ActorNext PROVE TypeOK'
  OBVIOUS
<1> USE DEF ammVars, clientVars, controlVars, tableVars, pendingVars, workVars, tokenVars,
            ActorUnchanged
<1>1. \A id \in live : id \in Ids /\ entries[id] \in Entry
  BY HelperTypes
<1>2. ASSUME ApplyCommit
      PROVE  /\ view' \in Nat /\ entries' \in [Ids -> Entry \cup {None}]
             /\ watch' \in [Ids -> Snapshot] /\ jobCancelled' \subseteq Ids \X Nat
             /\ pending' \in Seq(Ids) /\ pending_set' \subseteq Ids
  <2>1. view + 1 \in Nat
    BY DEF TypeOK
  <2>2. \A e \in Entry : Invalidated(e) \in Entry
    BY EntryTypes
  <2>3. entries' \in [Ids -> Entry \cup {None}]
    BY <1>1, <1>2, <2>2 DEF TypeOK, ApplyCommit
  <2>4. watch' \in [Ids -> Snapshot]
    BY <1>1, <1>2, <2>1, SnapshotTypes DEF TypeOK, ApplyCommit
  <2>5. {id \in live : entries[id].active = None} \in SUBSET Ids
    BY <1>1
  <2> QED BY <1>2, <2>1, <2>3, <2>4, <2>5, HelperTypes DEF ApplyCommit
<1>3. CASE HandleCommit
  <2>1. CASE ApplyCommit /\ EndTurn(IF streak < MaxCommitBurst THEN streak + 1 ELSE streak)
    BY <1>2, <1>3, <2>1 DEF TypeOK, HandleCommit, EndTurn, ApplyCommit
  <2>2. CASE BreakLoop(TRUE)
    BY <1>3, <2>2 DEF TypeOK, HandleCommit, BreakLoop
  <2> QED BY <1>3, <2>1, <2>2 DEF HandleCommit
<1>4. CASE HandleClosed
  BY <1>4 DEF TypeOK, HandleClosed, BreakLoop
<1>5. ASSUME NEW op, Receive(op)
      PROVE  Head(commands) \in Command /\ commands' \in Seq(Command)
  BY <1>5, TailType DEF TypeOK, Receive
<1>6. CASE HandleSubscribe
  <2>1. Head(commands) \in Command /\ commands' \in Seq(Command) /\ Head(commands).op = "subscribe"
    BY <1>5, <1>6 DEF HandleSubscribe, Receive
  <2>2. CASE SubscribeRefused
    BY <1>6, <2>1, <2>2 DEF TypeOK, HandleSubscribe, Receive, EndTurn
  <2>3. CASE ~SubscribeRefused
    <3> DEFINE id == next_subscription
               e == [spec |-> Head(commands).spec, epoch |-> 0, next_job |-> 0,
                     active |-> None, dirty |-> TRUE, last_ready |-> None]
    <3>1. id \in Ids /\ next_subscription + 1 \in 0 .. MaxSubscribes
      BY <2>3, BoundAssumption DEF TypeOK, SubscribeRefused, Ids
    <3>2. e \in Entry
      BY <2>1 DEF Entry, Command
    <3>3. EnqueuePending({id}) /\ watch' = [watch EXCEPT ![id] = PendingSnapshot(e, view)]
          /\ entries' = [entries EXCEPT ![id] = e] /\ next_subscription' = next_subscription + 1
      BY <1>6, <2>3 DEF HandleSubscribe
    <3>4. PendingSnapshot(e, view) \in Snapshot
      BY <3>2, SnapshotTypes DEF TypeOK
    <3>5. pending' \in Seq(Ids) /\ pending_set' \subseteq Ids
      BY <3>1, <3>3, HelperTypes, {id} \in SUBSET Ids
    <3>6. handle' \in [Ids -> {"none", "held", "dropped"}] /\ cancelled' \subseteq Ids
          /\ cleanup' \in Seq(Ids)
      <4>1. cleanup \o <<id, id>> \in Seq(Ids)
        BY <3>1, ConcatProperties, <<id, id>> \in Seq(Ids) DEF TypeOK
      <4> HIDE DEF id
      <4> QED BY <1>6, <2>3, <3>1, <4>1 DEF TypeOK, HandleSubscribe, id
    <3> HIDE DEF e
    <3> QED BY <1>6, <2>1, <3>1, <3>2, <3>3, <3>4, <3>5, <3>6
            DEF TypeOK, HandleSubscribe, Receive, EndTurn
  <2> QED BY <2>2, <2>3
<1>7. ASSUME NEW id, NEW queue \in Seq(Ids), CancelSubscription(id, queue),
             commands' \in Seq(Command), UNCHANGED results, ActorUnchanged
      PROVE  TypeOK'
  <2>1. CASE id \in live
    <3>1. FinalSnapshot("Cancelled", view, entries[id].epoch, None) \in Snapshot
      BY <1>1, <2>1, SnapshotTypes DEF TypeOK, Entry, WatchKinds
    <3>2. cancelled' \subseteq Ids /\ cleanup' \in Seq(Ids) /\ jobCancelled' \subseteq Ids \X Nat
      BY <1>1, <1>7, <2>1, HelperTypes, {id} \in SUBSET Ids, {id} \in SUBSET live
         DEF CancelSubscription
    <3> QED BY <1>1, <1>7, <2>1, <3>1, <3>2 DEF TypeOK, CancelSubscription, EndTurn, Removed
  <2>2. CASE id \notin live
    BY <1>7, <2>2 DEF TypeOK, CancelSubscription, EndTurn
  <2> QED BY <2>1, <2>2
<1>8. CASE HandleCancel
  BY <1>5, <1>7, <1>8 DEF HandleCancel, Receive, TypeOK
<1>9. CASE HandleCleanup
  <2>1. Tail(cleanup) \in Seq(Ids)
    BY <1>9, TailType DEF HandleCleanup, TakesCleanup, CleanupReady, TypeOK
  <2> QED BY <1>7, <1>9, <2>1 DEF HandleCleanup, TypeOK
<1>10. CASE HandleReplace
  <2> DEFINE id == Head(commands).id
             e == Replaced(entries[id], Head(commands).spec)
  <2>1. Head(commands) \in Command /\ commands' \in Seq(Command) /\ Head(commands).op = "replace"
    BY <1>5, <1>10 DEF HandleReplace, Receive
  <2>2. CASE id \in live
    <3>1. e \in Entry
      <4>1. Head(commands).spec \in Specs
        BY <2>1 DEF Command
      <4>2. entries[id] \in Entry
        BY <1>1, <2>2
      <4> QED BY <4>1, <4>2, EntryTypes
    <3>2. PendingSnapshot(e, view) \in Snapshot
      BY <3>1, SnapshotTypes DEF TypeOK
    <3>3. CancelActive({id}) /\ entries' = [entries EXCEPT ![id] = e]
          /\ watch' = [watch EXCEPT ![id] = PendingSnapshot(e, view)]
          /\ (EnqueuePending({id}) \/ UNCHANGED pendingVars)
      BY <1>10, <2>2 DEF HandleReplace
    <3>4. /\ jobCancelled' \subseteq Ids \X Nat
          /\ pending' \in Seq(Ids) /\ pending_set' \subseteq Ids
      BY <1>1, <2>2, <3>3, HelperTypes, {id} \in SUBSET Ids, {id} \in SUBSET live DEF TypeOK
    <3>5. /\ EndTurn(0) /\ ActorUnchanged
          /\ UNCHANGED <<view, next_subscription, handle, cleanup, jobs, results,
                         resultsOpen, cancelled>>
      BY <1>10 DEF HandleReplace, Receive
    <3> HIDE DEF e, id
    <3> QED BY <2>1, <3>1, <3>2, <3>3, <3>4, <3>5 DEF TypeOK, EndTurn
  <2>3. CASE id \notin live
    BY <1>10, <2>1, <2>3 DEF TypeOK, HandleReplace, EndTurn, Receive
  <2> QED BY <2>2, <2>3
<1>11. CASE HandleShutdown
  BY <1>5, <1>11 DEF TypeOK, HandleShutdown, BreakLoop, Receive
<1>12. CASE SelectWorker
  BY <1>12, TailType DEF TypeOK, SelectWorker, TakesWorker, WorkerReady
<1>13. CASE DrainNoCommit
  BY <1>13 DEF TypeOK, DrainNoCommit
<1>14. CASE DrainOneCommit
  <2>1. CASE ApplyCommit /\ pc' = "message" /\ UNCHANGED <<input, streak, failed>>
    BY <1>2, <1>14, <2>1 DEF TypeOK, DrainOneCommit, ApplyCommit
  <2>2. CASE BreakLoop(TRUE)
    BY <1>14, <2>2 DEF TypeOK, DrainOneCommit, BreakLoop
  <2> QED BY <1>14, <2>1, <2>2 DEF DrainOneCommit
<1>15. CASE HandleEvent
  <2>1. input \in Message
    BY <1>15 DEF TypeOK, HandleEvent, Delivered
  <2>2. watch' \in [Ids -> Snapshot]
    <3>1. CASE Accepts(input.stamp) /\ input.outcome = "best"
      <4>1. SearchingSnapshot(entries[input.stamp.sub], input.stamp.source, QuoteOf(input))
              \in Snapshot
        BY <1>1, <2>1, <3>1, SnapshotTypes DEF Accepts, Message, Stamp
      <4> QED BY <1>15, <3>1, <4>1 DEF HandleEvent, TypeOK
    <3>2. CASE ~(Accepts(input.stamp) /\ input.outcome = "best")
      BY <1>15, <3>2 DEF HandleEvent, TypeOK
    <3> QED BY <3>1, <3>2
  <2> QED BY <1>15, <2>2 DEF TypeOK, HandleEvent, EndTurn
<1>16. CASE HandleCompleted
  <2> DEFINE id == input.stamp.sub
             best == IF input.outcome = "best" THEN QuoteOf(input) ELSE None
             settled == [entries[id] EXCEPT !.active = None]
  <2>1. input \in Message
    BY <1>16 DEF TypeOK, HandleCompleted, Delivered
  <2>2. input.stamp.source \in Nat /\ input.stamp.epoch \in Nat /\ best \in Quote \cup {None}
    BY <2>1, SnapshotTypes DEF Message, Stamp
  <2>3. CASE id \notin live \/ (id \in live /\ entries[id].active # input.stamp)
    BY <1>16, <2>3 DEF TypeOK, HandleCompleted, EndTurn
  <2>4. CASE id \in live /\ entries[id].active = input.stamp
    <3>1. entries[id] \in Entry /\ id \in Ids
      BY <1>1, <2>4
    <3>2. /\ settled \in Entry
          /\ [settled EXCEPT !.last_ready = best] \in Entry
          /\ [settled EXCEPT !.dirty = id \notin cancelled] \in Entry
      <4> HIDE DEF best, id
      <4> QED BY <2>2, <3>1 DEF Entry
    <3>3. CASE Stale(input.stamp)
      <4>1. (EnqueuePending({id}) \/ UNCHANGED pendingVars) /\ UNCHANGED watch
            /\ entries' = [entries EXCEPT ![id] = [settled EXCEPT !.dirty = id \notin cancelled]]
        BY <1>16, <2>4, <3>3 DEF HandleCompleted
      <4>2. pending' \in Seq(Ids) /\ pending_set' \subseteq Ids
        BY <3>1, <4>1, HelperTypes, {id} \in SUBSET Ids DEF TypeOK
      <4> HIDE DEF settled, id
      <4> QED BY <1>16, <3>1, <3>2, <4>1, <4>2 DEF TypeOK, HandleCompleted, EndTurn
    <3>4. CASE ~Stale(input.stamp) /\ input.outcome = "error"
      <4>1. FinalSnapshot("Failed", input.stamp.source, input.stamp.epoch, None) \in Snapshot
        BY <2>2, SnapshotTypes DEF WatchKinds
      <4>2. /\ entries' = [entries EXCEPT ![id] = settled] /\ UNCHANGED pendingVars
            /\ watch' = [watch EXCEPT ![id] =
                 FinalSnapshot("Failed", input.stamp.source, input.stamp.epoch, None)]
        BY <1>16, <2>4, <3>4 DEF HandleCompleted
      <4> HIDE DEF settled, id
      <4> QED BY <1>16, <3>1, <3>2, <4>1, <4>2 DEF TypeOK, HandleCompleted, EndTurn
    <3>5. CASE ~Stale(input.stamp) /\ input.outcome # "error"
      <4>1. FinalSnapshot("Ready", input.stamp.source, input.stamp.epoch, best) \in Snapshot
        BY <2>2, SnapshotTypes DEF WatchKinds
      <4>2. /\ entries' = [entries EXCEPT ![id] = [settled EXCEPT !.last_ready = best]]
            /\ UNCHANGED pendingVars
            /\ watch' = [watch EXCEPT ![id] =
                 FinalSnapshot("Ready", input.stamp.source, input.stamp.epoch, best)]
        BY <1>16, <2>4, <3>5 DEF HandleCompleted
      <4> HIDE DEF settled, id, best
      <4> QED BY <1>16, <3>1, <3>2, <4>1, <4>2 DEF TypeOK, HandleCompleted, EndTurn
    <3> QED BY <3>3, <3>4, <3>5
  <2> QED BY <2>3, <2>4
<1>17. CASE ScheduleDone
  BY <1>17 DEF TypeOK, ScheduleDone, ScheduleUnchanged
<1>18. CASE ScheduleSkip
  BY <1>18, TailType DEF TypeOK, ScheduleSkip, ScheduleUnchanged
<1>19. CASE ScheduleSubmit
  <2> DEFINE id == Head(pending)
             e == Submitted(entries[id], NextStamp(id))
  <2>1. id \in Ids /\ Tail(pending) \in Seq(Ids) /\ entries[id] \in Entry
    BY <1>1, <1>19, TailType DEF TypeOK, ScheduleSubmit, Schedulable
  <2>2. NextStamp(id) \in Stamp
    BY <2>1 DEF NextStamp, Stamp, Entry, TypeOK
  <2>3. e \in Entry
    BY <2>1, <2>2, EntryTypes
  <2>4. [stamp |-> NextStamp(id), spec |-> entries[id].spec] \in Job
    BY <2>1, <2>2 DEF Job, Entry
  <2>5. SearchingSnapshot(e, view, None) \in Snapshot
    BY <2>3, SnapshotTypes DEF TypeOK
  <2>6. /\ jobs' = Append(jobs, [stamp |-> NextStamp(id), spec |-> entries[id].spec])
        /\ entries' = [entries EXCEPT ![id] = e]
        /\ watch' = [watch EXCEPT ![id] = SearchingSnapshot(e, view, None)]
        /\ pending' = Tail(pending) /\ pending_set' = pending_set \ {id}
        /\ UNCHANGED pc /\ ScheduleUnchanged
    BY <1>19 DEF ScheduleSubmit
  <2>7. jobs' \in Seq(Job \cup {None})
    BY <2>4, <2>6, AppendType DEF TypeOK
  <2> HIDE DEF e, id
  <2> QED BY <2>1, <2>3, <2>5, <2>6, <2>7 DEF TypeOK, ScheduleUnchanged
<1>20. CASE ScheduleRefused
  <2>1. pending' \in Seq(Ids)
    BY <1>20, TailType, AppendType DEF TypeOK, ScheduleRefused
  <2> QED BY <1>20, <2>1 DEF TypeOK, ScheduleRefused, ScheduleUnchanged
<1>21. CASE Close
  <2>1. /\ cancelled' \subseteq Ids /\ cleanup' \in Seq(Ids) /\ jobCancelled' \subseteq Ids \X Nat
    BY <1>1, <1>21, HelperTypes, live \in SUBSET Ids DEF Close, TypeOK
  <2>2. watch' \in [Ids -> Snapshot]
    <3>1. \A id \in live : \A kind \in {"RuntimeFailed", "Closed"} :
            FinalSnapshot(kind, view, entries[id].epoch, None) \in Snapshot
      BY <1>1, SnapshotTypes DEF TypeOK, Entry, WatchKinds
    <3> QED BY <1>21, <3>1 DEF Close, TypeOK
  <2> QED BY <1>21, <2>1, <2>2 DEF TypeOK, Close, CloseResults
<1>22. CASE SendPill
  BY <1>22, AppendType, SMTT(30) DEF TypeOK, SendPill
<1>23. CASE JoinDone
  BY <1>23 DEF TypeOK, JoinDone, ScheduleUnchanged
<1> QED
  BY <1>3, <1>4, <1>6, <1>8, <1>9, <1>10, <1>11, <1>12, <1>13, <1>14, <1>15, <1>16,
     <1>17, <1>18, <1>19, <1>20, <1>21, <1>22, <1>23 DEF ActorNext

\* Type correctness of the live route runtime.
THEOREM TypeCorrect == Spec => []TypeOK
<1>1. Init => TypeOK
  <2>1. FinalSnapshot("Absent", 0, 0, None) \in Snapshot
    BY SnapshotTypes DEF WatchKinds
  <2>2. 0 \in 0 .. MaxSubscribes
    BY BoundAssumption
  <2>3. [st |-> "idle", job |-> None, msg |-> None, sent |-> 0] \in WorkerState
    BY DEF WorkerState
  <2>4. Init => /\ worker \in [Workers -> WorkerState]
                /\ \A w \in Workers : worker[w].st = "idle"
    BY <2>3 DEF Init
  <2>5. Init => /\ watch \in [Ids -> Snapshot] /\ entries \in [Ids -> Entry \cup {None}]
                /\ handle \in [Ids -> {"none", "held", "dropped"}]
    BY <2>1 DEF Init
  <2>6. Init => /\ pc \in {"select", "drain", "message", "schedule", "closing", "joining", "exited"}
                /\ input \in Message \cup {None} /\ pc \notin {"drain", "message"}
    BY DEF Init
  <2>7. Init => /\ commands \in Seq(Command) /\ cleanup \in Seq(Ids) /\ pending \in Seq(Ids)
                /\ jobs \in Seq(Job \cup {None}) /\ results \in Seq(Message)
    BY DEF Init
  <2>8. Init => published \in Nat /\ calls \in Nat /\ streak \in Nat /\ pills \in Nat /\ view \in Nat
    BY DEF Init
  <2> QED BY <2>2, <2>4, <2>5, <2>6, <2>7, <2>8 DEF Init, TypeOK
<1>2. TypeOK /\ [Next]_vars => TypeOK'
  <2>1. ASSUME TypeOK, UNCHANGED vars PROVE TypeOK'
    BY <2>1 DEF TypeOK, vars, ammVars, clientVars, controlVars, tableVars, pendingVars,
                workVars, tokenVars
  <2> QED BY <2>1, TypeActor, TypeClients, TypeWorkers DEF Next, Terminated
<1> QED
  BY <1>1, <1>2, PTL DEF Spec

------------------------------------------------------------------------------
\* How a step may change the table: entries are added under new ids, and an
\* entry's request changes only with its epoch, which grows.
TableStep(t1, n1, t2, n2) ==
  /\ n1 <= n2
  /\ \A id \in Ids : t2[id] # None =>
       \/ n1 <= id
       \/ /\ t1[id] # None
          /\ t1[id].epoch <= t2[id].epoch
          /\ t1[id].epoch = t2[id].epoch => t1[id].spec = t2[id].spec

\* What fitted the table before such a step fits it afterwards.
LEMMA FitsStable ==
  ASSUME NEW c, c.stamp \in Stamp, NEW n1 \in Nat, NEW n2 \in Nat,
         NEW t1 \in [Ids -> Entry \cup {None}], NEW t2 \in [Ids -> Entry \cup {None}],
         TableStep(t1, n1, t2, n2), Fits(c, t1, n1)
  PROVE  Fits(c, t2, n2)
<1> DEFINE id == c.stamp.sub
<1>1. id \in Ids /\ id \in Nat /\ c.stamp.epoch \in Nat
  BY BoundAssumption DEF Stamp, Ids
<1>2. id < n1 /\ id < n2
  BY <1>1 DEF Fits, TableStep
<1>3. ASSUME t2[id] # None
      PROVE  /\ c.stamp.epoch <= t2[id].epoch
             /\ c.stamp.epoch = t2[id].epoch => c.spec = t2[id].spec
  <2>1. /\ t1[id] # None /\ t1[id].epoch <= t2[id].epoch
        /\ t1[id].epoch = t2[id].epoch => t1[id].spec = t2[id].spec
    BY <1>1, <1>2, <1>3 DEF TableStep
  <2>2. t1[id].epoch \in Nat /\ t2[id].epoch \in Nat
    BY <1>1, <1>3, <2>1 DEF Entry
  <2>3. /\ c.stamp.epoch <= t1[id].epoch
        /\ c.stamp.epoch = t1[id].epoch => c.spec = t1[id].spec
    BY <2>1 DEF Fits
  <2> HIDE DEF id
  <2> QED BY <1>1, <2>1, <2>2, <2>3
<1> QED BY <1>2, <1>3 DEF Fits

LEMMA ExcusedStable ==
  ASSUME NEW m, NEW c1, NEW c2, NEW jc1, NEW jc2, c1 \subseteq c2, jc1 \subseteq jc2,
         Excused(m, c1, jc1)
  PROVE  Excused(m, c2, jc2)
  BY DEF Excused

LEMMA FenceClients ==
  ASSUME TypeOK, IInv, ClientNext \/ AmmNext
  PROVE  IInv'
<1> USE DEF ammVars, clientVars, controlVars, tableVars, pendingVars, workVars, tokenVars
<1>1. /\ UNCHANGED <<jobs, results, resultsOpen, worker, pc, input, view, entries,
                     next_subscription, watch, jobCancelled>>
      /\ cancelled \subseteq cancelled'
  BY DEF ClientNext, AmmNext, SendSubscribe, SendReplace, SendUnsubscribe, SendShutdown,
         Send, RequestCancel, TokenCancel, CancelTokens, DropSubscription, DropHandle,
         PublishCommit, StopStream, ClientUnchanged
<1>2. TruncatedInv'
  BY <1>1, ExcusedStable DEF IInv, TruncatedInv, HasInput
<1>3. CargoInv' /\ TokenInv' /\ FenceInv'
  BY <1>1 DEF IInv, CargoInv, TokenInv, FenceInv, WatchCurrent, QuoteAnswersRequest, live,
              HasInput
<1> QED BY <1>2, <1>3 DEF IInv

LEMMA FenceWorkers ==
  ASSUME TypeOK, IInv, NEW w \in Workers, WorkerNext(w)
  PROVE  IInv'
<1> USE DEF ammVars, clientVars, controlVars, tableVars, pendingVars, workVars, tokenVars,
            WorkerUnchanged, SetWorker
<1> DEFINE F(c) == Fits(c, entries, next_subscription)
           X(m) == Excused(m, cancelled, jobCancelled)
<1>1. UNCHANGED <<resultsOpen, pc, input, view, entries, next_subscription, watch, cancelled,
                  jobCancelled>>
  BY DEF WorkerNext, WorkerTake, WorkerEvent, WorkerSend, WorkerSendClosed, WorkerFinish,
         WorkerComplete
<1>2. TokenInv' /\ FenceInv'
  BY <1>1 DEF IInv, TokenInv, FenceInv, WatchCurrent, QuoteAnswersRequest, live
<1>3. worker \in [Workers -> WorkerState] /\ worker[w] \in WorkerState
  BY DEF TypeOK
\* A message a worker makes of its job fits if the job does.
<1>4. ASSUME NEW job, NEW m, F(job), m.stamp = job.stamp, m.spec = job.spec
      PROVE  F(m)
  BY <1>4 DEF Fits
<1>5. \A v \in Workers : v # w => worker'[v] = worker[v]
  BY <1>3 DEF WorkerNext, WorkerTake, WorkerEvent, WorkerSend, WorkerSendClosed, WorkerFinish,
              WorkerComplete
\* It is enough that what the step puts into the worker and the queues fits.
<1>6. ASSUME HasJob(worker'[w].st) => F(worker'[w].job),
             HasMsg(worker'[w].st) => F(worker'[w].msg),
             HasMsg(worker'[w].st) /\ resultsOpen => X(worker'[w].msg),
             \A i \in DOMAIN jobs' : jobs'[i] # None => F(jobs'[i]),
             \A i \in DOMAIN results' : F(results'[i]) /\ X(results'[i])
      PROVE  IInv'
  <2>1. \A v \in Workers : /\ HasJob(worker'[v].st) => F(worker'[v].job)
                           /\ HasMsg(worker'[v].st) => F(worker'[v].msg)
                           /\ HasMsg(worker'[v].st) /\ resultsOpen => X(worker'[v].msg)
    BY <1>5, <1>6 DEF IInv, CargoInv, TruncatedInv
  <2> QED BY <1>1, <1>2, <1>6, <2>1 DEF IInv, CargoInv, TruncatedInv, HasInput
<1>7. /\ \A i \in DOMAIN jobs : jobs[i] # None => F(jobs[i])
      /\ \A i \in DOMAIN results : F(results[i]) /\ X(results[i])
      /\ HasJob(worker[w].st) => F(worker[w].job)
      /\ HasMsg(worker[w].st) => F(worker[w].msg)
      /\ HasMsg(worker[w].st) /\ resultsOpen => X(worker[w].msg)
  BY DEF IInv, CargoInv, TruncatedInv
<1>8. CASE WorkerTake(w)
  <2> DEFINE job == Head(jobs)
  <2>1. \A i \in DOMAIN jobs' : jobs'[i] # None => F(jobs'[i])
    <3> HIDE DEF F
    <3> QED BY <1>7, <1>8, TailType DEF TypeOK, WorkerTake
  <2>2. job # None => F(job)
    <3> HIDE DEF F
    <3> QED BY <1>7, <1>8, TailType DEF TypeOK, WorkerTake
  <2>3. \A i \in DOMAIN results' : F(results'[i]) /\ X(results'[i])
    BY <1>7, <1>8 DEF WorkerTake
  <2>4. CASE job = None
    <3>1. worker'[w].st = "exited"
      BY <1>3, <1>8, <2>4 DEF WorkerTake
    <3> HIDE DEF F, X
    <3> QED BY <1>6, <2>1, <2>3, <3>1 DEF HasJob, HasMsg
  <2>5. CASE job # None /\ IsCancelled(job)
    <3>0. SetWorker(w, "completing", job, CompletedMsg(job, "error", TRUE), 0)
      BY <1>8, <2>5, Zenon DEF WorkerTake
    <3>1. worker'[w].job = job /\ worker'[w].msg = CompletedMsg(job, "error", TRUE)
      BY <1>3, <3>0
    <3>2. F(worker'[w].msg)
      BY <2>2, <2>5, <3>1 DEF Fits, CompletedMsg
    <3>3. X(worker'[w].msg)
      BY <2>5, <3>1 DEF IsCancelled, Excused, CompletedMsg
    <3> HIDE DEF F, X, job
    <3> QED BY <1>6, <2>1, <2>2, <2>3, <2>5, <3>1, <3>2, <3>3
  <2>6. CASE job # None /\ ~IsCancelled(job)
    <3>1. worker'[w].st = "searching" /\ worker'[w].job = job
      BY <1>3, <1>8, <2>6 DEF WorkerTake
    <3> HIDE DEF F, X, job
    <3> QED BY <1>6, <2>1, <2>2, <2>3, <2>6, <3>1 DEF HasMsg
  <2> QED BY <2>4, <2>5, <2>6
<1>9. ASSUME NEW outcome, WorkerEvent(w, outcome) PROVE IInv'
  <2>1. F(worker[w].job) /\ UNCHANGED <<jobs, results>>
    BY <1>7, <1>9 DEF WorkerEvent, HasJob
  <2>2. worker'[w].job = worker[w].job /\ worker'[w].msg = EventMsg(worker[w].job, outcome)
    BY <1>3, <1>9 DEF WorkerEvent
  <2>3. F(worker'[w].msg) /\ X(worker'[w].msg)
    BY <2>1, <2>2 DEF Fits, Excused, EventMsg
  <2> HIDE DEF F, X
  <2> QED BY <1>6, <1>7, <2>1, <2>2, <2>3
<1>10. CASE WorkerSend(w)
  <2>1. F(worker[w].job) /\ F(worker[w].msg) /\ X(worker[w].msg) /\ worker[w].msg \in Message
    BY <1>7, <1>10 DEF WorkerSend, HasJob, HasMsg, TypeOK
  <2>2. worker'[w].st = "searching" /\ worker'[w].job = worker[w].job /\ UNCHANGED jobs
        /\ results' = Append(results, worker[w].msg)
    BY <1>3, <1>10 DEF WorkerSend
  <2> HIDE DEF F, X
  <2>3. \A i \in DOMAIN results' : F(results'[i]) /\ X(results'[i])
    BY <1>7, <2>1, <2>2, AppendType DEF TypeOK
  <2> QED BY <1>6, <1>7, <2>1, <2>2, <2>3 DEF HasMsg
<1>11. ASSUME NEW outcome, WorkerSendClosed(w, outcome) PROVE IInv'
  <2>1. F(worker[w].job) /\ ~resultsOpen /\ UNCHANGED <<jobs, results>>
    BY <1>7, <1>11 DEF WorkerSendClosed, HasJob
  <2>2. worker'[w].job = worker[w].job /\ worker'[w].msg = CompletedMsg(worker[w].job, outcome, TRUE)
    BY <1>3, <1>11 DEF WorkerSendClosed
  <2>3. F(worker'[w].msg)
    BY <2>1, <2>2 DEF Fits, CompletedMsg
  <2> HIDE DEF F, X
  <2> QED BY <1>6, <1>7, <2>1, <2>2, <2>3
<1>12. ASSUME NEW outcome, WorkerFinish(w, outcome) PROVE IInv'
  <2>1. F(worker[w].job) /\ UNCHANGED <<jobs, results>>
    BY <1>7, <1>12 DEF WorkerFinish, HasJob
  <2>2. PICK truncated \in {FALSE, IsCancelled(worker[w].job)} :
          SetWorker(w, "completing", worker[w].job,
                    CompletedMsg(worker[w].job, outcome, truncated), 0)
    BY <1>12, Zenon DEF WorkerFinish
  <2>3. /\ worker'[w].job = worker[w].job
        /\ worker'[w].msg = CompletedMsg(worker[w].job, outcome, truncated)
    <3> DEFINE m == CompletedMsg(worker[w].job, outcome, truncated)
    <3>1. SetWorker(w, "completing", worker[w].job, m, 0)
      BY <2>2, Zenon
    <3> HIDE DEF m
    <3>2. worker'[w].job = worker[w].job /\ worker'[w].msg = m
      BY <1>3, <3>1
    <3> QED BY <3>2, Zenon DEF m
  <2>4. worker'[w].msg.stamp = worker[w].job.stamp
    BY <2>3 DEF CompletedMsg
  <2>5. CompletedMsg(worker[w].job, outcome, truncated).truncated = truncated
    BY Zenon DEF CompletedMsg
  <2>6. worker'[w].msg.truncated = truncated
    BY <2>3, <2>5, Zenon
  <2>7. truncated => IsCancelled(worker[w].job)
    BY <2>2, Zenon
  <2>8. F(worker'[w].msg)
    BY <2>1, <2>3 DEF Fits, CompletedMsg
  <2>9. X(worker'[w].msg)
    BY <2>4, <2>6, <2>7, Zenon DEF IsCancelled, Excused
  <2> HIDE DEF F, X
  <2> QED BY <1>6, <1>7, <2>1, <2>8, <2>9, <2>3
<1>13. CASE WorkerComplete(w)
  <2>1. F(worker[w].msg) /\ (resultsOpen => X(worker[w].msg)) /\ worker[w].msg \in Message
    BY <1>7, <1>13 DEF WorkerComplete, HasMsg, TypeOK
  <2>2. worker'[w].st = "idle" /\ UNCHANGED jobs
        /\ results' = IF resultsOpen THEN Append(results, worker[w].msg) ELSE results
    BY <1>3, <1>13 DEF WorkerComplete
  <2> HIDE DEF F, X
  <2>3. \A i \in DOMAIN results' : F(results'[i]) /\ X(results'[i])
    BY <1>7, <2>1, <2>2, AppendType DEF TypeOK
  <2> QED BY <1>6, <1>7, <2>2, <2>3 DEF HasJob, HasMsg
<1> QED
  BY <1>8, <1>9, <1>10, <1>11, <1>12, <1>13 DEF WorkerNext

\* What the queues, the workers and the input hold after a step of the coordinator
\* was there before, or is a new job that fits the new table.
CargoMoves ==
  /\ \A i \in DOMAIN jobs' : jobs'[i] # None =>
       \/ \E k \in DOMAIN jobs : jobs'[i] = jobs[k]
       \/ Fits(jobs'[i], entries', next_subscription')
  /\ \A i \in DOMAIN results' : \E k \in DOMAIN results : results'[i] = results[k]
  /\ HasInput' => \/ HasInput /\ input' = input
                  \/ \E k \in DOMAIN results : input' = results[k]
  /\ UNCHANGED worker /\ (resultsOpen' => resultsOpen)
  /\ cancelled \subseteq cancelled' /\ jobCancelled \subseteq jobCancelled'

LEMMA CargoStep ==
  ASSUME TypeOK, TypeOK', IInv, CargoMoves,
         TableStep(entries, next_subscription, entries', next_subscription')
  PROVE  CargoInv' /\ TruncatedInv'
<1>1. ASSUME NEW c, c.stamp \in Stamp, Fits(c, entries, next_subscription)
      PROVE  Fits(c, entries', next_subscription')
  <2>1. next_subscription \in Nat /\ next_subscription' \in Nat
    BY BoundAssumption DEF TypeOK
  <2> QED BY <1>1, <2>1, FitsStable DEF TypeOK
<1>2. \A i \in DOMAIN jobs' : jobs'[i] # None => Fits(jobs'[i], entries', next_subscription')
  <2>1. \A k \in DOMAIN jobs : jobs[k] # None => jobs[k].stamp \in Stamp
    <3>1. jobs \in Seq(Job \cup {None})
      BY DEF TypeOK
    <3>2. \A k \in DOMAIN jobs : jobs[k] \in Job \cup {None}
      BY <3>1
    <3> QED BY <3>2 DEF Job
  <2> QED BY <1>1, <2>1 DEF IInv, CargoInv, CargoMoves
<1>3. /\ \A k \in DOMAIN results : results[k].stamp \in Stamp
      /\ HasInput => input.stamp \in Stamp
  <2>1. \A m \in Message : m.stamp \in Stamp
    BY DEF Message
  <2>2. \A k \in DOMAIN results : results[k] \in Message
    <3>1. results \in Seq(Message)
      BY DEF TypeOK
    <3> QED BY <3>1
  <2>3. HasInput => input \in Message
    BY DEF TypeOK, HasInput
  <2> QED BY <2>1, <2>2, <2>3
<1>4. \A i \in DOMAIN results' : Fits(results'[i], entries', next_subscription')
  BY <1>1, <1>3 DEF IInv, CargoInv, CargoMoves
<1>5. HasInput' => Fits(input', entries', next_subscription')
  BY <1>1, <1>3 DEF IInv, CargoInv, CargoMoves
<1>6. ASSUME NEW w \in Workers
      PROVE  /\ HasJob(worker[w].st) => Fits(worker[w].job, entries', next_subscription')
             /\ HasMsg(worker[w].st) => Fits(worker[w].msg, entries', next_subscription')
  <2>1. /\ HasJob(worker[w].st) => worker[w].job.stamp \in Stamp
        /\ HasMsg(worker[w].st) => worker[w].msg.stamp \in Stamp
    BY DEF TypeOK, HasJob, HasMsg, Job, Message
  <2> QED BY <1>1, <2>1 DEF IInv, CargoInv
<1>7. CargoInv'
  BY <1>2, <1>4, <1>5, <1>6 DEF CargoInv, CargoMoves
<1>8. TruncatedInv'
  BY ExcusedStable DEF IInv, TruncatedInv, CargoMoves
<1> QED BY <1>7, <1>8

\* A step that changes no entry is a table step.
LEMMA SameTable ==
  ASSUME TypeOK, UNCHANGED <<entries, next_subscription>>
  PROVE  TableStep(entries, next_subscription, entries', next_subscription')
<1>1. \A id \in Ids : entries[id] # None => entries[id].epoch \in Nat
  BY DEF TypeOK, Entry
<1>2. next_subscription \in Nat
  BY BoundAssumption DEF TypeOK
<1> QED BY <1>1, <1>2 DEF TableStep

LEMMA StillStep ==
  ASSUME TypeOK, TypeOK', IInv, CargoMoves,
         UNCHANGED <<entries, next_subscription, view, watch, jobCancelled>>
  PROVE  IInv'
<1>1. CargoInv' /\ TruncatedInv'
  BY CargoStep, SameTable
<1>2. TokenInv' /\ FenceInv'
  BY DEF IInv, TokenInv, FenceInv, WatchCurrent, QuoteAnswersRequest, live
<1> QED BY <1>1, <1>2 DEF IInv

\* A step that rewrites one entry, keeping its request unless its epoch grows.
LEMMA OneEntryStep ==
  ASSUME TypeOK, TypeOK', NEW id \in live, NEW e \in Entry,
         entries' = [entries EXCEPT ![id] = e], UNCHANGED next_subscription,
         entries[id].epoch <= e.epoch,
         entries[id].epoch = e.epoch => entries[id].spec = e.spec
  PROVE  TableStep(entries, next_subscription, entries', next_subscription')
<1>1. \A i \in Ids : entries[i] # None => entries[i].epoch \in Nat
  BY DEF TypeOK, Entry
<1>2. next_subscription \in Nat
  BY BoundAssumption DEF TypeOK
<1>3. \A i \in Ids : entries'[i] = IF i = id THEN e ELSE entries[i]
  BY DEF TypeOK, live
<1> QED BY <1>1, <1>2, <1>3 DEF TableStep, live

LEMMA FenceStill ==
  ASSUME TypeOK, TypeOK', IInv,
         HandleClosed \/ HandleShutdown \/ SelectWorker \/ DrainNoCommit \/ ScheduleDone
         \/ ScheduleSkip \/ ScheduleRefused \/ SendPill \/ JoinDone
  PROVE  IInv'
<1> USE DEF ammVars, clientVars, controlVars, tableVars, pendingVars, workVars, tokenVars,
            ActorUnchanged, HasInput
<1>1. CASE HandleClosed
  BY <1>1, StillStep DEF HandleClosed, BreakLoop, CargoMoves
<1>2. CASE HandleShutdown
  BY <1>2, StillStep DEF HandleShutdown, Receive, BreakLoop, CargoMoves
<1>3. CASE SelectWorker
  <2>1. CargoMoves
    BY <1>3, TailType DEF SelectWorker, CargoMoves, TakesWorker, WorkerReady, TypeOK
  <2> QED BY <1>3, <2>1, StillStep DEF SelectWorker
<1>4. CASE DrainNoCommit
  BY <1>4, StillStep DEF DrainNoCommit, CargoMoves
<1>5. CASE ScheduleDone
  BY <1>5, StillStep DEF ScheduleDone, ScheduleUnchanged, CargoMoves
<1>6. CASE ScheduleSkip
  BY <1>6, StillStep DEF ScheduleSkip, ScheduleUnchanged, CargoMoves
<1>7. CASE ScheduleRefused
  BY <1>7, StillStep DEF ScheduleRefused, ScheduleUnchanged, CargoMoves
<1>8. CASE SendPill
  <2>1. CargoMoves
    BY <1>8, AppendType DEF SendPill, CargoMoves, TypeOK
  <2> QED BY <1>8, <2>1, StillStep DEF SendPill
<1>9. CASE JoinDone
  BY <1>9, StillStep DEF JoinDone, ScheduleUnchanged, CargoMoves
<1> QED BY <1>1, <1>2, <1>3, <1>4, <1>5, <1>6, <1>7, <1>8, <1>9

LEMMA FenceCommit ==
  ASSUME TypeOK, TypeOK', IInv, ApplyCommit, UNCHANGED <<results, worker>>,
         HasInput' => HasInput /\ input' = input
  PROVE  IInv'
<1> USE DEF ammVars, clientVars, controlVars, tableVars, pendingVars, workVars, tokenVars
<1>1. /\ view' = view + 1 /\ view \in Nat /\ UNCHANGED next_subscription
      /\ \A id \in live : id \in Ids /\ entries[id] \in Entry
      /\ jobCancelled \subseteq jobCancelled'
  BY HelperTypes DEF ApplyCommit, TypeOK, CancelActive
<1>2. \A id \in Ids : entries'[id] = IF id \in live THEN Invalidated(entries[id]) ELSE None
  BY DEF ApplyCommit, live
<1>3. \A e \in Entry : /\ Invalidated(e).epoch = e.epoch /\ Invalidated(e).spec = e.spec
                      /\ Invalidated(e).active = e.active
                      /\ Invalidated(e).next_job = e.next_job
                      /\ e.epoch \in Nat /\ e.next_job \in Nat
  BY DEF Invalidated, Entry
<1>4. live' \subseteq live
  BY <1>2 DEF live
<1>5. TableStep(entries, next_subscription, entries', next_subscription')
  BY <1>1, <1>2, <1>3, BoundAssumption, SMTT(30) DEF TableStep, TypeOK, live
<1>6. CargoInv' /\ TruncatedInv'
  BY <1>1, <1>5, CargoStep DEF CargoMoves, ApplyCommit
<1>7. TokenInv'
  <2>1. \A id \in live' : id < next_subscription'
    BY <1>1, <1>4 DEF IInv, TokenInv
  <2>2. ASSUME NEW id \in live' PROVE AttemptOK(id, entries'[id], view', jobCancelled')
    <3>1. /\ id \in live /\ entries[id] \in Entry /\ AttemptOK(id, entries[id], view, jobCancelled)
          /\ entries'[id].active = entries[id].active
          /\ entries'[id].next_job = entries[id].next_job
          /\ entries'[id].epoch = entries[id].epoch
      BY <1>1, <1>2, <1>3, <1>4 DEF IInv, TokenInv
    <3>2. entries[id].active # None => entries[id].active.source \in Nat
      BY <3>1 DEF Entry, Stamp
    <3> QED BY <1>1, <3>1, <3>2 DEF AttemptOK
  <2>3. ASSUME NEW id \in Ids, NEW j \in Nat, <<id, j>> \in jobCancelled'
        PROVE  id < next_subscription' /\ (id \in live' => j < entries'[id].next_job)
    <3>1. CASE <<id, j>> \in jobCancelled
      BY <1>1, <1>2, <1>3, <1>4, <3>1 DEF IInv, TokenInv
    <3>2. CASE id \in live /\ entries[id].active # None /\ j = entries[id].active.job
      <4>1. id < next_subscription /\ entries[id].active.job < entries[id].next_job
        BY <3>2 DEF IInv, TokenInv, AttemptOK
      <4>2. entries'[id].next_job = entries[id].next_job
        BY <1>1, <1>2, <1>3, <3>2
      <4> QED BY <1>1, <3>2, <4>1, <4>2
    <3> QED BY <2>3, <3>1, <3>2 DEF ApplyCommit, CancelActive
  <2> QED BY <2>1, <2>2, <2>3 DEF TokenInv
<1>8. FenceInv'
  <2>1. ASSUME NEW id \in live'
        PROVE  watch'[id].source = view' /\ watch'[id].epoch = entries'[id].epoch
               /\ watch'[id].quote = None
    <3>1. watch'[id] = PendingSnapshot(entries[id], view + 1)
      BY <1>1, <1>4 DEF ApplyCommit
    <3> QED BY <1>1, <1>2, <1>3, <1>4, <3>1 DEF PendingSnapshot
  <2> QED BY <2>1 DEF FenceInv, WatchCurrent, QuoteAnswersRequest
<1> QED BY <1>6, <1>7, <1>8 DEF IInv

\* A handler that rewrites the entry and the watch of one subscription.
LEMMA OneEntryFence ==
  ASSUME TypeOK, TypeOK', IInv, CargoMoves, NEW id \in live, NEW e \in Entry,
         entries' = [entries EXCEPT ![id] = e], UNCHANGED <<view, next_subscription>>,
         entries[id].epoch <= e.epoch,
         entries[id].epoch = e.epoch => entries[id].spec = e.spec,
         entries[id].next_job <= e.next_job,
         \A i \in Ids, j \in Nat : <<i, j>> \in jobCancelled' =>
           <<i, j>> \in jobCancelled \/ (i = id /\ j < e.next_job),
         AttemptOK(id, e, view, jobCancelled'),
         \A i \in Ids : i # id => watch'[i] = watch[i],
         watch'[id].source = view, watch'[id].epoch = e.epoch,
         watch'[id].quote # None =>
           watch'[id].quote = [source |-> view, epoch |-> e.epoch, spec |-> e.spec]
  PROVE  IInv'
<1>1. \A i \in Ids : entries'[i] = IF i = id THEN e ELSE entries[i]
  BY DEF TypeOK, live
<1>2. id \in Ids /\ live' \subseteq live /\ id < next_subscription
  BY <1>1 DEF live, IInv, TokenInv
<1>3. CargoInv' /\ TruncatedInv'
  BY CargoStep, OneEntryStep
<1>4. TokenInv'
  <2>1. \A i \in live' : i < next_subscription'
    BY <1>2 DEF IInv, TokenInv
  <2>2. ASSUME NEW i \in live' PROVE AttemptOK(i, entries'[i], view', jobCancelled')
    <3>1. CASE i = id
      BY <1>1, <1>2, <3>1
    <3>2. CASE i # id
      <4>1. /\ i \in Ids /\ i \in live /\ entries'[i] = entries[i]
            /\ entries[i] \in Entry
            /\ AttemptOK(i, entries[i], view, jobCancelled)
        BY <1>1, <1>2, <3>2 DEF IInv, TokenInv, live, TypeOK
      <4>2. entries[i].active # None => entries[i].active.job \in Nat
        BY <4>1 DEF Entry, Stamp
      <4> QED BY <3>2, <4>1, <4>2 DEF AttemptOK
    <3> QED BY <3>1, <3>2
  <2>3. ASSUME NEW i \in Ids, NEW j \in Nat, <<i, j>> \in jobCancelled'
        PROVE  i < next_subscription' /\ (i \in live' => j < entries'[i].next_job)
    <3>1. CASE i = id /\ j < e.next_job
      BY <1>1, <1>2, <3>1
    <3>2. CASE <<i, j>> \in jobCancelled
      <4>1. i < next_subscription /\ (i \in live => j < entries[i].next_job)
        BY <3>2 DEF IInv, TokenInv
      <4>2. entries[id].next_job \in Nat /\ e.next_job \in Nat
        BY HelperTypes DEF Entry
      <4> QED BY <1>1, <1>2, <4>1, <4>2
    <3> QED BY <2>3, <3>1, <3>2
  <2> QED BY <2>1, <2>2, <2>3 DEF TokenInv
<1>5. FenceInv'
  <2>1. ASSUME NEW i \in live'
        PROVE  /\ watch'[i].source = view' /\ watch'[i].epoch = entries'[i].epoch
               /\ watch'[i].quote # None => watch'[i].quote =
                    [source |-> view', epoch |-> entries'[i].epoch, spec |-> entries'[i].spec]
    <3>1. i \in Ids /\ i \in live
      BY <1>2 DEF live
    <3>2. CASE i = id
      BY <1>1, <3>1, <3>2
    <3>3. CASE i # id
      BY <1>1, <3>1, <3>3 DEF IInv, FenceInv, WatchCurrent, QuoteAnswersRequest
    <3> QED BY <3>2, <3>3
  <2> QED BY <2>1 DEF FenceInv, WatchCurrent, QuoteAnswersRequest
<1> QED BY <1>3, <1>4, <1>5 DEF IInv

LEMMA FenceReplace ==
  ASSUME TypeOK, TypeOK', IInv, HandleReplace
  PROVE  IInv'
<1> USE DEF ammVars, clientVars, controlVars, tableVars, pendingVars, workVars, tokenVars,
            ActorUnchanged
<1> DEFINE id == Head(commands).id
           spec == Head(commands).spec
           e == Replaced(entries[id], spec)
<1>1. UNCHANGED <<jobs, results, worker, resultsOpen, view, next_subscription, cancelled>>
      /\ ~HasInput'
  BY DEF HandleReplace, Receive, EndTurn, HasInput
<1>2. CASE id \notin live
  BY <1>1, <1>2, StillStep DEF HandleReplace, CargoMoves
<1>3. CASE id \in live
  <2>1. /\ CancelActive({id}) /\ entries' = [entries EXCEPT ![id] = e]
        /\ watch' = [watch EXCEPT ![id] = PendingSnapshot(e, view)]
    BY <1>3 DEF HandleReplace
  <2>2. entries[id] \in Entry /\ id \in Ids /\ spec \in Specs
    <3>1. Head(commands) \in Command /\ Head(commands).op = "replace"
      BY TailType DEF HandleReplace, Receive, TypeOK
    <3> QED BY <1>3, <3>1, HelperTypes DEF Command
  <2>3. e \in Entry
    BY <2>2, EntryTypes
  <2>4. /\ e.epoch = entries[id].epoch + 1 /\ e.active = entries[id].active
        /\ e.next_job = entries[id].next_job /\ entries[id].epoch \in Nat
        /\ entries[id].next_job \in Nat
    BY <2>2 DEF Replaced, Entry
  <2>5. AttemptOK(id, entries[id], view, jobCancelled)
    BY <1>3 DEF IInv, TokenInv
  <2>6. entries[id].active # None =>
          entries[id].active.epoch \in Nat /\ entries[id].active.job \in Nat
    BY <2>2 DEF Entry, Stamp
  <2>7. AttemptOK(id, e, view, jobCancelled')
    <3> HIDE DEF e, id
    <3> QED BY <2>4, <2>5, <2>6 DEF AttemptOK
  <2>8. /\ jobCancelled \subseteq jobCancelled'
        /\ \A i \in Ids, j \in Nat : <<i, j>> \in jobCancelled' =>
             <<i, j>> \in jobCancelled \/ (i = id /\ j < e.next_job)
    <3> HIDE DEF e, id
    <3> QED BY <2>1, <2>4, <2>5 DEF AttemptOK, CancelActive
  <2>9. watch'[id] = PendingSnapshot(e, view) /\ \A i \in Ids : i # id => watch'[i] = watch[i]
    BY <2>1, <2>2 DEF TypeOK
  <2>10. watch'[id].source = view /\ watch'[id].epoch = e.epoch /\ watch'[id].quote = None
    <3> HIDE DEF e, id
    <3> QED BY <2>9 DEF PendingSnapshot
  <2>11. CargoMoves
    BY <1>1, <2>8 DEF CargoMoves
  <2>12. /\ entries[id].epoch <= e.epoch /\ entries[id].next_job <= e.next_job
         /\ entries[id].epoch = e.epoch => entries[id].spec = e.spec
    <3> HIDE DEF e, id
    <3> QED BY <2>4
  <2>13. watch'[id].quote # None =>
           watch'[id].quote = [source |-> view, epoch |-> e.epoch, spec |-> e.spec]
    BY <2>10
  <2> HIDE DEF e, id
  <2> QED BY <1>1, <1>3, <2>1, <2>3, <2>7, <2>8, <2>9, <2>10, <2>11, <2>12, <2>13, OneEntryFence
<1> QED BY <1>2, <1>3

\* A step that removes subscriptions and publishes nothing for the others.
LEMMA RemoveFence ==
  ASSUME TypeOK, TypeOK', IInv, CargoMoves, UNCHANGED <<view, next_subscription>>,
         live' \subseteq live,
         \A i \in live' : entries'[i] = entries[i] /\ watch'[i] = watch[i],
         \A i \in Ids, j \in Nat : <<i, j>> \in jobCancelled' =>
           <<i, j>> \in jobCancelled \/ (i \in live /\ i \notin live')
  PROVE  IInv'
<1>1. \A i \in live : i \in Ids /\ entries[i] \in Entry /\ entries[i].epoch \in Nat
  BY HelperTypes DEF Entry
<1>2. TableStep(entries, next_subscription, entries', next_subscription')
  BY <1>1, BoundAssumption, SMTT(30) DEF TableStep, TypeOK, live
<1>3. CargoInv' /\ TruncatedInv'
  BY <1>2, CargoStep
<1>4. TokenInv'
  <2>1. ASSUME NEW i \in live' PROVE AttemptOK(i, entries'[i], view', jobCancelled')
    <3>1. AttemptOK(i, entries[i], view, jobCancelled)
      BY DEF IInv, TokenInv
    <3>2. entries[i].active # None => entries[i].active.job \in Nat
      BY <1>1 DEF Entry, Stamp
    <3> QED BY <1>1, <3>1, <3>2 DEF AttemptOK
  <2> QED BY <2>1 DEF IInv, TokenInv
<1>5. FenceInv'
  BY DEF IInv, FenceInv, WatchCurrent, QuoteAnswersRequest
<1> QED BY <1>3, <1>4, <1>5 DEF IInv

LEMMA FenceCancel ==
  ASSUME TypeOK, TypeOK', IInv, HandleCancel \/ HandleCleanup
  PROVE  IInv'
<1> USE DEF ammVars, clientVars, controlVars, tableVars, pendingVars, workVars, tokenVars,
            ActorUnchanged
<1>1. PICK id, queue : CancelSubscription(id, queue)
  BY DEF HandleCancel, HandleCleanup
<1>2. /\ UNCHANGED <<jobs, results, worker, resultsOpen, view, next_subscription>>
      /\ ~HasInput'
  BY <1>1 DEF HandleCancel, HandleCleanup, Receive, CancelSubscription, EndTurn, HasInput
<1>3. CASE id \notin live
  BY <1>1, <1>2, <1>3, StillStep DEF CancelSubscription, CargoMoves
<1>4. CASE id \in live
  <2>1. /\ entries' = [entries EXCEPT ![id] = None] /\ CancelActive({id})
        /\ \A i \in Ids : i # id => watch'[i] = watch[i]
        /\ cancelled \subseteq cancelled'
    BY <1>1, <1>4 DEF CancelSubscription, Removed, CancelTokens, TypeOK
  <2>2. \A i \in Ids : entries'[i] = IF i = id THEN None ELSE entries[i]
    BY <2>1 DEF TypeOK
  <2>3. /\ live' \subseteq live /\ id \notin live'
        /\ \A i \in live' : entries'[i] = entries[i] /\ watch'[i] = watch[i]
    BY <2>1, <2>2 DEF live
  <2>4. /\ jobCancelled \subseteq jobCancelled'
        /\ \A i \in Ids, j \in Nat : <<i, j>> \in jobCancelled' =>
             <<i, j>> \in jobCancelled \/ (i \in live /\ i \notin live')
    BY <1>4, <2>1, <2>3 DEF CancelActive
  <2> QED BY <1>2, <2>1, <2>3, <2>4, RemoveFence DEF CargoMoves
<1> QED BY <1>3, <1>4

LEMMA FenceClose ==
  ASSUME TypeOK, TypeOK', IInv, Close
  PROVE  IInv'
<1> USE DEF ammVars, clientVars, controlVars, tableVars, pendingVars, workVars, tokenVars,
            ActorUnchanged
<1>1. live' = {}
  BY DEF Close, live
<1>2. CargoMoves
  BY DEF CargoMoves, Close, CloseResults, CancelTokens, CancelActive, HasInput
<1>3. \A i \in Ids, j \in Nat : <<i, j>> \in jobCancelled' =>
        <<i, j>> \in jobCancelled \/ i \in live
  BY DEF Close, CancelActive
<1> QED BY <1>1, <1>2, <1>3, RemoveFence DEF Close

LEMMA FenceSubscribe ==
  ASSUME TypeOK, TypeOK', IInv, HandleSubscribe
  PROVE  IInv'
<1> USE DEF ammVars, clientVars, controlVars, tableVars, pendingVars, workVars, tokenVars,
            ActorUnchanged
<1> DEFINE id == next_subscription
           e == [spec |-> Head(commands).spec, epoch |-> 0, next_job |-> 0,
                 active |-> None, dirty |-> TRUE, last_ready |-> None]
<1>1. /\ UNCHANGED <<jobs, results, worker, resultsOpen, view, jobCancelled>>
      /\ cancelled \subseteq cancelled' /\ ~HasInput'
  BY DEF HandleSubscribe, Receive, EndTurn, HasInput
<1>2. CargoMoves
  BY <1>1 DEF CargoMoves
<1>3. CASE SubscribeRefused
  BY <1>1, <1>2, <1>3, StillStep DEF HandleSubscribe
<1>4. CASE ~SubscribeRefused
  <2>1. /\ next_subscription' = id + 1 /\ entries' = [entries EXCEPT ![id] = e]
        /\ watch' = [watch EXCEPT ![id] = PendingSnapshot(e, view)]
    BY <1>4 DEF HandleSubscribe
  <2>2. id \in Ids /\ id \in Nat
    BY <1>4, BoundAssumption DEF TypeOK, SubscribeRefused, Ids
  <2>3. \A i \in Ids : /\ entries'[i] = IF i = id THEN e ELSE entries[i]
                       /\ watch'[i] = IF i = id THEN PendingSnapshot(e, view) ELSE watch[i]
    BY <2>1, <2>2 DEF TypeOK
  <2>4. live' \subseteq live \cup {id} /\ (\A i \in live : i \in Ids /\ i \in Nat /\ i < id)
    <3>1. \A i \in live : i \in Ids /\ i < id
      BY DEF live, IInv, TokenInv
    <3>2. live' \subseteq live \cup {id}
      BY <2>3 DEF live
    <3> QED BY <3>1, <3>2, BoundAssumption DEF Ids
  <2>5. TableStep(entries, next_subscription, entries', next_subscription')
    <3>1. \A i \in Ids : entries[i] # None => entries[i].epoch \in Nat
      BY DEF TypeOK, Entry
    <3> HIDE DEF e
    <3> QED BY <2>1, <2>2, <2>3, <3>1 DEF TableStep
  <2>6. CargoInv' /\ TruncatedInv'
    BY <1>2, <2>5, CargoStep
  <2>7. TokenInv'
    <3>1. \A i \in live' : i < next_subscription'
      BY <2>1, <2>2, <2>4
    <3>2. \A i \in live' : AttemptOK(i, entries'[i], view', jobCancelled')
      BY <1>1, <2>2, <2>3, <2>4 DEF IInv, TokenInv, AttemptOK
    <3>3. ASSUME NEW i \in Ids, NEW j \in Nat, <<i, j>> \in jobCancelled'
          PROVE  i < next_subscription' /\ (i \in live' => j < entries'[i].next_job)
      <4>1. i < id /\ (i \in live => j < entries[i].next_job)
        BY <1>1, <3>3 DEF IInv, TokenInv
      <4>2. i \in Nat
        BY BoundAssumption DEF Ids
      <4> HIDE DEF e
      <4> QED BY <2>1, <2>2, <2>3, <2>4, <4>1, <4>2
    <3> QED BY <3>1, <3>2, <3>3 DEF TokenInv
  <2>8. FenceInv'
    <3>1. ASSUME NEW i \in live'
          PROVE  /\ watch'[i].source = view' /\ watch'[i].epoch = entries'[i].epoch
                 /\ watch'[i].quote # None => watch'[i].quote =
                      [source |-> view', epoch |-> entries'[i].epoch, spec |-> entries'[i].spec]
      <4>1. CASE i = id
        BY <1>1, <2>2, <2>3, <4>1 DEF PendingSnapshot
      <4>2. CASE i # id
        <5>1. i \in live /\ i \in Ids /\ entries'[i] = entries[i] /\ watch'[i] = watch[i]
          BY <2>3, <2>4, <4>2 DEF live
        <5> QED BY <1>1, <5>1 DEF IInv, FenceInv, WatchCurrent, QuoteAnswersRequest
      <4> QED BY <4>1, <4>2
    <3> QED BY <3>1 DEF FenceInv, WatchCurrent, QuoteAnswersRequest
  <2> QED BY <2>6, <2>7, <2>8 DEF IInv
<1> QED BY <1>3, <1>4

\* A handler that settles or decorates entry id without cancelling anything: e keeps
\* the request and the epoch, and its attempt is the old one or none.
LEMMA SettleFence ==
  ASSUME TypeOK, TypeOK', IInv, CargoMoves, NEW id \in live, NEW e \in Entry,
         entries' = [entries EXCEPT ![id] = e],
         UNCHANGED <<view, next_subscription, jobCancelled>>,
         e.epoch = entries[id].epoch, e.spec = entries[id].spec,
         e.next_job = entries[id].next_job, e.active \in {entries[id].active, None},
         \A i \in Ids : i # id => watch'[i] = watch[i],
         watch'[id].source = view, watch'[id].epoch = e.epoch,
         watch'[id].quote # None =>
           watch'[id].quote = [source |-> view, epoch |-> e.epoch, spec |-> e.spec]
  PROVE  IInv'
<1>1. AttemptOK(id, entries[id], view, jobCancelled)
  BY DEF IInv, TokenInv
<1>2. AttemptOK(id, e, view, jobCancelled')
  BY <1>1 DEF AttemptOK
<1>3. entries[id].epoch <= e.epoch /\ entries[id].next_job <= e.next_job
  BY DEF Entry
<1>4. \A i \in Ids, j \in Nat : <<i, j>> \in jobCancelled' =>
        <<i, j>> \in jobCancelled \/ (i = id /\ j < e.next_job)
  OBVIOUS
<1> QED BY <1>2, <1>3, <1>4, OneEntryFence

\* What is known of the message being handled when its attempt is the active one.
LEMMA InputFacts ==
  ASSUME TypeOK, IInv, pc = "message", input.stamp.sub \in live
  PROVE  /\ input \in Message /\ input.stamp \in Stamp
         /\ entries[input.stamp.sub] \in Entry
         /\ entries[input.stamp.sub].epoch = input.stamp.epoch =>
              entries[input.stamp.sub].spec = input.spec
<1>1. input \in Message /\ Fits(input, entries, next_subscription)
  BY DEF TypeOK, IInv, CargoInv, HasInput
<1>2. entries[input.stamp.sub] # None
  BY DEF live
<1> QED BY <1>1, <1>2, HelperTypes DEF Fits, Message

LEMMA FenceEvent ==
  ASSUME TypeOK, TypeOK', IInv, HandleEvent
  PROVE  IInv'
<1> USE DEF ammVars, clientVars, controlVars, tableVars, pendingVars, workVars, tokenVars,
            ActorUnchanged
<1> DEFINE id == input.stamp.sub
           snap == SearchingSnapshot(entries[id], input.stamp.source, QuoteOf(input))
<1>1. /\ UNCHANGED <<jobs, results, worker, resultsOpen, view, entries, next_subscription,
                     cancelled, jobCancelled>>
      /\ ~HasInput' /\ pc = "message"
  BY DEF HandleEvent, EndTurn, HasInput, Delivered
<1>2. CargoMoves
  BY <1>1 DEF CargoMoves
<1>3. CASE ~(Accepts(input.stamp) /\ input.outcome = "best")
  <2>1. UNCHANGED watch
    BY <1>3 DEF HandleEvent
  <2> QED BY <1>1, <1>2, <2>1, StillStep
<1>4. CASE Accepts(input.stamp) /\ input.outcome = "best"
  <2>1. /\ id \in live /\ input.stamp.source = view /\ entries[id].epoch = input.stamp.epoch
    BY <1>4 DEF Accepts
  <2>2. entries[id] \in Entry /\ id \in Ids /\ entries[id].spec = input.spec
    BY <1>1, <2>1, InputFacts DEF live
  <2>3. watch' = [watch EXCEPT ![id] = snap]
    BY <1>4 DEF HandleEvent
  <2>4. watch'[id] = snap /\ \A i \in Ids : i # id => watch'[i] = watch[i]
    BY <2>2, <2>3 DEF TypeOK
  <2>5. /\ watch'[id].source = view /\ watch'[id].epoch = entries[id].epoch
        /\ watch'[id].quote =
             [source |-> view, epoch |-> entries[id].epoch, spec |-> entries[id].spec]
    BY <2>1, <2>2, <2>4 DEF SearchingSnapshot, QuoteOf
  <2>6. entries' = [entries EXCEPT ![id] = entries[id]]
    BY <1>1 DEF TypeOK
  <2> HIDE DEF id, snap
  <2> QED BY <1>1, <1>2, <2>1, <2>2, <2>4, <2>5, <2>6, SettleFence
<1> QED BY <1>3, <1>4

LEMMA FenceCompleted ==
  ASSUME TypeOK, TypeOK', IInv, HandleCompleted
  PROVE  IInv'
<1> USE DEF ammVars, clientVars, controlVars, tableVars, pendingVars, workVars, tokenVars,
            ActorUnchanged
<1> DEFINE id == input.stamp.sub
           best == IF input.outcome = "best" THEN QuoteOf(input) ELSE None
           settled == [entries[id] EXCEPT !.active = None]
<1>1. /\ UNCHANGED <<jobs, results, worker, resultsOpen, view, next_subscription, cancelled,
                     jobCancelled>>
      /\ ~HasInput' /\ pc = "message"
  BY DEF HandleCompleted, EndTurn, HasInput, Delivered
<1>2. CargoMoves
  BY <1>1 DEF CargoMoves
<1>3. CASE id \notin live \/ (id \in live /\ entries[id].active # input.stamp)
  <2>1. UNCHANGED <<entries, watch>>
    BY <1>3 DEF HandleCompleted
  <2> QED BY <1>1, <1>2, <2>1, StillStep
<1>4. CASE id \in live /\ entries[id].active = input.stamp
  <2>1. /\ input \in Message /\ entries[id] \in Entry /\ id \in Ids
        /\ entries[id].epoch = input.stamp.epoch => entries[id].spec = input.spec
    BY <1>1, <1>4, InputFacts DEF live
  <2>2. best \in Quote \cup {None}
    BY <2>1 DEF QuoteOf, Quote, Message, Stamp
  \* Whatever the handler makes of the entry, only active, dirty and last_ready differ.
  <2>3. /\ settled \in Entry
        /\ [settled EXCEPT !.last_ready = best] \in Entry
        /\ [settled EXCEPT !.dirty = id \notin cancelled] \in Entry
    <3> HIDE DEF best, id
    <3> QED BY <2>1, <2>2 DEF Entry
  <2>4. \A e \in {settled, [settled EXCEPT !.last_ready = best],
                  [settled EXCEPT !.dirty = id \notin cancelled]} :
          /\ e.epoch = entries[id].epoch /\ e.spec = entries[id].spec
          /\ e.next_job = entries[id].next_job /\ e.active = None
    <3> HIDE DEF best, id
    <3> QED BY <2>1 DEF Entry
  <2>5. CASE Stale(input.stamp)
    <3> DEFINE e == [settled EXCEPT !.dirty = id \notin cancelled]
    <3>1. entries' = [entries EXCEPT ![id] = e] /\ UNCHANGED watch
      BY <1>4, <2>5 DEF HandleCompleted
    <3>2. /\ watch[id].source = view /\ watch[id].epoch = entries[id].epoch
          /\ watch[id].quote # None => watch[id].quote =
               [source |-> view, epoch |-> entries[id].epoch, spec |-> entries[id].spec]
      BY <1>4 DEF IInv, FenceInv, WatchCurrent, QuoteAnswersRequest
    <3>3. /\ e \in Entry /\ e.epoch = entries[id].epoch /\ e.spec = entries[id].spec
          /\ e.next_job = entries[id].next_job /\ e.active = None
      BY <2>3, <2>4
    <3> HIDE DEF e, id
    <3> QED BY <1>1, <1>2, <1>4, <3>1, <3>2, <3>3, SettleFence
  <2>6. CASE ~Stale(input.stamp) /\ input.outcome = "error"
    <3> DEFINE snap == FinalSnapshot("Failed", input.stamp.source, input.stamp.epoch, None)
    <3>1. entries' = [entries EXCEPT ![id] = settled] /\ watch' = [watch EXCEPT ![id] = snap]
      BY <1>4, <2>6 DEF HandleCompleted
    <3>2. watch'[id] = snap /\ \A i \in Ids : i # id => watch'[i] = watch[i]
      BY <2>1, <3>1 DEF TypeOK
    <3>3. /\ watch'[id].source = view /\ watch'[id].epoch = entries[id].epoch
          /\ watch'[id].quote = None
      BY <2>6, <3>2 DEF FinalSnapshot, Stale
    <3>4. /\ settled \in Entry /\ settled.epoch = entries[id].epoch
          /\ settled.spec = entries[id].spec
          /\ settled.next_job = entries[id].next_job /\ settled.active = None
      BY <2>3, <2>4
    <3> HIDE DEF settled, id, snap
    <3> QED BY <1>1, <1>2, <1>4, <3>1, <3>2, <3>3, <3>4, SettleFence
  <2>7. CASE ~Stale(input.stamp) /\ input.outcome # "error"
    <3> DEFINE e == [settled EXCEPT !.last_ready = best]
               snap == FinalSnapshot("Ready", input.stamp.source, input.stamp.epoch, best)
    <3>1. entries' = [entries EXCEPT ![id] = e] /\ watch' = [watch EXCEPT ![id] = snap]
      BY <1>4, <2>7 DEF HandleCompleted
    <3>2. watch'[id] = snap /\ \A i \in Ids : i # id => watch'[i] = watch[i]
      BY <2>1, <3>1 DEF TypeOK
    <3>3. input.stamp.source = view /\ entries[id].epoch = input.stamp.epoch
      BY <2>7 DEF Stale
    <3>4. /\ watch'[id].source = view /\ watch'[id].epoch = entries[id].epoch
          /\ watch'[id].quote = best
      BY <3>2, <3>3 DEF FinalSnapshot
    <3>5. best # None => best =
            [source |-> view, epoch |-> entries[id].epoch, spec |-> entries[id].spec]
      BY <2>1, <3>3 DEF QuoteOf
    <3>6. /\ e \in Entry /\ e.epoch = entries[id].epoch /\ e.spec = entries[id].spec
          /\ e.next_job = entries[id].next_job /\ e.active = None
      BY <2>3, <2>4
    <3> HIDE DEF e, id, snap, best
    <3> QED BY <1>1, <1>2, <1>4, <3>1, <3>2, <3>4, <3>5, <3>6, SettleFence
  <2> QED BY <2>5, <2>6, <2>7
<1> QED BY <1>3, <1>4

LEMMA FenceSubmit ==
  ASSUME TypeOK, TypeOK', IInv, ScheduleSubmit
  PROVE  IInv'
<1> USE DEF ammVars, clientVars, controlVars, tableVars, pendingVars, workVars, tokenVars,
            ActorUnchanged, ScheduleUnchanged
<1> DEFINE id == Head(pending)
           old == entries[id]
           stamp == NextStamp(id)
           e == Submitted(old, stamp)
           job == [stamp |-> stamp, spec |-> old.spec]
<1>1. /\ UNCHANGED <<results, worker, resultsOpen, view, next_subscription, cancelled,
                     jobCancelled>>
      /\ ~HasInput'
  BY DEF ScheduleSubmit, HasInput
<1>2. id \in live /\ id \in Ids /\ old \in Entry
  BY HelperTypes DEF ScheduleSubmit, Schedulable
<1>3. /\ jobs' = Append(jobs, job) /\ entries' = [entries EXCEPT ![id] = e]
      /\ watch' = [watch EXCEPT ![id] = SearchingSnapshot(e, view, None)]
  BY DEF ScheduleSubmit
<1>4. /\ stamp.sub = id /\ stamp.epoch = old.epoch /\ stamp.job = old.next_job
      /\ stamp.source = view /\ stamp \in Stamp
  BY <1>2 DEF NextStamp, Stamp, Entry, TypeOK
<1>5. /\ e.epoch = old.epoch /\ e.spec = old.spec /\ e.next_job = old.next_job + 1
      /\ e.active = stamp /\ old.next_job \in Nat /\ old.epoch \in Nat
  <2> HIDE DEF stamp, old
  <2> QED BY <1>2 DEF Submitted, Entry
<1>6. e \in Entry
  <2> HIDE DEF stamp, old
  <2> QED BY <1>2, <1>4, EntryTypes
<1>7. <<id, old.next_job>> \notin jobCancelled /\ id < next_subscription
  BY <1>2, <1>5 DEF IInv, TokenInv
<1>8. AttemptOK(id, e, view, jobCancelled')
  <2>1. view \in Nat
    BY DEF TypeOK
  <2> HIDE DEF stamp, old, e, id
  <2> QED BY <1>1, <1>4, <1>5, <1>7, <2>1 DEF AttemptOK
<1>9. entries'[id] = e
  BY <1>2, <1>3 DEF TypeOK
<1>10. Fits(job, entries', next_subscription')
  <2>1. job.stamp = stamp /\ job.spec = old.spec
    OBVIOUS
  <2> HIDE DEF job, stamp, old, e, id
  <2> QED BY <1>1, <1>4, <1>5, <1>7, <1>9, <2>1 DEF Fits
<1>11. CargoMoves
  <2>1. job \in Job \cup {None} /\ jobs \in Seq(Job \cup {None})
    BY <1>2, <1>4 DEF Job, Entry, TypeOK
  <2> HIDE DEF job
  <2>2. \A i \in DOMAIN jobs' : jobs'[i] = job \/ \E k \in DOMAIN jobs : jobs'[i] = jobs[k]
    BY <1>3, <2>1, AppendType
  <2> QED BY <1>1, <1>10, <2>2 DEF CargoMoves
<1>12. /\ watch'[id] = SearchingSnapshot(e, view, None)
       /\ \A i \in Ids : i # id => watch'[i] = watch[i]
  BY <1>2, <1>3 DEF TypeOK
<1>13. watch'[id].source = view /\ watch'[id].epoch = e.epoch /\ watch'[id].quote = None
  <2> HIDE DEF e, id
  <2> QED BY <1>12 DEF SearchingSnapshot
<1>14. /\ entries[id].epoch <= e.epoch /\ entries[id].next_job <= e.next_job
       /\ entries[id].epoch = e.epoch => entries[id].spec = e.spec
  <2> HIDE DEF e
  <2> QED BY <1>5
<1>15. \A i \in Ids, j \in Nat : <<i, j>> \in jobCancelled' =>
         <<i, j>> \in jobCancelled \/ (i = id /\ j < e.next_job)
  BY <1>1
<1> HIDE DEF e, id, job, stamp, old
<1> QED BY <1>1, <1>2, <1>3, <1>6, <1>8, <1>11, <1>12, <1>13, <1>14, <1>15, OneEntryFence

\* The two places where a commit is taken from the stream.
LEMMA FenceTakeCommit ==
  ASSUME TypeOK, TypeOK', IInv, HandleCommit \/ DrainOneCommit
  PROVE  IInv'
<1> USE DEF ammVars, clientVars, controlVars, tableVars, pendingVars, workVars, tokenVars,
            ActorUnchanged
<1>1. UNCHANGED <<results, worker>>
  BY DEF HandleCommit, DrainOneCommit
<1>2. CASE BreakLoop(TRUE)
  BY <1>1, <1>2, StillStep DEF BreakLoop, CargoMoves, HasInput
<1>3. CASE ApplyCommit /\ ~BreakLoop(TRUE)
  <2>1. HasInput' => HasInput /\ input' = input
    BY <1>3 DEF HandleCommit, DrainOneCommit, EndTurn, HasInput
  <2> QED BY <1>1, <1>3, <2>1, FenceCommit
<1> QED BY <1>2, <1>3 DEF HandleCommit, DrainOneCommit

\* The inductive invariant holds along every behaviour.
LEMMA FenceInductive == Spec => [](TypeOK /\ IInv)
<1> USE DEF ammVars, clientVars, controlVars, tableVars, pendingVars, workVars, tokenVars
<1>1. Init => IInv
  <2>1. Init => live = {} /\ jobCancelled = {} /\ jobs = <<>> /\ results = <<>>
    BY DEF Init, live
  <2>2. Init => ~HasInput /\ \A w \in Workers : worker[w].st = "idle"
    BY DEF Init, HasInput
  <2> QED BY <2>1, <2>2 DEF IInv, CargoInv, TokenInv, TruncatedInv, FenceInv, WatchCurrent,
                            QuoteAnswersRequest, HasJob, HasMsg
<1>2. TypeOK /\ TypeOK' /\ IInv /\ [Next]_vars => IInv'
  <2>1. ASSUME IInv, UNCHANGED vars PROVE IInv'
    BY <2>1 DEF vars, IInv, CargoInv, TokenInv, TruncatedInv, FenceInv, WatchCurrent,
                QuoteAnswersRequest, HasInput, live
  <2>2. ASSUME TypeOK, TypeOK', IInv, ActorNext PROVE IInv'
    BY <2>2, FenceStill, FenceTakeCommit, FenceSubscribe, FenceCancel, FenceReplace, FenceEvent,
       FenceCompleted, FenceSubmit, FenceClose DEF ActorNext
  <2> QED BY <2>1, <2>2, FenceClients, FenceWorkers DEF Next, Terminated
<1> QED BY <1>1, <1>2, TypeCorrect, PTL DEF Spec

\* No reader of a watch sees a state of an earlier view or of a replaced request:
\* apply_commit and replace_subscription republish before anything else is handled.
THEOREM WatchIsCurrent == Spec => []WatchCurrent
<1>1. IInv => WatchCurrent
  BY DEF IInv, FenceInv
<1> QED BY <1>1, FenceInductive, PTL

\* No late result gets through: a published route answers the current request at the
\* current view, whatever the order of commits, replacements and worker results.
THEOREM QuoteIsCurrent == Spec => []QuoteAnswersRequest
<1>1. IInv => QuoteAnswersRequest
  BY DEF IInv, FenceInv
<1> QED BY <1>1, FenceInductive, PTL

\* A search cut short by a cancellation is never published as Ready or Failed: the
\* attempt token is only ever cancelled together with a new view, a new epoch, the
\* subscription's own token or its removal, and the handler checks all of these.
THEOREM WholeResults == Spec => OnlyWholeResultsPublished
<1> USE DEF ammVars, clientVars, controlVars, tableVars, pendingVars, workVars, tokenVars
<1>1. TypeOK /\ IInv /\ [Next]_vars => [PublishesWholeResults]_watch
  <2> SUFFICES ASSUME TypeOK, IInv, [Next]_vars, watch' # watch
               PROVE  PublishesWholeResults
    OBVIOUS
  <2>1. ActorNext
    <3>1. UNCHANGED vars => UNCHANGED watch
      BY DEF vars
    <3>2. ClientNext \/ AmmNext => UNCHANGED watch
      BY DEF ClientNext, AmmNext, SendSubscribe, SendReplace, SendUnsubscribe, SendShutdown,
             Send, RequestCancel, TokenCancel, DropSubscription, DropHandle,
             PublishCommit, StopStream, ClientUnchanged
    <3>3. \A w \in Workers : WorkerNext(w) => UNCHANGED watch
      BY DEF WorkerNext, WorkerTake, WorkerEvent, WorkerSend, WorkerSendClosed, WorkerFinish,
             WorkerComplete, WorkerUnchanged
    <3> QED BY <3>1, <3>2, <3>3 DEF Next, Terminated
  <2>2. SUFFICES ASSUME NEW i \in Ids, watch'[i] # watch[i],
                        watch'[i].kind \in {"Ready", "Failed"}
                 PROVE  ~input.truncated
    BY DEF PublishesWholeResults
  <2>3. watch \in [Ids -> Snapshot]
    BY DEF TypeOK
  <2>4. HandleCompleted
    <3>1. HandleCommit \/ DrainOneCommit => FALSE
      BY <2>2 DEF HandleCommit, DrainOneCommit, BreakLoop, ApplyCommit, PendingSnapshot
    <3>2. HandleSubscribe \/ HandleReplace => FALSE
      BY <2>2, <2>3 DEF HandleSubscribe, HandleReplace, PendingSnapshot
    <3>3. HandleCancel \/ HandleCleanup => FALSE
      BY <2>2, <2>3 DEF HandleCancel, HandleCleanup, CancelSubscription, FinalSnapshot
    <3>4. HandleEvent \/ ScheduleSubmit => FALSE
      BY <2>2, <2>3 DEF HandleEvent, ScheduleSubmit, SearchingSnapshot
    <3>5. Close => FALSE
      BY <2>2 DEF Close, FinalSnapshot
    <3>6. HandleClosed \/ HandleShutdown \/ SelectWorker \/ DrainNoCommit \/ ScheduleDone
          \/ ScheduleSkip \/ ScheduleRefused \/ SendPill \/ JoinDone => FALSE
      BY <2>2 DEF HandleClosed, HandleShutdown, SelectWorker, DrainNoCommit, ScheduleDone,
                  ScheduleSkip, ScheduleRefused, SendPill, JoinDone, BreakLoop, ScheduleUnchanged
    <3> QED BY <2>1, <3>1, <3>2, <3>3, <3>4, <3>5, <3>6 DEF ActorNext
  <2> DEFINE id == input.stamp.sub
  <2>5. /\ id \in live /\ entries[id].active = input.stamp /\ ~Stale(input.stamp)
        /\ pc = "message"
    BY <2>2, <2>4 DEF HandleCompleted, Delivered
  <2>6. AttemptOK(id, entries[id], view, jobCancelled) /\ Excused(input, cancelled, jobCancelled)
    BY <2>5 DEF IInv, TokenInv, TruncatedInv, HasInput
  <2>7. /\ input.stamp.source = view /\ input.stamp.epoch = entries[id].epoch
        /\ id \notin cancelled /\ view \in Nat /\ entries[id].epoch \in Nat
        /\ entries[id].active # None
    <3>1. input.stamp \in Stamp /\ entries[id] \in Entry
      BY <2>5, InputFacts
    <3>2. view \in Nat /\ entries[id].epoch \in Nat
      BY <3>1 DEF TypeOK, Entry
    <3>3. entries[id].active # None
      BY <2>5, <3>1, NoneAssumption
    <3> QED BY <2>5, <3>2, <3>3 DEF Stale
  <2>8. <<id, input.stamp.job>> \notin jobCancelled
    BY <2>5, <2>6, <2>7 DEF AttemptOK
  <2> QED BY <2>6, <2>7, <2>8 DEF Excused
<1> QED BY <1>1, FenceInductive, PTL DEF Spec, OnlyWholeResultsPublished

------------------------------------------------------------------------------
(* The queues: no subscription is forgotten, each has at most one attempt in
   flight, and its watch only advances *)

\* The deduplicated queue: each pending id once, and pending_set is its content.
PendingInv ==
  /\ \A i, j \in DOMAIN pending : pending[i] = pending[j] => i = j
  /\ pending_set = {pending[i] : i \in DOMAIN pending}

\* The answer q is older than view v or than epoch n.
Older(q, v, n) == q.source < v \/ q.epoch < n

\* Entry e of subscription id at view v, given the pending ids, the cancelled
\* tokens and its watch s. A dirty entry or a running attempt means that the last
\* answer is old, and a dirty entry that its running attempt is.
EntryOK(id, e, v, queued, tokens, s) ==
  /\ e.last_ready # None =>
       /\ e.last_ready.source <= v /\ e.last_ready.epoch <= e.epoch
       /\ e.dirty \/ e.active # None => Older(e.last_ready, v, e.epoch)
  /\ e.active # None /\ e.dirty => Older(e.active, v, e.epoch)
  /\ e.active = None =>
       \/ e.dirty /\ id \in queued
       \/ ~e.dirty /\ (s.kind \in {"Ready", "Failed"} \/ id \in tokens)
  /\ s.previous # None => Older(s.previous, v, e.epoch)
  /\ s.kind \notin {"Cancelled", "Closed", "RuntimeFailed"}

\* Scheduling state; an id that was not issued yet has the initial watch.
SchedInv ==
  /\ PendingInv
  /\ \A id \in live : EntryOK(id, entries[id], view, pending_set, cancelled, watch[id])
  /\ \A id \in Ids : next_subscription <= id =>
       watch[id] = FinalSnapshot("Absent", 0, 0, None)

------------------------------------------------------------------------------
\* The terms of Attempts, by what each counts: jobs in a queue, workers with a job,
\* completed results in a channel, and the message being handled.
JobFor(x, id) == x # None /\ x.stamp.sub = id
DoneFor(m, id) == m.kind = "completed" /\ m.stamp.sub = id

JobsFor(q, id) == Cardinality({i \in DOMAIN q : JobFor(q[i], id)})
WorkersFor(f, id) == Cardinality({w \in Workers : JobFor(f[w].job, id)})
ResultsFor(q, id) == Cardinality({i \in DOMAIN q : DoneFor(q[i], id)})
InputFor(m, id) == IF m # None /\ DoneFor(m, id) THEN 1 ELSE 0

\* A worker holds a job exactly while it works on it, and what it is about to send
\* is about that job: an event while sending, the result while completing.
WorkersInv ==
  /\ \A w \in Workers :
       /\ worker[w].job # None <=> HasJob(worker[w].st)
       /\ HasMsg(worker[w].st) =>
            /\ worker[w].msg.stamp = worker[w].job.stamp
            /\ worker[w].msg.kind = "completed" <=> worker[w].st = "completing"
  /\ input # None <=> HasInput
  /\ ~resultsOpen <=> pc \in {"joining", "exited"}
  /\ ~resultsOpen => live = {}

\* While the loop runs, whatever carries an attempt of a live subscription carries
\* the attempt its entry says is active.
Carried(stamp) == stamp.sub \in live => entries[stamp.sub].active = stamp

CarriersInv ==
  pc # "closing" =>
    /\ \A i \in DOMAIN jobs : jobs[i] # None => Carried(jobs[i].stamp)
    /\ \A w \in Workers : worker[w].job # None => Carried(worker[w].job.stamp)
    /\ \A i \in DOMAIN results : results[i].kind = "completed" => Carried(results[i].stamp)
    /\ input # None /\ input.kind = "completed" => Carried(input.stamp)

AttemptInv == WorkersInv /\ CarriersInv /\ OneAttempt
------------------------------------------------------------------------------
\* The ascending listing of a set of ids lists each member once.
LEMMA InOrderLists ==
  ASSUME NEW S \in SUBSET Ids, NEW s \in InOrder(S)
  PROVE  /\ s \in Seq(S)
         /\ \A i, j \in DOMAIN s : s[i] = s[j] => i = j
         /\ {s[i] : i \in DOMAIN s} = S
<1> DEFINE n == Cardinality(S)
<1>1. IsFiniteSet(S) /\ n \in Nat
  <2>1. IsFiniteSet(Ids)
    BY BoundAssumption, FS_Interval DEF Ids
  <2> QED BY <2>1, FS_Subset, FS_CardinalityType
<1>2. s \in [1 .. n -> S] /\ \A i, j \in 1 .. n : i < j => s[i] < s[j]
  BY DEF InOrder
<1>3. S \subseteq Int
  BY DEF Ids
<1>4. \A i, j \in 1 .. n : s[i] = s[j] => i = j
  <2> SUFFICES ASSUME NEW i \in 1 .. n, NEW j \in 1 .. n, s[i] = s[j], i # j PROVE FALSE
    OBVIOUS
  <2>1. s[i] \in Int /\ s[j] \in Int
    BY <1>2, <1>3
  <2>2. i < j \/ j < i
    BY <1>1
  <2> HIDE DEF n
  <2> QED BY <1>2, <2>1, <2>2
<1>5. \A x \in S : \E i \in 1 .. n : s[i] = x
  <2> SUFFICES ASSUME NEW x \in S, \A i \in 1 .. n : s[i] # x PROVE FALSE
    OBVIOUS
  <2>1. s \in [1 .. n -> S \ {x}]
    BY <1>2
  <2>2. IsFiniteSet(S \ {x}) /\ Cardinality(S \ {x}) = n - 1
    BY <1>1, FS_RemoveElement
  <2>3. IsFiniteSet(1 .. n) /\ Cardinality(1 .. n) = n
    BY <1>1, FS_Interval
  <2>4. Cardinality(S \ {x}) < Cardinality(1 .. n)
    <3> HIDE DEF n
    <3> QED BY <1>1, <2>2, <2>3
  <2> DEFINE A == 1 .. n
             B == S \ {x}
  <2>5. \E i, j \in A : i # j /\ s[i] = s[j]
    <3>1. IsFiniteSet(A) /\ IsFiniteSet(B) /\ Cardinality(B) < Cardinality(A) /\ s \in [A -> B]
      BY <2>1, <2>2, <2>3, <2>4
    <3> HIDE DEF A, B
    <3> QED BY <3>1, FS_PigeonHole
  <2> QED BY <1>4, <2>5
<1>6. s \in Seq(S)
  BY InOrderType
<1>7. DOMAIN s = 1 .. n
  BY <1>2
<1> QED BY <1>2, <1>4, <1>5, <1>6, <1>7

\* enqueue_pending keeps the queue deduplicated and adds exactly ids to it.
LEMMA EnqueueKeeps ==
  ASSUME TypeOK, PendingInv, NEW ids \in SUBSET Ids, EnqueuePending(ids)
  PROVE  PendingInv' /\ pending_set' = pending_set \cup ids
<1>1. PICK new \in InOrder(ids \ pending_set) : pending' = pending \o new
  BY DEF EnqueuePending
<1>2. /\ new \in Seq(Ids)
      /\ \A i, j \in DOMAIN new : new[i] = new[j] => i = j
      /\ {new[i] : i \in DOMAIN new} = ids \ pending_set
  BY InOrderLists, SeqMonotonic, ids \ pending_set \in SUBSET Ids
<1>3. pending \in Seq(Ids)
  BY DEF TypeOK
<1>4. /\ Len(pending) \in Nat /\ Len(new) \in Nat /\ Len(pending') = Len(pending) + Len(new)
      /\ DOMAIN pending = 1 .. Len(pending) /\ DOMAIN new = 1 .. Len(new)
      /\ DOMAIN pending' = 1 .. Len(pending')
      /\ \A i \in 1 .. Len(pending') :
           pending'[i] = IF i <= Len(pending) THEN pending[i] ELSE new[i - Len(pending)]
  BY <1>1, <1>2, <1>3, ConcatProperties, LenProperties
<1>5. pending_set' = pending_set \cup ids
  BY DEF EnqueuePending
<1>6. \A i \in DOMAIN pending : pending[i] \in pending_set
  BY DEF PendingInv
<1>7. \A i \in DOMAIN new : new[i] \in ids /\ new[i] \notin pending_set
  BY <1>2
<1>8. ASSUME NEW i \in DOMAIN pending', NEW j \in DOMAIN pending', pending'[i] = pending'[j]
      PROVE  i = j
  <2>1. i \in Nat /\ j \in Nat /\ i >= 1 /\ j >= 1 /\ i <= Len(pending') /\ j <= Len(pending')
    BY <1>4
  <2>2. CASE i <= Len(pending) /\ j <= Len(pending)
    BY <1>4, <1>8, <2>1, <2>2 DEF PendingInv
  <2>3. CASE i > Len(pending) /\ j > Len(pending)
    <3>1. i - Len(pending) \in DOMAIN new /\ j - Len(pending) \in DOMAIN new
      BY <1>4, <2>1, <2>3
    <3> QED BY <1>2, <1>4, <1>8, <2>1, <2>3, <3>1
  <2>4. CASE i <= Len(pending) /\ j > Len(pending)
    <3>1. i \in DOMAIN pending /\ j - Len(pending) \in DOMAIN new
      BY <1>4, <2>1, <2>4
    <3> QED BY <1>4, <1>6, <1>7, <1>8, <2>1, <2>4, <3>1
  <2>5. CASE i > Len(pending) /\ j <= Len(pending)
    <3>1. j \in DOMAIN pending /\ i - Len(pending) \in DOMAIN new
      BY <1>4, <2>1, <2>5
    <3> QED BY <1>4, <1>6, <1>7, <1>8, <2>1, <2>5, <3>1
  <2> QED BY <1>4, <2>1, <2>2, <2>3, <2>4, <2>5
<1>9. \A x : x \in pending_set \cup ids => \E i \in DOMAIN pending' : pending'[i] = x
  <2>1. ASSUME NEW x \in pending_set PROVE \E i \in DOMAIN pending' : pending'[i] = x
    <3>1. PICK i \in DOMAIN pending : pending[i] = x
      BY DEF PendingInv
    <3>2. i \in DOMAIN pending' /\ pending'[i] = x
      BY <1>4, <3>1
    <3> QED BY <3>2
  <2>2. ASSUME NEW x \in ids \ pending_set PROVE \E i \in DOMAIN pending' : pending'[i] = x
    <3>1. PICK i \in DOMAIN new : new[i] = x
      BY <1>2
    <3>2. i + Len(pending) \in DOMAIN pending' /\ pending'[i + Len(pending)] = x
      BY <1>4, <3>1
    <3> QED BY <3>2
  <2> QED BY <2>1, <2>2
<1>10. \A i \in DOMAIN pending' : pending'[i] \in pending_set \cup ids
  <2> SUFFICES ASSUME NEW i \in DOMAIN pending' PROVE pending'[i] \in pending_set \cup ids
    OBVIOUS
  <2>1. CASE i <= Len(pending)
    BY <1>4, <1>6, <2>1
  <2>2. CASE i > Len(pending)
    <3>1. i - Len(pending) \in DOMAIN new
      BY <1>4, <2>2
    <3> QED BY <1>4, <1>7, <2>2, <3>1
  <2> QED BY <1>4, <2>1, <2>2
<1> QED BY <1>5, <1>8, <1>9, <1>10 DEF PendingInv

\* Taking the head of the queue removes exactly it.
LEMMA TakeKeeps ==
  ASSUME TypeOK, PendingInv, pending # <<>>, pending' = Tail(pending),
         pending_set' = pending_set \ {Head(pending)}
  PROVE  PendingInv' /\ Head(pending) \in pending_set
<1>1. /\ DOMAIN Tail(pending) = 1 .. (Len(pending) - 1) /\ DOMAIN pending = 1 .. Len(pending)
      /\ \A i \in DOMAIN Tail(pending) :
           i + 1 \in DOMAIN pending /\ Tail(pending)[i] = pending[i + 1]
      /\ 1 \in DOMAIN pending /\ Head(pending) = pending[1] /\ Len(pending) \in Nat
  BY TailType, LenProperties DEF TypeOK
<1>2. ASSUME NEW i \in DOMAIN pending', NEW j \in DOMAIN pending', pending'[i] = pending'[j]
      PROVE  i = j
  <2>1. i \in Nat /\ j \in Nat /\ i + 1 \in DOMAIN pending /\ j + 1 \in DOMAIN pending
        /\ pending[i + 1] = pending[j + 1]
    BY <1>1, <1>2
  <2>2. i + 1 = j + 1
    BY <2>1 DEF PendingInv
  <2> QED BY <2>1, <2>2
<1>3. ASSUME NEW i \in DOMAIN pending'
      PROVE  pending'[i] \in pending_set \ {Head(pending)}
  <2>1. i \in Nat /\ i >= 1 /\ i + 1 \in DOMAIN pending /\ pending'[i] = pending[i + 1]
    BY <1>1
  <2>2. pending[i + 1] # pending[1]
    BY <1>1, <2>1 DEF PendingInv
  <2> QED BY <1>1, <2>1, <2>2 DEF PendingInv
<1>4. ASSUME NEW x \in pending_set \ {Head(pending)}
      PROVE  \E i \in DOMAIN pending' : pending'[i] = x
  <2>1. PICK k \in DOMAIN pending : pending[k] = x
    BY DEF PendingInv
  <2>2. k # 1 /\ k - 1 \in DOMAIN Tail(pending)
    BY <1>1, <2>1
  <2>3. pending'[k - 1] = x
    <3>1. (k - 1) + 1 = k
      BY <1>1
    <3> QED BY <1>1, <2>1, <2>2, <3>1
  <2> QED BY <2>2, <2>3
<1>5. Head(pending) \in pending_set
  BY <1>1 DEF PendingInv
<1>6. pending_set' = {pending'[i] : i \in DOMAIN pending'}
  BY <1>3, <1>4
<1> QED BY <1>2, <1>5, <1>6 DEF PendingInv

\* A refused id goes to the end of the queue, which keeps its members.
LEMMA RotateKeeps ==
  ASSUME TypeOK, PendingInv, pending # <<>>, pending_set' = pending_set,
         pending' = Append(Tail(pending), Head(pending))
  PROVE  PendingInv'
<1> DEFINE n == Len(pending)
<1>1. /\ DOMAIN Tail(pending) = 1 .. (n - 1) /\ DOMAIN pending = 1 .. n /\ n \in Nat
      /\ \A i \in 1 .. (n - 1) : Tail(pending)[i] = pending[i + 1]
      /\ 1 \in DOMAIN pending /\ Head(pending) = pending[1] /\ Tail(pending) \in Seq(Ids)
      /\ Head(pending) \in Ids /\ n >= 1
  BY TailType, LenProperties DEF TypeOK
<1>2. Len(Tail(pending)) = n - 1
  BY <1>1, LenProperties
<1> HIDE DEF n
<1>3. /\ DOMAIN pending' = 1 .. n
      /\ \A i \in 1 .. n : pending'[i] = IF i < n THEN pending[i + 1] ELSE pending[1]
  <2>1. /\ pending' \in Seq(Ids) /\ Len(pending') = Len(Tail(pending)) + 1
        /\ \A i \in 1 .. Len(Tail(pending)) : pending'[i] = Tail(pending)[i]
        /\ pending'[Len(Tail(pending)) + 1] = Head(pending)
    BY <1>1, AppendProperties
  <2>2. Len(pending') = n /\ DOMAIN pending' = 1 .. n
    BY <1>1, <1>2, <2>1, LenProperties
  <2>3. ASSUME NEW i \in 1 .. n
        PROVE  pending'[i] = IF i < n THEN pending[i + 1] ELSE pending[1]
    <3>1. CASE i < n
      <4>1. i \in 1 .. (n - 1)
        BY <1>1, <3>1
      <4> QED BY <1>1, <1>2, <2>1, <3>1, <4>1
    <3>2. CASE ~(i < n)
      <4>1. i = Len(Tail(pending)) + 1
        BY <1>1, <1>2, <3>2
      <4> QED BY <1>1, <2>1, <3>2, <4>1
    <3> QED BY <3>1, <3>2
  <2> QED BY <2>2, <2>3
<1>4. ASSUME NEW i \in 1 .. n, NEW j \in 1 .. n, pending'[i] = pending'[j] PROVE i = j
  <2>1. \A k \in 1 .. n : k < n => k + 1 \in 1 .. n /\ k + 1 # 1
    BY <1>1
  <2>2. 1 \in 1 .. n /\ i \in Nat /\ j \in Nat /\ i <= n /\ j <= n
    BY <1>1
  <2>3. CASE i < n /\ j < n
    <3>1. i + 1 = j + 1
      BY <1>1, <1>3, <1>4, <2>1, <2>3 DEF PendingInv
    <3> QED BY <2>2, <3>1
  <2>4. CASE ~(i < n) /\ ~(j < n)
    BY <1>1, <2>2, <2>4
  <2>5. CASE i < n /\ ~(j < n)
    BY <1>1, <1>3, <1>4, <2>1, <2>2, <2>5 DEF PendingInv
  <2>6. CASE ~(i < n) /\ j < n
    BY <1>1, <1>3, <1>4, <2>1, <2>2, <2>6 DEF PendingInv
  <2> QED BY <2>3, <2>4, <2>5, <2>6
<1>5. \A i \in 1 .. n : pending'[i] \in pending_set
  <2>1. \A k \in 1 .. n : pending[k] \in pending_set
    BY <1>1 DEF PendingInv
  <2>2. \A k \in 1 .. n : k < n => k + 1 \in 1 .. n
    BY <1>1
  <2> QED BY <1>1, <1>3, <2>1, <2>2
<1>6. ASSUME NEW x \in pending_set PROVE \E i \in 1 .. n : pending'[i] = x
  <2>1. PICK k \in 1 .. n : pending[k] = x
    BY <1>1 DEF PendingInv
  <2>2. CASE k = 1
    <3>1. n \in 1 .. n /\ pending'[n] = x
      BY <1>1, <1>3, <2>1, <2>2
    <3> QED BY <3>1
  <2>3. CASE k # 1
    <3>1. k - 1 \in 1 .. n /\ k - 1 < n /\ (k - 1) + 1 = k
      BY <1>1, <2>3
    <3>2. pending'[k - 1] = x
      BY <1>3, <2>1, <3>1
    <3> QED BY <3>1, <3>2
  <2> QED BY <2>2, <2>3
<1>7. pending_set' = {pending'[i] : i \in DOMAIN pending'}
  BY <1>3, <1>5, <1>6
<1> QED BY <1>3, <1>4, <1>7 DEF PendingInv
------------------------------------------------------------------------------
\* A step that publishes nothing and keeps every waiting subscription in the queue.
LEMMA SchedStill ==
  ASSUME SchedInv, PendingInv', UNCHANGED <<entries, watch, view, next_subscription>>,
         cancelled \subseteq cancelled',
         \A id \in live : Schedulable(id) /\ id \in pending_set => id \in pending_set'
  PROVE  SchedInv'
<1>1. live' = live
  BY DEF live
<1>2. ASSUME NEW id \in live
      PROVE  EntryOK(id, entries[id], view, pending_set', cancelled', watch[id])
  <2>1. EntryOK(id, entries[id], view, pending_set, cancelled, watch[id])
    BY DEF SchedInv
  <2> QED BY <2>1 DEF EntryOK, Schedulable
<1> QED BY <1>1, <1>2 DEF SchedInv

\* A handler that rewrites the entry and the watch of one subscription, e = None
\* for one that removes it.
LEMMA SchedOne ==
  ASSUME TypeOK, SchedInv, PendingInv', NEW id \in Ids, NEW e, NEW s,
         entries' = [entries EXCEPT ![id] = e], watch' = [watch EXCEPT ![id] = s],
         view' = view, cancelled \subseteq cancelled', pending_set \ {id} \subseteq pending_set',
         id < next_subscription', next_subscription' \in Nat,
         next_subscription <= next_subscription',
         e # None => EntryOK(id, e, view, pending_set', cancelled', s)
  PROVE  SchedInv'
<1>1. \A i \in Ids : /\ entries'[i] = IF i = id THEN e ELSE entries[i]
                     /\ watch'[i] = IF i = id THEN s ELSE watch[i]
  BY DEF TypeOK
<1>2. ASSUME NEW i \in live'
      PROVE  EntryOK(i, entries'[i], view', pending_set', cancelled', watch'[i])
  <2>1. i \in Ids /\ entries'[i] # None
    BY DEF live
  <2>2. CASE i = id
    BY <1>1, <2>1, <2>2
  <2>3. CASE i # id
    <3>1. EntryOK(i, entries[i], view, pending_set, cancelled, watch[i])
      BY <1>1, <2>1, <2>3 DEF live, SchedInv
    <3>2. entries'[i] = entries[i] /\ watch'[i] = watch[i]
      BY <1>1, <2>1, <2>3
    <3> QED BY <2>3, <3>1, <3>2 DEF EntryOK
  <2> QED BY <2>2, <2>3
<1>3. ASSUME NEW i \in Ids, next_subscription' <= i
      PROVE  watch'[i] = FinalSnapshot("Absent", 0, 0, None)
  <2>1. i \in Nat /\ i # id /\ next_subscription \in Nat
    BY <1>3, BoundAssumption DEF Ids, TypeOK
  <2>2. next_subscription <= i
    BY <1>3, <2>1
  <2> QED BY <1>1, <2>1, <2>2 DEF SchedInv
<1> QED BY <1>2, <1>3 DEF SchedInv

LEMMA SchedStillSteps ==
  ASSUME TypeOK, SchedInv,
         HandleClosed \/ HandleShutdown \/ SelectWorker \/ DrainNoCommit \/ ScheduleDone
         \/ ScheduleSkip \/ ScheduleRefused \/ SendPill \/ JoinDone
  PROVE  SchedInv'
<1> USE DEF ammVars, clientVars, controlVars, tableVars, pendingVars, workVars, tokenVars
<1>1. UNCHANGED <<entries, watch, view, next_subscription, cancelled>>
  BY DEF HandleClosed, HandleShutdown, SelectWorker, DrainNoCommit, ScheduleDone, Receive,
         ScheduleSkip, ScheduleRefused, SendPill, JoinDone, BreakLoop, ScheduleUnchanged
<1>2. PendingInv
  BY DEF SchedInv
<1>3. CASE ScheduleSkip
  <2>1. PendingInv' /\ pending_set' = pending_set \ {Head(pending)}
    BY <1>2, <1>3, TakeKeeps DEF ScheduleSkip
  <2> QED BY <1>1, <1>3, <2>1, SchedStill DEF ScheduleSkip
<1>4. CASE ScheduleRefused
  <2>1. PendingInv' /\ pending_set' = pending_set
    BY <1>2, <1>4, RotateKeeps DEF ScheduleRefused
  <2> QED BY <1>1, <2>1, SchedStill
<1>5. CASE ~ScheduleSkip /\ ~ScheduleRefused
  <2>1. UNCHANGED <<pending, pending_set>>
    BY <1>5 DEF HandleClosed, HandleShutdown, SelectWorker, DrainNoCommit, ScheduleDone, Receive,
         SendPill, JoinDone, BreakLoop, ScheduleUnchanged
  <2>2. PendingInv'
    BY <1>2, <2>1 DEF PendingInv
  <2> QED BY <1>1, <2>1, <2>2, SchedStill
<1> QED BY <1>3, <1>4, <1>5

LEMMA SchedOutside ==
  ASSUME TypeOK, SchedInv,
         ClientNext \/ AmmNext \/ \E w \in Workers : WorkerNext(w)
  PROVE  SchedInv'
<1> USE DEF ammVars, clientVars, controlVars, tableVars, pendingVars, workVars, tokenVars
<1>1. /\ UNCHANGED <<entries, watch, view, next_subscription, pending, pending_set>>
      /\ cancelled \subseteq cancelled'
  <2>1. CASE ClientNext \/ AmmNext
    BY <2>1 DEF ClientNext, AmmNext, SendSubscribe, SendReplace, SendUnsubscribe, SendShutdown,
         Send, RequestCancel, TokenCancel, CancelTokens, DropSubscription, DropHandle,
         PublishCommit, StopStream, ClientUnchanged
  <2>2. ASSUME NEW w \in Workers, WorkerNext(w)
        PROVE  UNCHANGED <<entries, watch, view, next_subscription, pending, pending_set,
                           cancelled>>
    BY <2>2 DEF WorkerNext, WorkerTake, WorkerEvent, WorkerSend, WorkerSendClosed, WorkerFinish,
         WorkerComplete, WorkerUnchanged
  <2> QED BY <2>1, <2>2
<1>2. PendingInv'
  BY <1>1 DEF SchedInv, PendingInv
<1> QED BY <1>1, <1>2, SchedStill

\* apply_commit: every last answer is now old, and so is every running attempt.
LEMMA SchedCommit ==
  ASSUME TypeOK, IInv, SchedInv, ApplyCommit
  PROVE  SchedInv'
<1> DEFINE idle == {id \in live : entries[id].active = None}
<1>1. \A id \in live : id \in Ids /\ entries[id] \in Entry
  BY HelperTypes
<1>2. PendingInv' /\ pending_set' = pending_set \cup idle
  <2>1. idle \in SUBSET Ids /\ EnqueuePending(idle) /\ PendingInv
    BY <1>1 DEF ApplyCommit, SchedInv
  <2> HIDE DEF idle
  <2> QED BY <2>1, EnqueueKeeps
<1>3. view \in Nat /\ view' = view + 1 /\ cancelled' = cancelled
      /\ next_subscription' = next_subscription
  BY DEF TypeOK, ApplyCommit
<1>4. \A id \in Ids : entries'[id] = IF id \in live THEN Invalidated(entries[id]) ELSE None
  BY DEF ApplyCommit, live
<1>5. live' \subseteq live
  BY <1>4 DEF live
<1>6. ASSUME NEW id \in live
      PROVE  EntryOK(id, entries'[id], view', pending_set', cancelled', watch'[id])
  <2> DEFINE e == entries[id]
  <2>1. EntryOK(id, e, view, pending_set, cancelled, watch[id])
    BY DEF SchedInv
  <2>2. AttemptOK(id, e, view, jobCancelled)
    BY DEF IInv, TokenInv
  <2>3. /\ e.epoch \in Nat /\ (e.active # None => e.active.source \in Nat)
        /\ e.last_ready # None => e.last_ready.source \in Nat
    BY <1>1 DEF Entry, Stamp, Quote
  <2>4. /\ entries'[id].active = e.active /\ entries'[id].dirty = TRUE
        /\ entries'[id].last_ready = e.last_ready /\ entries'[id].epoch = e.epoch
    BY <1>1, <1>4 DEF Invalidated, Entry
  <2>5. watch'[id].previous = e.last_ready /\ watch'[id].kind = "Pending"
    BY <1>1 DEF ApplyCommit, PendingSnapshot
  <2>6. e.active = None => id \in pending_set'
    BY <1>2
  <2> HIDE DEF e
  <2> QED BY <1>3, <2>1, <2>2, <2>3, <2>4, <2>5, <2>6 DEF EntryOK, AttemptOK, Older
<1>7. \A id \in Ids : next_subscription <= id => watch'[id] = watch[id]
  BY BoundAssumption DEF ApplyCommit, IInv, TokenInv, TypeOK, Ids
<1> QED BY <1>2, <1>3, <1>5, <1>6, <1>7 DEF SchedInv
LEMMA SchedTakeCommit ==
  ASSUME TypeOK, IInv, SchedInv, HandleCommit \/ DrainOneCommit
  PROVE  SchedInv'
<1> USE DEF ammVars, clientVars, controlVars, tableVars, pendingVars, workVars, tokenVars
<1>1. CASE BreakLoop(TRUE)
  <2>1. UNCHANGED <<entries, watch, view, next_subscription, cancelled, pending, pending_set>>
    BY <1>1 DEF BreakLoop
  <2>2. PendingInv'
    BY <2>1 DEF SchedInv, PendingInv
  <2> QED BY <2>1, <2>2, SchedStill
<1>2. CASE ApplyCommit
  BY <1>2, SchedCommit
<1> QED BY <1>1, <1>2 DEF HandleCommit, DrainOneCommit

LEMMA SchedSubscribe ==
  ASSUME TypeOK, TypeOK', IInv, SchedInv, HandleSubscribe
  PROVE  SchedInv'
<1> USE DEF pendingVars
<1> DEFINE id == next_subscription
           e == [spec |-> Head(commands).spec, epoch |-> 0, next_job |-> 0,
                 active |-> None, dirty |-> TRUE, last_ready |-> None]
           s == PendingSnapshot(e, view)
<1>1. view' = view /\ cancelled \subseteq cancelled'
  BY DEF HandleSubscribe
<1>2. CASE SubscribeRefused
  <2>1. UNCHANGED <<entries, watch, next_subscription, pending, pending_set>>
    BY <1>2 DEF HandleSubscribe
  <2>2. PendingInv'
    BY <2>1 DEF SchedInv, PendingInv
  <2> QED BY <1>1, <2>1, <2>2, SchedStill
<1>3. CASE ~SubscribeRefused
  <2>1. /\ next_subscription' = id + 1 /\ entries' = [entries EXCEPT ![id] = e]
        /\ watch' = [watch EXCEPT ![id] = s] /\ EnqueuePending({id})
    BY <1>3 DEF HandleSubscribe
  <2>2. id \in Ids /\ id \in Nat
    BY <1>3, BoundAssumption DEF TypeOK, SubscribeRefused, Ids
  <2>3. PendingInv' /\ pending_set' = pending_set \cup {id}
    BY <2>1, <2>2, EnqueueKeeps, {id} \in SUBSET Ids DEF SchedInv
  <2>4. EntryOK(id, e, view, pending_set', cancelled', s)
    BY <2>3 DEF EntryOK, PendingSnapshot
  <2>5. id < next_subscription' /\ next_subscription' \in Nat
        /\ next_subscription <= next_subscription'
    BY <2>1, <2>2
  <2> HIDE DEF id, e, s
  <2> QED BY <1>1, <2>1, <2>2, <2>3, <2>4, <2>5, SchedOne
<1> QED BY <1>2, <1>3

LEMMA SchedCancel ==
  ASSUME TypeOK, IInv, SchedInv, HandleCancel \/ HandleCleanup
  PROVE  SchedInv'
<1> USE DEF pendingVars, tokenVars
<1>1. PICK id, queue : CancelSubscription(id, queue)
  BY DEF HandleCancel, HandleCleanup
<1>2. UNCHANGED <<view, next_subscription, pending, pending_set>>
  BY <1>1 DEF CancelSubscription
<1>3. PendingInv'
  BY <1>2 DEF SchedInv, PendingInv
<1>4. CASE id \notin live
  <2>1. UNCHANGED <<entries, watch, cancelled>>
    BY <1>1, <1>4 DEF CancelSubscription
  <2> QED BY <1>2, <1>3, <2>1, SchedStill
<1>5. CASE id \in live
  <2> DEFINE s == FinalSnapshot("Cancelled", view, entries[id].epoch, None)
  <2>1. /\ entries' = [entries EXCEPT ![id] = None] /\ watch' = [watch EXCEPT ![id] = s]
        /\ cancelled \subseteq cancelled'
    BY <1>1, <1>5 DEF CancelSubscription, Removed, CancelTokens
  <2>2. id \in Ids /\ id < next_subscription /\ next_subscription \in Nat
    BY <1>5, BoundAssumption DEF live, IInv, TokenInv, TypeOK
  <2>3. id < next_subscription' /\ next_subscription' \in Nat
        /\ next_subscription <= next_subscription' /\ view' = view
        /\ pending_set \ {id} \subseteq pending_set'
    BY <1>2, <2>2
  <2> HIDE DEF s
  <2> QED BY <1>3, <2>1, <2>2, <2>3, SchedOne
<1> QED BY <1>4, <1>5

LEMMA SchedReplace ==
  ASSUME TypeOK, IInv, SchedInv, HandleReplace
  PROVE  SchedInv'
<1> USE DEF pendingVars
<1> DEFINE id == Head(commands).id
           o == entries[id]
           e == Replaced(o, Head(commands).spec)
           s == PendingSnapshot(e, view)
<1>1. UNCHANGED <<view, next_subscription, cancelled>>
  BY DEF HandleReplace
<1>2. CASE id \notin live
  <2>1. UNCHANGED <<entries, watch, pending, pending_set>>
    BY <1>2 DEF HandleReplace
  <2>2. PendingInv'
    BY <2>1 DEF SchedInv, PendingInv
  <2> QED BY <1>1, <2>1, <2>2, SchedStill
<1>3. CASE id \in live
  <2>1. /\ entries' = [entries EXCEPT ![id] = e] /\ watch' = [watch EXCEPT ![id] = s]
        /\ IF e.active = None THEN EnqueuePending({id}) ELSE UNCHANGED pendingVars
    BY <1>3 DEF HandleReplace
  <2>2. /\ id \in Ids /\ o \in Entry /\ id < next_subscription
        /\ next_subscription \in Nat /\ view \in Nat
    BY <1>3, HelperTypes, BoundAssumption DEF IInv, TokenInv, TypeOK
  <2>3. /\ e.epoch = o.epoch + 1 /\ e.active = o.active /\ e.dirty = TRUE
        /\ e.last_ready = o.last_ready
    BY <2>2 DEF Replaced, Entry
  <2>4. /\ PendingInv' /\ pending_set \subseteq pending_set'
        /\ e.active = None => id \in pending_set'
    <3>1. CASE e.active = None
      BY <2>1, <2>2, <3>1, EnqueueKeeps, {id} \in SUBSET Ids DEF SchedInv
    <3>2. CASE e.active # None
      <4>1. UNCHANGED <<pending, pending_set>>
        BY <2>1, <3>2
      <4> QED BY <3>2, <4>1 DEF SchedInv, PendingInv
    <3> QED BY <3>1, <3>2
  <2>5. EntryOK(id, o, view, pending_set, cancelled, watch[id])
        /\ AttemptOK(id, o, view, jobCancelled)
    BY <1>3 DEF SchedInv, IInv, TokenInv
  <2>6. /\ o.epoch \in Nat
        /\ o.active # None => o.active.epoch \in Nat
        /\ o.last_ready # None => o.last_ready.epoch \in Nat /\ o.last_ready.source \in Nat
    BY <2>2 DEF Entry, Stamp, Quote
  <2>7. s.previous = e.last_ready /\ s.kind = "Pending"
    BY DEF PendingSnapshot
  <2>8. EntryOK(id, e, view, pending_set', cancelled', s)
    <3> HIDE DEF id, e, s, o
    <3> QED BY <2>2, <2>3, <2>4, <2>5, <2>6, <2>7 DEF EntryOK, AttemptOK, Older
  <2> HIDE DEF id, e, s, o
  <2>9. id < next_subscription' /\ next_subscription' \in Nat
        /\ next_subscription <= next_subscription' /\ view' = view
        /\ pending_set \ {id} \subseteq pending_set' /\ cancelled \subseteq cancelled'
    BY <1>1, <2>2, <2>4
  <2> QED BY <2>1, <2>2, <2>4, <2>8, <2>9, SchedOne
<1> QED BY <1>2, <1>3

LEMMA SchedEvent ==
  ASSUME TypeOK, IInv, SchedInv, HandleEvent
  PROVE  SchedInv'
<1> USE DEF pendingVars, tokenVars
<1> DEFINE id == input.stamp.sub
           e == entries[id]
           s == SearchingSnapshot(e, input.stamp.source, QuoteOf(input))
<1>1. UNCHANGED <<view, next_subscription, cancelled, entries, pending, pending_set>>
  BY DEF HandleEvent
<1>2. PendingInv'
  BY <1>1 DEF SchedInv, PendingInv
<1>3. CASE ~(Accepts(input.stamp) /\ input.outcome = "best")
  <2>1. UNCHANGED watch
    BY <1>3 DEF HandleEvent
  <2> QED BY <1>1, <1>2, <2>1, SchedStill
<1>4. CASE Accepts(input.stamp) /\ input.outcome = "best"
  <2>1. watch' = [watch EXCEPT ![id] = s]
    BY <1>4 DEF HandleEvent
  <2>2. id \in live /\ e.active = input.stamp /\ pc = "message"
    BY <1>4 DEF Accepts, HandleEvent, Delivered
  <2>3. /\ id \in Ids /\ e \in Entry /\ id < next_subscription /\ next_subscription \in Nat
    BY <2>2, HelperTypes, BoundAssumption DEF IInv, TokenInv, TypeOK
  <2>4. e.active # None
    BY <2>2, InputFacts, NoneAssumption
  <2>5. EntryOK(id, e, view, pending_set, cancelled, watch[id])
    BY <2>2 DEF SchedInv
  <2>6. s.previous = e.last_ready /\ s.kind = "Searching"
    BY DEF SearchingSnapshot
  <2>7. EntryOK(id, e, view, pending_set', cancelled', s)
    <3> HIDE DEF id, e, s
    <3> QED BY <1>1, <2>4, <2>5, <2>6 DEF EntryOK
  <2>8. entries' = [entries EXCEPT ![id] = e]
    BY <1>1 DEF TypeOK
  <2> HIDE DEF id, e, s
  <2>9. id < next_subscription' /\ next_subscription' \in Nat
        /\ next_subscription <= next_subscription' /\ view' = view
        /\ pending_set \ {id} \subseteq pending_set' /\ cancelled \subseteq cancelled'
    BY <1>1, <2>3
  <2> QED BY <1>2, <2>1, <2>3, <2>7, <2>8, <2>9, SchedOne
<1> QED BY <1>3, <1>4

LEMMA SchedSubmit ==
  ASSUME TypeOK, IInv, SchedInv, ScheduleSubmit
  PROVE  SchedInv'
<1> USE DEF tokenVars
<1> DEFINE id == Head(pending)
           o == entries[id]
           e == Submitted(o, NextStamp(id))
           s == SearchingSnapshot(e, view, None)
<1>1. /\ UNCHANGED <<view, next_subscription, cancelled>>
      /\ entries' = [entries EXCEPT ![id] = e] /\ watch' = [watch EXCEPT ![id] = s]
      /\ pending # <<>> /\ pending' = Tail(pending) /\ pending_set' = pending_set \ {id}
      /\ id \in live /\ o.dirty /\ o.active = None
  BY DEF ScheduleSubmit, ScheduleUnchanged, Schedulable
<1>2. PendingInv'
  BY <1>1, TakeKeeps DEF SchedInv
<1>3. /\ id \in Ids /\ o \in Entry /\ id < next_subscription /\ next_subscription \in Nat
      /\ view \in Nat
  <2> HIDE DEF id
  <2>1. id \in Ids /\ o \in Entry
    BY <1>1, HelperTypes
  <2>2. id < next_subscription
    BY <1>1 DEF IInv, TokenInv
  <2>3. next_subscription \in Nat /\ view \in Nat
    BY BoundAssumption DEF TypeOK
  <2> QED BY <2>1, <2>2, <2>3
<1>4. NextStamp(id) \in Stamp
  BY <1>3 DEF NextStamp, Stamp, Entry
<1>5. /\ e.epoch = o.epoch /\ e.active # None /\ e.dirty = FALSE
      /\ e.last_ready = o.last_ready
  <2>1. NextStamp(id) # None
    BY <1>4, NoneAssumption
  <2> HIDE DEF id
  <2> QED BY <1>3, <2>1 DEF Submitted, Entry
<1>6. EntryOK(id, o, view, pending_set, cancelled, watch[id])
  BY <1>1 DEF SchedInv
<1>7. s.previous = e.last_ready /\ s.kind = "Searching"
  BY DEF SearchingSnapshot
<1>8. EntryOK(id, e, view, pending_set', cancelled', s)
  <2> HIDE DEF id, e, s, o
  <2> QED BY <1>1, <1>5, <1>6, <1>7 DEF EntryOK
<1> HIDE DEF id, e, s, o
<1>9. id < next_subscription' /\ next_subscription' \in Nat
      /\ next_subscription <= next_subscription' /\ view' = view
      /\ pending_set \ {id} \subseteq pending_set' /\ cancelled \subseteq cancelled'
  BY <1>1, <1>3
<1> QED BY <1>1, <1>2, <1>3, <1>8, <1>9, SchedOne

LEMMA SchedClose ==
  ASSUME TypeOK, IInv, SchedInv, Close
  PROVE  SchedInv'
<1>1. live' = {}
  BY DEF Close, live
<1>2. PendingInv'
  BY DEF Close, pendingVars, SchedInv, PendingInv
<1>3. \A id \in Ids : next_subscription <= id => watch'[id] = watch[id]
  BY BoundAssumption DEF Close, IInv, TokenInv, TypeOK, Ids
<1> QED BY <1>1, <1>2, <1>3 DEF SchedInv, Close
\* The end of an attempt. A stale one queues its subscription again; a current one
\* leaves it clean and settled, because a dirty entry's attempt is never current.
LEMMA SchedCompleted ==
  ASSUME TypeOK, IInv, SchedInv, HandleCompleted
  PROVE  SchedInv'
<1> USE DEF pendingVars, tokenVars
<1> DEFINE id == input.stamp.sub
           o == entries[id]
           best == IF input.outcome = "best" THEN QuoteOf(input) ELSE None
           settled == [o EXCEPT !.active = None]
<1>1. UNCHANGED <<view, next_subscription, cancelled>> /\ pc = "message" /\ PendingInv
  BY DEF HandleCompleted, Delivered, SchedInv
<1>2. CASE id \notin live \/ (id \in live /\ o.active # input.stamp)
  <2>1. UNCHANGED <<entries, watch, pending, pending_set>>
    BY <1>2 DEF HandleCompleted
  <2>2. PendingInv'
    BY <1>1, <2>1 DEF PendingInv
  <2> QED BY <1>1, <2>1, <2>2, SchedStill
<1>3. CASE id \in live /\ o.active = input.stamp
  <2>1. /\ id \in Ids /\ o \in Entry /\ id < next_subscription /\ next_subscription \in Nat
        /\ view \in Nat /\ watch \in [Ids -> Snapshot]
    <3> HIDE DEF id
    <3> QED BY <1>3, HelperTypes, BoundAssumption DEF IInv, TokenInv, TypeOK
  <2>2. o.active # None /\ input \in Message
    BY <1>1, <1>3, InputFacts, NoneAssumption
  <2>3. EntryOK(id, o, view, pending_set, cancelled, watch[id])
    BY <1>3 DEF SchedInv
  <2>4. /\ id < next_subscription' /\ next_subscription' \in Nat
        /\ next_subscription <= next_subscription' /\ view' = view
        /\ cancelled \subseteq cancelled'
    <3> HIDE DEF id
    <3> QED BY <1>1, <2>1
  <2>5. CASE Stale(input.stamp)
    <3> DEFINE d == id \notin cancelled
               e == [settled EXCEPT !.dirty = d]
               s == watch[id]
    <3>1. /\ entries' = [entries EXCEPT ![id] = e] /\ watch' = watch
          /\ IF d THEN EnqueuePending({id}) ELSE UNCHANGED pendingVars
      BY <1>3, <2>5 DEF HandleCompleted
    <3>2. watch' = [watch EXCEPT ![id] = s]
      BY <2>1, <3>1
    <3>3. /\ PendingInv' /\ pending_set \ {id} \subseteq pending_set'
          /\ d => id \in pending_set'
      <4>1. CASE d
        <5> HIDE DEF id, d
        <5> QED BY <1>1, <2>1, <3>1, <4>1, EnqueueKeeps, {id} \in SUBSET Ids
      <4>2. CASE ~d
        <5>1. UNCHANGED <<pending, pending_set>>
          BY <3>1, <4>2
        <5> QED BY <1>1, <4>2, <5>1 DEF PendingInv
      <4> QED BY <4>1, <4>2
    <3>4. /\ e.active = None /\ e.last_ready = o.last_ready /\ e.epoch = o.epoch
          /\ e.dirty \in BOOLEAN /\ (e.dirty <=> d)
      <4> HIDE DEF id, o
      <4> QED BY <2>1 DEF Entry
    <3>5. EntryOK(id, e, view, pending_set', cancelled', s)
      <4>1. ~d => id \in cancelled'
        BY <1>1
      <4> HIDE DEF id, o, e, s, d
      <4> QED BY <2>2, <2>3, <3>3, <3>4, <4>1 DEF EntryOK, s
    <3> HIDE DEF id, o, e, s, d
    <3> QED BY <2>1, <2>4, <3>1, <3>2, <3>3, <3>5, SchedOne
  <2>6. CASE ~Stale(input.stamp)
    <3>1. UNCHANGED <<pending, pending_set>>
      BY <1>3, <2>6 DEF HandleCompleted
    <3>2. PendingInv' /\ pending_set \ {id} \subseteq pending_set'
      BY <1>1, <3>1 DEF PendingInv
    <3>3. o.active.source = view /\ o.active.epoch = o.epoch /\ o.epoch \in Nat
      BY <1>3, <2>1, <2>6 DEF Stale, Entry
    <3>4. o.dirty = FALSE
      <4> HIDE DEF id, o
      <4>1. o.dirty \in BOOLEAN
        BY <2>1 DEF Entry
      <4> QED BY <2>1, <2>2, <2>3, <3>3, <4>1 DEF EntryOK, Older
    <3>5. CASE input.outcome = "error"
      <4> DEFINE s == FinalSnapshot("Failed", input.stamp.source, input.stamp.epoch, None)
      <4>1. entries' = [entries EXCEPT ![id] = settled] /\ watch' = [watch EXCEPT ![id] = s]
        BY <1>3, <2>6, <3>5 DEF HandleCompleted
      <4>2. /\ settled.active = None /\ settled.last_ready = o.last_ready
            /\ settled.epoch = o.epoch /\ settled.dirty = FALSE
        <5> HIDE DEF id, o
        <5> QED BY <2>1, <3>4 DEF Entry
      <4>3. s.kind = "Failed" /\ s.previous = None
        BY DEF FinalSnapshot
      <4>4. EntryOK(id, settled, view, pending_set', cancelled', s)
        <5> HIDE DEF id, o, settled, s
        <5> QED BY <2>3, <4>2, <4>3 DEF EntryOK
      <4> HIDE DEF id, o, settled, s
      <4> QED BY <2>1, <2>4, <3>2, <4>1, <4>4, SchedOne
    <3>6. CASE input.outcome # "error"
      <4> DEFINE e == [settled EXCEPT !.last_ready = best]
                 s == FinalSnapshot("Ready", input.stamp.source, input.stamp.epoch, best)
      <4>1. entries' = [entries EXCEPT ![id] = e] /\ watch' = [watch EXCEPT ![id] = s]
        BY <1>3, <2>6, <3>6 DEF HandleCompleted
      <4>2. /\ e.active = None /\ e.last_ready = best
            /\ e.epoch = o.epoch /\ e.dirty = FALSE
        <5> HIDE DEF id, o, best
        <5> QED BY <2>1, <3>4 DEF Entry
      <4>3. s.kind = "Ready" /\ s.previous = None
        BY DEF FinalSnapshot
      <4>4. best # None => best.source = view /\ best.epoch = o.epoch
        BY <1>3, <3>3 DEF QuoteOf
      <4>5. EntryOK(id, e, view, pending_set', cancelled', s)
        <5> HIDE DEF id, o, best, e, s
        <5> QED BY <2>1, <3>3, <4>2, <4>3, <4>4 DEF EntryOK
      <4> HIDE DEF id, o, e, s
      <4> QED BY <2>1, <2>4, <3>2, <4>1, <4>5, SchedOne
    <3> QED BY <3>5, <3>6
  <2> QED BY <2>5, <2>6
<1> QED BY <1>2, <1>3

LEMMA SchedInductive == Spec => []SchedInv
<1> USE DEF ammVars, clientVars, controlVars, tableVars, pendingVars, workVars, tokenVars
<1>1. Init => SchedInv
  <2>1. Init => live = {} /\ pending = <<>> /\ pending_set = {}
    BY DEF Init, live
  <2> QED BY <2>1 DEF Init, SchedInv, PendingInv
<1>2. TypeOK /\ TypeOK' /\ IInv /\ SchedInv /\ [Next]_vars => SchedInv'
  <2>1. ASSUME SchedInv, UNCHANGED vars PROVE SchedInv'
    BY <2>1 DEF vars, SchedInv, PendingInv, live
  <2>2. ASSUME TypeOK, TypeOK', IInv, SchedInv, ActorNext PROVE SchedInv'
    BY <2>2, SchedStillSteps, SchedTakeCommit, SchedSubscribe, SchedCancel, SchedReplace,
       SchedEvent, SchedCompleted, SchedSubmit, SchedClose DEF ActorNext
  <2> QED BY <2>1, <2>2, SchedOutside DEF Next, Terminated
<1> QED BY <1>1, <1>2, TypeCorrect, FenceInductive, PTL DEF Spec

\* No subscription is forgotten by the coordinator: commits and replacements that hit
\* a running attempt leave it dirty and its completion queues it again, a refused job
\* goes back to the queue, and the deduplicated queue never loses or repeats an id.
THEOREM NothingStranded == Spec => []NoStrandedSubscription
<1>1. SchedInv => NoStrandedSubscription
  BY DEF SchedInv, PendingInv, EntryOK, NoStrandedSubscription
<1> QED BY <1>1, SchedInductive, PTL

\* The `previous' quote of a Pending or Searching state is history: last_ready is shown
\* only while the entry is dirty or its attempt runs, and either makes it an old answer.
THEOREM PreviousIsOld == Spec => []PreviousIsHistorical
<1>1. SchedInv => PreviousIsHistorical
  BY DEF SchedInv, EntryOK, Older, PreviousIsHistorical
<1> QED BY <1>1, SchedInductive, PTL
------------------------------------------------------------------------------
\* What a step may do to the watch of id: nothing, or publish a state at least as new
\* as the entry of a live subscription, or the first state of a new one.
WatchMoves(id) ==
  \/ watch'[id] = watch[id]
  \/ id \in live /\ watch'[id].source >= view /\ watch'[id].epoch >= entries[id].epoch
  \/ next_subscription <= id

LEMMA WatchStep ==
  ASSUME TypeOK, IInv, ActorNext, NEW i \in Ids
  PROVE  WatchMoves(i)
<1> USE DEF ammVars, clientVars, controlVars, tableVars, pendingVars, workVars, tokenVars
<1>1. watch \in [Ids -> Snapshot] /\ view \in Nat
  BY DEF TypeOK
<1>2. \A id \in live : id \in Ids /\ entries[id] \in Entry /\ entries[id].epoch \in Nat
  BY HelperTypes DEF Entry
<1>3. CASE HandleCommit \/ DrainOneCommit
  <2>1. CASE BreakLoop(TRUE)
    BY <2>1 DEF BreakLoop, WatchMoves
  <2>2. CASE ApplyCommit
    BY <1>1, <1>2, <2>2 DEF ApplyCommit, PendingSnapshot, WatchMoves
  <2> QED BY <1>3, <2>1, <2>2 DEF HandleCommit, DrainOneCommit
<1>4. CASE HandleSubscribe
  <2>1. watch' = watch \/ \E s : watch' = [watch EXCEPT ![next_subscription] = s]
    BY <1>4 DEF HandleSubscribe
  <2>2. next_subscription \in Nat /\ i \in Nat
    BY BoundAssumption DEF TypeOK, Ids
  <2> QED BY <1>1, <2>1, <2>2 DEF WatchMoves
<1>5. CASE HandleCancel \/ HandleCleanup
  <2>1. PICK id, queue : CancelSubscription(id, queue)
    BY <1>5 DEF HandleCancel, HandleCleanup
  <2>2. watch' = watch \/ (id \in live /\ watch' = [watch EXCEPT ![id] =
                             FinalSnapshot("Cancelled", view, entries[id].epoch, None)])
    BY <2>1 DEF CancelSubscription
  <2> QED BY <1>1, <1>2, <2>2 DEF WatchMoves, FinalSnapshot
<1>6. CASE HandleReplace
  <2> DEFINE id == Head(commands).id
             e == Replaced(entries[id], Head(commands).spec)
  <2>1. CASE id \notin live
    BY <1>6, <2>1 DEF HandleReplace, WatchMoves
  <2>2. CASE id \in live
    <3>1. watch' = [watch EXCEPT ![id] = PendingSnapshot(e, view)]
      BY <1>6, <2>2 DEF HandleReplace
    <3>2. e.epoch = entries[id].epoch + 1
      BY <1>2, <2>2 DEF Replaced, Entry
    <3> HIDE DEF id, e
    <3> QED BY <1>1, <1>2, <2>2, <3>1, <3>2 DEF WatchMoves, PendingSnapshot
  <2> QED BY <2>1, <2>2
<1>7. CASE HandleEvent
  <2> DEFINE id == input.stamp.sub
  <2>1. \/ watch' = watch
        \/ /\ Accepts(input.stamp)
           /\ watch' = [watch EXCEPT ![id] =
                          SearchingSnapshot(entries[id], input.stamp.source, QuoteOf(input))]
    BY <1>7 DEF HandleEvent
  <2> QED BY <1>1, <1>2, <2>1 DEF WatchMoves, SearchingSnapshot, Accepts
<1>8. CASE HandleCompleted
  <2> DEFINE id == input.stamp.sub
             v == input.stamp.source
             n == input.stamp.epoch
  <2>1. \/ watch' = watch
        \/ /\ id \in live /\ v = view /\ n = entries[id].epoch
           /\ \E kind, q : watch' = [watch EXCEPT ![id] = FinalSnapshot(kind, v, n, q)]
    BY <1>8 DEF HandleCompleted, Stale
  <2> HIDE DEF id, v, n
  <2> QED BY <1>1, <1>2, <2>1 DEF WatchMoves, FinalSnapshot
<1>9. CASE ScheduleSubmit
  <2> DEFINE id == Head(pending)
             e == Submitted(entries[id], NextStamp(id))
  <2>1. id \in live /\ watch' = [watch EXCEPT ![id] = SearchingSnapshot(e, view, None)]
    BY <1>9 DEF ScheduleSubmit, Schedulable
  <2>2. e.epoch = entries[id].epoch
    BY <1>2, <2>1 DEF Submitted, Entry
  <2> HIDE DEF id, e
  <2> QED BY <1>1, <1>2, <2>1, <2>2 DEF WatchMoves, SearchingSnapshot
<1>10. CASE Close
  BY <1>1, <1>2, <1>10 DEF Close, WatchMoves, FinalSnapshot
<1>11. CASE HandleClosed \/ HandleShutdown \/ SelectWorker \/ DrainNoCommit \/ ScheduleDone
            \/ ScheduleSkip \/ ScheduleRefused \/ SendPill \/ JoinDone
  <2>1. UNCHANGED watch
    BY <1>11 DEF HandleClosed, HandleShutdown, SelectWorker, DrainNoCommit, ScheduleDone,
            ScheduleSkip, ScheduleRefused, SendPill, JoinDone, BreakLoop, ScheduleUnchanged
  <2> QED BY <2>1 DEF WatchMoves
<1> QED BY <1>3, <1>4, <1>5, <1>6, <1>7, <1>8, <1>9, <1>10, <1>11 DEF ActorNext

\* A watch never goes back: its view and epoch only grow, and nothing is published
\* after Cancelled, Closed or RuntimeFailed, because every publication is for an entry
\* of the table or for an id that was never issued before.
THEOREM WatchAdvances == Spec => WatchOnlyAdvances
<1> USE DEF ammVars, clientVars, controlVars, tableVars, pendingVars, workVars, tokenVars
<1> DEFINE Advances ==
      \A id \in Ids :
        /\ watch'[id].source >= watch[id].source /\ watch'[id].epoch >= watch[id].epoch
        /\ watch[id].kind \in {"Cancelled", "Closed", "RuntimeFailed"}
             => watch'[id] = watch[id]
<1>1. TypeOK /\ TypeOK' /\ IInv /\ SchedInv /\ [Next]_vars => [Advances]_watch
  <2> SUFFICES ASSUME TypeOK, TypeOK', IInv, SchedInv, [Next]_vars, watch' # watch
               PROVE  Advances
    OBVIOUS
  <2>1. ActorNext
    <3>1. UNCHANGED vars => UNCHANGED watch
      BY DEF vars
    <3>2. ClientNext \/ AmmNext => UNCHANGED watch
      BY DEF ClientNext, AmmNext, SendSubscribe, SendReplace, SendUnsubscribe, SendShutdown,
             Send, RequestCancel, TokenCancel, DropSubscription, DropHandle,
             PublishCommit, StopStream, ClientUnchanged
    <3>3. \A w \in Workers : WorkerNext(w) => UNCHANGED watch
      BY DEF WorkerNext, WorkerTake, WorkerEvent, WorkerSend, WorkerSendClosed, WorkerFinish,
             WorkerComplete, WorkerUnchanged
    <3> QED BY <3>1, <3>2, <3>3 DEF Next, Terminated
  <2>2. ASSUME NEW id \in Ids
        PROVE  /\ watch'[id].source >= watch[id].source /\ watch'[id].epoch >= watch[id].epoch
               /\ watch[id].kind \in {"Cancelled", "Closed", "RuntimeFailed"}
                    => watch'[id] = watch[id]
    <3>1. watch[id] \in Snapshot /\ watch'[id] \in Snapshot
      BY DEF TypeOK
    <3>2. /\ watch[id].source \in Nat /\ watch[id].epoch \in Nat
          /\ watch'[id].source \in Nat /\ watch'[id].epoch \in Nat
      BY <3>1 DEF Snapshot
    <3>3. CASE watch'[id] = watch[id]
      BY <3>2, <3>3
    <3>4. CASE id \in live /\ watch'[id].source >= view /\ watch'[id].epoch >= entries[id].epoch
      <4>1. watch[id].source = view /\ watch[id].epoch = entries[id].epoch
        BY <3>4 DEF IInv, FenceInv, WatchCurrent
      <4>2. watch[id].kind \notin {"Cancelled", "Closed", "RuntimeFailed"}
        BY <3>4 DEF SchedInv, EntryOK
      <4> QED BY <3>4, <4>1, <4>2
    <3>5. CASE next_subscription <= id
      <4>1. watch[id].source = 0 /\ watch[id].epoch = 0 /\ watch[id].kind = "Absent"
        BY <3>5 DEF SchedInv, FinalSnapshot
      <4> QED BY <3>2, <4>1
    <3> QED BY <2>1, <3>3, <3>4, <3>5, WatchStep DEF WatchMoves
  <2> QED BY <2>2
<1>2. Spec => [][Advances]_watch
  BY <1>1, TypeCorrect, FenceInductive, SchedInductive, PTL DEF Spec
<1> QED BY <1>2 DEF WatchOnlyAdvances
------------------------------------------------------------------------------
(* Counting the attempts of a subscription *)

\* How many elements of q are in T.
SeqCount(q, T) == Cardinality({i \in DOMAIN q : q[i] \in T})

LEMMA SeqCountFinite ==
  ASSUME NEW S, NEW q \in Seq(S), NEW T
  PROVE  /\ IsFiniteSet({i \in DOMAIN q : q[i] \in T}) /\ SeqCount(q, T) \in Nat
         /\ SeqCount(q, T) = 0 => \A i \in DOMAIN q : q[i] \notin T
<1> DEFINE A == {i \in DOMAIN q : q[i] \in T}
<1>1. IsFiniteSet(DOMAIN q)
  BY LenProperties, FS_Interval
<1>2. A \in SUBSET DOMAIN q
  OBVIOUS
<1>3. IsFiniteSet(A)
  <2> HIDE DEF A
  <2> QED BY <1>1, <1>2, FS_Subset
<1>4. Cardinality(A) \in Nat /\ (Cardinality(A) = 0 => A = {})
  <2> HIDE DEF A
  <2> QED BY <1>3, FS_CardinalityType, FS_EmptySet
<1> QED BY <1>3, <1>4 DEF SeqCount

\* Sending counts the new element.
LEMMA SeqCountAppend ==
  ASSUME NEW S, NEW q \in Seq(S), NEW x \in S, NEW T
  PROVE  SeqCount(Append(q, x), T) = SeqCount(q, T) + (IF x \in T THEN 1 ELSE 0)
<1> DEFINE n == Len(q) + 1
           r == Append(q, x)
           A == {i \in DOMAIN q : q[i] \in T}
           B == {i \in DOMAIN r : r[i] \in T}
<1>1. /\ DOMAIN q = 1 .. Len(q) /\ Len(q) \in Nat /\ DOMAIN r = 1 .. n /\ r[n] = x
      /\ \A i \in DOMAIN q : r[i] = q[i]
  BY AppendProperties, LenProperties
<1>2. B = IF x \in T THEN A \cup {n} ELSE A
  <2>1. \A i \in DOMAIN r : i \in DOMAIN q \/ i = n
    BY <1>1
  <2>2. DOMAIN q \subseteq DOMAIN r /\ n \in DOMAIN r
    BY <1>1
  <2> HIDE DEF r, n
  <2> QED BY <1>1, <2>1, <2>2
<1>3. n \notin A
  BY <1>1
<1>4. IsFiniteSet(A) /\ Cardinality(A) \in Nat
  BY SeqCountFinite DEF SeqCount
<1>5. Cardinality(B) = Cardinality(A) + (IF x \in T THEN 1 ELSE 0)
  <2> HIDE DEF A, B, n
  <2>1. Cardinality(A \cup {n}) = Cardinality(A) + 1
    BY <1>3, <1>4, FS_AddElement
  <2>2. CASE x \in T
    BY <1>2, <2>1, <2>2
  <2>3. CASE x \notin T
    BY <1>2, <1>4, <2>3
  <2> QED BY <2>2, <2>3
<1> QED BY <1>5 DEF SeqCount

\* Receiving discounts the head.
LEMMA SeqCountTail ==
  ASSUME NEW S, NEW q \in Seq(S), q # <<>>, NEW T
  PROVE  SeqCount(q, T) = SeqCount(Tail(q), T) + (IF Head(q) \in T THEN 1 ELSE 0)
<1> DEFINE r == Tail(q)
           A == {i \in DOMAIN r : r[i] \in T}
           B == {i \in DOMAIN q : q[i] \in T}
           C == B \ {1}
           f == [i \in A |-> i + 1]
<1>1. /\ r \in Seq(S) /\ DOMAIN r = 1 .. (Len(q) - 1) /\ DOMAIN q = 1 .. Len(q)
      /\ Len(q) \in Nat /\ 1 \in DOMAIN q /\ Head(q) = q[1]
      /\ \A i \in DOMAIN r : i + 1 \in DOMAIN q /\ r[i] = q[i + 1]
  BY TailType, LenProperties
<1>2. f \in Bijection(A, C)
  <2>1. f \in [A -> C]
    <3>1. \A i \in A : i + 1 \in C
      BY <1>1
    <3> QED BY <3>1
  <2>2. \A i, j \in A : f[i] = f[j] => i = j
    BY <1>1
  <2>3. \A k \in C : \E i \in A : f[i] = k
    <3> SUFFICES ASSUME NEW k \in C PROVE \E i \in A : f[i] = k
      OBVIOUS
    <3>1. k - 1 \in DOMAIN r /\ (k - 1) + 1 = k
      BY <1>1
    <3>2. k - 1 \in A
      <4>1. r[k - 1] = q[(k - 1) + 1]
        BY <1>1, <3>1
      <4> QED BY <3>1, <4>1
    <3> QED BY <3>1, <3>2
  <2> HIDE DEF f, A, C
  <2> QED BY <2>1, <2>2, <2>3 DEF Bijection, Injection, Surjection, IsInjective
<1>3. IsFiniteSet(A) /\ Cardinality(A) = Cardinality(C)
  <2>1. IsFiniteSet(A)
    <3> HIDE DEF r
    <3> QED BY <1>1, SeqCountFinite
  <2>2. ExistsBijection(A, C)
    <3> HIDE DEF f, A, C
    <3> QED BY <1>2 DEF ExistsBijection
  <2> HIDE DEF A, C
  <2> QED BY <2>1, <2>2, FS_Bijection
<1>4. IsFiniteSet(B) /\ Cardinality(B) \in Nat
  BY SeqCountFinite DEF SeqCount
<1>5. 1 \in B <=> Head(q) \in T
  BY <1>1
<1>6. Cardinality(B) = Cardinality(C) + (IF Head(q) \in T THEN 1 ELSE 0)
  <2> HIDE DEF B
  <2>1. Cardinality(C) = IF 1 \in B THEN Cardinality(B) - 1 ELSE Cardinality(B)
    BY <1>4, FS_RemoveElement
  <2> HIDE DEF C
  <2> QED BY <1>4, <1>5, <2>1
<1> HIDE DEF A, B, C
<1> QED BY <1>3, <1>6 DEF SeqCount, A, B

\* The job queue.
LEMMA JobsCount ==
  ASSUME NEW q \in Seq(Job \cup {None}), NEW id
  PROVE  /\ JobsFor(q, id) \in Nat
         /\ JobsFor(q, id) = 0 => \A i \in DOMAIN q : ~JobFor(q[i], id)
         /\ \A x \in Job \cup {None} :
              JobsFor(Append(q, x), id) = JobsFor(q, id) + (IF JobFor(x, id) THEN 1 ELSE 0)
         /\ q # <<>> =>
              JobsFor(q, id) = JobsFor(Tail(q), id) + (IF JobFor(Head(q), id) THEN 1 ELSE 0)
<1> DEFINE S == Job \cup {None}
           T == {x \in S : JobFor(x, id)}
<1>1. ASSUME NEW r \in Seq(S) PROVE JobsFor(r, id) = SeqCount(r, T)
  <2>1. \A i \in DOMAIN r : r[i] \in S
    OBVIOUS
  <2>2. {i \in DOMAIN r : JobFor(r[i], id)} = {i \in DOMAIN r : r[i] \in T}
    <3> HIDE DEF S
    <3> QED BY <2>1
  <2> QED BY <2>2 DEF JobsFor, SeqCount
<1>2. \A x \in S : x \in T <=> JobFor(x, id)
  OBVIOUS
<1>3. /\ \A x \in S : Append(q, x) \in Seq(S)
      /\ q # <<>> => Head(q) \in S /\ Tail(q) \in Seq(S)
      /\ \A i \in DOMAIN q : q[i] \in S
  BY AppendType, TailType
<1> HIDE DEF S, T
<1>4. q \in Seq(S)
  BY DEF S
<1>5. JobsFor(q, id) \in Nat /\ (JobsFor(q, id) = 0 => \A i \in DOMAIN q : ~JobFor(q[i], id))
  BY <1>1, <1>2, <1>3, <1>4, SeqCountFinite
<1>6. ASSUME NEW x \in S
      PROVE  JobsFor(Append(q, x), id) = JobsFor(q, id) + (IF JobFor(x, id) THEN 1 ELSE 0)
  <2>1. SeqCount(Append(q, x), T) = SeqCount(q, T) + (IF x \in T THEN 1 ELSE 0)
    BY <1>4, SeqCountAppend
  <2> QED BY <1>1, <1>2, <1>3, <1>4, <2>1
<1>7. q # <<>> =>
        JobsFor(q, id) = JobsFor(Tail(q), id) + (IF JobFor(Head(q), id) THEN 1 ELSE 0)
  BY <1>1, <1>2, <1>3, <1>4, SeqCountTail
<1> QED BY <1>5, <1>6, <1>7 DEF S

\* The result channel.
LEMMA ResultsCount ==
  ASSUME NEW q \in Seq(Message), NEW id
  PROVE  /\ ResultsFor(q, id) \in Nat
         /\ ResultsFor(q, id) = 0 => \A i \in DOMAIN q : ~DoneFor(q[i], id)
         /\ \A x \in Message :
              ResultsFor(Append(q, x), id) = ResultsFor(q, id) + (IF DoneFor(x, id) THEN 1 ELSE 0)
         /\ q # <<>> =>
              ResultsFor(q, id) = ResultsFor(Tail(q), id) + (IF DoneFor(Head(q), id) THEN 1 ELSE 0)
<1> DEFINE T == {x \in Message : DoneFor(x, id)}
<1>1. ASSUME NEW r \in Seq(Message) PROVE ResultsFor(r, id) = SeqCount(r, T)
  <2>1. \A i \in DOMAIN r : r[i] \in Message
    OBVIOUS
  <2>2. {i \in DOMAIN r : DoneFor(r[i], id)} = {i \in DOMAIN r : r[i] \in T}
    BY <2>1
  <2> QED BY <2>2 DEF ResultsFor, SeqCount
<1>2. \A x \in Message : x \in T <=> DoneFor(x, id)
  OBVIOUS
<1>3. /\ \A x \in Message : Append(q, x) \in Seq(Message)
      /\ q # <<>> => Head(q) \in Message /\ Tail(q) \in Seq(Message)
      /\ \A i \in DOMAIN q : q[i] \in Message
  BY AppendType, TailType
<1> HIDE DEF T
<1>4. ResultsFor(q, id) \in Nat
      /\ (ResultsFor(q, id) = 0 => \A i \in DOMAIN q : ~DoneFor(q[i], id))
  BY <1>1, <1>2, <1>3, SeqCountFinite
<1>5. ASSUME NEW x \in Message
      PROVE  ResultsFor(Append(q, x), id) = ResultsFor(q, id) + (IF DoneFor(x, id) THEN 1 ELSE 0)
  <2>1. SeqCount(Append(q, x), T) = SeqCount(q, T) + (IF x \in T THEN 1 ELSE 0)
    BY SeqCountAppend
  <2> QED BY <1>1, <1>2, <1>3, <2>1
<1>6. q # <<>> =>
        ResultsFor(q, id) = ResultsFor(Tail(q), id) + (IF DoneFor(Head(q), id) THEN 1 ELSE 0)
  BY <1>1, <1>2, <1>3, SeqCountTail
<1> QED BY <1>4, <1>5, <1>6

\* The worker threads, when one of them takes or drops a job.
LEMMA WorkersCount ==
  ASSUME NEW f \in [Workers -> WorkerState], NEW id
  PROVE  /\ WorkersFor(f, id) \in Nat
         /\ WorkersFor(f, id) = 0 => \A w \in Workers : ~JobFor(f[w].job, id)
         /\ \A w \in Workers : \A r :
              WorkersFor([f EXCEPT ![w] = r], id) + (IF JobFor(f[w].job, id) THEN 1 ELSE 0)
                = WorkersFor(f, id) + (IF JobFor(r.job, id) THEN 1 ELSE 0)
<1> DEFINE A == {w \in Workers : JobFor(f[w].job, id)}
<1>1. IsFiniteSet(A)
  <2>1. IsFiniteSet(Workers) /\ A \in SUBSET Workers
    BY CapacityAssumption DEF ValidRuntimeConfig
  <2> HIDE DEF A
  <2> QED BY <2>1, FS_Subset
<1>2. Cardinality(A) \in Nat /\ (Cardinality(A) = 0 => A = {})
  <2> HIDE DEF A
  <2> QED BY <1>1, FS_CardinalityType, FS_EmptySet
<1>3. ASSUME NEW w \in Workers, NEW r
      PROVE  WorkersFor([f EXCEPT ![w] = r], id) + (IF JobFor(f[w].job, id) THEN 1 ELSE 0)
                = WorkersFor(f, id) + (IF JobFor(r.job, id) THEN 1 ELSE 0)
  <2> DEFINE g == [f EXCEPT ![w] = r]
             B == {v \in Workers : JobFor(g[v].job, id)}
  <2>1. \A v \in Workers : g[v] = IF v = w THEN r ELSE f[v]
    OBVIOUS
  <2> HIDE DEF g
  <2>2. B = IF JobFor(r.job, id) THEN (A \ {w}) \cup {w} ELSE A \ {w}
    BY <2>1
  <2>3. w \in A <=> JobFor(f[w].job, id)
    OBVIOUS
  <2>4. /\ IsFiniteSet(A \ {w})
        /\ Cardinality(A \ {w}) = IF w \in A THEN Cardinality(A) - 1 ELSE Cardinality(A)
    <3> HIDE DEF A
    <3> QED BY <1>1, FS_RemoveElement
  <2>5. Cardinality((A \ {w}) \cup {w}) = Cardinality(A \ {w}) + 1
    <3> DEFINE D == A \ {w}
    <3>1. w \notin D /\ IsFiniteSet(D)
      BY <2>4
    <3> HIDE DEF D
    <3> QED BY <3>1, FS_AddElement DEF D
  <2>6. Cardinality(B) + (IF JobFor(f[w].job, id) THEN 1 ELSE 0)
          = Cardinality(A) + (IF JobFor(r.job, id) THEN 1 ELSE 0)
    <3> HIDE DEF A, B
    <3> QED BY <1>2, <2>2, <2>3, <2>4, <2>5
  <2> QED BY <2>6 DEF WorkersFor, g
<1> QED BY <1>2, <1>3 DEF WorkersFor
JobCount(x, id) == IF JobFor(x, id) THEN 1 ELSE 0

LEMMA WorkersMove ==
  ASSUME TypeOK, NEW w \in Workers, NEW r, NEW id, worker' = [worker EXCEPT ![w] = r]
  PROVE  WorkersFor(worker', id) + JobCount(worker[w].job, id)
           = WorkersFor(worker, id) + JobCount(r.job, id)
<1>1. worker \in [Workers -> WorkerState]
  BY DEF TypeOK
<1>2. WorkersFor([worker EXCEPT ![w] = r], id) + (IF JobFor(worker[w].job, id) THEN 1 ELSE 0)
        = WorkersFor(worker, id) + (IF JobFor(r.job, id) THEN 1 ELSE 0)
  BY <1>1, WorkersCount
<1> QED BY <1>2 DEF JobCount

LEMMA JobsMove ==
  ASSUME TypeOK, NEW x \in Job \cup {None}, NEW id, jobs' = Append(jobs, x)
  PROVE  JobsFor(jobs', id) = JobsFor(jobs, id) + JobCount(x, id)
<1>1. jobs \in Seq(Job \cup {None})
  BY DEF TypeOK
<1>2. JobsFor(Append(jobs, x), id) = JobsFor(jobs, id) + (IF JobFor(x, id) THEN 1 ELSE 0)
  BY <1>1, JobsCount
<1> QED BY <1>2 DEF JobCount

------------------------------------------------------------------------------
LEMMA AttemptsSum ==
  ASSUME NEW id
  PROVE  /\ Attempts(id) = JobsFor(jobs, id) + WorkersFor(worker, id)
                             + ResultsFor(results, id) + InputFor(input, id)
         /\ Attempts(id)' = JobsFor(jobs', id) + WorkersFor(worker', id)
                              + ResultsFor(results', id) + InputFor(input', id)
<1>1. Attempts(id) = JobsFor(jobs, id) + WorkersFor(worker, id)
                       + ResultsFor(results, id) + InputFor(input, id)
  BY DEF Attempts, JobsFor, WorkersFor, ResultsFor, InputFor, JobFor, DoneFor
<1>2. Attempts(id)' = JobsFor(jobs', id) + WorkersFor(worker', id)
                        + ResultsFor(results', id) + InputFor(input', id)
  BY DEF Attempts, JobsFor, WorkersFor, ResultsFor, InputFor, JobFor, DoneFor
<1> QED BY <1>1, <1>2

LEMMA AttemptsTypes ==
  ASSUME TypeOK, NEW id
  PROVE  /\ JobsFor(jobs, id) \in Nat /\ WorkersFor(worker, id) \in Nat
         /\ ResultsFor(results, id) \in Nat /\ InputFor(input, id) \in {0, 1}
         /\ Attempts(id) \in Nat
<1>1. /\ JobsFor(jobs, id) \in Nat /\ WorkersFor(worker, id) \in Nat
      /\ ResultsFor(results, id) \in Nat
  BY JobsCount, WorkersCount, ResultsCount DEF TypeOK
<1>2. InputFor(input, id) \in {0, 1}
  BY DEF InputFor
<1> QED BY <1>1, <1>2, AttemptsSum

\* Where nothing counts nobody carries.
LEMMA NoCarrier ==
  ASSUME TypeOK, NEW id, Attempts(id) = 0
  PROVE  /\ \A i \in DOMAIN jobs : ~JobFor(jobs[i], id)
         /\ \A w \in Workers : ~JobFor(worker[w].job, id)
         /\ \A i \in DOMAIN results : ~DoneFor(results[i], id)
         /\ input # None => ~DoneFor(input, id)
<1>1. /\ JobsFor(jobs, id) = 0 /\ WorkersFor(worker, id) = 0
      /\ ResultsFor(results, id) = 0 /\ InputFor(input, id) = 0
  <2> DEFINE a == JobsFor(jobs, id)
             b == WorkersFor(worker, id)
             c == ResultsFor(results, id)
             d == InputFor(input, id)
  <2>1. a \in Nat /\ b \in Nat /\ c \in Nat /\ d \in {0, 1} /\ a + b + c + d = 0
    BY AttemptsTypes, AttemptsSum
  <2> HIDE DEF a, b, c, d
  <2>2. a = 0 /\ b = 0 /\ c = 0 /\ d = 0
    BY <2>1
  <2> QED BY <2>2 DEF a, b, c, d
<1>2. \A i \in DOMAIN jobs : ~JobFor(jobs[i], id)
  BY <1>1, JobsCount DEF TypeOK
<1>3. \A w \in Workers : ~JobFor(worker[w].job, id)
  BY <1>1, WorkersCount DEF TypeOK
<1>4. \A i \in DOMAIN results : ~DoneFor(results[i], id)
  BY <1>1, ResultsCount DEF TypeOK
<1>5. input # None => ~DoneFor(input, id)
  BY <1>1 DEF InputFor
<1> QED BY <1>2, <1>3, <1>4, <1>5

\* An id that was not issued has no attempt.
LEMMA NewIdFree ==
  ASSUME TypeOK, IInv, WorkersInv, NEW id \in Ids, next_subscription <= id
  PROVE  Attempts(id) = 0
<1>1. id \in Nat /\ next_subscription \in Nat
  BY BoundAssumption DEF Ids, TypeOK
<1>2. ASSUME NEW c, Fits(c, entries, next_subscription), c.stamp.sub = id PROVE FALSE
  BY <1>1, <1>2 DEF Fits
<1>3. /\ \A i \in DOMAIN jobs : ~JobFor(jobs[i], id)
      /\ \A w \in Workers : ~JobFor(worker[w].job, id)
      /\ \A i \in DOMAIN results : ~DoneFor(results[i], id)
      /\ input # None => ~DoneFor(input, id)
  BY <1>2 DEF IInv, CargoInv, WorkersInv, JobFor, DoneFor
<1>4. JobsFor(jobs, id) = 0 /\ WorkersFor(worker, id) = 0 /\ ResultsFor(results, id) = 0
  <2>1. /\ {i \in DOMAIN jobs : JobFor(jobs[i], id)} = {}
        /\ {w \in Workers : JobFor(worker[w].job, id)} = {}
        /\ {i \in DOMAIN results : DoneFor(results[i], id)} = {}
    BY <1>3
  <2> QED BY <2>1, FS_EmptySet DEF JobsFor, WorkersFor, ResultsFor
<1>5. InputFor(input, id) = 0
  BY <1>3 DEF InputFor
<1> QED BY <1>4, <1>5, AttemptsSum

\* A step of the coordinator that moves no attempt: subscriptions that stay keep the
\* attempt they had, new ones have none.
LEMMA TableOnly ==
  ASSUME TypeOK, TypeOK', IInv, AttemptInv, UNCHANGED <<jobs, worker, results>>,
         input' = input \/ (input' = None /\ input.kind # "completed"),
         input' # None <=> HasInput',
         ~resultsOpen' <=> pc' \in {"joining", "exited"}, ~resultsOpen' => live' = {},
         \A id \in live' : pc' # "closing" =>
           /\ pc # "closing"
           /\ \/ id \in live /\ entries'[id].active = entries[id].active
              \/ next_subscription <= id /\ entries'[id].active = None
  PROVE  AttemptInv'
<1>1. WorkersInv'
  BY DEF AttemptInv, WorkersInv
<1>2. \A id \in Ids : Attempts(id)' = Attempts(id)
  <2>1. \A id \in Ids : InputFor(input', id) = InputFor(input, id)
    BY DEF InputFor, DoneFor
  <2> QED BY <2>1, AttemptsSum
<1>3. \A id \in Ids : next_subscription <= id => Attempts(id) = 0
  BY NewIdFree DEF AttemptInv
<1>4. live' \subseteq Ids
  BY DEF live
<1>5. OneAttempt'
  <2> SUFFICES ASSUME NEW id \in Ids
               PROVE  /\ Attempts(id)' <= 1
                      /\ id \in live' /\ pc' # "closing" =>
                           (entries'[id].active # None <=> Attempts(id)' = 1)
    BY DEF OneAttempt
  <2>1. /\ Attempts(id) <= 1
        /\ id \in live /\ pc # "closing" => (entries[id].active # None <=> Attempts(id) = 1)
    BY DEF AttemptInv, OneAttempt
  <2> QED BY <1>2, <1>3, <2>1
<1>6. CarriersInv'
  <2>1. ASSUME NEW stamp, Carried(stamp), pc # "closing", pc' # "closing",
               stamp.sub \in Ids, Attempts(stamp.sub) # 0
        PROVE  Carried(stamp)'
    BY <1>3, <2>1 DEF Carried
  <2> SUFFICES ASSUME pc' # "closing", live' # {} PROVE CarriersInv'
    BY DEF CarriersInv, Carried
  <2>2. pc # "closing"
    OBVIOUS
  <2>3. /\ \A x \in Job : x.stamp \in Stamp /\ x.stamp.sub \in Ids
        /\ \A m \in Message : m.stamp \in Stamp /\ m.stamp.sub \in Ids
    BY DEF Job, Message, Stamp
  <2>4. ASSUME NEW i \in DOMAIN jobs, jobs[i] # None PROVE Carried(jobs[i].stamp)'
    <3>1. jobs[i] \in Job /\ Carried(jobs[i].stamp) /\ JobFor(jobs[i], jobs[i].stamp.sub)
      BY <2>2, <2>4, SMTT(30) DEF TypeOK, AttemptInv, CarriersInv, JobFor
    <3>2. Attempts(jobs[i].stamp.sub) # 0
      BY <3>1, NoCarrier
    <3> QED BY <2>1, <2>2, <2>3, <3>1, <3>2
  <2>5. ASSUME NEW w \in Workers, worker[w].job # None PROVE Carried(worker[w].job.stamp)'
    <3>1. /\ worker[w].job \in Job /\ Carried(worker[w].job.stamp)
          /\ JobFor(worker[w].job, worker[w].job.stamp.sub)
      BY <2>2, <2>5 DEF TypeOK, WorkerState, AttemptInv, CarriersInv, JobFor
    <3>2. Attempts(worker[w].job.stamp.sub) # 0
      BY <3>1, NoCarrier
    <3> QED BY <2>1, <2>2, <2>3, <3>1, <3>2
  <2>6. ASSUME NEW i \in DOMAIN results, results[i].kind = "completed"
        PROVE  Carried(results[i].stamp)'
    <3>1. /\ results[i] \in Message /\ Carried(results[i].stamp)
          /\ DoneFor(results[i], results[i].stamp.sub)
      BY <2>2, <2>6, SMTT(30) DEF TypeOK, AttemptInv, CarriersInv, DoneFor
    <3>2. Attempts(results[i].stamp.sub) # 0
      BY <3>1, NoCarrier
    <3> QED BY <2>1, <2>2, <2>3, <3>1, <3>2
  <2>7. ASSUME input' # None, input'.kind = "completed" PROVE Carried(input.stamp)'
    <3>1. input' = input
      BY <2>7
    <3>2. input \in Message /\ Carried(input.stamp) /\ DoneFor(input, input.stamp.sub)
      BY <2>2, <2>7, <3>1 DEF TypeOK, AttemptInv, CarriersInv, DoneFor
    <3>3. Attempts(input.stamp.sub) # 0
      BY <2>7, <3>1, <3>2, NoCarrier
    <3>4. input.stamp.sub \in live' => entries'[input.stamp.sub].active = input.stamp
      BY <1>3, <1>4, <3>2, <3>3 DEF Carried
    <3> QED BY <3>1, <3>4 DEF Carried
  <2> QED BY <2>4, <2>5, <2>6, <2>7 DEF CarriersInv, Carried
<1> QED BY <1>1, <1>5, <1>6 DEF AttemptInv

\* Leaving the loop drops the message in hand, if any.
LEMMA BreakOnly ==
  ASSUME TypeOK, TypeOK', AttemptInv, UNCHANGED <<jobs, worker, results, entries, resultsOpen>>,
         pc' = "closing", input' = None, pc \notin {"joining", "exited"}
  PROVE  AttemptInv'
<1>1. live' = live
  BY DEF live
<1>2. WorkersInv'
  BY <1>1 DEF AttemptInv, WorkersInv, HasInput
<1>3. CarriersInv'
  BY DEF CarriersInv
<1>4. ASSUME NEW id \in Ids PROVE Attempts(id)' <= 1
  <2> DEFINE a == JobsFor(jobs, id)
             b == WorkersFor(worker, id)
             c == ResultsFor(results, id)
             d == InputFor(input, id)
  <2>1. a \in Nat /\ b \in Nat /\ c \in Nat /\ d \in {0, 1} /\ a + b + c + d <= 1
    BY AttemptsTypes, AttemptsSum DEF AttemptInv, OneAttempt
  <2>2. Attempts(id)' = a + b + c + 0
    <3>1. InputFor(input', id) = 0
      BY DEF InputFor
    <3> QED BY <3>1, AttemptsSum
  <2> HIDE DEF a, b, c, d
  <2> QED BY <2>1, <2>2
<1> QED BY <1>2, <1>3, <1>4 DEF AttemptInv, OneAttempt
\* A step of worker w to state r: it holds a job it was given, and attempts are moved,
\* or dropped once the result channel is closed.
LEMMA OneWorker ==
  ASSUME TypeOK, AttemptInv, NEW w \in Workers, NEW r \in WorkerState,
         worker' = [worker EXCEPT ![w] = r], UNCHANGED <<entries, pc, input, resultsOpen>>,
         r.job # None <=> HasJob(r.st),
         HasMsg(r.st) => /\ r.msg.stamp = r.job.stamp
                         /\ r.msg.kind = "completed" <=> r.st = "completing",
         pc # "closing" /\ r.job # None => Carried(r.job.stamp),
         \A i \in DOMAIN jobs' : \E k \in DOMAIN jobs : jobs'[i] = jobs[k],
         \A i \in DOMAIN results' :
           \/ \E k \in DOMAIN results : results'[i] = results[k]
           \/ pc # "closing" /\ results'[i].kind = "completed" => Carried(results'[i].stamp),
         \A id \in Ids : \/ Attempts(id)' = Attempts(id)
                         \/ ~resultsOpen /\ Attempts(id)' <= 1
  PROVE  AttemptInv'
<1>1. live' = live /\ HasInput' = HasInput
  BY DEF live, HasInput
<1>2. \A v \in Workers : worker'[v] = IF v = w THEN r ELSE worker[v]
  BY DEF TypeOK
<1>3. WorkersInv'
  BY <1>1, <1>2 DEF AttemptInv, WorkersInv
<1>4. CarriersInv'
  BY <1>1, <1>2 DEF AttemptInv, CarriersInv, Carried
<1>5. OneAttempt'
  <2> SUFFICES ASSUME NEW id \in Ids
               PROVE  /\ Attempts(id)' <= 1
                      /\ id \in live' /\ pc' # "closing" =>
                           (entries'[id].active # None <=> Attempts(id)' = 1)
    BY DEF OneAttempt
  <2>1. /\ Attempts(id) <= 1
        /\ id \in live /\ pc # "closing" => (entries[id].active # None <=> Attempts(id) = 1)
    BY DEF AttemptInv, OneAttempt
  <2>2. ~resultsOpen => live = {}
    BY DEF AttemptInv, WorkersInv
  <2> QED BY <1>1, <2>1, <2>2
<1> QED BY <1>3, <1>4, <1>5 DEF AttemptInv

\* How the sum changes with its terms, when the input stays.
LEMMA SumMoves ==
  ASSUME TypeOK, TypeOK', NEW id, UNCHANGED input,
         JobsFor(jobs', id) + WorkersFor(worker', id) + ResultsFor(results', id)
           = JobsFor(jobs, id) + WorkersFor(worker, id) + ResultsFor(results, id)
  PROVE  Attempts(id)' = Attempts(id)
<1> DEFINE a == JobsFor(jobs', id) + WorkersFor(worker', id) + ResultsFor(results', id)
           d == InputFor(input, id)
<1>1. Attempts(id) = a + d /\ Attempts(id)' = a + d
  BY AttemptsSum
<1> QED BY <1>1

LEMMA WorkerAttempts ==
  ASSUME TypeOK, TypeOK', AttemptInv, NEW w \in Workers, WorkerNext(w)
  PROVE  AttemptInv'
<1> USE DEF controlVars, tableVars, pendingVars, workVars, tokenVars
<1>1. UNCHANGED <<entries, pc, input, resultsOpen>>
  BY DEF WorkerNext, WorkerTake, WorkerEvent, WorkerSend, WorkerSendClosed, WorkerFinish,
         WorkerComplete, WorkerUnchanged
<1>2. /\ worker \in [Workers -> WorkerState] /\ worker[w] \in WorkerState
      /\ worker' \in [Workers -> WorkerState] /\ worker'[w] \in WorkerState
      /\ jobs \in Seq(Job \cup {None}) /\ results \in Seq(Message)
  BY DEF TypeOK
<1>3. /\ worker[w].job # None <=> HasJob(worker[w].st)
      /\ HasMsg(worker[w].st) =>
            /\ worker[w].msg.stamp = worker[w].job.stamp
            /\ worker[w].msg.kind = "completed" <=> worker[w].st = "completing"
      /\ pc # "closing" /\ worker[w].job # None => Carried(worker[w].job.stamp)
  BY DEF AttemptInv, WorkersInv, CarriersInv
<1>4. ASSUME NEW st, NEW job, NEW msg, NEW sent, SetWorker(w, st, job, msg, sent)
      PROVE  \E r \in WorkerState : /\ r = worker'[w] /\ worker' = [worker EXCEPT ![w] = r]
                                    /\ r.st = st /\ r.job = job /\ r.msg = msg
  BY <1>2, <1>4 DEF SetWorker
\* The job stays with the worker, whatever it sends meanwhile.
<1>5. ASSUME NEW st, NEW msg, NEW sent, SetWorker(w, st, worker[w].job, msg, sent),
             worker[w].job # None, HasJob(st),
             HasMsg(st) => /\ msg.stamp = worker[w].job.stamp
                           /\ msg.kind = "completed" <=> st = "completing",
             UNCHANGED jobs,
             results' = results \/ \E m \in Message : /\ m.kind = "event"
                                                      /\ results' = Append(results, m)
      PROVE  AttemptInv'
  <2>1. PICK r \in WorkerState : /\ worker' = [worker EXCEPT ![w] = r]
                                 /\ r.st = st /\ r.job = worker[w].job /\ r.msg = msg
    BY <1>4, <1>5
  <2>2. \A id \in Ids : Attempts(id)' = Attempts(id)
    <3> SUFFICES ASSUME NEW id \in Ids PROVE Attempts(id)' = Attempts(id)
      OBVIOUS
    <3>1. ResultsFor(results', id) = ResultsFor(results, id)
      <4>1. ResultsFor(results, id) \in Nat
        BY AttemptsTypes
      <4>2. ASSUME NEW m \in Message, m.kind = "event", results' = Append(results, m)
            PROVE  ResultsFor(results', id) = ResultsFor(results, id)
        BY <1>2, <4>1, <4>2, ResultsCount DEF DoneFor
      <4> QED BY <1>5, <4>2
    <3>2. WorkersFor(worker', id) = WorkersFor(worker, id)
      <4>1. WorkersFor(worker', id) + JobCount(worker[w].job, id)
              = WorkersFor(worker, id) + JobCount(r.job, id)
        BY <2>1, WorkersMove
      <4>2. WorkersFor(worker', id) \in Nat /\ WorkersFor(worker, id) \in Nat
        BY <1>2, WorkersCount
      <4>3. JobCount(worker[w].job, id) \in Nat
        BY DEF JobCount
      <4> QED BY <2>1, <4>1, <4>2, <4>3
    <3> QED BY <1>1, <1>5, <3>1, <3>2, SumMoves
  <2>3. \A i \in DOMAIN results' : \/ \E k \in DOMAIN results : results'[i] = results[k]
                                   \/ results'[i].kind = "event"
    BY <1>2, <1>5, AppendType, SMTT(30)
  <2> QED BY <1>1, <1>3, <1>5, <2>1, <2>2, <2>3, OneWorker
<1>6. CASE WorkerTake(w)
  <2> DEFINE job == Head(jobs)
  <2>1. /\ job \in Job \cup {None} /\ jobs # <<>> /\ jobs' = Tail(jobs) /\ worker[w].st = "idle"
        /\ results' = results
        /\ \A i \in DOMAIN jobs' : \E k \in DOMAIN jobs : jobs'[i] = jobs[k]
        /\ \E k \in DOMAIN jobs : job = jobs[k]
    BY <1>2, <1>6, TailType DEF WorkerTake
  <2>2. PICK r \in WorkerState :
          /\ worker' = [worker EXCEPT ![w] = r] /\ r.job = job
          /\ r.job # None <=> HasJob(r.st)
          /\ HasMsg(r.st) => /\ r.msg.stamp = r.job.stamp
                             /\ r.msg.kind = "completed" <=> r.st = "completing"
    <3>1. CASE job = None
      BY <1>4, <1>6, <3>1 DEF WorkerTake, HasJob, HasMsg
    <3>2. CASE job # None /\ IsCancelled(job)
      <4> DEFINE m == CompletedMsg(job, "error", TRUE)
      <4>1. SetWorker(w, "completing", job, m, 0)
        BY <1>6, <3>2 DEF WorkerTake
      <4>2. m.stamp = job.stamp /\ m.kind = "completed"
        BY DEF CompletedMsg
      <4> HIDE DEF job, m
      <4> QED BY <1>4, <3>2, <4>1, <4>2 DEF HasJob, HasMsg
    <3>3. CASE job # None /\ ~IsCancelled(job)
      BY <1>4, <1>6, <3>3 DEF WorkerTake, HasJob, HasMsg
    <3> QED BY <3>1, <3>2, <3>3
  <2>3. pc # "closing" /\ job # None => Carried(job.stamp)
    BY <2>1 DEF AttemptInv, CarriersInv
  <2>4. worker[w].job = None
    BY <1>3, <2>1 DEF HasJob
  <2>5. ASSUME NEW id \in Ids PROVE Attempts(id)' = Attempts(id)
    <3> DEFINE n == JobCount(job, id)
    <3>1. JobsFor(jobs, id) = JobsFor(jobs', id) + n
      BY <1>2, <2>1, JobsCount DEF JobCount
    <3>2. WorkersFor(worker', id) = WorkersFor(worker, id) + n
      <4>1. JobCount(worker[w].job, id) = 0
        BY <2>4 DEF JobFor, JobCount
      <4>2. WorkersFor(worker', id) + JobCount(worker[w].job, id)
              = WorkersFor(worker, id) + JobCount(r.job, id)
        BY <2>2, WorkersMove
      <4>3. WorkersFor(worker', id) \in Nat
        BY <1>2, WorkersCount
      <4> QED BY <2>2, <4>1, <4>2, <4>3
    <3>3. n \in Nat /\ JobsFor(jobs', id) \in Nat /\ WorkersFor(worker, id) \in Nat
          /\ ResultsFor(results, id) \in Nat
      BY JobsCount, AttemptsTypes DEF TypeOK, JobCount
    <3> HIDE DEF n
    <3> QED BY <1>1, <2>1, <3>1, <3>2, <3>3, SumMoves
  <2> HIDE DEF job
  <2> QED BY <1>1, <2>1, <2>2, <2>3, <2>5, OneWorker
<1>7. ASSUME NEW outcome, WorkerEvent(w, outcome) PROVE AttemptInv'
  <2> DEFINE msg == EventMsg(worker[w].job, outcome)
  <2>1. msg.stamp = worker[w].job.stamp /\ msg.kind = "event"
    BY DEF EventMsg
  <2>2. /\ SetWorker(w, "sending", worker[w].job, msg, worker[w].sent + 1)
        /\ UNCHANGED <<jobs, results>> /\ worker[w].st = "searching"
    BY <1>7 DEF WorkerEvent
  <2> HIDE DEF msg
  <2> QED BY <1>3, <1>5, <2>1, <2>2 DEF HasJob, HasMsg
<1>8. CASE WorkerSend(w)
  <2>1. /\ SetWorker(w, "searching", worker[w].job, None, worker[w].sent)
        /\ UNCHANGED jobs /\ worker[w].st = "sending"
        /\ results' = Append(results, worker[w].msg)
    BY <1>8 DEF WorkerSend
  <2>2. worker[w].msg \in Message
    BY <2>1 DEF TypeOK
  <2>3. worker[w].msg.kind = "event"
    BY <1>3, <2>1, <2>2 DEF HasMsg, Message
  <2> QED BY <1>3, <1>5, <2>1, <2>2, <2>3 DEF HasJob, HasMsg
<1>9. ASSUME NEW outcome, WorkerSendClosed(w, outcome) \/ WorkerFinish(w, outcome)
      PROVE  AttemptInv'
  <2>1. PICK truncated :
          SetWorker(w, "completing", worker[w].job,
                    CompletedMsg(worker[w].job, outcome, truncated), 0)
    BY <1>9 DEF WorkerSendClosed, WorkerFinish
  <2> DEFINE msg == CompletedMsg(worker[w].job, outcome, truncated)
  <2>2. msg.stamp = worker[w].job.stamp /\ msg.kind = "completed"
    BY DEF CompletedMsg
  <2>3. UNCHANGED <<jobs, results>> /\ worker[w].st \in {"sending", "searching"}
    BY <1>9 DEF WorkerSendClosed, WorkerFinish
  <2> HIDE DEF msg
  <2> QED BY <1>3, <1>5, <2>1, <2>2, <2>3 DEF HasJob, HasMsg, msg
<1>10. CASE WorkerComplete(w)
  <2> DEFINE m == worker[w].msg
             job == worker[w].job
  <2>1. /\ SetWorker(w, "idle", None, None, 0) /\ jobs' = jobs /\ worker[w].st = "completing"
        /\ results' = IF resultsOpen THEN Append(results, m) ELSE results
    BY <1>10 DEF WorkerComplete
  <2>2. PICK r \in WorkerState : /\ worker' = [worker EXCEPT ![w] = r]
                                 /\ r.st = "idle" /\ r.job = None
    BY <1>4, <2>1
  <2>3. m \in Message /\ m.kind = "completed" /\ m.stamp = job.stamp /\ job # None
    BY <1>3, <2>1 DEF TypeOK, HasMsg, HasJob
  <2>4. ASSUME NEW id \in Ids
        PROVE  Attempts(id)' = Attempts(id) \/ (~resultsOpen /\ Attempts(id)' <= 1)
    <3> DEFINE n == JobCount(job, id)
    <3>1. WorkersFor(worker', id) + n = WorkersFor(worker, id)
      <4>1. JobCount(r.job, id) = 0
        BY <2>2 DEF JobFor, JobCount
      <4>2. WorkersFor(worker', id) + n = WorkersFor(worker, id) + JobCount(r.job, id)
        BY <2>2, WorkersMove
      <4>3. WorkersFor(worker, id) \in Nat
        BY AttemptsTypes
      <4> HIDE DEF n
      <4> QED BY <4>1, <4>2, <4>3
    <3>2. /\ n \in Nat /\ JobsFor(jobs, id) \in Nat /\ WorkersFor(worker', id) \in Nat
          /\ ResultsFor(results, id) \in Nat /\ InputFor(input, id) \in {0, 1}
      BY <1>2, WorkersCount, AttemptsTypes DEF JobCount
    <3>3. CASE resultsOpen
      <4>1. DoneFor(m, id) <=> JobFor(job, id)
        BY <2>3 DEF DoneFor, JobFor
      <4>2. ResultsFor(results', id) = ResultsFor(results, id) + n
        <5>1. results' = Append(results, m)
          BY <2>1, <3>3
        <5> HIDE DEF m, job
        <5> QED BY <1>2, <2>3, <4>1, <5>1, ResultsCount DEF JobCount
      <4> HIDE DEF n
      <4> QED BY <1>1, <2>1, <3>1, <3>2, <4>2, SumMoves
    <3>4. CASE ~resultsOpen
      <4>1. results' = results
        BY <2>1, <3>4
      <4>2. Attempts(id) <= 1
        BY DEF AttemptInv, OneAttempt
      <4>3. /\ Attempts(id) = JobsFor(jobs, id) + (WorkersFor(worker', id) + n)
                             + ResultsFor(results, id) + InputFor(input, id)
            /\ Attempts(id)' = JobsFor(jobs, id) + WorkersFor(worker', id)
                              + ResultsFor(results, id) + InputFor(input, id)
        BY <1>1, <2>1, <3>1, <4>1, AttemptsSum
      <4> HIDE DEF n
      <4> QED BY <3>2, <3>4, <4>2, <4>3
    <3> QED BY <3>3, <3>4
  <2>5. pc # "closing" => Carried(m.stamp)
    BY <1>3, <2>3
  <2>6. \A i \in DOMAIN results' : \/ \E k \in DOMAIN results : results'[i] = results[k]
                                   \/ results'[i] = m
    BY <1>2, <2>1, <2>3, AppendType
  <2> HIDE DEF m, job
  <2> QED BY <1>1, <2>1, <2>2, <2>4, <2>5, <2>6, OneWorker DEF HasJob, HasMsg
<1> QED BY <1>6, <1>7, <1>8, <1>9, <1>10 DEF WorkerNext
\* The coordinator takes a message from the result channel.
LEMMA SelectAttempts ==
  ASSUME TypeOK, TypeOK', AttemptInv, SelectWorker
  PROVE  AttemptInv'
<1> USE DEF tableVars, ActorUnchanged
<1>1. /\ UNCHANGED <<jobs, worker, entries, resultsOpen>> /\ pc = "select" /\ pc' = "drain"
      /\ results # <<>> /\ input' = Head(results) /\ results' = Tail(results)
  BY DEF SelectWorker, TakesWorker, WorkerReady
<1>2. /\ results \in Seq(Message) /\ input' \in Message /\ input' # None
      /\ \A i \in DOMAIN results' : \E k \in DOMAIN results : results'[i] = results[k]
      /\ \E k \in DOMAIN results : input' = results[k]
  BY <1>1, TailType, NoneAssumption, SMTT(30) DEF TypeOK
<1>3. live' = live /\ input = None
  BY <1>1 DEF live, AttemptInv, WorkersInv, HasInput
<1>4. WorkersInv'
  BY <1>1, <1>2, <1>3 DEF AttemptInv, WorkersInv, HasInput
<1>5. CarriersInv'
  BY <1>1, <1>2, <1>3 DEF AttemptInv, CarriersInv, Carried
<1>6. ASSUME NEW id \in Ids PROVE Attempts(id)' = Attempts(id)
  <2> DEFINE a == JobsFor(jobs, id)
             b == WorkersFor(worker, id)
             c == ResultsFor(results', id)
             d == InputFor(input', id)
  <2>1. ResultsFor(results, id) = c + d
    BY <1>1, <1>2, ResultsCount DEF InputFor
  <2>2. InputFor(input, id) = 0
    BY <1>3 DEF InputFor
  <2>3. Attempts(id) = a + b + (c + d) + 0 /\ Attempts(id)' = a + b + c + d
    BY <1>1, <2>1, <2>2, AttemptsSum
  <2>4. a \in Nat /\ b \in Nat /\ c \in Nat /\ d \in {0, 1}
    BY AttemptsTypes, ResultsCount DEF TypeOK, InputFor
  <2> HIDE DEF a, b, c, d
  <2> QED BY <2>3, <2>4
<1>7. OneAttempt'
  BY <1>1, <1>3, <1>6 DEF AttemptInv, OneAttempt
<1> QED BY <1>4, <1>5, <1>7 DEF AttemptInv

\* The coordinator submits a job for an id that has no attempt.
LEMMA SubmitAttempts ==
  ASSUME TypeOK, TypeOK', IInv, AttemptInv, ScheduleSubmit
  PROVE  AttemptInv'
<1> USE DEF ActorUnchanged
<1>0. PICK id : id = Head(pending)
  OBVIOUS
<1> DEFINE stamp == NextStamp(id)
           job == [stamp |-> stamp, spec |-> entries[id].spec]
           e == Submitted(entries[id], stamp)
<1>1. /\ UNCHANGED <<results, worker, input, resultsOpen, pc>> /\ pc = "schedule"
      /\ jobs' = Append(jobs, job) /\ entries' = [entries EXCEPT ![id] = e]
      /\ id \in live /\ entries[id].active = None
  BY <1>0 DEF ScheduleSubmit, ScheduleUnchanged, Schedulable
<1>2. id \in Ids /\ entries[id] \in Entry
  BY <1>1, HelperTypes
<1>3. stamp \in Stamp /\ stamp.sub = id
  BY <1>2 DEF NextStamp, Stamp, Entry, TypeOK
<1>4. e.active = stamp
  <2> HIDE DEF stamp
  <2> QED BY <1>2 DEF Submitted, Entry
<1>5. job \in Job /\ job # None /\ job.stamp = stamp
  <2> HIDE DEF stamp
  <2>1. job \in Job
    BY <1>2, <1>3 DEF Job, Entry
  <2> QED BY <2>1, NoneAssumption
<1> HIDE DEF stamp, job, e
<1>6. \A i \in Ids : entries'[i] = IF i = id THEN e ELSE entries[i]
  BY <1>1, <1>2 DEF TypeOK
<1>7. live' \subseteq live
  BY <1>1, <1>6 DEF live
<1>8. WorkersInv'
  BY <1>1, <1>7 DEF AttemptInv, WorkersInv, HasInput
<1>9. Attempts(id) = 0
  BY <1>1, <1>2, AttemptsTypes DEF AttemptInv, OneAttempt
<1>10. ASSUME NEW i \in Ids
       PROVE  Attempts(i)' = Attempts(i) + (IF i = id THEN 1 ELSE 0)
  <2> DEFINE a == JobsFor(jobs, i)
             b == WorkersFor(worker, i)
             c == ResultsFor(results, i)
             d == InputFor(input, i)
             n == IF i = id THEN 1 ELSE 0
  <2>1. JobCount(job, i) = n
    BY <1>3, <1>5 DEF JobFor, JobCount
  <2>2. JobsFor(jobs', i) = a + n
    BY <1>1, <1>5, <2>1, JobsMove
  <2>3. Attempts(i) = a + b + c + d /\ Attempts(i)' = (a + n) + b + c + d
    BY <1>1, <2>2, AttemptsSum
  <2>4. a \in Nat /\ b \in Nat /\ c \in Nat /\ d \in {0, 1} /\ n \in Nat
    BY AttemptsTypes
  <2>5. Attempts(i)' = Attempts(i) + n
    <3> HIDE DEF a, b, c, d, n
    <3> QED BY <2>3, <2>4
  <2> QED BY <2>5
<1>11. OneAttempt'
  <2> SUFFICES ASSUME NEW i \in Ids
               PROVE  /\ Attempts(i)' <= 1
                      /\ i \in live' => (entries'[i].active # None <=> Attempts(i)' = 1)
    BY DEF OneAttempt
  <2>1. CASE i = id
    <3>1. entries'[i].active # None
      BY <1>3, <1>4, <1>6, <2>1, NoneAssumption
    <3> QED BY <1>9, <1>10, <2>1, <3>1
  <2>2. CASE i # id
    <3>1. Attempts(i)' = Attempts(i) /\ entries'[i] = entries[i]
      BY <1>6, <1>10, <2>2, AttemptsTypes
    <3> QED BY <1>1, <1>7, <3>1 DEF AttemptInv, OneAttempt
  <2> QED BY <2>1, <2>2
<1>12. CarriersInv'
  <2>1. ASSUME NEW st, Carried(st), st.sub # id, st.sub \in Ids
        PROVE  st.sub \in live' => entries'[st.sub].active = st
    BY <1>6, <1>7, <2>1 DEF Carried
  <2>2. /\ \A x \in Job : x.stamp.sub \in Ids
        /\ \A m \in Message : m.stamp.sub \in Ids
    BY DEF Job, Message, Stamp
  <2>0. /\ \A i \in DOMAIN jobs : ~JobFor(jobs[i], id)
        /\ \A w \in Workers : ~JobFor(worker[w].job, id)
        /\ \A i \in DOMAIN results : ~DoneFor(results[i], id)
    BY <1>9, NoCarrier
  <2>3. ASSUME NEW i \in DOMAIN jobs', jobs'[i] # None
        PROVE  jobs'[i].stamp.sub \in live' =>
                 entries'[jobs'[i].stamp.sub].active = jobs'[i].stamp
    <3>1. CASE jobs'[i] = job
      BY <1>2, <1>3, <1>4, <1>5, <1>6, <3>1
    <3>2. CASE i \in DOMAIN jobs /\ jobs'[i] = jobs[i]
      <4>0. jobs[i] # None /\ jobs[i].stamp.sub # id
        BY <2>0, <2>3, <3>2 DEF JobFor
      <4>1. jobs[i] \in Job
        BY <3>2, <4>0, SMTT(30) DEF TypeOK
      <4>2. Carried(jobs[i].stamp)
        BY <1>1, <3>2, <4>0 DEF AttemptInv, CarriersInv
      <4> QED BY <2>1, <2>2, <3>2, <4>0, <4>1, <4>2
    <3>3. jobs \in Seq(Job \cup {None}) /\ job \in Job \cup {None}
      BY <1>5 DEF TypeOK
    <3>4. (i \in DOMAIN jobs /\ jobs'[i] = jobs[i]) \/ jobs'[i] = job
      BY <1>1, <3>3, AppendType
    <3> QED BY <3>1, <3>2, <3>4
  <2>4. ASSUME NEW w \in Workers, worker[w].job # None
        PROVE  worker[w].job.stamp.sub \in live' =>
                 entries'[worker[w].job.stamp.sub].active = worker[w].job.stamp
    <3>1. /\ worker[w].job \in Job /\ Carried(worker[w].job.stamp)
          /\ worker[w].job.stamp.sub # id
      BY <1>1, <2>0, <2>4 DEF TypeOK, WorkerState, AttemptInv, CarriersInv, JobFor
    <3> QED BY <2>1, <2>2, <3>1
  <2>5. ASSUME NEW i \in DOMAIN results, results[i].kind = "completed"
        PROVE  results[i].stamp.sub \in live' =>
                 entries'[results[i].stamp.sub].active = results[i].stamp
    <3>1. results[i] \in Message /\ Carried(results[i].stamp) /\ results[i].stamp.sub # id
      BY <1>1, <2>0, <2>5, SMTT(30) DEF TypeOK, AttemptInv, CarriersInv, DoneFor
    <3> QED BY <2>1, <2>2, <3>1
  <2>6. input' = None
    BY <1>1 DEF AttemptInv, WorkersInv, HasInput
  <2> QED BY <1>1, <2>3, <2>4, <2>5, <2>6 DEF CarriersInv, Carried
<1> QED BY <1>8, <1>11, <1>12 DEF AttemptInv

\* The attempt in hand ends: its subscription, if it is still there, has no other.
LEMMA CompletedAttempts ==
  ASSUME TypeOK, TypeOK', IInv, AttemptInv, HandleCompleted
  PROVE  AttemptInv'
<1> USE DEF ActorUnchanged
<1>0. PICK id : id = input.stamp.sub
  OBVIOUS
<1>1. /\ UNCHANGED <<jobs, results, worker, resultsOpen>> /\ pc = "message"
      /\ pc' = "schedule" /\ input' = None /\ input.kind = "completed"
  BY DEF HandleCompleted, EndTurn, Delivered
<1>2. input \in Message /\ input # None /\ id \in Ids
  BY <1>0, <1>1, NoneAssumption DEF TypeOK, Message, Stamp
<1>3. id \in live => entries[id].active = input.stamp
  BY <1>0, <1>1, <1>2 DEF AttemptInv, CarriersInv, Carried
<1>4. /\ \A i \in Ids : i # id => entries'[i] = entries[i]
      /\ id \notin live => entries'[id] = entries[id]
      /\ id \in live => entries'[id].active = None
  <2>1. CASE id \notin live
    BY <1>0, <2>1 DEF HandleCompleted
  <2>2. CASE id \in live
    <3> DEFINE settled == [entries[id] EXCEPT !.active = None]
               best == IF input.outcome = "best" THEN QuoteOf(input) ELSE None
    <3>1. \/ entries' = [entries EXCEPT ![id] = settled]
          \/ entries' = [entries EXCEPT ![id] = [settled EXCEPT !.last_ready = best]]
          \/ entries' = [entries EXCEPT ![id] = [settled EXCEPT !.dirty = id \notin cancelled]]
      BY <1>0, <1>3, <2>2 DEF HandleCompleted
    <3>2. entries[id] \in Entry /\ entries \in [Ids -> Entry \cup {None}]
      BY <2>2, HelperTypes DEF TypeOK
    <3>3. \A x \in {settled, [settled EXCEPT !.last_ready = best],
                    [settled EXCEPT !.dirty = id \notin cancelled]} : x.active = None
      <4> HIDE DEF best
      <4> QED BY <3>2 DEF Entry
    <3> HIDE DEF settled, best
    <3> QED BY <1>2, <2>2, <3>1, <3>2, <3>3
  <2> QED BY <2>1, <2>2
<1>5. live' \subseteq live
  BY <1>2, <1>4 DEF live
<1>6. WorkersInv'
  BY <1>1, <1>5 DEF AttemptInv, WorkersInv, HasInput
<1>7. ASSUME NEW i \in Ids PROVE Attempts(i) = Attempts(i)' + (IF i = id THEN 1 ELSE 0)
  <2> DEFINE a == JobsFor(jobs, i)
             b == WorkersFor(worker, i)
             c == ResultsFor(results, i)
             n == IF i = id THEN 1 ELSE 0
  <2>1. InputFor(input', i) = 0 /\ InputFor(input, i) = n
    BY <1>0, <1>1, <1>2 DEF InputFor, DoneFor
  <2>2. Attempts(i) = a + b + c + n /\ Attempts(i)' = a + b + c + 0
    BY <1>1, <2>1, AttemptsSum
  <2>3. a \in Nat /\ b \in Nat /\ c \in Nat /\ n \in Nat
    BY AttemptsTypes
  <2>4. Attempts(i) = Attempts(i)' + n
    <3> HIDE DEF a, b, c, n
    <3> QED BY <2>2, <2>3
  <2> QED BY <2>4
<1>8. \A i \in Ids : Attempts(i) \in Nat /\ Attempts(i)' \in Nat
  <2>1. ASSUME NEW i \in Ids PROVE Attempts(i)' \in Nat
    <3> DEFINE a == JobsFor(jobs', i)
               b == WorkersFor(worker', i)
               c == ResultsFor(results', i)
               d == InputFor(input', i)
    <3>1. a \in Nat /\ b \in Nat /\ c \in Nat /\ d \in {0, 1} /\ Attempts(i)' = a + b + c + d
      BY JobsCount, WorkersCount, ResultsCount, AttemptsSum DEF TypeOK, InputFor
    <3> HIDE DEF a, b, c, d
    <3> QED BY <3>1
  <2> QED BY <2>1, AttemptsTypes
<1>9. Attempts(id)' = 0
  <2>1. Attempts(id) <= 1 /\ Attempts(id) = Attempts(id)' + 1
    BY <1>2, <1>7 DEF AttemptInv, OneAttempt
  <2> QED BY <1>2, <1>8, <2>1
<1>10. OneAttempt'
  <2> SUFFICES ASSUME NEW i \in Ids
               PROVE  /\ Attempts(i)' <= 1
                      /\ i \in live' => (entries'[i].active # None <=> Attempts(i)' = 1)
    BY DEF OneAttempt
  <2>1. CASE i = id
    BY <1>4, <1>5, <1>9, <2>1
  <2>2. CASE i # id
    <3>1. Attempts(i)' = Attempts(i) /\ entries'[i] = entries[i]
      BY <1>4, <1>7, <1>8, <2>2
    <3> QED BY <1>1, <1>5, <3>1 DEF AttemptInv, OneAttempt
  <2> QED BY <2>1, <2>2
<1>11. CarriersInv'
  <2>1. /\ \A i \in DOMAIN jobs : ~JobFor(jobs[i], id)
        /\ \A w \in Workers : ~JobFor(worker[w].job, id)
        /\ \A i \in DOMAIN results : ~DoneFor(results[i], id)
    <3>1. JobsFor(jobs, id) = 0 /\ WorkersFor(worker, id) = 0 /\ ResultsFor(results, id) = 0
      <4> DEFINE a == JobsFor(jobs, id)
                 b == WorkersFor(worker, id)
                 c == ResultsFor(results, id)
      <4>1. InputFor(input', id) = 0
        BY <1>1 DEF InputFor
      <4>2. a + b + c + 0 = 0 /\ a \in Nat /\ b \in Nat /\ c \in Nat
        BY <1>1, <1>9, <4>1, AttemptsSum, AttemptsTypes
      <4>3. a = 0 /\ b = 0 /\ c = 0
        <5> HIDE DEF a, b, c
        <5> QED BY <4>2
      <4> QED BY <4>3
    <3> QED BY <3>1, JobsCount, WorkersCount, ResultsCount DEF TypeOK
  <2>2. ASSUME NEW st, Carried(st), st.sub # id, st.sub \in Ids
        PROVE  st.sub \in live' => entries'[st.sub].active = st
    BY <1>4, <1>5, <2>2 DEF Carried
  <2>3. /\ \A x \in Job : x.stamp.sub \in Ids
        /\ \A m \in Message : m.stamp.sub \in Ids
    BY DEF Job, Message, Stamp
  <2>4. ASSUME NEW i \in DOMAIN jobs, jobs[i] # None
        PROVE  jobs[i].stamp.sub \in live' =>
                 entries'[jobs[i].stamp.sub].active = jobs[i].stamp
    <3>1. jobs[i] \in Job /\ Carried(jobs[i].stamp) /\ jobs[i].stamp.sub # id
      BY <1>1, <2>1, <2>4, SMTT(30) DEF TypeOK, AttemptInv, CarriersInv, JobFor
    <3> QED BY <2>2, <2>3, <3>1
  <2>5. ASSUME NEW w \in Workers, worker[w].job # None
        PROVE  worker[w].job.stamp.sub \in live' =>
                 entries'[worker[w].job.stamp.sub].active = worker[w].job.stamp
    <3>1. /\ worker[w].job \in Job /\ Carried(worker[w].job.stamp)
          /\ worker[w].job.stamp.sub # id
      BY <1>1, <2>1, <2>5 DEF TypeOK, WorkerState, AttemptInv, CarriersInv, JobFor
    <3> QED BY <2>2, <2>3, <3>1
  <2>6. ASSUME NEW i \in DOMAIN results, results[i].kind = "completed"
        PROVE  results[i].stamp.sub \in live' =>
                 entries'[results[i].stamp.sub].active = results[i].stamp
    <3>1. results[i] \in Message /\ Carried(results[i].stamp) /\ results[i].stamp.sub # id
      BY <1>1, <2>1, <2>6, SMTT(30) DEF TypeOK, AttemptInv, CarriersInv, DoneFor
    <3> QED BY <2>2, <2>3, <3>1
  <2> QED BY <1>1, <2>4, <2>5, <2>6 DEF CarriersInv, Carried
<1> QED BY <1>6, <1>10, <1>11 DEF AttemptInv

LEMMA PillAttempts ==
  ASSUME TypeOK, TypeOK', IInv, AttemptInv, SendPill
  PROVE  AttemptInv'
<1> USE DEF tableVars, controlVars
<1>1. /\ UNCHANGED <<worker, results, resultsOpen, entries, pc, input>>
      /\ jobs' = Append(jobs, None)
  BY DEF SendPill
<1>2. live' = live
  BY <1>1 DEF live
<1>3. WorkersInv'
  BY <1>1, <1>2 DEF AttemptInv, WorkersInv, HasInput
<1>4. CarriersInv'
  <2>1. \A i \in DOMAIN Append(jobs, None) :
          Append(jobs, None)[i] # None => \E k \in DOMAIN jobs : Append(jobs, None)[i] = jobs[k]
    <3>1. jobs \in Seq(Job \cup {None}) /\ None \in Job \cup {None}
      BY DEF TypeOK
    <3> QED BY <3>1, AppendType
  <2> QED BY <1>1, <1>2, <2>1 DEF AttemptInv, CarriersInv, Carried
<1>5. \A id \in Ids : Attempts(id)' = Attempts(id)
  <2> SUFFICES ASSUME NEW id \in Ids PROVE Attempts(id)' = Attempts(id)
    OBVIOUS
  <2>1. JobsFor(jobs', id) = JobsFor(jobs, id)
    <3>1. JobCount(None, id) = 0 /\ JobsFor(jobs, id) \in Nat
      BY AttemptsTypes DEF JobCount, JobFor
    <3> QED BY <1>1, <3>1, JobsMove
  <2> QED BY <1>1, <2>1, SumMoves
<1>6. OneAttempt'
  BY <1>1, <1>2, <1>5 DEF AttemptInv, OneAttempt
<1> QED BY <1>3, <1>4, <1>6 DEF AttemptInv
\* The handlers that move no attempt.
LEMMA TableAttempts ==
  ASSUME TypeOK, TypeOK', IInv, AttemptInv,
         HandleSubscribe \/ HandleCancel \/ HandleReplace \/ HandleCleanup \/ DrainNoCommit
         \/ HandleEvent \/ ScheduleDone \/ ScheduleSkip \/ ScheduleRefused \/ Close \/ JoinDone
         \/ (ApplyCommit /\ (HandleCommit \/ DrainOneCommit) /\ ~BreakLoop(TRUE))
  PROVE  AttemptInv'
<1> USE DEF tableVars, ActorUnchanged
<1>1. /\ ~resultsOpen <=> pc \in {"joining", "exited"}
      /\ ~resultsOpen => live = {}
      /\ input # None <=> HasInput
  BY DEF AttemptInv, WorkersInv
<1>2. \A id \in live : id \in Ids /\ entries[id] \in Entry
  BY HelperTypes
<1>3. entries \in [Ids -> Entry \cup {None}]
  BY DEF TypeOK
<1>4. CASE HandleSubscribe
  <2>1. /\ UNCHANGED <<jobs, worker, results, resultsOpen>> /\ pc = "select"
        /\ pc' = "schedule" /\ input' = None
    BY <1>4 DEF HandleSubscribe, Receive, EndTurn, TakesCommand
  <2>2. ASSUME NEW i \in live'
        PROVE  \/ i \in live /\ entries'[i].active = entries[i].active
               \/ next_subscription <= i /\ entries'[i].active = None
    <3>1. i \in Ids
      BY DEF live
    <3>2. CASE SubscribeRefused
      BY <1>4, <3>2 DEF HandleSubscribe, live
    <3>3. CASE ~SubscribeRefused
      <4> DEFINE e == [spec |-> Head(commands).spec, epoch |-> 0, next_job |-> 0,
                       active |-> None, dirty |-> TRUE, last_ready |-> None]
      <4>1. entries' = [entries EXCEPT ![next_subscription] = e]
        BY <1>4, <3>3 DEF HandleSubscribe
      <4>2. e.active = None /\ next_subscription \in Nat
        BY BoundAssumption DEF TypeOK
      <4> HIDE DEF e
      <4>3. CASE i = next_subscription
        BY <1>3, <3>1, <4>1, <4>2, <4>3
      <4>4. CASE i # next_subscription
        BY <1>3, <3>1, <4>1, <4>4 DEF live
      <4> QED BY <4>3, <4>4
    <3> QED BY <3>2, <3>3
  <2> QED BY <1>1, <2>1, <2>2, TableOnly DEF HasInput
<1>5. CASE HandleCancel \/ HandleCleanup
  <2>1. /\ UNCHANGED <<jobs, worker, results, resultsOpen>> /\ pc = "select"
        /\ pc' = "schedule" /\ input' = None
    BY <1>5 DEF HandleCancel, HandleCleanup, CancelSubscription, Receive, EndTurn,
                TakesCommand, TakesCleanup
  <2>2. \A i \in live' : i \in live /\ entries'[i].active = entries[i].active
    <3>1. entries' = entries \/ \E id : entries' = [entries EXCEPT ![id] = None]
      BY <1>5 DEF HandleCancel, HandleCleanup, CancelSubscription, Removed
    <3> QED BY <1>3, <3>1 DEF live
  <2> QED BY <1>1, <2>1, <2>2, TableOnly DEF HasInput
<1>6. CASE HandleReplace
  <2> DEFINE id == Head(commands).id
             e == Replaced(entries[id], Head(commands).spec)
  <2>1. /\ UNCHANGED <<jobs, worker, results, resultsOpen>> /\ pc = "select"
        /\ pc' = "schedule" /\ input' = None
    BY <1>6 DEF HandleReplace, Receive, EndTurn, TakesCommand
  <2>2. \A i \in live' : i \in live /\ entries'[i].active = entries[i].active
    <3>1. CASE id \notin live
      BY <1>6, <3>1 DEF HandleReplace, live
    <3>2. CASE id \in live
      <4>1. entries' = [entries EXCEPT ![id] = e]
        BY <1>6, <3>2 DEF HandleReplace
      <4>2. e.active = entries[id].active
        BY <1>2, <3>2 DEF Replaced, Entry
      <4> HIDE DEF id, e
      <4> QED BY <1>3, <3>2, <4>1, <4>2 DEF live
    <3> QED BY <3>1, <3>2
  <2> QED BY <1>1, <2>1, <2>2, TableOnly DEF HasInput
<1>7. CASE HandleEvent
  <2>1. /\ UNCHANGED <<jobs, worker, results, resultsOpen, entries>> /\ pc = "message"
        /\ pc' = "schedule" /\ input' = None /\ input.kind # "completed"
    BY <1>7 DEF HandleEvent, Delivered, EndTurn
  <2>2. live' = live
    BY <2>1 DEF live
  <2> QED BY <1>1, <2>1, <2>2, TableOnly DEF HasInput
<1>8. CASE DrainNoCommit
  <2>1. /\ UNCHANGED <<jobs, worker, results, resultsOpen, entries, input>> /\ pc = "drain"
        /\ pc' = "message"
    BY <1>8 DEF DrainNoCommit
  <2>2. live' = live
    BY <2>1 DEF live
  <2> QED BY <1>1, <2>1, <2>2, TableOnly DEF HasInput
<1>9. CASE ScheduleDone \/ ScheduleSkip \/ ScheduleRefused
  <2>1. /\ UNCHANGED <<jobs, worker, results, resultsOpen, entries, input>> /\ pc = "schedule"
        /\ pc' \in {"schedule", "select"}
    BY <1>9 DEF ScheduleDone, ScheduleSkip, ScheduleRefused, ScheduleUnchanged
  <2>2. live' = live
    BY <2>1 DEF live
  <2> QED BY <1>1, <2>1, <2>2, TableOnly DEF HasInput
<1>10. CASE JoinDone
  <2>1. /\ UNCHANGED <<jobs, worker, results, resultsOpen, entries, input>> /\ pc = "joining"
        /\ pc' = "exited"
    BY <1>10 DEF JoinDone, ScheduleUnchanged
  <2>2. live' = live
    BY <2>1 DEF live
  <2> QED BY <1>1, <2>1, <2>2, TableOnly DEF HasInput
<1>11. CASE Close
  <2>1. /\ UNCHANGED <<jobs, worker, results, input>> /\ resultsOpen' = FALSE
        /\ pc = "closing" /\ pc' = "joining"
    BY <1>11 DEF Close, CloseResults
  <2>2. live' = {}
    BY <1>11 DEF Close, live
  <2> QED BY <1>1, <2>1, <2>2, TableOnly DEF HasInput
<1>12. CASE ApplyCommit /\ (HandleCommit \/ DrainOneCommit) /\ ~BreakLoop(TRUE)
  <2>1. /\ UNCHANGED <<jobs, worker, results, resultsOpen>>
        /\ \/ pc = "select" /\ pc' = "schedule" /\ input' = None
           \/ pc = "drain" /\ pc' = "message" /\ input' = input
    BY <1>12 DEF ApplyCommit, HandleCommit, DrainOneCommit, TakesCommit, EndTurn
  <2>2. ASSUME NEW i \in live'
        PROVE  i \in live /\ entries'[i].active = entries[i].active
    <3>1. i \in Ids /\ entries'[i] # None
      BY DEF live
    <3>2. entries'[i] = IF i \in live THEN Invalidated(entries[i]) ELSE entries[i]
      BY <1>12, <3>1 DEF ApplyCommit
    <3>3. i \in live
      BY <3>1, <3>2 DEF live
    <3>4. Invalidated(entries[i]).active = entries[i].active
      BY <1>2, <3>3 DEF Invalidated, Entry
    <3> QED BY <3>2, <3>3, <3>4
  <2> QED BY <1>1, <2>1, <2>2, TableOnly DEF HasInput
<1> QED BY <1>4, <1>5, <1>6, <1>7, <1>8, <1>9, <1>10, <1>11, <1>12

LEMMA BreakAttempts ==
  ASSUME TypeOK, TypeOK', AttemptInv,
         HandleClosed \/ HandleShutdown \/ (BreakLoop(TRUE) /\ (HandleCommit \/ DrainOneCommit))
  PROVE  AttemptInv'
<1> USE DEF tableVars, ActorUnchanged
<1>1. /\ UNCHANGED <<jobs, worker, results, entries, resultsOpen>>
      /\ pc' = "closing" /\ input' = None
  BY DEF HandleClosed, HandleShutdown, HandleCommit, DrainOneCommit, BreakLoop, Receive
<1>2. pc \in {"select", "drain"}
  BY DEF HandleClosed, HandleShutdown, HandleCommit, DrainOneCommit, Receive, TakesCommit,
         TakesCommand
<1> QED BY <1>1, <1>2, BreakOnly

LEMMA OutsideAttempts ==
  ASSUME TypeOK, AttemptInv, ClientNext \/ AmmNext \/ UNCHANGED vars
  PROVE  AttemptInv'
<1> USE DEF ammVars, clientVars, controlVars, tableVars, pendingVars, workVars, tokenVars
<1>1. UNCHANGED <<jobs, worker, results, input, pc, entries, resultsOpen>>
  BY DEF ClientNext, AmmNext, SendSubscribe, SendReplace, SendUnsubscribe, SendShutdown,
         Send, RequestCancel, TokenCancel, CancelTokens, DropSubscription, DropHandle,
         PublishCommit, StopStream, ClientUnchanged, vars
<1>2. live' = live /\ \A id \in Ids : Attempts(id)' = Attempts(id)
  BY <1>1 DEF live, Attempts
<1>3. WorkersInv' /\ CarriersInv'
  BY <1>1, <1>2 DEF AttemptInv, WorkersInv, CarriersInv, Carried, HasInput
<1>4. OneAttempt'
  BY <1>1, <1>2 DEF AttemptInv, OneAttempt
<1> QED BY <1>3, <1>4 DEF AttemptInv

LEMMA AttemptInit == Init => AttemptInv
<1> SUFFICES ASSUME Init PROVE AttemptInv
  OBVIOUS
<1>1. /\ live = {} /\ jobs = <<>> /\ results = <<>> /\ input = None /\ pc = "select"
      /\ resultsOpen = TRUE
      /\ \A w \in Workers : worker[w].st = "idle" /\ worker[w].job = None
  BY DEF Init, live
<1>2. WorkersInv /\ CarriersInv
  BY <1>1 DEF WorkersInv, CarriersInv, HasJob, HasMsg, HasInput
<1>3. \A id \in Ids : Attempts(id) = 0
  <2> SUFFICES ASSUME NEW id \in Ids PROVE Attempts(id) = 0
    OBVIOUS
  <2>1. /\ {i \in DOMAIN jobs : JobFor(jobs[i], id)} = {}
        /\ {w \in Workers : JobFor(worker[w].job, id)} = {}
        /\ {i \in DOMAIN results : DoneFor(results[i], id)} = {}
    BY <1>1 DEF JobFor
  <2>2. JobsFor(jobs, id) = 0 /\ WorkersFor(worker, id) = 0 /\ ResultsFor(results, id) = 0
    BY <2>1, FS_EmptySet DEF JobsFor, WorkersFor, ResultsFor
  <2>3. InputFor(input, id) = 0
    BY <1>1 DEF InputFor
  <2> QED BY <2>2, <2>3, AttemptsSum
<1>4. OneAttempt
  BY <1>1, <1>3 DEF OneAttempt
<1> QED BY <1>2, <1>4 DEF AttemptInv

\* A subscription never has two searches at once, queued, running or finished but not
\* handled: commits, replacements and removals cancel an attempt but only its completion
\* makes room for the next, and `active' says which one is in flight.
THEOREM OneAttemptAlways == Spec => []OneAttempt
<1>1. TypeOK /\ TypeOK' /\ IInv /\ AttemptInv /\ [Next]_vars => AttemptInv'
  <2>1. ASSUME TypeOK, TypeOK', IInv, AttemptInv, ActorNext PROVE AttemptInv'
    <3>1. HandleCommit \/ DrainOneCommit => AttemptInv'
      <4>1. HandleCommit \/ DrainOneCommit => ApplyCommit \/ BreakLoop(TRUE)
        BY DEF HandleCommit, DrainOneCommit
      <4> QED BY <2>1, <4>1, TableAttempts, BreakAttempts
    <3> QED BY <2>1, <3>1, TableAttempts, BreakAttempts, SelectAttempts, SubmitAttempts,
               CompletedAttempts, PillAttempts DEF ActorNext
  <2> QED BY <2>1, OutsideAttempts, WorkerAttempts DEF Next, Terminated
<1>2. AttemptInv => OneAttempt
  BY DEF AttemptInv
<1> QED BY <1>1, <1>2, AttemptInit, TypeCorrect, FenceInductive, PTL DEF Spec
===============================================================================
