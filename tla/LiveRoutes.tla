------------------------------ MODULE LiveRoutes ------------------------------
(***************************************************************************)
(* The live route actor of src/live_routes.rs: one coordinator task that   *)
(* consumes the reliable AMM commit stream, client commands, subscription   *)
(* cleanups and worker results; a bounded pool of worker threads that run   *)
(* one route search at a time; and the clients that hold subscriptions.     *)
(*                                                                         *)
(* A RouteProvenance (runtime, state version, point, graph version) is the  *)
(* number of commits applied: LiveAmmGraph accepts only contiguous commits  *)
(* of one runtime, so the state version determines the other fields.        *)
(* Observer events are lossy diagnostics and are not part of the state.     *)
(* A definition whose name says what it gets wrong (StaleIgnoresEpoch,      *)
(* RemovedNot, ...) is a mutation of the one that follows it, never used.   *)
(***************************************************************************)
EXTENDS Integers, Sequences, FiniteSets

CONSTANTS
  Workers,           \* persistent route worker threads
  Specs,             \* the requests a subscription may carry
  None,              \* Option::None, and the Shutdown pill of the job queue
  MaxSubscriptions,  \* config.max_subscriptions
  JobQueueCapacity,  \* config.job_queue_capacity
  CommandCapacity,   \* config.command_capacity
  ResultCapacity,    \* config.result_capacity
  MaxCommitBurst,    \* MAX_COMMIT_BURST
  MaxSubscribes,     \* bound: ids ever issued; u64::MAX in the code
  MaxCommits,        \* bound: commits the AMM runtime publishes
  MaxCalls,          \* bound: commands the clients send
  MaxEvents,         \* bound: progressive events of one search
  Ops                \* bound: what the instance lets clients and the AMM runtime do

AllOps == {"replace", "unsubscribe", "shutdown", "request", "token", "drop",
           "dropHandle", "stop", "fail"}

\* LiveRouteRuntimeConfig::validate: no capacity and no pool of workers is empty.
ValidRuntimeConfig ==
  /\ Workers # {} /\ IsFiniteSet(Workers)
  /\ MaxSubscriptions \in Nat \ {0} /\ JobQueueCapacity \in Nat \ {0}
  /\ CommandCapacity \in Nat \ {0} /\ ResultCapacity \in Nat \ {0}

ASSUME CapacityAssumption == ValidRuntimeConfig /\ MaxCommitBurst \in Nat \ {0}

ASSUME BoundAssumption ==
  /\ MaxSubscribes \in Nat /\ MaxCommits \in Nat
  /\ MaxCalls \in Nat /\ MaxEvents \in Nat
  /\ Ops \subseteq AllOps

Ids == 0 .. (MaxSubscribes - 1)

\* RouteJobStamp: the complete fence carried by a job and all its messages.
Stamp == [sub: Ids, epoch: Nat, job: Nat, source: Nat]

\* VersionedRouteQuote; epoch and spec say which request it answers.
Quote == [source: Nat, epoch: Nat, spec: Specs]

Entry == [spec: Specs, epoch: Nat, next_job: Nat, active: Stamp \cup {None},
          dirty: BOOLEAN, last_ready: Quote \cup {None}]

Job == [stamp: Stamp, spec: Specs]

\* RouteWorkerMessage. `truncated' is TRUE when the worker saw a cancellation.
Message == [kind: {"event", "completed"}, stamp: Stamp, spec: Specs,
            outcome: {"best", "progress", "none", "error"}, truncated: BOOLEAN]

ASSUME NoneAssumption == None \notin Stamp /\ None \notin Job /\ None \notin Message

WatchKinds == {"Absent", "Pending", "Searching", "Ready", "Failed",
               "Cancelled", "Closed", "RuntimeFailed"}
Snapshot == [kind: WatchKinds, source: Nat, epoch: Nat,
             quote: Quote \cup {None}, previous: Quote \cup {None}]

Command == {c \in [op: {"subscribe", "cancel", "replace", "shutdown"},
                  id: Ids \cup {None}, spec: Specs \cup {None}] :
              c.op \in {"subscribe", "replace"} => c.spec \in Specs}

WorkerState ==
  [st: {"idle", "searching", "sending", "completing", "exited"},
   job: Job \cup {None}, msg: Message \cup {None}, sent: Nat]

VARIABLES
  published, streamOpen,            \* the upstream AMM change stream
  handleHeld, handle, calls, tokenUsed,  \* clients: what they hold and have called
  commands, cleanup, jobs, results, resultsOpen,  \* the four channels
  cancelled, jobCancelled,          \* flags of subscription and job tokens
  worker,                           \* the worker threads
  pc, input, streak, failed, pills, \* the coordinator's control state
  view, entries, pending, pending_set, next_subscription,
  watch                             \* latest watch publication, by subscription

ammVars == <<published, streamOpen>>
clientVars == <<handleHeld, handle, calls, tokenUsed>>
controlVars == <<pc, input, streak, failed, pills>>
tableVars == <<view, entries, next_subscription, watch>>
pendingVars == <<pending, pending_set>>
workVars == <<jobs, results, resultsOpen, worker>>
tokenVars == <<cancelled, jobCancelled>>
vars == <<ammVars, clientVars, commands, cleanup, workVars, tokenVars,
          controlVars, tableVars, pendingVars>>

TypeOK ==
  /\ published \in Nat /\ streamOpen \in BOOLEAN
  /\ handleHeld \in BOOLEAN /\ handle \in [Ids -> {"none", "held", "dropped"}]
  /\ calls \in Nat /\ tokenUsed \subseteq Ids
  /\ commands \in Seq(Command) /\ cleanup \in Seq(Ids)
  /\ jobs \in Seq(Job \cup {None}) /\ results \in Seq(Message)
  /\ resultsOpen \in BOOLEAN
  /\ cancelled \subseteq Ids /\ jobCancelled \subseteq Ids \X Nat
  /\ worker \in [Workers -> WorkerState]
  /\ \A w \in Workers :
       /\ worker[w].st \in {"searching", "sending", "completing"} => worker[w].job \in Job
       /\ worker[w].st \in {"sending", "completing"} => worker[w].msg \in Message
  /\ pc \in {"select", "drain", "message", "schedule", "closing", "joining", "exited"}
  /\ input \in Message \cup {None} /\ (pc \in {"drain", "message"} => input \in Message)
  /\ streak \in Nat /\ failed \in BOOLEAN /\ pills \in Nat
  /\ view \in Nat /\ entries \in [Ids -> Entry \cup {None}]
  /\ pending \in Seq(Ids) /\ pending_set \subseteq Ids
  /\ next_subscription \in 0 .. MaxSubscribes
  /\ watch \in [Ids -> Snapshot]

------------------------------------------------------------------------------
(* Helpers *)

\* The keys of the actor's `entries' map.
live == {id \in Ids : entries[id] # None}

\* BTreeMap iteration: the one listing of S in ascending order, as a singleton set.
InOrder(S) == {s \in [1 .. Cardinality(S) -> S] :
                 \A i, j \in 1 .. Cardinality(S) : i < j => s[i] < s[j]}

IsCancelled(job) == \/ job.stamp.sub \in cancelled
                    \/ <<job.stamp.sub, job.stamp.job>> \in jobCancelled

\* RouteCancellationToken::cancel on attached tokens of ids: the first request
\* of each sets its flag and sends its one cleanup message to the queue.
CancelTokens(ids, queue) ==
  /\ cancelled' = cancelled \cup ids
  /\ \E first \in InOrder(ids \ cancelled) : cleanup' = queue \o first

\* The job tokens of the active attempts of ids.
CancelActive(ids) ==
  jobCancelled' = jobCancelled \cup
    {<<id, entries[id].active.job>> : id \in {i \in ids : entries[i].active # None}}

PendingSnapshot(e, source) ==
  [kind |-> "Pending", source |-> source, epoch |-> e.epoch,
   quote |-> None, previous |-> e.last_ready]

SearchingSnapshot(e, source, quote) ==
  [kind |-> "Searching", source |-> source, epoch |-> e.epoch,
   quote |-> quote, previous |-> e.last_ready]

FinalSnapshot(kind, source, epoch, quote) ==
  [kind |-> kind, source |-> source, epoch |-> epoch,
   quote |-> quote, previous |-> None]

\* enqueue_pending, for each member of ids in order.
EnqueuePending(ids) ==
  /\ \E new \in InOrder(ids \ pending_set) : pending' = pending \o new
  /\ pending_set' = pending_set \cup ids

------------------------------------------------------------------------------
Init ==
  /\ published = 0 /\ streamOpen = TRUE
  /\ handleHeld = TRUE /\ handle = [id \in Ids |-> "none"]
  /\ calls = 0 /\ tokenUsed = {}
  /\ commands = <<>> /\ cleanup = <<>> /\ jobs = <<>>
  /\ results = <<>> /\ resultsOpen = TRUE
  /\ cancelled = {} /\ jobCancelled = {}
  /\ worker = [w \in Workers |->
                 [st |-> "idle", job |-> None, msg |-> None, sent |-> 0]]
  /\ pc = "select" /\ input = None /\ streak = 0 /\ failed = FALSE /\ pills = 0
  /\ view = 0 /\ entries = [id \in Ids |-> None]
  /\ pending = <<>> /\ pending_set = {} /\ next_subscription = 0
  /\ watch = [id \in Ids |-> FinalSnapshot("Absent", 0, 0, None)]

------------------------------------------------------------------------------
\* run() has not left its loop. What clients and the AMM runtime do afterwards
\* reaches nothing: queued commands are dropped unread and answered Closed, and
\* close() itself cancels every token.
Running == pc \notin {"closing", "joining", "exited"}

(* The upstream AMM runtime (external): publishes contiguous commits and may stop. *)

PublishCommit ==
  /\ Running /\ streamOpen /\ published < MaxCommits
  /\ published' = published + 1
  /\ UNCHANGED <<streamOpen, clientVars, commands, cleanup, workVars, tokenVars,
                 controlVars, tableVars, pendingVars>>

StopStream ==
  /\ "stop" \in Ops /\ Running /\ streamOpen
  /\ streamOpen' = FALSE
  /\ UNCHANGED <<published, clientVars, commands, cleanup, workVars, tokenVars,
                 controlVars, tableVars, pendingVars>>

------------------------------------------------------------------------------
(* Clients. A send waits for room. *)

ClientUnchanged == UNCHANGED <<ammVars, workVars, controlVars, tableVars, pendingVars>>

\* One call through a LiveRouteRuntimeHandle; every subscription holds a clone.
Send(cmd) ==
  /\ handleHeld \/ \E id \in Ids : handle[id] = "held"
  /\ Running /\ Len(commands) < CommandCapacity
  /\ calls < MaxCalls /\ calls' = calls + 1
  /\ commands' = Append(commands, cmd)
  /\ UNCHANGED <<handleHeld, handle, tokenUsed, cleanup, tokenVars>> /\ ClientUnchanged

SendSubscribe(spec) == Send([op |-> "subscribe", id |-> None, spec |-> spec])

SendReplace(id, spec) ==
  /\ "replace" \in Ops /\ id < next_subscription
  /\ Send([op |-> "replace", id |-> id, spec |-> spec])

\* unsubscribe(id), and the second half of LiveRouteSubscription::cancel().
SendUnsubscribe(id) ==
  /\ "unsubscribe" \in Ops /\ id < next_subscription
  /\ Send([op |-> "cancel", id |-> id, spec |-> None])

SendShutdown ==
  "shutdown" \in Ops /\ Send([op |-> "shutdown", id |-> None, spec |-> None])

\* The first half of LiveRouteSubscription::cancel(): the flag alone. The caller
\* may abandon the future before the second half.
RequestCancel(id) ==
  /\ "request" \in Ops /\ Running /\ handle[id] = "held" /\ id \notin cancelled
  /\ cancelled' = cancelled \cup {id}
  /\ UNCHANGED <<jobCancelled, clientVars, commands, cleanup>> /\ ClientUnchanged

\* cancel() on a clone of the public cancellation token.
TokenCancel(id) ==
  /\ "token" \in Ops /\ Running /\ handle[id] = "held" /\ id \notin tokenUsed
  /\ tokenUsed' = tokenUsed \cup {id}
  /\ CancelTokens({id}, cleanup)
  /\ UNCHANGED <<jobCancelled, handleHeld, handle, calls, commands>> /\ ClientUnchanged

\* What Drop sends: the token's cleanup if it is the first, and one of its own.
DropSendsNothing(id) == <<>>
DropSends(id) == IF id \in cancelled THEN <<id>> ELSE <<id, id>>

\* Drop for LiveRouteSubscription: cancel the token, then send a cleanup anyway.
DropSubscription(id) ==
  /\ "drop" \in Ops /\ Running /\ handle[id] = "held"
  /\ handle' = [handle EXCEPT ![id] = "dropped"]
  /\ cancelled' = cancelled \cup {id}
  /\ cleanup' = cleanup \o DropSends(id)
  /\ UNCHANGED <<jobCancelled, handleHeld, calls, tokenUsed, commands>>
  /\ ClientUnchanged

DropHandle ==
  /\ "dropHandle" \in Ops /\ Running /\ handleHeld
  /\ handleHeld' = FALSE
  /\ UNCHANGED <<handle, calls, tokenUsed, commands, cleanup, tokenVars>>
  /\ ClientUnchanged

------------------------------------------------------------------------------
(* Worker threads: route_worker *)

SetWorker(w, st, job, msg, sent) ==
  worker' = [worker EXCEPT ![w] = [st |-> st, job |-> job, msg |-> msg, sent |-> sent]]

WorkerUnchanged ==
  UNCHANGED <<ammVars, clientVars, commands, cleanup, resultsOpen, tokenVars,
              controlVars, tableVars, pendingVars>>

CompletedMsg(job, outcome, truncated) ==
  [kind |-> "completed", stamp |-> job.stamp, spec |-> job.spec,
   outcome |-> outcome, truncated |-> truncated]

EventMsg(job, outcome) ==
  [kind |-> "event", stamp |-> job.stamp, spec |-> job.spec,
   outcome |-> outcome, truncated |-> FALSE]

\* recv: a pill stops the thread; a job cancelled while queued is not run.
WorkerTake(w) ==
  /\ worker[w].st = "idle" /\ jobs # <<>>
  /\ jobs' = Tail(jobs)
  /\ LET job == Head(jobs) IN
       IF job = None THEN SetWorker(w, "exited", None, None, 0)
       ELSE IF IsCancelled(job)
         THEN SetWorker(w, "completing", job, CompletedMsg(job, "error", TRUE), 0)
         ELSE SetWorker(w, "searching", job, None, 0)
  /\ UNCHANGED results /\ WorkerUnchanged

\* on_event, first half: stop on a cancellation, otherwise send the event.
WorkerEvent(w, outcome) ==
  /\ worker[w].st = "searching" /\ worker[w].sent < MaxEvents
  /\ ~IsCancelled(worker[w].job)
  /\ SetWorker(w, "sending", worker[w].job, EventMsg(worker[w].job, outcome),
               worker[w].sent + 1)
  /\ UNCHANGED <<jobs, results>> /\ WorkerUnchanged

\* on_event, second half: blocking_send of the event, waiting for room.
WorkerSend(w) ==
  /\ worker[w].st = "sending" /\ resultsOpen /\ Len(results) < ResultCapacity
  /\ results' = Append(results, worker[w].msg)
  /\ SetWorker(w, "searching", worker[w].job, None, worker[w].sent)
  /\ UNCHANGED jobs /\ WorkerUnchanged

\* blocking_send fails once the coordinator closed the channel: the search stops.
WorkerSendClosed(w, outcome) ==
  /\ worker[w].st = "sending" /\ ~resultsOpen
  /\ SetWorker(w, "completing", worker[w].job,
               CompletedMsg(worker[w].job, outcome, TRUE), 0)
  /\ UNCHANGED <<jobs, results>> /\ WorkerUnchanged

\* The search ends: with a best route, none, an error or a caught panic; cut short
\* if it saw a cancellation, which it may also miss.
WorkerFinish(w, outcome) ==
  /\ worker[w].st = "searching"
  /\ \E truncated \in {FALSE, IsCancelled(worker[w].job)} :
       SetWorker(w, "completing", worker[w].job,
                 CompletedMsg(worker[w].job, outcome, truncated), 0)
  /\ UNCHANGED <<jobs, results>> /\ WorkerUnchanged

WorkerComplete(w) ==
  /\ worker[w].st = "completing"
  /\ resultsOpen => Len(results) < ResultCapacity
  /\ results' = IF resultsOpen THEN Append(results, worker[w].msg) ELSE results
  /\ SetWorker(w, "idle", None, None, 0)
  /\ UNCHANGED jobs /\ WorkerUnchanged

------------------------------------------------------------------------------
(* The coordinator: LiveRouteActor. A turn of run() takes an input and handles it
   (in one step, except that a worker message waits through "drain" and "message"),
   then schedules pending searches; closing, joining and exited are close(). *)

ActorUnchanged == UNCHANGED <<ammVars, calls, tokenUsed, handleHeld, worker, pills>>

\* A handler that lets run() go on to schedule_pending.
EndTurn(s) == /\ pc' = "schedule" /\ input' = None /\ streak' = s /\ UNCHANGED failed

\* A handler that breaks run()'s loop.
BreakLoop(isFailure) ==
  /\ pc' = "closing" /\ input' = None /\ failed' = isFailure
  /\ UNCHANGED <<streak, handle, cleanup, jobs, resultsOpen, tokenVars,
                 tableVars, pendingVars>>

\* Readiness of the four futures of next_input.
CommitReady == published > view \/ ~streamOpen
AllHandlesDropped == ~handleHeld /\ \A id \in Ids : handle[id] # "held"
CommandReady == commands # <<>> \/ AllHandlesDropped
CleanupReady == cleanup # <<>>
WorkerReady == results # <<>>
PreferFairness == streak >= MaxCommitBurst

\* The biased select!: commits first, or last once the commit burst is used up.
TakesCommit == /\ pc = "select" /\ CommitReady
               /\ PreferFairness => ~CommandReady /\ ~CleanupReady /\ ~WorkerReady
TakesCommand == /\ pc = "select" /\ CommandReady
                /\ PreferFairness \/ ~CommitReady
TakesCleanup == /\ pc = "select" /\ CleanupReady /\ ~CommandReady
                /\ PreferFairness \/ ~CommitReady
TakesWorker == /\ pc = "select" /\ WorkerReady /\ ~CommandReady /\ ~CleanupReady
               /\ PreferFairness \/ ~CommitReady

\* What a commit does to an entry.
InvalidatedForgetsAttempt(e) == [e EXCEPT !.dirty = TRUE, !.active = None]
Invalidated(e) == [e EXCEPT !.dirty = TRUE]

\* apply_commit: the new view, every attempt cancelled, every entry dirty and
\* published Pending, and the entries without an attempt queued for a search.
ApplyCommit ==
  /\ view' = view + 1
  /\ entries' = [id \in Ids |-> IF id \in live THEN Invalidated(entries[id]) ELSE entries[id]]
  /\ CancelActive(live)
  /\ watch' = [id \in Ids |-> IF id \in live THEN PendingSnapshot(entries[id], view + 1)
                              ELSE watch[id]]
  /\ EnqueuePending({id \in live : entries[id].active = None})
  /\ UNCHANGED <<handle, cleanup, cancelled, jobs, resultsOpen, next_subscription>>

HandleCommit ==
  /\ TakesCommit /\ published > view
  /\ \/ /\ ApplyCommit
        /\ EndTurn(IF streak < MaxCommitBurst THEN streak + 1 ELSE streak)
     \/ "fail" \in Ops /\ BreakLoop(TRUE)
  /\ UNCHANGED <<commands, results>> /\ ActorUnchanged

\* Commit(None) and Command(None): the stream or every handle is gone.
HandleClosed ==
  /\ \/ TakesCommit /\ published = view
     \/ TakesCommand /\ commands = <<>>
  /\ BreakLoop(FALSE)
  /\ UNCHANGED <<commands, results>> /\ ActorUnchanged

\* Receives the next command, which is op.
Receive(op) ==
  /\ TakesCommand /\ commands # <<>> /\ Head(commands).op = op
  /\ commands' = Tail(commands)
  /\ UNCHANGED results /\ ActorUnchanged

\* The two refusals of add_subscription: no capacity, and no id left.
SubscribeRefusedNoIdCheck == Cardinality(live) >= MaxSubscriptions
SubscribeRefused == \/ Cardinality(live) >= MaxSubscriptions
                    \/ next_subscription = MaxSubscribes

\* add_subscription. The caller keeps the subscription, or has gone away: then
\* the returned value is dropped at once, which queues its removal.
HandleSubscribe ==
  /\ Receive("subscribe")
  /\ IF SubscribeRefused
       THEN UNCHANGED <<handle, cancelled, cleanup, entries, watch, next_subscription, pendingVars>>
       ELSE LET id == next_subscription
                e == [spec |-> Head(commands).spec, epoch |-> 0, next_job |-> 0,
                      active |-> None, dirty |-> TRUE, last_ready |-> None]
            IN /\ next_subscription' = next_subscription + 1
               /\ entries' = [entries EXCEPT ![id] = e]
               /\ watch' = [watch EXCEPT ![id] = PendingSnapshot(e, view)]
               /\ EnqueuePending({id})
               /\ \/ /\ handle' = [handle EXCEPT ![id] = "held"]
                     /\ UNCHANGED <<cancelled, cleanup>>
                  \/ /\ "drop" \in Ops
                     /\ handle' = [handle EXCEPT ![id] = "dropped"]
                     /\ cancelled' = cancelled \cup {id}
                     /\ cleanup' = cleanup \o <<id, id>>
  /\ EndTurn(0)
  /\ UNCHANGED <<view, jobs, resultsOpen, jobCancelled>>

\* The subscription table without id.
RemovedNot(id) == entries
Removed(id) == [entries EXCEPT ![id] = None]

\* cancel_subscription: remove the entry, cancel both tokens, publish Cancelled.
\* queue is what is left of the cleanup channel.
CancelSubscription(id, queue) ==
  /\ IF id \in live
       THEN /\ CancelTokens({id}, queue) /\ CancelActive({id})
            /\ watch' = [watch EXCEPT ![id] =
                           FinalSnapshot("Cancelled", view, entries[id].epoch, None)]
            /\ entries' = Removed(id)
       ELSE cleanup' = queue /\ UNCHANGED <<tokenVars, watch, entries>>
  /\ EndTurn(0)
  /\ UNCHANGED <<view, next_subscription, handle, jobs, resultsOpen, pendingVars>>

HandleCancel == Receive("cancel") /\ CancelSubscription(Head(commands).id, cleanup)

HandleCleanup ==
  /\ TakesCleanup
  /\ CancelSubscription(Head(cleanup), Tail(cleanup))
  /\ UNCHANGED <<commands, results>> /\ ActorUnchanged

\* What a replacement does to an entry.
ReplacedInSameEpoch(e, spec) == [e EXCEPT !.spec = spec, !.dirty = TRUE]
Replaced(e, spec) == [e EXCEPT !.spec = spec, !.epoch = e.epoch + 1, !.dirty = TRUE]

\* replace_subscription: a new epoch and request over the current view.
HandleReplace ==
  /\ Receive("replace")
  /\ LET id == Head(commands).id IN
       IF id \in live
         THEN LET e == Replaced(entries[id], Head(commands).spec)
              IN /\ CancelActive({id})
                 /\ entries' = [entries EXCEPT ![id] = e]
                 /\ watch' = [watch EXCEPT ![id] = PendingSnapshot(e, view)]
                 /\ IF e.active = None THEN EnqueuePending({id}) ELSE UNCHANGED pendingVars
         ELSE UNCHANGED <<jobCancelled, entries, watch, pendingVars>>
  /\ EndTurn(0)
  /\ UNCHANGED <<view, next_subscription, handle, cleanup, jobs, resultsOpen, cancelled>>

HandleShutdown == Receive("shutdown") /\ BreakLoop(FALSE)

\* A worker input: one commit that is ready by now is applied before the message.
SelectWorker ==
  /\ TakesWorker
  /\ pc' = "drain" /\ input' = Head(results) /\ results' = Tail(results)
  /\ UNCHANGED <<streak, failed, handle, commands, cleanup, jobs, resultsOpen,
                 tokenVars, tableVars, pendingVars>>
  /\ ActorUnchanged

DrainNoCommit ==
  /\ pc = "drain" /\ published = view
  /\ pc' = "message"
  /\ UNCHANGED <<input, streak, failed, handle, commands, cleanup, jobs, results,
                 resultsOpen, tokenVars, tableVars, pendingVars>>
  /\ ActorUnchanged

DrainOneCommit ==
  /\ pc = "drain" /\ published > view
  /\ \/ ApplyCommit /\ pc' = "message" /\ UNCHANGED <<input, streak, failed>>
     \/ "fail" \in Ops /\ BreakLoop(TRUE)
  /\ UNCHANGED <<commands, results>> /\ ActorUnchanged

Delivered(kind) == pc = "message" /\ input.kind = kind

\* accepts(stamp)
Accepts(stamp) ==
  LET id == stamp.sub IN
  /\ id \in live
  /\ stamp.source = view
  /\ entries[id].epoch = stamp.epoch
  /\ id \notin cancelled
  /\ entries[id].active = stamp
  /\ <<id, stamp.job>> \notin jobCancelled

QuoteOf(msg) == [source |-> msg.stamp.source, epoch |-> msg.stamp.epoch, spec |-> msg.spec]

HandleEvent ==
  /\ Delivered("event")
  /\ LET msg == input
         id == msg.stamp.sub
     IN watch' = IF Accepts(msg.stamp) /\ msg.outcome = "best"
                   THEN [watch EXCEPT ![id] =
                           SearchingSnapshot(entries[id], msg.stamp.source, QuoteOf(msg))]
                   ELSE watch
  /\ EndTurn(0)
  /\ UNCHANGED <<view, entries, next_subscription, handle, commands, cleanup, jobs,
                 results, resultsOpen, tokenVars, pendingVars>>
  /\ ActorUnchanged

\* A completed attempt that may not be published.
StaleIgnoresSource(stamp) == \/ entries[stamp.sub].epoch # stamp.epoch
                             \/ stamp.sub \in cancelled
StaleIgnoresEpoch(stamp) == stamp.source # view \/ stamp.sub \in cancelled
StaleIgnoresToken(stamp) == \/ stamp.source # view
                            \/ entries[stamp.sub].epoch # stamp.epoch
Stale(stamp) == \/ stamp.source # view
                \/ entries[stamp.sub].epoch # stamp.epoch
                \/ stamp.sub \in cancelled

HandleCompleted ==
  /\ Delivered("completed")
  /\ LET msg == input
         id == msg.stamp.sub
         best == IF msg.outcome = "best" THEN QuoteOf(msg) ELSE None
         settled == [entries[id] EXCEPT !.active = None]
     IN IF id \notin live \/ (id \in live /\ entries[id].active # msg.stamp)
          THEN UNCHANGED <<entries, watch, pendingVars>>
        ELSE IF Stale(msg.stamp)
          THEN /\ entries' = [entries EXCEPT ![id] =
                                [settled EXCEPT !.dirty = id \notin cancelled]]
               /\ IF id \notin cancelled THEN EnqueuePending({id}) ELSE UNCHANGED pendingVars
               /\ UNCHANGED watch
        ELSE IF msg.outcome = "error"
          THEN /\ entries' = [entries EXCEPT ![id] = settled]
               /\ watch' = [watch EXCEPT ![id] =
                              FinalSnapshot("Failed", msg.stamp.source, msg.stamp.epoch, None)]
               /\ UNCHANGED pendingVars
          ELSE /\ entries' = [entries EXCEPT ![id] = [settled EXCEPT !.last_ready = best]]
               /\ watch' = [watch EXCEPT ![id] =
                              FinalSnapshot("Ready", msg.stamp.source, msg.stamp.epoch, best)]
               /\ UNCHANGED pendingVars
  /\ EndTurn(0)
  /\ UNCHANGED <<view, next_subscription, handle, commands, cleanup, jobs, results,
                 resultsOpen, tokenVars>>
  /\ ActorUnchanged

\* schedule_pending, one iteration of its loop per step. It ends on an empty queue
\* or when the bounded job queue refuses a job, whose id goes back to the end.
Schedulable(id) == id \in live /\ entries[id].dirty /\ entries[id].active = None

NextStamp(id) == [sub |-> id, epoch |-> entries[id].epoch,
                  job |-> entries[id].next_job, source |-> view]

ScheduleUnchanged ==
  /\ UNCHANGED <<input, streak, failed, handle, commands, cleanup, results, resultsOpen,
                 tokenVars, view, next_subscription>>
  /\ ActorUnchanged

ScheduleDone ==
  /\ pc = "schedule" /\ pending = <<>>
  /\ pc' = "select"
  /\ UNCHANGED <<jobs, entries, watch, pendingVars>> /\ ScheduleUnchanged

ScheduleSkip ==
  /\ pc = "schedule" /\ pending # <<>> /\ ~Schedulable(Head(pending))
  /\ pending' = Tail(pending) /\ pending_set' = pending_set \ {Head(pending)}
  /\ UNCHANGED <<pc, jobs, entries, watch>> /\ ScheduleUnchanged

Submitted(e, stamp) == [e EXCEPT !.next_job = e.next_job + 1, !.active = stamp, !.dirty = FALSE]

ScheduleSubmit ==
  /\ pc = "schedule" /\ pending # <<>> /\ Schedulable(Head(pending))
  /\ Len(jobs) < JobQueueCapacity
  /\ LET id == Head(pending)
         e == Submitted(entries[id], NextStamp(id))
     IN /\ jobs' = Append(jobs, [stamp |-> NextStamp(id), spec |-> entries[id].spec])
        /\ entries' = [entries EXCEPT ![id] = e]
        /\ watch' = [watch EXCEPT ![id] = SearchingSnapshot(e, view, None)]
        /\ pending' = Tail(pending) /\ pending_set' = pending_set \ {id}
  /\ UNCHANGED pc /\ ScheduleUnchanged

ScheduleRefusedLosesId ==
  /\ pc = "schedule" /\ pending # <<>> /\ Schedulable(Head(pending))
  /\ Len(jobs) >= JobQueueCapacity
  /\ pending' = Tail(pending) /\ pending_set' = pending_set \ {Head(pending)}
  /\ pc' = "select"
  /\ UNCHANGED <<jobs, entries, watch>> /\ ScheduleUnchanged

ScheduleRefused ==
  /\ pc = "schedule" /\ pending # <<>> /\ Schedulable(Head(pending))
  /\ Len(jobs) >= JobQueueCapacity
  /\ pending' = Append(Tail(pending), Head(pending))
  /\ pc' = "select"
  /\ UNCHANGED <<jobs, entries, watch, pending_set>> /\ ScheduleUnchanged

\* worker_results.close()
LeaveResultsOpen == UNCHANGED resultsOpen
CloseResults == resultsOpen' = FALSE

\* close(): every subscription cancelled and told why, then result delivery closed.
Close ==
  /\ pc = "closing" /\ pc' = "joining"
  /\ CancelTokens(live, cleanup) /\ CancelActive(live)
  /\ watch' = [id \in Ids |-> IF id \in live
                 THEN FinalSnapshot(IF failed THEN "RuntimeFailed" ELSE "Closed",
                                    view, entries[id].epoch, None)
                 ELSE watch[id]]
  /\ entries' = [id \in Ids |-> None]
  /\ CloseResults
  /\ UNCHANGED <<input, streak, failed, handle, commands, jobs, results, view,
                 next_subscription, pendingVars>>
  /\ ActorUnchanged

\* stop_threads: one pill per worker through the bounded job queue, then the joins.
SendPill ==
  /\ pc = "joining" /\ pills < Cardinality(Workers) /\ Len(jobs) < JobQueueCapacity
  /\ pills' = pills + 1
  /\ jobs' = Append(jobs, None)
  /\ UNCHANGED <<ammVars, clientVars, commands, cleanup, results, resultsOpen, worker,
                 tokenVars, pc, input, streak, failed, tableVars, pendingVars>>

JoinDone ==
  /\ pc = "joining" /\ pills = Cardinality(Workers)
  /\ \A w \in Workers : worker[w].st = "exited"
  /\ pc' = "exited"
  /\ UNCHANGED <<jobs, entries, watch, pendingVars>> /\ ScheduleUnchanged

------------------------------------------------------------------------------
ActorNext ==
  \/ HandleCommit \/ HandleClosed
  \/ HandleSubscribe \/ HandleCancel \/ HandleReplace \/ HandleShutdown
  \/ HandleCleanup
  \/ SelectWorker \/ DrainNoCommit \/ DrainOneCommit \/ HandleEvent \/ HandleCompleted
  \/ ScheduleDone \/ ScheduleSkip \/ ScheduleSubmit \/ ScheduleRefused
  \/ Close \/ SendPill \/ JoinDone

WorkerNext(w) ==
  \/ WorkerTake(w) \/ WorkerSend(w) \/ WorkerComplete(w)
  \/ \E outcome \in {"best", "progress"} : WorkerEvent(w, outcome)
  \/ \E outcome \in {"best", "none", "error"} :
       WorkerFinish(w, outcome) \/ WorkerSendClosed(w, outcome)

ClientNext ==
  \/ \E spec \in Specs : SendSubscribe(spec)
  \/ \E id \in Ids, spec \in Specs : SendReplace(id, spec)
  \/ \E id \in Ids : SendUnsubscribe(id) \/ RequestCancel(id) \/ TokenCancel(id)
                      \/ DropSubscription(id)
  \/ SendShutdown \/ DropHandle

AmmNext == PublishCommit \/ StopStream

\* The only state in which the coordinator has nothing left to do.
Terminated == pc = "exited" /\ UNCHANGED vars

Next ==
  \/ ActorNext \/ ClientNext \/ AmmNext \/ Terminated
  \/ \E w \in Workers : WorkerNext(w)

Spec == Init /\ [][Next]_vars

\* The coordinator task and each worker thread are scheduled; searches end.
\* Nothing is assumed of the clients or of the AMM runtime.
FairSpec == Spec /\ WF_vars(ActorNext) /\ \A w \in Workers : WF_vars(WorkerNext(w))
------------------------------------------------------------------------------
(* Safety *)

\* Every live subscription's authoritative watch state carries the coordinator's
\* current view and request epoch: after a commit or a replacement no reader sees
\* a state of the previous one.
WatchCurrent ==
  \A id \in live : watch[id].source = view /\ watch[id].epoch = entries[id].epoch

\* A published route, provisional or final, was searched at the current view for
\* the subscription's current request: the full-stamp fence over late results.
QuoteAnswersRequest ==
  \A id \in live : watch[id].quote # None =>
    watch[id].quote = [source |-> view, epoch |-> entries[id].epoch, spec |-> entries[id].spec]

\* The `previous' quote shown beside a pending or running search is historical
\* only: it never answers the request and view being searched.
PreviousIsHistorical ==
  \A id \in live : watch[id].previous # None =>
    \/ watch[id].previous.source < view
    \/ watch[id].previous.epoch < entries[id].epoch

\* The queued, running, completed and delivered attempts of a subscription.
Attempts(id) ==
  Cardinality({i \in DOMAIN jobs : jobs[i] # None /\ jobs[i].stamp.sub = id})
  + Cardinality({w \in Workers : worker[w].job # None /\ worker[w].job.stamp.sub = id})
  + Cardinality({i \in DOMAIN results :
                   results[i].kind = "completed" /\ results[i].stamp.sub = id})
  + (IF input # None /\ input.kind = "completed" /\ input.stamp.sub = id THEN 1 ELSE 0)

\* Each subscription has at most one attempt anywhere between submission and
\* handling, and while the loop runs `active' says so exactly.
OneAttempt ==
  \A id \in Ids :
    /\ Attempts(id) <= 1
    /\ id \in live /\ pc # "closing" => (entries[id].active # None <=> Attempts(id) = 1)

\* No subscription is forgotten: without an attempt it is queued for one, or it
\* shows a final answer, or its cancellation was requested. The deduplicated
\* pending queue holds what pending_set says.
NoStrandedSubscription ==
  /\ \A i, j \in DOMAIN pending : pending[i] = pending[j] => i = j
  /\ pending_set = {pending[i] : i \in DOMAIN pending}
  /\ \A id \in live : entries[id].active = None =>
       \/ entries[id].dirty /\ id \in pending_set
       \/ ~entries[id].dirty /\ (watch[id].kind \in {"Ready", "Failed"} \/ id \in cancelled)

\* A search that was cut short by a cancellation is never published as the answer:
\* Ready and Failed come from whole searches only, although the handler of a
\* completed attempt does not look at the attempt's own token.
PublishesWholeResults ==
  \A id \in Ids :
    watch'[id] # watch[id] /\ watch'[id].kind \in {"Ready", "Failed"} => ~input.truncated

OnlyWholeResultsPublished == [][PublishesWholeResults]_watch

\* A watch never goes back: Cancelled, Closed and RuntimeFailed are its last
\* states, and its view and epoch only grow.
WatchOnlyAdvances ==
  [][\A id \in Ids :
       /\ watch'[id].source >= watch[id].source /\ watch'[id].epoch >= watch[id].epoch
       /\ watch[id].kind \in {"Cancelled", "Closed", "RuntimeFailed"}
            => watch'[id] = watch[id]]_watch

------------------------------------------------------------------------------
(* Liveness, under FairSpec *)

\* A subscription that nobody cancels is answered once the commits pause (MaxCommits
\* bounds them), whatever replacements, full queues and late results come in between.
EventuallyAnswered ==
  \A id \in Ids : (id \in live) ~>
    (id \notin live \/ id \in cancelled \/ watch[id].kind \in {"Ready", "Failed"})

\* Dropping a subscription releases its place, even if its caller never got it.
DropReleases == \A id \in Ids : (handle[id] = "dropped") ~> (id \notin live)

\* Once the run loop ends, the workers are joined: pills through the bounded job
\* queue and workers blocked on a full result channel do not wait on each other.
ShutdownCompletes == (pc = "closing") ~> (pc = "exited")

\* Using the public cancellation token removes the subscription.
TokenUseReleases == \A id \in Ids : (id \in tokenUsed) ~> (id \notin live)
==============================================================================
