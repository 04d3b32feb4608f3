------------------------------- MODULE Sidecar -------------------------------
(***************************************************************************)
(* The routing sidecar: RoutingSupervisor (sidecar/src/node.rs), which      *)
(* replaces the routing node of a chain connection it no longer trusts, the *)
(* HTTP handlers (api.rs) that run on other threads and may see a node      *)
(* replaced between any two of their steps, and the shutdown of main.rs.    *)
(*                                                                         *)
(* The node in slot active is read under one lock, phase and generation     *)
(* under another, so both sides take them in two steps. The n-th node has   *)
(* generation 2n - 1: each loss and each replacement counts one up.         *)
(* The supervisor's task and the shutdown share one thread and interleave   *)
(* only where they await.                                                   *)
(***************************************************************************)
EXTENDS RoutingNode, Execution

CONSTANTS
  Loads,       \* what a behaviour is about: its requests and its bounds
  Endpoints,   \* the number of canonical endpoints
  Working,     \* those a lost node can be replaced on; the first one was built on endpoint 0
  Reports,     \* what a search may find: sequences of quotes, best first
  Allowed,     \* executor.allowed_protocols
  QuoteSlots, DiscoverySlots, SimulationSlots,
  Routing,     \* the defaults and limits of requests' options
  AdminToken,  \* admin_bearer_token is configured
  MaxDeadline, MaxSlippageBps

\* SidecarConfig::validate, of what the model depends on: the limits of requests, and what
\* an enabled executor needs.
ValidRouting ==
  /\ Routing.default_max_hops \in 1 .. Routing.max_hops
  /\ Routing.default_top_k \in 1 .. Routing.max_top_k
  /\ Routing.default_timeout \in 1 .. Routing.max_timeout
  /\ DiscoverySlots >= 1
ValidExecutor ==
  /\ Weth # 0 /\ MaxSlippageBps \in 0 .. Bps - 1 /\ Allowed # {} /\ Allowed \subseteq Kinds \ {"custom"}
  /\ MaxDeadline >= 1 /\ SimulationSlots >= 1

ASSUME SidecarAssumption ==
  /\ ValidRouting /\ ValidExecutor /\ QuoteSlots >= 1 /\ AdminToken \in BOOLEAN
  /\ Endpoints >= 1 /\ Working \subseteq 0 .. Endpoints - 1 /\ Working # {}

\* A load stays within the bounds of the nodes.
ASSUME LoadAssumption ==
  \A l \in Loads : l.nodes \in 1 .. Cardinality(Nodes) /\ l.topologies \subseteq Topologies

\* A request for an executable quote has numbers where it has any, and reports hold quotes.
ASSUME RequestAssumption ==
  \A l \in Loads, r \in Requests :
    LET a == l.requests[r]
    IN a.kind = "executable" => a.min \in Int /\ a.bps \in Int /\ a.deadline \in Nat /\ a.ttl \in Nat
ASSUME ReportAssumption ==
  \A report \in Reports : DOMAIN report = 1 .. Len(report) /\ Len(report) \in Nat
                           /\ \A i \in DOMAIN report : IsQuote(report[i])

VARIABLES
  load,
  active,      \* the active node, 0 for none
  phase,       \* see SupervisorPhases
  generation, endpoint,
  overdue,     \* the head made no progress for canonical_max_stale
  moved,       \* the head moved since the supervisor last looked
  trust,       \* of each node: "ok", "paused" while its stream reconnects, "lost"
  sup,         \* where the supervisor's task is
  old,         \* the node it shuts down
  notified,    \* shutdown_notify woke the task
  shutting,    \* shutting_down
  server,      \* "serving", "draining" its requests, "stopping", "closing", "closed"
  pc,          \* of each request: where its handler is
  opened,      \* the generation it started in
  used,        \* the nodes its answer comes from
  sealed,      \* the generation in which it was answered
  ans,         \* its status code, 0 before
  plan         \* of an executable quote: the route, the transaction, the code's answer

supVars == <<active, phase, generation, endpoint, overdue, moved, trust, sup, old, notified,
             shutting, server>>
reqVars == <<pc, opened, used, sealed, ans, plan>>
vars == <<load, nodeVars, supVars, reqVars>>

\* What RoutingSupervisor tells of itself; requests are served only in the first.
SupervisorPhases == {"Ready", "Reconnecting", "Untrusted", "ShuttingDown"}

Ask(r) == load.requests[r]
NoPlan == [best |-> <<>>, tx |-> <<>>]

Init ==
  /\ load \in Loads /\ \E topology \in load.topologies : NodeInit(topology, load.configured)
  /\ active = 1 /\ phase = "Ready" /\ generation = 1 /\ endpoint = 0
  /\ overdue = FALSE /\ moved = FALSE /\ trust = [n \in Nodes |-> "ok"]
  /\ sup = "sleep" /\ old = 0 /\ notified = FALSE /\ shutting = FALSE /\ server = "serving"
  /\ pc = [r \in Requests |-> "idle"] /\ opened = [r \in Requests |-> 0]
  /\ used = [r \in Requests |-> {}] /\ sealed = [r \in Requests |-> 0]
  /\ ans = [r \in Requests |-> 0] /\ plan = [r \in Requests |-> NoPlan]

------------------------------------------------------------------------------
(* The supervisor *)

Built == Cardinality({n \in Nodes : history[n] # <<>>})
Sup(to) == sup' = to

\* The chain connection of the active node, within the bound on generations: it is lost,
\* its stream pauses and resumes, its head moves or has not for too long.
LoseTrust ==
  /\ active # 0 /\ Built < load.nodes /\ trust[active] # "lost"
  /\ trust' = [trust EXCEPT ![active] = "lost"]
  /\ UNCHANGED <<load, nodeVars, reqVars, active, phase, generation, endpoint, overdue, moved, sup,
                 old, notified, shutting, server>>
PauseOrResume ==
  /\ active # 0 /\ load.pauses /\ trust[active] # "lost"
  /\ trust' = [trust EXCEPT ![active] = IF @ = "ok" THEN "paused" ELSE "ok"]
  /\ UNCHANGED <<load, nodeVars, reqVars, active, phase, generation, endpoint, overdue, moved, sup,
                 old, notified, shutting, server>>
HeadMovesOrNot ==
  /\ active # 0 /\ Built < load.nodes
  /\ \/ ~moved /\ moved' = TRUE /\ UNCHANGED overdue
     \/ ~overdue /\ overdue' = TRUE /\ UNCHANGED moved
  /\ UNCHANGED <<load, nodeVars, reqVars, active, phase, generation, endpoint, trust, sup, old,
                 notified, shutting, server>>

\* supervise: the interval is over or it is notified. Progress is noted; a connection that
\* is lost or has made none for too long is given up.
Check ==
  /\ sup = "sleep" /\ server # "closed" /\ notified' = FALSE
  /\ IF shutting THEN Sup("ended") /\ UNCHANGED <<overdue, moved>>
     ELSE /\ overdue' = (overdue /\ ~moved) /\ moved' = FALSE
          /\ Sup(IF trust[active] = "lost" \/ overdue' THEN "take" ELSE "sleep")
  /\ UNCHANGED <<load, nodeVars, reqVars, active, phase, generation, endpoint, trust, old,
                 shutting, server>>

\* rebuild: the node is taken away, then its generation is over.
Take ==
  /\ sup = "take" /\ Sup("taken") /\ old' = active /\ active' = 0
  /\ UNCHANGED <<load, nodeVars, reqVars, phase, generation, endpoint, overdue, moved, trust,
                 notified, shutting, server>>
Invalidate ==
  /\ sup = "taken" /\ Sup("draining") /\ phase' = "Untrusted" /\ generation' = generation + 1
  /\ UNCHANGED <<load, nodeVars, reqVars, active, endpoint, overdue, moved, trust, old, notified,
                 shutting, server>>

\* The next attempt goes to the next endpoint.
SameEndpoint == endpoint
NextEndpoint == (endpoint + 1) % Endpoints

\* The top of the loop of attempts. A rebuild that the shutdown ends is back in supervise,
\* which sees it after another interval.
Attempt ==
  IF shutting THEN Sup("sleep") /\ UNCHANGED <<phase, endpoint>>
  ELSE Sup("building") /\ phase' = "Reconnecting" /\ endpoint' = NextEndpoint

\* The old node is shut down, or given up after 15 s.
DrainOld ==
  /\ sup = "draining" /\ server # "closed" /\ Attempt /\ old' = 0
  /\ NodeShutdown(old) \/ NodeLeft(old)
  /\ UNCHANGED <<load, reqVars, active, generation, overdue, moved, trust, notified, shutting, server>>

\* An attempt succeeds, or fails or times out. A notification ends it, unless the result
\* is there as well and the select takes that.
BuildOk ==
  /\ sup = "building" /\ server # "closed" /\ endpoint \in Working /\ Built < load.nodes
  /\ \E topology \in load.topologies : FreshNode(Built + 1, topology, load.configured)
  /\ Sup("publish") /\ notified' = FALSE
  /\ UNCHANGED <<load, reqVars, active, phase, generation, endpoint, overdue, moved, trust, old,
                 shutting, server>>
BuildFails ==
  /\ sup = "building" /\ server # "closed" /\ Sup("delay") /\ notified' = FALSE
  /\ UNCHANGED <<load, nodeVars, reqVars, active, phase, generation, endpoint, overdue, moved,
                 trust, old, shutting, server>>
NotifiedWhileBuilding ==
  /\ sup \in {"building", "delay"} /\ server # "closed" /\ notified /\ Sup("sleep")
  /\ notified' = FALSE
  /\ UNCHANGED <<load, nodeVars, reqVars, active, phase, generation, endpoint, overdue, moved,
                 trust, old, shutting, server>>
DelayOver ==
  /\ sup = "delay" /\ server # "closed" /\ Attempt /\ notified' = FALSE
  /\ UNCHANGED <<load, nodeVars, reqVars, active, generation, overdue, moved, trust, old,
                 shutting, server>>

\* The new node is there, then its generation.
Publish ==
  /\ sup = "publish" /\ server # "closed" /\ Sup("published") /\ active' = Built
  /\ UNCHANGED <<load, nodeVars, reqVars, phase, generation, endpoint, overdue, moved, trust, old,
                 notified, shutting, server>>
Ready ==
  /\ sup = "published" /\ Sup("sleep") /\ phase' = "Ready" /\ generation' = generation + 1
  /\ overdue' = FALSE /\ moved' = FALSE
  /\ UNCHANGED <<load, nodeVars, reqVars, active, endpoint, trust, old, notified, shutting, server>>

------------------------------------------------------------------------------
(* Shutdown *)

\* A signal: the server takes no more requests and finishes those it has.
Signal ==
  /\ server = "serving" /\ load.stops /\ server' = "draining"
  /\ UNCHANGED <<load, nodeVars, reqVars, active, phase, generation, endpoint, overdue, moved,
                 trust, sup, old, notified, shutting>>

\* RoutingSupervisor::shutdown. notify_waiters wakes a task that waits, and is lost on one
\* that does something else.
Shutdown ==
  /\ server = "draining" /\ \A r \in Requests : pc[r] \in {"idle", "done"}
  /\ sup \notin {"take", "taken", "publish", "published"}
  /\ server' = "stopping" /\ shutting' = TRUE
  /\ phase' = "ShuttingDown" /\ generation' = generation + 1
  /\ notified' = (sup \in {"sleep", "building", "delay"})
  /\ UNCHANGED <<load, nodeVars, reqVars, active, endpoint, overdue, moved, trust, sup, old>>

\* It waits 20 s for the task; only the sleep between two checks can take longer.
JoinNotAwaited == sup \notin {"take", "taken", "publish", "published"}
Joined == sup = "ended" \/ (sup = "sleep" /\ ~notified)

CloseActive ==
  /\ server = "stopping" /\ Joined
  /\ active' = 0 /\ old' = active /\ server' = "closing"
  /\ UNCHANGED <<load, nodeVars, reqVars, phase, generation, endpoint, overdue, moved, trust, sup,
                 notified, shutting>>
Close ==
  /\ server = "closing" /\ server' = "closed"
  /\ IF old = 0 THEN UNCHANGED nodeVars ELSE NodeShutdown(old)
  /\ UNCHANGED <<load, reqVars, active, phase, generation, endpoint, overdue, moved, trust, sup, old,
                 notified, shutting>>

------------------------------------------------------------------------------
(* The handlers *)

Go(r, to) == pc' = [pc EXCEPT ![r] = to]

\* The handler returns. What it noted for an error is of no more use.
Answer(r, code) ==
  /\ Go(r, "done") /\ ans' = [ans EXCEPT ![r] = code] /\ opened' = [opened EXCEPT ![r] = 0]
  /\ plan' = IF code = 200 THEN plan ELSE [plan EXCEPT ![r] = NoPlan]
  /\ used' = IF code = 200 THEN used ELSE [used EXCEPT ![r] = {}]
  /\ sealed' = [sealed EXCEPT ![r] = IF code = 200 /\ Ask(r).kind # "prewarm" THEN generation ELSE 0]

On(r, to) == Go(r, to) /\ UNCHANGED <<opened, used, sealed, ans, plan>>

InHandler(kinds) == {r \in Requests : Ask(r).kind \in kinds /\ pc[r] \notin {"idle", "done"}}
Preparing == {r \in Requests : pc[r] \in {"prepare", "preparing"}}
Simulating == {r \in Requests : Ask(r).kind = "executable"
                                /\ pc[r] \in {"approve", "simulate", "lastNode", "lastState"}}

\* What executable_quote refuses before it takes a slot.
BadAsk(a) ==
  a.kind = "executable" /\ \/ a.bps > MaxSlippageBps
                           \/ a.min >= 0 /\ a.bps >= 0
                           \/ a.deadline # 0 /\ a.ttl # 0
                           \/ a.authorization = "erc2612" /\ a.deadline = 0

\* What quote and executable_quote refuse once the service is ready.
Malformed(a) ==
  \/ a.amount = 0
  \/ a.kind = "executable" /\ (a.recipient = 0 \/ (a.deadline = 0 /\ a.ttl \notin 1 .. MaxDeadline))

\* authorize_admin
Authorized(a) == AdminToken => a.admin

\* QuotePolicy::resolve: an option that is not given (-1, "default") has the server's value.
Resolve(o) ==
  [quality |-> IF o.quality = "default" THEN Routing.default_quality ELSE o.quality,
   max_hops |-> IF o.max_hops < 0 THEN Routing.default_max_hops ELSE o.max_hops,
   top_k |-> IF o.top_k < 0 THEN Routing.default_top_k ELSE o.top_k,
   timeout |-> IF o.timeout < 0 THEN Routing.default_timeout ELSE o.timeout]
GoodPolicy(p) ==
  /\ p.quality = "exhaustive" => Routing.allow_exhaustive
  /\ p.max_hops \in 1 .. Routing.max_hops /\ p.top_k \in 1 .. Routing.max_top_k
  /\ p.timeout \in 1 .. Routing.max_timeout

\* A report of a search with that policy.
Within(report, p) ==
  Len(report) <= p.top_k /\ \A i \in DOMAIN report : Len(report[i].path) <= p.max_hops

\* quote, executable_quote, prewarm_token: a slot of the server's, or none.
Begin(r) ==
  LET prewarm == Ask(r).kind = "prewarm"
      full == IF prewarm THEN Cardinality(Preparing) >= DiscoverySlots
              ELSE Cardinality(InHandler({"quote", "executable"})) >= QuoteSlots
  IN /\ pc[r] = "idle" /\ server = "serving" /\ Ask(r).kind # "none"
     /\ IF BadAsk(Ask(r)) THEN Answer(r, 400)
        ELSE IF prewarm /\ ~Authorized(Ask(r)) THEN Answer(r, 401)
        ELSE IF full THEN Answer(r, 429)
        ELSE On(r, IF prewarm THEN "prepare" ELSE "node")
     /\ UNCHANGED <<load, nodeVars, supVars>>

\* quote_readiness: the node first, then the supervisor's state. At the start it gives the
\* generation, at a fence it must still be that one.
ReadNode(r) ==
  /\ pc[r] \in {"node", "fenceNode", "lastNode"}
  /\ IF shutting \/ active = 0 \/ (active # 0 /\ trust[active] # "ok") THEN Answer(r, 503)
     ELSE On(r, CASE pc[r] = "node" -> "state" [] pc[r] = "fenceNode" -> "fenceState"
                  [] pc[r] = "lastNode" -> "lastState")
  /\ UNCHANGED <<load, nodeVars, supVars>>

SameGenerationOrLater(r) == generation >= opened[r]
SameGeneration(r) == generation = opened[r]

ReadState(r) ==
  /\ pc[r] \in {"state", "fenceState", "lastState"}
  /\ IF phase # "Ready" \/ overdue THEN Answer(r, 503)
     ELSE IF pc[r] = "state"
       THEN Go(r, "graph") /\ opened' = [opened EXCEPT ![r] = generation]
            /\ UNCHANGED <<used, sealed, ans, plan>>
     ELSE IF ~SameGeneration(r) THEN Answer(r, 503)
     ELSE IF pc[r] = "fenceState" /\ Ask(r).kind = "executable" THEN On(r, "block")
     ELSE Answer(r, 200)
  /\ UNCHANGED <<load, nodeVars, supVars>>

\* The tokens the graph lacks are prepared, if the request lets them.
Graph(r) ==
  LET missing == active = 0 \/ ~GraphContains(active, Wanted)
      discovery == Ask(r).discovery
  IN /\ pc[r] = "graph"
     /\ IF Malformed(Ask(r)) \/ ~GoodPolicy(Resolve(Ask(r).options)) THEN Answer(r, 400)
        ELSE IF discovery = "refresh" /\ Ask(r).kind = "quote" /\ ~Authorized(Ask(r)) THEN Answer(r, 401)
        ELSE IF discovery = "off" /\ missing THEN Answer(r, 422)
        ELSE IF discovery = "refresh" /\ Ask(r).kind = "executable" THEN Answer(r, 400)
        ELSE IF discovery = "off" \/ (discovery = "ifMissing" /\ ~missing) THEN On(r, "subscribe")
        ELSE IF Cardinality(Preparing) >= DiscoverySlots THEN Answer(r, 429)
        ELSE On(r, "prepare")
     /\ UNCHANGED <<load, nodeVars, supVars>>

PrepareCall(r) ==
  /\ pc[r] = "prepare"
  /\ IF active = 0 THEN Answer(r, 422) /\ UNCHANGED prep
     ELSE /\ StartPrepare(r, active, Ask(r).discovery = "refresh",
                          Ask(r).kind # "prewarm" \/ Ask(r).wait)
          /\ On(r, "preparing")
  /\ UNCHANGED <<load, supVars, history, routed, amm, routes, events, lagged, index, work, found,
                 cov, expired, holder, gaveUp>>
Prepared(r) ==
  /\ pc[r] = "preparing"
  /\ CASE prep[r].stage = "failed" -> Answer(r, 422)
       [] prep[r].stage \in {"done", "joined"} ->
            IF Ask(r).kind # "prewarm" THEN On(r, "subscribe")
            ELSE Answer(r, IF prep[r].stage = "done" THEN 200 ELSE 202)
       [] ~prep[r].wait /\ prep[r].stage \in {"idle", "version"} -> Answer(r, 202)
       [] OTHER -> FALSE
  /\ UNCHANGED <<load, nodeVars, supVars>>

\* search_routes: a subscription on the active node, and its result.
Subscribe(r) ==
  /\ pc[r] = "subscribe"
  /\ IF active = 0 \/ (active # 0 /\ routes[active] = "down") THEN Answer(r, 500)
     ELSE Go(r, "searching") /\ used' = [used EXCEPT ![r] = {active}]
          /\ UNCHANGED <<opened, sealed, ans, plan>>
  /\ UNCHANGED <<load, nodeVars, supVars>>
SearchReady(r) ==
  /\ pc[r] = "searching"
  /\ IF Ask(r).kind = "quote" THEN On(r, "fenceNode")
     ELSE \E report \in {rep \in Reports : Within(rep, Resolve(Ask(r).options))} :
            /\ plan' = [plan EXCEPT ![r].best = report]
            /\ Go(r, "fenceNode") /\ UNCHANGED <<opened, used, sealed, ans>>
  /\ UNCHANGED <<load, nodeVars, supVars>>
\* It failed, or the runtime did.
SearchClosed(r) ==
  /\ pc[r] = "searching"
  /\ Answer(r, 422) \/ ((\A n \in used[r] : routes[n] = "down") /\ Answer(r, 503))
  /\ UNCHANGED <<load, nodeVars, supVars>>
SearchNeverTimesOut(r) == FALSE /\ UNCHANGED vars
SearchTimesOut(r) ==
  /\ pc[r] = "searching" /\ Answer(r, 504) /\ UNCHANGED <<load, nodeVars, supVars>>

\* A call of the node's provider, of whichever node is active, that fails or is late.
CallFails(r) ==
  /\ pc[r] \in {"block", "approve", "simulate"}
  /\ \E code \in {422, 503, 504} : Answer(r, code)
  /\ UNCHANGED <<load, nodeVars, supVars>>
UseActive(r) == used' = [used EXCEPT ![r] = @ \cup {active}]

Now == 1
Deadline(a) == IF a.deadline # 0 THEN a.deadline ELSE Now + a.ttl

\* resolve_deadline, what else is refused before a transaction is built, and the request for
\* the executor. A tolerance of -1 is none.
GoodDeadline(a) == Deadline(a) - Now \in 1 .. MaxDeadline
GoodTerms(a, best) ==
  /\ a.bps >= 0 => MinFromSlippage(best.amount_out, a.bps) # 0
  /\ a.authorization = "permit2" => a.permit_deadline >= Deadline(a)
ExecutionRequest(a, best) ==
  [router |-> 1, weth |-> Weth, permit2 |-> 1, recipient |-> a.recipient, deadline |-> Deadline(a),
   permit_deadline |-> a.permit_deadline, authorization |-> a.authorization,
   minimum |-> IF a.bps >= 0 THEN MinFromSlippage(best.amount_out, a.bps) ELSE a.min]
ProtocolsAllowed(q) == \A i \in DOMAIN q.path : Registered[q.path[i].pool].kind \in Allowed
Executable(report) ==
  LET kept[i \in 0 .. Len(report)] ==
        IF i = 0 THEN <<>>
        ELSE IF ProtocolsAllowed(report[i]) THEN Append(kept[i - 1], report[i]) ELSE kept[i - 1]
  IN kept[Len(report)]

\* The quote's block is canonical and recent: the first allowed route becomes a transaction.
Block(r) ==
  LET choices == Executable(plan[r].best)
      swap == BuildExecutableSwap(choices, ExecutionRequest(Ask(r), choices[1]))
  IN /\ pc[r] = "block" /\ active # 0
     /\ IF ~GoodDeadline(Ask(r)) THEN Answer(r, 400)
        ELSE IF choices = <<>> THEN Answer(r, 422)
        ELSE IF ~GoodTerms(Ask(r), choices[1]) THEN Answer(r, 400)
        ELSE IF swap = <<>> THEN Answer(r, 422)
        ELSE IF Cardinality(Simulating) >= SimulationSlots THEN Answer(r, 429)
        ELSE /\ plan' = [plan EXCEPT ![r] = [best |-> <<choices[1]>>, tx |-> swap]]
             /\ UseActive(r)
             /\ Go(r, IF swap[1].spender = 0 THEN "simulate" ELSE "approve")
             /\ UNCHANGED <<opened, sealed, ans>>
     /\ UNCHANGED <<load, nodeVars, supVars>>

\* The allowance is there or must be given first.
Approve(r) ==
  /\ pc[r] = "approve" /\ active # 0
  /\ \/ Answer(r, 428)
     \/ UseActive(r) /\ Go(r, "simulate") /\ UNCHANGED <<opened, sealed, ans, plan>>
  /\ UNCHANGED <<load, nodeVars, supVars>>

\* simulate_executor on the quote's block, and the comparison with the quote.
Simulate(r) ==
  LET best == plan[r].best[1]
      out == Execute(plan[r].tx[1], Now)
  IN /\ pc[r] = "simulate" /\ active # 0
     /\ IF out = <<>> THEN Answer(r, 422)
        ELSE IF out[1] # best.amount_out /\ ~FinalRounding(best, out[1]) THEN Answer(r, 422)
        ELSE UseActive(r) /\ Go(r, "lastNode") /\ UNCHANGED <<opened, sealed, ans, plan>>
     /\ UNCHANGED <<load, nodeVars, supVars>>

\* The client goes away while the handler waits.
ClientLeaves(r) ==
  /\ load.leaves /\ Answer(r, 499)
  /\ \/ pc[r] \in {"searching", "block", "approve", "simulate"} /\ UNCHANGED nodeVars
     \/ pc[r] = "preparing" /\ PrepareDropped(r)
  /\ UNCHANGED <<load, supVars>>

\* token_status
TokenStatus ==
  /\ load.polls /\ active # 0 /\ server = "serving" /\ RefreshCoverage(active)
  /\ UNCHANGED <<load, supVars, reqVars>>

------------------------------------------------------------------------------
(* The nodes *)

\* What the tasks of a node do.
NodeStep(n) ==
  /\ server # "closed"
  /\ \/ Version(n) < load.versions /\ \E topology \in load.topologies : AmmCommit(n, topology)
     \/ \E r \in Requests, topology \in load.topologies : DiscoveryDone(n, r, topology)
     \/ RouteCommit(n) \/ IndexEvent(n) \/ NegativeExpires(n)
     \/ load.fails /\ RoutesFail(n)
  /\ UNCHANGED <<load, supVars, reqVars>>

PrepareStep(r) ==
  /\ server # "closed"
  /\ \/ ReadCoverage(r) \/ WaitIdle(r) \/ Settle(r) \/ PrepareTimesOut(r)
     \/ \E accepted \in BOOLEAN : QueueDiscovery(r, accepted)
  /\ UNCHANGED <<load, supVars, reqVars>>

SupStep ==
  Check \/ Take \/ Invalidate \/ DrainOld \/ BuildFails \/ NotifiedWhileBuilding \/ DelayOver
  \/ Publish \/ Ready

HandlerStep(r) ==
  ReadNode(r) \/ ReadState(r) \/ Graph(r) \/ PrepareCall(r) \/ Prepared(r) \/ Subscribe(r)
  \/ SearchTimesOut(r) \/ CallFails(r) \/ Block(r) \/ Approve(r) \/ Simulate(r)

Next ==
  \/ LoseTrust \/ PauseOrResume \/ HeadMovesOrNot \/ SupStep \/ BuildOk
  \/ Signal \/ Shutdown \/ CloseActive \/ Close \/ TokenStatus
  \/ \E n \in Nodes : NodeStep(n)
  \/ \E r \in Requests : \/ Begin(r) \/ HandlerStep(r) \/ SearchReady(r) \/ SearchClosed(r)
                         \/ ClientLeaves(r) \/ PrepareStep(r)

Spec == Init /\ [][Next]_vars

\* Tasks run and timers fire. No search is sure to end, no discovery to be done; a
\* connection can be had at a working endpoint, if it is tried again and again.
FairSpec ==
  /\ Spec /\ WF_vars(SupStep) /\ SF_vars(BuildOk) /\ WF_vars(Shutdown \/ CloseActive \/ Close)
  /\ \A r \in Requests : WF_vars(HandlerStep(r)) /\ WF_vars(PrepareStep(r))

------------------------------------------------------------------------------
(* Properties *)

\* A quote that is answered comes from one node, all of it, and from the node whose
\* generation it is at that moment: no answer mixes two generations or outlives its own
\* (quote_generation and ensure_quote_generation against rebuild).
OneGeneration ==
  \A r \in Requests : (ans[r] = 200 /\ Ask(r).kind # "prewarm") =>
    \E n \in Nodes : used[r] = {n} /\ sealed[r] = 2 * n - 1

\* What is packed for the best route does on the router what was quoted (execution.rs against
\* ExperimentalExecutorRouter.sol). Whatever the pools take and round, the call reverts or
\* pays at least the floor and never more than the quote. It pays the quote, and does not
\* revert, when every pool takes its whole input and no StableSwap pool rounds before the
\* last hop; a last one that rounds gives one unit less, if the floor allows it.
RoutesExecuteAsQuoted ==
  \A r \in Requests : plan[r].tx # <<>> =>
    LET best == plan[r].best[1]
        tx == plan[r].tx[1]
        out == Execute(tx, Now)
        last == Last(best.path).pool
    IN /\ out # <<>> => out[1] \in tx.min .. best.amount_out
       /\ (/\ \A i \in DOMAIN best.path : best.trace[i] <= Holds[best.path[i].pool]
           /\ \A i \in 1 .. Len(best.path) - 1 : best.path[i].pool \notin Rounds
           /\ tx.min <= best.amount_out - (IF last \in Rounds THEN 1 ELSE 0)) =>
             out = <<best.amount_out - (IF last \in Rounds THEN 1 ELSE 0)>>

\* When the process is closed, the routing nodes are shut down, all that ever ran, whatever
\* rebuild the shutdown raced: a node that was just built is published and taken or never
\* there, an old one is shut down by its rebuild. The only ones that may still run are those
\* whose shutdown rebuild gave up on after its 15 s.
ShutdownLeavesNoNode ==
  server = "closed" =>
    active = 0 /\ \A n \in Nodes : amm[n] # "up" /\ (amm[n] = "down" => routes[n] = "down")

\* A lost generation is replaced, whichever endpoint was lost, as long as one works and the
\* process is not stopped.
Recovers == (active = 0) ~> (active # 0 \/ server # "serving")

\* Every request is answered, whatever it waits for.
Answered == \A r \in Requests : (pc[r] # "idle") ~> (pc[r] = "done")
==============================================================================
