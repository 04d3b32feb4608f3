---------------------------- MODULE SidecarProofs ----------------------------
(***************************************************************************)
(* Proofs about the sidecar and its routing nodes, for any numbers of      *)
(* nodes, requests, pools and tokens, any loads and any search reports.    *)
(***************************************************************************)
EXTENDS Sidecar, FiniteSetTheorems, SequenceTheorems, TLAPS

------------------------------------------------------------------------------
(* The inductive invariant of the generations *)

SupStates == {"sleep", "take", "taken", "draining", "building", "delay", "publish", "published",
              "ended"}
Servers == {"serving", "draining", "stopping", "closing", "closed"}

\* Nodes are built one after the other, and only a node that was built runs.
HistoryInv ==
  /\ history \in [Nodes -> Seq(Topologies)] /\ amm \in [Nodes -> {"up", "down", "left"}]
  /\ \A n \in Nodes : amm[n] # "down" => history[n] # <<>>
  /\ Built \in Nodes
  /\ \A n \in Nodes : (history[n] # <<>>) <=> (n <= Built)

\* What the supervisor has done so far fixes the active node, the generation and the phase,
\* until a shutdown; that waits for every request and for the rebuild it interrupts.
SupervisorInv ==
  /\ sup \in SupStates /\ server \in Servers /\ phase \in SupervisorPhases
  /\ generation \in Nat /\ load \in Loads
  /\ shutting \in BOOLEAN /\ (shutting <=> server \in {"stopping", "closing", "closed"})
  /\ ~shutting =>
       /\ sup # "ended" /\ ~notified
       /\ sup \in {"sleep", "take"} =>
            active = Built /\ generation = 2 * Built - 1 /\ phase = "Ready"
       /\ sup = "taken" => active = 0 /\ generation = 2 * Built - 1 /\ phase = "Ready"
       /\ sup \in {"draining", "building", "delay"} =>
            active = 0 /\ generation = 2 * Built /\ phase # "Ready"
       /\ sup = "publish" => active = 0 /\ generation = 2 * Built - 2 /\ phase # "Ready"
       /\ sup = "published" => active = Built /\ generation = 2 * Built - 2 /\ phase # "Ready"
  /\ sup \in {"taken", "draining"} => old = Built
  /\ shutting => sup \notin {"take", "taken"} /\ \A r \in Requests : pc[r] \in {"idle", "done"}
  /\ server \in {"closing", "closed"} => active = 0 /\ sup \in {"sleep", "ended"}

Opening == {"graph", "subscribe"}
Subscribed == {"searching", "fenceNode", "fenceState", "block", "approve", "simulate", "lastNode",
               "lastState"}

HandlerStates == {"idle", "node", "state", "prepare", "preparing", "done"} \cup Opening \cup Subscribed

RequestTypes ==
  /\ pc \in [Requests -> HandlerStates] /\ opened \in [Requests -> Nat]
  /\ used \in [Requests -> SUBSET Nodes] /\ sealed \in [Requests -> Nat]
  /\ ans \in [Requests -> Nat] /\ DOMAIN plan = Requests

\* A request opens under the odd generation of a node. As long as that generation lasts, it
\* has used that node and no other.
RequestInv(r) ==
  /\ opened[r] <= generation
  /\ (pc[r] \in Opening \/ (pc[r] \in {"prepare", "preparing"} /\ Ask(r).kind # "prewarm"))
       => opened[r] % 2 = 1
  /\ (pc[r] \in Subscribed /\ opened[r] = generation)
       => \E n \in Nodes : used[r] = {n} /\ generation = 2 * n - 1
  /\ ans[r] # 0 => pc[r] = "done"
  /\ (ans[r] = 200 /\ Ask(r).kind # "prewarm") =>
       \E n \in Nodes : used[r] = {n} /\ sealed[r] = 2 * n - 1
RequestsInv == RequestTypes /\ \A r \in Requests : RequestInv(r)

GenerationInv == HistoryInv /\ SupervisorInv /\ RequestsInv

------------------------------------------------------------------------------
(* The number of nodes that were built *)

\* Nodes 1 to k, and no others, have a history: there are k of them.
LEMMA BuiltIs ==
  ASSUME NEW k \in Nodes, \A n \in Nodes : (history[n] # <<>>) <=> (n <= k)
  PROVE  Built = k
<1>1. {n \in Nodes : history[n] # <<>>} = 1 .. k
  BY NodeAssumption
<1>2. k \in Nat /\ 1 <= k
  BY NodeAssumption
<1>3. Cardinality(1 .. k) = k
  BY <1>2, FS_Interval
<1> QED
  BY <1>1, <1>3 DEF Built

\* The same nodes have a history as before.
LEMMA BuiltSame ==
  ASSUME \A n \in Nodes : (history'[n] # <<>>) <=> (history[n] # <<>>)
  PROVE  Built' = Built
<1>1. {n \in Nodes : history'[n] # <<>>} = {n \in Nodes : history[n] # <<>>}
  OBVIOUS
<1> QED
  BY <1>1 DEF Built

\* A node that commits a version had one.
LEMMA AppendKeepsHistory ==
  ASSUME HistoryInv, NEW n \in Nodes, NEW topology \in Topologies, history[n] # <<>>,
         history' = [history EXCEPT ![n] = Append(@, topology)], UNCHANGED amm
  PROVE  HistoryInv' /\ Built' = Built
<1>1. history[n] \in Seq(Topologies) /\ history[n] # <<>>
  BY DEF HistoryInv
<1>2. Append(history[n], topology) \in Seq(Topologies) /\ Append(history[n], topology) # <<>>
  BY <1>1
<1>3. \A m \in Nodes : (history'[m] # <<>>) <=> (history[m] # <<>>)
  BY <1>1, <1>2 DEF HistoryInv
<1>4. Built' = Built
  BY <1>3, BuiltSame
<1>5. history' \in [Nodes -> Seq(Topologies)]
  BY <1>2 DEF HistoryInv
<1> QED
  BY <1>3, <1>4, <1>5 DEF HistoryInv

\* The next node is built.
LEMMA FreshNodeKeepsHistory ==
  ASSUME HistoryInv, NEW topology \in Topologies, NEW configured, Built + 1 \in Nodes,
         FreshNode(Built + 1, topology, configured)
  PROVE  HistoryInv' /\ Built' = Built + 1
<1> DEFINE k == Built + 1
<1>1. history' = [history EXCEPT ![k] = <<topology>>] /\ amm' = [amm EXCEPT ![k] = "up"]
  BY DEF FreshNode
<1>2. history' \in [Nodes -> Seq(Topologies)] /\ amm' \in [Nodes -> {"up", "down", "left"}]
  BY <1>1 DEF HistoryInv
<1>3. Built \in Nat
  BY NodeAssumption, SMTT(30) DEF HistoryInv
<1>4. \A n \in Nodes : (history'[n] # <<>>) <=> (n <= k)
  <2> TAKE n \in Nodes
  <2>1. n \in Nat
    BY NodeAssumption
  <2>2. CASE n = k
    BY <2>2, <1>1, <1>3 DEF HistoryInv
  <2>3. CASE n # k
    BY <2>1, <2>3, <1>1, <1>3 DEF HistoryInv
  <2> QED
    BY <2>2, <2>3
<1>5. Built' = k
  <2> DEFINE h == history'
  <2>1. {n \in Nodes : h[n] # <<>>} = 1 .. k
    BY <1>3, <1>4, NodeAssumption
  <2>2. Cardinality(1 .. k) = k
    BY <1>3, FS_Interval
  <2> QED
    BY <2>1, <2>2 DEF Built
<1>6. \A n \in Nodes : amm'[n] # "down" => history'[n] # <<>>
  <2> TAKE n \in Nodes
  <2>1. CASE n = k
    BY <2>1, <1>1 DEF HistoryInv
  <2>2. CASE n # k
    BY <2>2, <1>1 DEF HistoryInv
  <2> QED
    BY <2>1, <2>2
<1> QED
  BY <1>2, <1>4, <1>5, <1>6 DEF HistoryInv

\* Steps that leave the histories and the runtimes alone.
LEMMA HistorySame ==
  ASSUME HistoryInv, UNCHANGED <<history, amm>>
  PROVE  HistoryInv' /\ Built' = Built
BY DEF HistoryInv, Built

LEMMA ShutdownKeepsHistory ==
  ASSUME HistoryInv, NEW n, NodeShutdown(n) \/ (NodeLeft(n) /\ history[n] # <<>>)
  PROVE  HistoryInv' /\ Built' = Built
<1>1. /\ UNCHANGED history
      /\ \E s \in {"down", "left"} : /\ amm' = [amm EXCEPT ![n] = s]
                                     /\ (s = "left" => history[n] # <<>>)
  BY DEF NodeShutdown, NodeLeft
<1>2. Built' = Built
  BY <1>1 DEF Built
<1> QED
  BY <1>1, <1>2 DEF HistoryInv

\* What the tasks of a node do keeps the nodes.
LEMMA NodeStepKeepsHistory ==
  ASSUME HistoryInv, load \in Loads, NEW n \in Nodes, NodeStep(n)
  PROVE  HistoryInv' /\ Built' = Built /\ UNCHANGED <<load, supVars, reqVars>>
<1>1. load.topologies \subseteq Topologies
  BY LoadAssumption
<1>2. UNCHANGED <<load, supVars, reqVars>>
  BY DEF NodeStep
<1>3. ASSUME NEW topology \in load.topologies, AmmCommit(n, topology)
      PROVE  HistoryInv' /\ Built' = Built
  BY <1>1, <1>3, AppendKeepsHistory DEF AmmCommit, HistoryInv
<1>4. ASSUME NEW r \in Requests, NEW topology \in load.topologies, DiscoveryDone(n, r, topology)
      PROVE  HistoryInv' /\ Built' = Built
  <2>1. CASE history' = history
    BY <2>1, <1>4, HistorySame DEF DiscoveryDone
  <2>2. CASE history' = [history EXCEPT ![n] = Append(@, topology)]
    BY <2>2, <1>1, <1>4, AppendKeepsHistory DEF DiscoveryDone, HistoryInv
  <2> QED
    BY <1>4, <2>1, <2>2 DEF DiscoveryDone
<1>5. CASE RouteCommit(n) \/ IndexEvent(n) \/ NegativeExpires(n) \/ RoutesFail(n)
  <2>1. RouteCommit(n) => UNCHANGED <<history, amm>>
    BY DEF RouteCommit
  <2>2. IndexEvent(n) => UNCHANGED <<history, amm>>
    BY DEF IndexEvent
  <2>3. NegativeExpires(n) \/ RoutesFail(n) => UNCHANGED <<history, amm>>
    BY DEF NegativeExpires, RoutesFail
  <2>4. UNCHANGED <<history, amm>>
    BY <1>5, <2>1, <2>2, <2>3
  <2> QED
    BY <1>2, <2>4, HistorySame
<1> QED
  BY <1>2, <1>3, <1>4, <1>5 DEF NodeStep

LEMMA PrepareStepKeepsHistory ==
  ASSUME HistoryInv, NEW r \in Requests, PrepareStep(r)
  PROVE  HistoryInv' /\ Built' = Built /\ UNCHANGED <<load, supVars, reqVars>>
<1>1. UNCHANGED <<load, supVars, reqVars>>
  BY DEF PrepareStep
<1>2. UNCHANGED <<history, amm>>
  BY DEF PrepareStep, ReadCoverage, WaitIdle, Settle, PrepareTimesOut, QueueDiscovery
<1> QED
  BY <1>1, <1>2, HistorySame

LEMMA TokenStatusKeepsHistory ==
  ASSUME HistoryInv, TokenStatus
  PROVE  HistoryInv' /\ Built' = Built /\ UNCHANGED <<load, supVars, reqVars>>
BY HistorySame DEF TokenStatus, RefreshCoverage

------------------------------------------------------------------------------
(* The supervisor and the shutdown *)

\* A step that leaves the supervisor alone keeps its invariant, unless it wakes a request
\* during a shutdown.
LEMMA SupervisorSame ==
  ASSUME SupervisorInv, UNCHANGED <<load, supVars>>, Built' = Built,
         shutting => UNCHANGED pc
  PROVE  SupervisorInv'
BY DEF SupervisorInv, supVars

\* Losing trust, pausing and progress of the head change nothing of it.
LEMMA ConnectionKeepsSupervisor ==
  ASSUME HistoryInv, SupervisorInv, LoseTrust \/ PauseOrResume \/ HeadMovesOrNot
  PROVE  HistoryInv' /\ SupervisorInv' /\ UNCHANGED <<reqVars, generation, load, Built>>
<1>1. UNCHANGED <<history, amm>>
  BY DEF LoseTrust, PauseOrResume, HeadMovesOrNot, nodeVars
<1>2. HistoryInv' /\ Built' = Built
  BY <1>1, HistorySame
<1>3. UNCHANGED <<load, reqVars, active, phase, generation, sup, old, notified, shutting, server>>
  BY DEF LoseTrust, PauseOrResume, HeadMovesOrNot
<1> QED
  BY <1>2, <1>3 DEF SupervisorInv, reqVars

\* A step of the supervisor or the shutdown never lowers the generation, and a request sees
\* nothing of it but that.
LEMMA SupervisorSteps ==
  ASSUME HistoryInv, SupervisorInv, SupStep \/ BuildOk \/ Signal \/ Shutdown \/ CloseActive \/ Close
  PROVE  HistoryInv' /\ SupervisorInv' /\ generation' \in Nat /\ generation <= generation'
         /\ UNCHANGED <<load, reqVars>>
<1>0. Built \in Nat /\ Built \in Nodes /\ Built >= 1
  BY NodeAssumption DEF HistoryInv
<1> USE DEF SupStates, Servers, SupervisorPhases
<1>1. CASE Check
  <2>1. HistoryInv' /\ Built' = Built
    BY <1>1, HistorySame DEF Check, nodeVars
  <2> QED
    BY <1>1, <2>1 DEF Check, Sup, SupervisorInv, reqVars
<1>2. CASE Take
  <2>1. HistoryInv' /\ Built' = Built
    BY <1>2, HistorySame DEF Take, nodeVars
  <2> QED
    BY <1>2, <2>1 DEF Take, Sup, SupervisorInv, reqVars
<1>3. CASE Invalidate
  <2>1. HistoryInv' /\ Built' = Built
    BY <1>3, HistorySame DEF Invalidate, nodeVars
  <2> QED
    BY <1>0, <1>3, <2>1 DEF Invalidate, Sup, SupervisorInv, reqVars
<1>4. CASE DrainOld
  <2>1. HistoryInv' /\ Built' = Built
    <3>1. history[old] # <<>>
      BY <1>0, <1>4 DEF DrainOld, SupervisorInv, HistoryInv
    <3> QED
      BY <1>4, <3>1, ShutdownKeepsHistory DEF DrainOld
  <2> QED
    BY <1>4, <2>1 DEF DrainOld, Attempt, Sup, SupervisorInv, reqVars
<1>5. CASE BuildFails
  <2>1. HistoryInv' /\ Built' = Built
    BY <1>5, HistorySame DEF BuildFails, nodeVars
  <2> QED
    BY <1>5, <2>1 DEF BuildFails, Sup, SupervisorInv, reqVars
<1>6. CASE NotifiedWhileBuilding
  <2>1. HistoryInv' /\ Built' = Built
    BY <1>6, HistorySame DEF NotifiedWhileBuilding, nodeVars
  <2> QED
    BY <1>6, <2>1 DEF NotifiedWhileBuilding, Sup, SupervisorInv, reqVars
<1>7. CASE DelayOver
  <2>1. HistoryInv' /\ Built' = Built
    BY <1>7, HistorySame DEF DelayOver, nodeVars
  <2> QED
    BY <1>7, <2>1 DEF DelayOver, Attempt, Sup, SupervisorInv, reqVars
<1>8. CASE Publish
  <2>1. HistoryInv' /\ Built' = Built
    BY <1>8, HistorySame DEF Publish, nodeVars
  <2> QED
    BY <1>8, <2>1 DEF Publish, Sup, SupervisorInv, reqVars
<1>9. CASE Ready
  <2>1. HistoryInv' /\ Built' = Built
    BY <1>9, HistorySame DEF Ready, nodeVars
  <2> QED
    BY <1>0, <1>9, <2>1 DEF Ready, Sup, SupervisorInv, reqVars
<1>10. CASE BuildOk
  <2>1. load.nodes \in 1 .. Cardinality(Nodes) /\ load.topologies \subseteq Topologies
    BY LoadAssumption DEF SupervisorInv
  <2>2. Built + 1 \in Nodes
    BY <1>0, <1>10, <2>1, NodeAssumption DEF BuildOk
  <2>3. PICK topology \in load.topologies : FreshNode(Built + 1, topology, load.configured)
    BY <1>10 DEF BuildOk
  <2>4. HistoryInv' /\ Built' = Built + 1
    BY <2>1, <2>2, <2>3, FreshNodeKeepsHistory
  <2> QED
    BY <1>0, <1>10, <2>4 DEF BuildOk, Sup, SupervisorInv, reqVars
<1>11. CASE Signal
  <2>1. HistoryInv' /\ Built' = Built
    BY <1>11, HistorySame DEF Signal, nodeVars
  <2> QED
    BY <1>11, <2>1 DEF Signal, SupervisorInv, reqVars
<1>12. CASE Shutdown
  <2>1. HistoryInv' /\ Built' = Built
    BY <1>12, HistorySame DEF Shutdown, nodeVars
  <2> QED
    BY <1>12, <2>1 DEF Shutdown, SupervisorInv, reqVars
<1>13. CASE CloseActive
  <2>1. HistoryInv' /\ Built' = Built
    BY <1>13, HistorySame DEF CloseActive, nodeVars
  <2> QED
    BY <1>13, <2>1 DEF CloseActive, Joined, SupervisorInv, reqVars
<1>14. CASE Close
  <2>1. HistoryInv' /\ Built' = Built
    BY <1>14, HistorySame, ShutdownKeepsHistory DEF Close, nodeVars
  <2> QED
    BY <1>14, <2>1 DEF Close, SupervisorInv, reqVars
<1> QED
  BY <1>1, <1>2, <1>3, <1>4, <1>5, <1>6, <1>7, <1>8, <1>9, <1>10, <1>11, <1>12, <1>13, <1>14
     DEF SupStep
------------------------------------------------------------------------------
(* The handlers *)

\* The node a request can read is that of the current generation, or the generation is even:
\* its successor is about to be announced.
LEMMA ActiveNode ==
  ASSUME HistoryInv, SupervisorInv, ~shutting, active # 0
  PROVE  /\ active \in Nodes /\ active = Built
         /\ generation = 2 * active - 1 \/ generation = 2 * active - 2
BY NodeAssumption DEF HistoryInv, SupervisorInv, SupStates

LEMMA ReadyGeneration ==
  ASSUME HistoryInv, SupervisorInv, ~shutting, phase = "Ready"
  PROVE  generation = 2 * Built - 1 /\ Built \in Nat
BY NodeAssumption DEF HistoryInv, SupervisorInv, SupStates

\* A step of one request keeps what holds of the others.
LEMMA OneRequest ==
  ASSUME RequestsInv, NEW r \in Requests, RequestTypes', UNCHANGED <<load, generation>>,
         \A q \in Requests : q # r => /\ pc'[q] = pc[q] /\ opened'[q] = opened[q]
                                      /\ used'[q] = used[q] /\ sealed'[q] = sealed[q]
                                      /\ ans'[q] = ans[q],
         RequestInv(r)'
  PROVE  RequestsInv'
<1>1. ASSUME NEW q \in Requests, q # r
      PROVE  RequestInv(q)'
  <2>1. RequestInv(q)
    BY DEF RequestsInv
  <2> QED
    BY <1>1, <2>1 DEF RequestInv, Ask
<1> QED
  BY <1>1 DEF RequestsInv

\* An error leaves nothing to say about the request.
LEMMA ErrorKeepsRequests ==
  ASSUME RequestsInv, NEW r \in Requests, NEW code \in Nat, code # 200, Answer(r, code),
         UNCHANGED <<load, generation>>, generation \in Nat
  PROVE  RequestsInv'
<1> USE DEF Answer, Go
<1>1. RequestTypes'
  BY DEF RequestsInv, RequestTypes, HandlerStates
<1>2. \A q \in Requests : q # r => /\ pc'[q] = pc[q] /\ opened'[q] = opened[q]
                                    /\ used'[q] = used[q] /\ sealed'[q] = sealed[q]
                                    /\ ans'[q] = ans[q]
  BY DEF RequestsInv, RequestTypes
<1>3. pc'[r] = "done" /\ opened'[r] = 0 /\ ans'[r] = code
  BY DEF RequestsInv, RequestTypes
<1>4. RequestInv(r)'
  BY <1>3 DEF RequestInv, Opening, Subscribed
<1> QED
  BY <1>1, <1>2, <1>4, OneRequest

\* A handler goes on and notes nothing.
LEMMA OnKeepsRequests ==
  ASSUME RequestsInv, NEW r \in Requests, NEW to \in HandlerStates, On(r, to), pc[r] # "done",
         UNCHANGED <<load, generation>>,
         (to \in Opening \/ (to \in {"prepare", "preparing"} /\ Ask(r).kind # "prewarm"))
            => opened[r] % 2 = 1,
         to \in Subscribed => pc[r] \in Subscribed
  PROVE  RequestsInv'
<1> USE DEF On, Go
<1>1. RequestTypes'
  BY DEF RequestsInv, RequestTypes
<1>2. \A q \in Requests : q # r => /\ pc'[q] = pc[q] /\ opened'[q] = opened[q]
                                    /\ used'[q] = used[q] /\ sealed'[q] = sealed[q]
                                    /\ ans'[q] = ans[q]
  BY DEF RequestsInv, RequestTypes
<1>3. pc'[r] = to /\ UNCHANGED <<opened, used, sealed, ans>>
  BY DEF RequestsInv, RequestTypes
<1>4. RequestInv(r)
  BY DEF RequestsInv
<1>5. RequestInv(r)'
  BY <1>3, <1>4 DEF RequestInv, Ask
<1> QED
  BY <1>1, <1>2, <1>5, OneRequest

\* A handler that uses the active node again has used only that one, as long as its
\* generation lasts.
LEMMA UseActiveKeepsRequests ==
  ASSUME HistoryInv, SupervisorInv, ~shutting, active # 0, RequestsInv,
         NEW r \in Requests, pc[r] \in Subscribed, NEW to \in Subscribed,
         UseActive(r), Go(r, to), UNCHANGED <<load, generation, opened, sealed, ans>>,
         DOMAIN plan' = Requests
  PROVE  RequestsInv'
<1> USE DEF UseActive, Go
<1>0. to \in HandlerStates
  BY DEF HandlerStates
<1>1. active \in Nodes /\ active \in Nat
      /\ (generation = 2 * active - 1 \/ generation = 2 * active - 2)
  BY ActiveNode, NodeAssumption
<1>2. RequestTypes'
  BY <1>0, <1>1 DEF RequestsInv, RequestTypes
<1>3. \A q \in Requests : q # r => /\ pc'[q] = pc[q] /\ opened'[q] = opened[q]
                                    /\ used'[q] = used[q] /\ sealed'[q] = sealed[q]
                                    /\ ans'[q] = ans[q]
  BY DEF RequestsInv, RequestTypes
<1>4. pc'[r] = to /\ used'[r] = used[r] \cup {active}
  BY DEF RequestsInv, RequestTypes
<1>5. RequestInv(r)
  BY DEF RequestsInv
<1>6. pc[r] # "done" /\ to \notin Opening /\ to \notin {"prepare", "preparing"}
  BY DEF Subscribed, Opening
<1>7. ASSUME opened[r] = generation
      PROVE  \E n \in Nodes : used'[r] = {n} /\ generation = 2 * n - 1
  <2>1. PICK n \in Nodes : used[r] = {n} /\ generation = 2 * n - 1
    BY <1>5, <1>7 DEF RequestInv
  <2>2. n \in Nat
    BY NodeAssumption
  <2>3. active = n
    BY <1>1, <2>1, <2>2
  <2> QED
    BY <1>4, <2>1, <2>3
<1>8. RequestInv(r)'
  BY <1>4, <1>5, <1>6, <1>7 DEF RequestInv, Ask
<1> QED
  BY <1>2, <1>3, <1>8, OneRequest
\* While a handler runs the process does not shut down: axum's graceful shutdown waits for it.
LEMMA NotShutting ==
  ASSUME SupervisorInv, NEW r \in Requests, pc[r] \notin {"idle", "done"}
  PROVE  ~shutting
BY DEF SupervisorInv

\* Every step of a request's handler keeps what is known of the requests.
LEMMA HandlerKeepsRequests ==
  ASSUME HistoryInv, SupervisorInv, RequestsInv, NEW r \in Requests,
         \/ Begin(r) \/ HandlerStep(r) \/ SearchReady(r) \/ SearchClosed(r) \/ ClientLeaves(r)
  PROVE  RequestsInv'
<1>0. generation \in Nat /\ RequestInv(r) /\ RequestTypes
  BY DEF SupervisorInv, RequestsInv
<1>e. ASSUME NEW code \in Nat \ {200}, Answer(r, code), UNCHANGED <<load, supVars>>
      PROVE  RequestsInv'
  BY <1>0, <1>e, ErrorKeepsRequests DEF supVars
<1> USE DEF HandlerStates, Opening, Subscribed
<1>1. CASE Begin(r)
  <2>1. UNCHANGED <<load, supVars>> /\ pc[r] = "idle"
    BY <1>1 DEF Begin
  <2>2. \/ Answer(r, 400) \/ Answer(r, 401) \/ Answer(r, 429)
        \/ Ask(r).kind = "prewarm" /\ On(r, "prepare")
        \/ Ask(r).kind # "prewarm" /\ On(r, "node")
    BY <1>1, ZenonT(60) DEF Begin
  <2>3. CASE Answer(r, 400) \/ Answer(r, 401) \/ Answer(r, 429)
    BY <2>1, <2>3, <1>e
  <2>4. CASE Ask(r).kind = "prewarm" /\ On(r, "prepare")
    BY <2>1, <2>4, OnKeepsRequests DEF supVars
  <2>5. CASE Ask(r).kind # "prewarm" /\ On(r, "node")
    BY <2>1, <2>5, OnKeepsRequests DEF supVars
  <2> QED
    BY <2>2, <2>3, <2>4, <2>5
<1>2. CASE ReadNode(r)
  <2>1. UNCHANGED <<load, supVars>> /\ pc[r] \in {"node", "fenceNode", "lastNode"}
    BY <1>2 DEF ReadNode
  <2>2. \/ Answer(r, 503)
        \/ pc[r] = "node" /\ On(r, "state")
        \/ pc[r] = "fenceNode" /\ On(r, "fenceState")
        \/ pc[r] = "lastNode" /\ On(r, "lastState")
    BY <1>2, <2>1 DEF ReadNode
  <2> QED
    BY <2>1, <2>2, <1>e, OnKeepsRequests DEF supVars
<1>3. CASE ReadState(r)
  <2>1. UNCHANGED <<load, supVars>> /\ pc[r] \in {"state", "fenceState", "lastState"}
    BY <1>3 DEF ReadState
  <2>2. ~shutting
    BY <2>1, NotShutting
  <2>3. CASE Answer(r, 503)
    BY <2>1, <2>3, <1>e
  <2>4. CASE /\ pc[r] = "state" /\ phase = "Ready" /\ Go(r, "graph")
             /\ opened' = [opened EXCEPT ![r] = generation] /\ UNCHANGED <<used, sealed, ans, plan>>
    <3>1. generation % 2 = 1
      BY <2>2, <2>4, ReadyGeneration
    <3>2. RequestTypes'
      BY <1>0, <2>4 DEF RequestTypes, Go
    <3>3. \A q \in Requests : q # r => /\ pc'[q] = pc[q] /\ opened'[q] = opened[q]
                                        /\ used'[q] = used[q] /\ sealed'[q] = sealed[q]
                                        /\ ans'[q] = ans[q]
      BY <1>0, <2>4 DEF RequestTypes, Go
    <3>4. pc'[r] = "graph" /\ opened'[r] = generation
      BY <1>0, <2>4 DEF RequestTypes, Go
    <3>5. RequestInv(r)'
      BY <1>0, <2>1, <2>4, <3>1, <3>4 DEF RequestInv, Ask, supVars
    <3> QED
      BY <2>1, <3>2, <3>3, <3>5, OneRequest DEF supVars
  <2>5. CASE pc[r] = "fenceState" /\ On(r, "block")
    BY <2>1, <2>5, OnKeepsRequests DEF supVars
  <2>6. CASE pc[r] \in {"fenceState", "lastState"} /\ generation = opened[r] /\ Answer(r, 200)
    <3>1. RequestTypes'
      BY <1>0, <2>6 DEF RequestTypes, Answer, Go
    <3>2. \A q \in Requests : q # r => /\ pc'[q] = pc[q] /\ opened'[q] = opened[q]
                                        /\ used'[q] = used[q] /\ sealed'[q] = sealed[q]
                                        /\ ans'[q] = ans[q]
      BY <1>0, <2>6 DEF RequestTypes, Answer, Go
    <3>3. /\ pc'[r] = "done" /\ opened'[r] = 0 /\ used'[r] = used[r]
          /\ Ask(r).kind # "prewarm" => sealed'[r] = generation
      BY <1>0, <2>6 DEF RequestTypes, Answer, Go
    <3>4. \E n \in Nodes : used[r] = {n} /\ generation = 2 * n - 1
      BY <1>0, <2>6 DEF RequestInv
    <3>5. RequestInv(r)'
      BY <1>0, <2>1, <3>3, <3>4 DEF RequestInv, Ask, supVars
    <3> QED
      BY <2>1, <3>1, <3>2, <3>5, OneRequest DEF supVars
  <2> QED
    BY <1>3, <2>1, <2>3, <2>4, <2>5, <2>6 DEF ReadState, SameGeneration
<1>4. CASE Graph(r)
  <2>1. UNCHANGED <<load, supVars>> /\ pc[r] = "graph"
    BY <1>4 DEF Graph
  <2>2. \/ Answer(r, 400) \/ Answer(r, 401) \/ Answer(r, 422) \/ Answer(r, 429)
        \/ On(r, "subscribe") \/ On(r, "prepare")
    BY <1>4 DEF Graph
  <2>3. CASE \E code \in {400, 401, 422, 429} : Answer(r, code)
    BY <2>1, <2>3, <1>e
  <2>4. ASSUME NEW to \in {"subscribe", "prepare"}, On(r, to)
        PROVE  RequestsInv'
    <3>1. opened[r] % 2 = 1
      BY <1>0, <2>1 DEF RequestInv
    <3> QED
      BY <2>1, <2>4, <3>1, OnKeepsRequests DEF supVars
  <2> QED
    BY <2>2, <2>3, <2>4
<1>5. CASE PrepareCall(r)
  <2>1. UNCHANGED <<load, supVars>> /\ pc[r] = "prepare"
    BY <1>5 DEF PrepareCall
  <2>2. Answer(r, 422) \/ On(r, "preparing")
    BY <1>5 DEF PrepareCall
  <2> QED
    BY <1>0, <2>1, <2>2, <1>e, OnKeepsRequests DEF RequestInv, supVars
<1>6. CASE Prepared(r)
  <2>1. UNCHANGED <<load, supVars>> /\ pc[r] = "preparing"
    BY <1>6 DEF Prepared
  <2>2. \/ \E code \in {202, 422} : Answer(r, code)
        \/ Ask(r).kind = "prewarm" /\ Answer(r, 200)
        \/ Ask(r).kind # "prewarm" /\ On(r, "subscribe")
    BY <1>6 DEF Prepared
  <2>3. CASE \E code \in {202, 422} : Answer(r, code)
    BY <2>1, <2>3, <1>e
  <2>4. CASE Ask(r).kind = "prewarm" /\ Answer(r, 200)
    <3>1. RequestTypes'
      BY <1>0, <2>4 DEF RequestTypes, Answer, Go
    <3>2. \A q \in Requests : q # r => /\ pc'[q] = pc[q] /\ opened'[q] = opened[q]
                                        /\ used'[q] = used[q] /\ sealed'[q] = sealed[q]
                                        /\ ans'[q] = ans[q]
      BY <1>0, <2>4 DEF RequestTypes, Answer, Go
    <3>3. pc'[r] = "done" /\ opened'[r] = 0
      BY <1>0, <2>4 DEF RequestTypes, Answer, Go
    <3>4. RequestInv(r)'
      BY <1>0, <2>1, <2>4, <3>3 DEF RequestInv, Ask, supVars
    <3> QED
      BY <2>1, <3>1, <3>2, <3>4, OneRequest DEF supVars
  <2>5. CASE Ask(r).kind # "prewarm" /\ On(r, "subscribe")
    BY <1>0, <2>1, <2>5, OnKeepsRequests DEF RequestInv, supVars
  <2> QED
    BY <2>2, <2>3, <2>4, <2>5
<1>7. CASE Subscribe(r)
  <2>1. UNCHANGED <<load, supVars>> /\ pc[r] = "subscribe"
    BY <1>7 DEF Subscribe
  <2>2. ~shutting
    BY <2>1, NotShutting
  <2>3. CASE Answer(r, 500)
    BY <2>1, <2>3, <1>e
  <2>4. CASE /\ active # 0 /\ Go(r, "searching") /\ used' = [used EXCEPT ![r] = {active}]
             /\ UNCHANGED <<opened, sealed, ans, plan>>
    <3>1. active \in Nodes /\ active \in Nat
          /\ (generation = 2 * active - 1 \/ generation = 2 * active - 2)
      BY <2>2, <2>4, ActiveNode, NodeAssumption
    <3>2. RequestTypes'
      BY <1>0, <2>4, <3>1 DEF RequestTypes, Go
    <3>3. \A q \in Requests : q # r => /\ pc'[q] = pc[q] /\ opened'[q] = opened[q]
                                        /\ used'[q] = used[q] /\ sealed'[q] = sealed[q]
                                        /\ ans'[q] = ans[q]
      BY <1>0, <2>4 DEF RequestTypes, Go
    <3>4. pc'[r] = "searching" /\ used'[r] = {active}
      BY <1>0, <2>4 DEF RequestTypes, Go
    <3>5. opened[r] % 2 = 1
      BY <1>0, <2>1 DEF RequestInv
    <3>6. opened[r] = generation => generation = 2 * active - 1
      BY <3>1, <3>5
    <3>7. RequestInv(r)'
      BY <1>0, <2>1, <2>4, <3>1, <3>4, <3>6 DEF RequestInv, Ask, supVars
    <3> QED
      BY <2>1, <3>2, <3>3, <3>7, OneRequest DEF supVars
  <2> QED
    BY <1>7, <2>3, <2>4 DEF Subscribe
<1>8. CASE SearchReady(r)
  <2>1. UNCHANGED <<load, supVars>> /\ pc[r] = "searching"
    BY <1>8 DEF SearchReady
  <2>2. CASE On(r, "fenceNode")
    BY <2>1, <2>2, OnKeepsRequests DEF supVars
  <2>3. CASE /\ \E report \in Reports : plan' = [plan EXCEPT ![r].best = report]
             /\ Go(r, "fenceNode") /\ UNCHANGED <<opened, used, sealed, ans>>
    <3>1. RequestTypes'
      BY <1>0, <2>3 DEF RequestTypes, Go
    <3>2. /\ pc'[r] = "fenceNode"
          /\ \A q \in Requests : q # r => pc'[q] = pc[q]
      BY <1>0, <2>3 DEF RequestTypes, Go
    <3>3. RequestInv(r)'
      BY <1>0, <2>1, <2>3, <3>2 DEF RequestInv, Ask, supVars
    <3> QED
      BY <2>1, <2>3, <3>1, <3>2, <3>3, OneRequest DEF supVars
  <2> QED
    BY <1>8, <2>2, <2>3 DEF SearchReady
<1>9. CASE SearchClosed(r) \/ SearchTimesOut(r)
  BY <1>9, <1>e DEF SearchClosed, SearchTimesOut
<1>10. CASE CallFails(r) \/ ClientLeaves(r)
  BY <1>10, <1>e DEF CallFails, ClientLeaves
<1>11. CASE Block(r)
  <2>1. UNCHANGED <<load, supVars>> /\ pc[r] = "block" /\ active # 0
    BY <1>11 DEF Block
  <2>2. ~shutting
    BY <2>1, NotShutting
  <2>3. CASE \E code \in {400, 422, 429} : Answer(r, code)
    BY <2>1, <2>3, <1>e
  <2>4. ASSUME NEW b, plan' = [plan EXCEPT ![r] = b], UseActive(r),
               NEW to \in {"simulate", "approve"}, Go(r, to), UNCHANGED <<opened, sealed, ans>>
        PROVE  RequestsInv'
    <3>1. DOMAIN plan' = Requests
      BY <1>0, <2>4 DEF RequestTypes
    <3> QED
      BY <2>1, <2>2, <2>4, <3>1, UseActiveKeepsRequests DEF supVars
  <2> QED
    BY <1>11, <2>3, <2>4 DEF Block
<1>12. CASE Approve(r)
  <2>1. UNCHANGED <<load, supVars>> /\ pc[r] = "approve" /\ active # 0
    BY <1>12 DEF Approve
  <2>2. ~shutting
    BY <2>1, NotShutting
  <2>3. CASE Answer(r, 428)
    BY <2>1, <2>3, <1>e
  <2>4. CASE UseActive(r) /\ Go(r, "simulate") /\ UNCHANGED <<opened, sealed, ans, plan>>
    BY <1>0, <2>1, <2>2, <2>4, UseActiveKeepsRequests DEF supVars, RequestTypes
  <2> QED
    BY <1>12, <2>3, <2>4 DEF Approve
<1>13. CASE Simulate(r)
  <2>1. UNCHANGED <<load, supVars>> /\ pc[r] = "simulate" /\ active # 0
    BY <1>13 DEF Simulate
  <2>2. ~shutting
    BY <2>1, NotShutting
  <2>3. CASE Answer(r, 422)
    BY <2>1, <2>3, <1>e
  <2>4. CASE UseActive(r) /\ Go(r, "lastNode") /\ UNCHANGED <<opened, sealed, ans, plan>>
    BY <1>0, <2>1, <2>2, <2>4, UseActiveKeepsRequests DEF supVars, RequestTypes
  <2> QED
    BY <1>13, <2>3, <2>4 DEF Simulate
<1> QED
  BY <1>1, <1>2, <1>3, <1>4, <1>5, <1>6, <1>7, <1>8, <1>9, <1>10, <1>11, <1>12, <1>13
     DEF HandlerStep
\* A step that leaves the requests alone keeps what is known of them: the generation only
\* moves on.
LEMMA RequestsSame ==
  ASSUME RequestsInv, UNCHANGED <<load, reqVars>>, generation \in Nat, generation' \in Nat,
         generation <= generation'
  PROVE  RequestsInv'
<1>1. RequestTypes'
  BY DEF RequestsInv, RequestTypes, reqVars
<1>2. ASSUME NEW r \in Requests
      PROVE  RequestInv(r)'
  <2>1. RequestInv(r) /\ opened[r] \in Nat
    BY DEF RequestsInv, RequestTypes
  <2>2. pc'[r] = pc[r] /\ opened'[r] = opened[r] /\ used'[r] = used[r]
        /\ sealed'[r] = sealed[r] /\ ans'[r] = ans[r] /\ Ask(r)' = Ask(r)
    BY DEF reqVars, Ask
  <2> QED
    BY <2>1, <2>2 DEF RequestInv
<1> QED
  BY <1>1, <1>2 DEF RequestsInv

------------------------------------------------------------------------------
(* The theorems about the generations *)

LEMMA GenerationInit == Init => GenerationInv
<1> SUFFICES ASSUME Init
             PROVE  GenerationInv
  OBVIOUS
<1>1. 1 \in Nodes
  BY NodeAssumption
<1>2. load \in Loads /\ load.topologies \subseteq Topologies
  BY LoadAssumption DEF Init
<1>3. PICK topology \in load.topologies : NodeInit(topology, load.configured)
  BY DEF Init
<1>4. /\ history = [n \in Nodes |-> IF n = 1 THEN <<topology>> ELSE <<>>]
      /\ amm = [n \in Nodes |-> IF n = 1 THEN "up" ELSE "down"]
  BY <1>3 DEF NodeInit
<1>5. \A n \in Nodes : (history[n] # <<>>) <=> (n <= 1)
  BY <1>4, NodeAssumption
<1>6. Built = 1
  BY <1>1, <1>5, BuiltIs
<1>7. HistoryInv
  <2>1. <<topology>> \in Seq(Topologies)
    BY <1>2
  <2>2. \A n \in Nodes : history[n] \in Seq(Topologies)
    BY <1>4, <2>1
  <2>3. history \in [Nodes -> Seq(Topologies)]
    BY <1>4, <2>2
  <2>4. amm \in [Nodes -> {"up", "down", "left"}]
    BY <1>4
  <2>5. \A n \in Nodes : amm[n] # "down" => history[n] # <<>>
    BY <1>4
  <2> QED
    BY <1>1, <1>5, <1>6, <2>3, <2>4, <2>5 DEF HistoryInv
<1>8. SupervisorInv
  <2>1. active = 1 /\ generation = 1 /\ phase = "Ready" /\ sup = "sleep" /\ notified = FALSE
        /\ shutting = FALSE /\ server = "serving"
    BY DEF Init
  <2>2. shutting \in BOOLEAN /\ ~shutting /\ ~notified
    BY <2>1
  <2>3. server \notin {"stopping", "closing", "closed"}
    BY <2>1
  <2> QED
    BY <1>2, <1>6, <2>1, <2>2, <2>3 DEF SupervisorInv, SupStates, Servers, SupervisorPhases
<1>9. RequestsInv
  BY DEF Init, RequestsInv, RequestTypes, RequestInv, HandlerStates, Opening, Subscribed
<1> QED
  BY <1>7, <1>8, <1>9 DEF GenerationInv

\* What a handler does to the node and the supervisor.
LEMMA HandlerKeepsSupervisor ==
  ASSUME HistoryInv, SupervisorInv, NEW r \in Requests,
         \/ Begin(r) \/ HandlerStep(r) \/ SearchReady(r) \/ SearchClosed(r) \/ ClientLeaves(r)
  PROVE  HistoryInv' /\ SupervisorInv' /\ Built' = Built /\ UNCHANGED <<supVars, amm, routes>>
<1>1. UNCHANGED <<load, supVars, history, amm, routes>>
  <2>1. CASE Begin(r)
    BY <2>1 DEF Begin, nodeVars
  <2>2. CASE ReadNode(r)
    BY <2>2 DEF ReadNode, nodeVars
  <2>3. CASE ReadState(r)
    BY <2>3 DEF ReadState, nodeVars
  <2>4. CASE Graph(r)
    BY <2>4 DEF Graph, nodeVars
  <2>5. CASE PrepareCall(r)
    BY <2>5 DEF PrepareCall
  <2>6. CASE Prepared(r)
    BY <2>6 DEF Prepared, nodeVars
  <2>7. CASE Subscribe(r)
    BY <2>7 DEF Subscribe, nodeVars
  <2>8. CASE SearchReady(r) \/ SearchClosed(r) \/ SearchTimesOut(r) \/ CallFails(r)
    BY <2>8 DEF SearchReady, SearchClosed, SearchTimesOut, CallFails, nodeVars
  <2>9. CASE Block(r) \/ Approve(r) \/ Simulate(r)
    BY <2>9 DEF Block, Approve, Simulate, nodeVars
  <2>10. CASE ClientLeaves(r)
    BY <2>10 DEF ClientLeaves, PrepareDropped, nodeVars
  <2> QED
    BY <2>1, <2>2, <2>3, <2>4, <2>5, <2>6, <2>7, <2>8, <2>9, <2>10 DEF HandlerStep
<1>2. ~shutting
  <2>1. pc[r] \notin {"idle", "done"} \/ server = "serving"
    BY DEF HandlerStep, Begin, ReadNode, ReadState, Graph, PrepareCall, Prepared, Subscribe,
           SearchReady, SearchClosed, SearchTimesOut, CallFails, Block, Approve, Simulate,
           ClientLeaves
  <2> QED
    BY <2>1, NotShutting DEF SupervisorInv
<1>3. HistoryInv' /\ Built' = Built
  BY <1>1, HistorySame
<1> QED
  BY <1>1, <1>2, <1>3, SupervisorSame

LEMMA GenerationStep == GenerationInv /\ [Next]_vars => GenerationInv'
<1> SUFFICES ASSUME GenerationInv, [Next]_vars
             PROVE  GenerationInv'
  OBVIOUS
<1>0. HistoryInv /\ SupervisorInv /\ RequestsInv /\ generation \in Nat /\ load \in Loads
  BY DEF GenerationInv, SupervisorInv
<1>1. ASSUME HistoryInv', Built' = Built, UNCHANGED <<load, supVars, reqVars>>
      PROVE  GenerationInv'
  <2>1. UNCHANGED <<load, supVars>> /\ UNCHANGED pc
    BY <1>1 DEF reqVars
  <2>2. SupervisorInv'
    BY <1>0, <1>1, <2>1, SupervisorSame
  <2>3. RequestsInv'
    BY <1>0, <1>1, RequestsSame DEF supVars
  <2> QED
    BY <1>1, <2>2, <2>3 DEF GenerationInv
<1>2. CASE LoseTrust \/ PauseOrResume \/ HeadMovesOrNot
  <2>1. HistoryInv' /\ SupervisorInv' /\ UNCHANGED <<reqVars, generation, load, Built>>
    BY <1>0, <1>2, ConnectionKeepsSupervisor
  <2>2. RequestsInv'
    BY <1>0, <2>1, RequestsSame
  <2> QED
    BY <2>1, <2>2 DEF GenerationInv
<1>3. CASE SupStep \/ BuildOk \/ Signal \/ Shutdown \/ CloseActive \/ Close
  <2>1. HistoryInv' /\ SupervisorInv' /\ generation' \in Nat /\ generation <= generation'
        /\ UNCHANGED <<load, reqVars>>
    BY <1>0, <1>3, SupervisorSteps
  <2>2. RequestsInv'
    BY <1>0, <2>1, RequestsSame
  <2> QED
    BY <2>1, <2>2 DEF GenerationInv
<1>4. CASE TokenStatus
  BY <1>0, <1>1, <1>4, TokenStatusKeepsHistory
<1>5. ASSUME NEW n \in Nodes, NodeStep(n)
      PROVE  GenerationInv'
  BY <1>0, <1>1, <1>5, NodeStepKeepsHistory
<1>6. ASSUME NEW r \in Requests, PrepareStep(r)
      PROVE  GenerationInv'
  BY <1>0, <1>1, <1>6, PrepareStepKeepsHistory
<1>7. ASSUME NEW r \in Requests,
             \/ Begin(r) \/ HandlerStep(r) \/ SearchReady(r) \/ SearchClosed(r) \/ ClientLeaves(r)
      PROVE  GenerationInv'
  BY <1>0, <1>7, HandlerKeepsRequests, HandlerKeepsSupervisor DEF GenerationInv
<1>8. CASE UNCHANGED vars
  <2>1. UNCHANGED <<history, amm>> /\ UNCHANGED <<load, supVars, reqVars>>
    BY <1>8 DEF vars, nodeVars
  <2> QED
    BY <1>0, <1>1, <2>1, HistorySame
<1> QED
  BY <1>2, <1>3, <1>4, <1>5, <1>6, <1>7, <1>8 DEF Next

\* The supervisor, the shutdown and the handlers keep the generations apart.
LEMMA GenerationInvariant == Spec => []GenerationInv
BY GenerationInit, GenerationStep, PTL DEF Spec

\* No answer of quote or executable_quote mixes two generations or outlives its own:
\* quote_generation and ensure_quote_generation hold against every rebuild, for any
\* number of nodes and requests.
THEOREM OneGenerationAlways == Spec => []OneGeneration
<1>1. GenerationInv => OneGeneration
  BY DEF GenerationInv, RequestsInv, RequestInv, OneGeneration
<1> QED
  BY <1>1, GenerationInvariant, PTL

------------------------------------------------------------------------------
(* The nodes that run *)

\* A node that runs is the active one, or one that its rebuild or the shutdown has taken and
\* will shut down, or one that was built and not published. While a rebuild has no node to
\* publish none is active, so that it replaces none.
Running(n) ==
  \/ n = active
  \/ n = old /\ (sup \in {"taken", "draining"} \/ server = "closing")
  \/ n = Built /\ sup = "publish"
RunningInv ==
  /\ routes \in [Nodes -> {"up", "down"}]
  /\ \A n \in Nodes : (amm[n] = "up" => Running(n)) /\ (amm[n] = "down" => routes[n] = "down")
  /\ sup \in {"taken", "draining", "building", "delay", "publish"} => active = 0
  /\ server = "closed" => \A n \in Nodes : amm[n] # "up"

LEMMA RunningSame ==
  ASSUME RunningInv, UNCHANGED <<amm, active, sup, old, server>>, Built' = Built,
         \/ UNCHANGED routes
         \/ \E n \in Nodes : routes' = [routes EXCEPT ![n] = "down"]
  PROVE  RunningInv'
BY DEF RunningInv, Running

\* The supervisor and the shutdown shut a node down before they forget it.
LEMMA SupervisorKeepsRunning ==
  ASSUME HistoryInv, SupervisorInv, RunningInv, Built' \in Nodes,
         SupStep \/ BuildOk \/ Signal \/ Shutdown \/ CloseActive \/ Close
  PROVE  RunningInv'
<1>0. Built \in Nat /\ 0 \notin Nodes
  BY NodeAssumption DEF HistoryInv
<1>1. ASSUME UNCHANGED nodeVars
      PROVE  Built' = Built /\ UNCHANGED <<amm, routes>>
  BY <1>1 DEF nodeVars, Built
<1>2. CASE Check
  BY <1>1, <1>2 DEF Check, Sup, RunningInv, Running, SupervisorInv
<1>3. CASE Take
  BY <1>1, <1>3 DEF Take, Sup, RunningInv, Running, SupervisorInv
<1>4. CASE Invalidate
  BY <1>1, <1>4 DEF Invalidate, Sup, RunningInv, Running
<1>5. CASE DrainOld
  <2>1. PICK k : k = old
    OBVIOUS
  <2>2. /\ sup = "draining" /\ server # "closed" /\ UNCHANGED <<active, server>>
        /\ sup' \in {"sleep", "building"} /\ active = 0 /\ server # "closing"
    BY <1>5 DEF DrainOld, Attempt, Sup, RunningInv, SupervisorInv
  <2>3. PICK st \in {"down", "left"} : /\ amm' = [amm EXCEPT ![k] = st]
                                       /\ \/ routes' = [routes EXCEPT ![k] = "down"]
                                          \/ st = "left" /\ UNCHANGED routes
    BY <1>5, <2>1 DEF DrainOld, NodeShutdown, NodeLeft
  <2>4. \A n \in Nodes \ {k} : amm'[n] = amm[n] /\ routes'[n] = routes[n] /\ amm[n] # "up"
    BY <1>0, <2>1, <2>2, <2>3 DEF RunningInv, Running, HistoryInv
  <2>5. k \in Nodes => amm'[k] = st /\ (st = "down" => routes'[k] = "down")
    BY <2>3 DEF RunningInv, HistoryInv
  <2>6. routes' \in [Nodes -> {"up", "down"}]
    BY <2>3 DEF RunningInv
  <2> QED
    BY <2>2, <2>4, <2>5, <2>6 DEF RunningInv, Running
<1>6. CASE BuildOk
  <2>1. PICK k \in Nodes : k = Built + 1 /\ k = Built'
    <3>1. PICK topology \in load.topologies : FreshNode(Built + 1, topology, load.configured)
      BY <1>6 DEF BuildOk
    <3>2. load.topologies \subseteq Topologies /\ Built + 1 \in Nodes
      BY <1>0, <1>6, LoadAssumption, NodeAssumption DEF BuildOk, SupervisorInv
    <3> QED
      BY <3>1, <3>2, FreshNodeKeepsHistory
  <2>2. /\ amm' = [amm EXCEPT ![k] = "up"] /\ routes' = [routes EXCEPT ![k] = "up"]
        /\ sup = "building" /\ sup' = "publish" /\ UNCHANGED <<active, old, server>>
        /\ server # "closed"
    BY <1>6, <2>1 DEF BuildOk, FreshNode, Sup
  <2>3. active = 0 /\ server # "closing"
    BY <2>2 DEF RunningInv, SupervisorInv
  <2>4. \A n \in Nodes : amm[n] # "up"
    BY <1>0, <2>2, <2>3 DEF RunningInv, Running
  <2>5. \A n \in Nodes \ {k} : amm'[n] = amm[n] /\ routes'[n] = routes[n]
    BY <2>2 DEF HistoryInv, RunningInv
  <2>6. amm'[k] = "up" /\ routes' \in [Nodes -> {"up", "down"}]
    BY <2>2 DEF HistoryInv, RunningInv
  <2> QED
    BY <2>1, <2>2, <2>3, <2>4, <2>5, <2>6 DEF RunningInv, Running
<1>7. CASE BuildFails \/ NotifiedWhileBuilding
  BY <1>1, <1>7 DEF BuildFails, NotifiedWhileBuilding, Sup, RunningInv, Running
<1>8. CASE DelayOver
  BY <1>1, <1>8 DEF DelayOver, Attempt, Sup, RunningInv, Running
<1>9. CASE Publish
  BY <1>0, <1>1, <1>9 DEF Publish, Sup, RunningInv, Running, SupervisorInv
<1>10. CASE Ready
  BY <1>1, <1>10 DEF Ready, Sup, RunningInv, Running
<1>11. CASE Signal \/ Shutdown
  BY <1>1, <1>11 DEF Signal, Shutdown, RunningInv, Running
<1>12. CASE CloseActive
  BY <1>1, <1>12 DEF CloseActive, Joined, RunningInv, Running
<1>13. CASE Close
  <2>1. PICK k : k = old
    OBVIOUS
  <2>2. /\ server = "closing" /\ server' = "closed" /\ UNCHANGED <<active, sup, old>>
        /\ active = 0 /\ sup \in {"sleep", "ended"}
    BY <1>13 DEF Close, SupervisorInv
  <2>3. \A n \in Nodes \ {k} : amm[n] # "up"
    BY <1>0, <2>1, <2>2 DEF RunningInv, Running
  <2>4. CASE k = 0
    BY <1>0, <1>1, <1>13, <2>1, <2>2, <2>3, <2>4 DEF Close, RunningInv, Running
  <2>5. CASE k # 0
    <3>1. amm' = [amm EXCEPT ![k] = "down"] /\ routes' = [routes EXCEPT ![k] = "down"]
      BY <1>13, <2>1, <2>5 DEF Close, NodeShutdown
    <3>2. \A n \in Nodes \ {k} : amm'[n] = amm[n] /\ routes'[n] = routes[n]
      BY <3>1 DEF HistoryInv, RunningInv
    <3>3. k \in Nodes => amm'[k] = "down" /\ routes'[k] = "down"
      BY <3>1 DEF HistoryInv, RunningInv
    <3>4. routes' \in [Nodes -> {"up", "down"}]
      BY <3>1 DEF RunningInv
    <3> QED
      BY <2>2, <2>3, <3>2, <3>3, <3>4 DEF RunningInv, Running
  <2> QED
    BY <2>4, <2>5
<1> QED
  BY <1>2, <1>3, <1>4, <1>5, <1>6, <1>7, <1>8, <1>9, <1>10, <1>11, <1>12, <1>13 DEF SupStep

\* What a node and its preparations do makes no node run.
LEMMA TasksKeepRunning ==
  ASSUME HistoryInv, load \in Loads, RunningInv,
         TokenStatus \/ (\E n \in Nodes : NodeStep(n)) \/ (\E r \in Requests : PrepareStep(r))
  PROVE  RunningInv'
<1>1. Built' = Built /\ UNCHANGED <<load, supVars, reqVars>>
  BY NodeStepKeepsHistory, PrepareStepKeepsHistory, TokenStatusKeepsHistory
<1>2. ASSUME NEW r \in Requests, PrepareStep(r)
      PROVE  UNCHANGED <<amm, routes>>
  BY <1>2 DEF PrepareStep, ReadCoverage, WaitIdle, Settle, PrepareTimesOut, QueueDiscovery
<1>3. ASSUME NEW n \in Nodes, NodeStep(n)
      PROVE  UNCHANGED amm /\ (UNCHANGED routes \/ routes' = [routes EXCEPT ![n] = "down"])
  <2>1. ASSUME NEW topology, AmmCommit(n, topology)
        PROVE  UNCHANGED <<amm, routes>>
    BY <2>1 DEF AmmCommit
  <2>2. ASSUME NEW r, NEW topology, DiscoveryDone(n, r, topology)
        PROVE  UNCHANGED <<amm, routes>>
    BY <2>2 DEF DiscoveryDone
  <2>3. RouteCommit(n) => UNCHANGED <<amm, routes>>
    BY DEF RouteCommit
  <2>4. IndexEvent(n) => UNCHANGED <<amm, routes>>
    BY DEF IndexEvent
  <2>5. NegativeExpires(n) => UNCHANGED <<amm, routes>>
    BY DEF NegativeExpires
  <2>6. RoutesFail(n) => UNCHANGED amm /\ routes' = [routes EXCEPT ![n] = "down"]
    BY DEF RoutesFail
  <2> QED
    BY <1>3, <2>1, <2>2, <2>3, <2>4, <2>5, <2>6 DEF NodeStep
<1>4. UNCHANGED amm /\ (UNCHANGED routes \/ \E n \in Nodes : routes' = [routes EXCEPT ![n] = "down"])
  <2>1. CASE TokenStatus
    BY <2>1 DEF TokenStatus, RefreshCoverage
  <2> QED
    BY <1>2, <1>3, <2>1
<1> QED
  BY <1>1, <1>4, RunningSame DEF supVars

LEMMA RunningStep == GenerationInv /\ RunningInv /\ [Next]_vars => RunningInv'
<1> SUFFICES ASSUME GenerationInv, RunningInv, [Next]_vars
             PROVE  RunningInv'
  OBVIOUS
<1>0. /\ HistoryInv /\ SupervisorInv /\ load \in Loads
      /\ HistoryInv' /\ Built' \in Nodes
  BY GenerationStep DEF GenerationInv, SupervisorInv, HistoryInv
<1>1. CASE LoseTrust \/ PauseOrResume \/ HeadMovesOrNot
  <2>1. UNCHANGED <<amm, routes, active, sup, old, server>>
    BY <1>1 DEF LoseTrust, PauseOrResume, HeadMovesOrNot, nodeVars
  <2>2. Built' = Built
    BY <1>0, <1>1, ConnectionKeepsSupervisor
  <2> QED
    BY <2>1, <2>2, RunningSame
<1>2. CASE SupStep \/ BuildOk \/ Signal \/ Shutdown \/ CloseActive \/ Close
  BY <1>0, <1>2, SupervisorKeepsRunning
<1>3. CASE TokenStatus \/ (\E n \in Nodes : NodeStep(n)) \/ (\E r \in Requests : PrepareStep(r))
  BY <1>0, <1>3, TasksKeepRunning
<1>4. ASSUME NEW r \in Requests,
             \/ Begin(r) \/ HandlerStep(r) \/ SearchReady(r) \/ SearchClosed(r) \/ ClientLeaves(r)
      PROVE  RunningInv'
  <2>1. Built' = Built /\ UNCHANGED <<supVars, amm, routes>>
    BY <1>0, <1>4, HandlerKeepsSupervisor
  <2> QED
    BY <2>1, RunningSame DEF supVars
<1>5. CASE UNCHANGED vars
  <2>1. UNCHANGED <<history, amm, routes, active, sup, old, server>>
    BY <1>5 DEF vars, nodeVars, supVars
  <2>2. Built' = Built
    BY <1>0, <2>1, HistorySame
  <2> QED
    BY <2>1, <2>2, RunningSame
<1> QED
  BY <1>1, <1>2, <1>3, <1>4, <1>5 DEF Next

LEMMA RunningInit == Init => RunningInv
<1> SUFFICES ASSUME Init
             PROVE  RunningInv
  OBVIOUS
<1>1. PICK topology \in load.topologies : NodeInit(topology, load.configured)
  BY DEF Init
<1>2. amm = [n \in Nodes |-> IF n = 1 THEN "up" ELSE "down"] /\ routes = amm
  BY <1>1 DEF NodeInit
<1> QED
  BY <1>2 DEF Init, RunningInv, Running

\* RoutingSupervisor::shutdown leaves no node that runs, of all that ever did, but those whose
\* own shutdown a rebuild gave up on after 15 s: the task has ended or sleeps before the active
\* node is taken, so that no rebuild has a node it took or built in hand.
THEOREM ShutdownLeavesNoNodeAlways == Spec => []ShutdownLeavesNoNode
<1>1. GenerationInv /\ RunningInv => ShutdownLeavesNoNode
  BY DEF GenerationInv, SupervisorInv, RunningInv, ShutdownLeavesNoNode
<1>2. Spec => []RunningInv
  BY GenerationInvariant, RunningInit, RunningStep, PTL DEF Spec
<1> QED
  BY <1>1, <1>2, GenerationInvariant, PTL

------------------------------------------------------------------------------
(* Induction over sets of numbers *)

\* A set that has 0 and with every number the next one has them all. (Else the numbers
\* up to a missing one that are missing too map one to one to themselves without that one.)
LEMMA SetInduction ==
  ASSUME NEW S, 0 \in S, \A n \in Nat : n \in S => n + 1 \in S
  PROVE  \A n \in Nat : n \in S
<1> SUFFICES ASSUME NEW m \in Nat, m \notin S
             PROVE  FALSE
  OBVIOUS
<1> DEFINE T == {x \in 0 .. m : x \notin S}
           f == [x \in T |-> x - 1]
<1>1. IsFiniteSet(T)
  <2>1. T \in SUBSET (0 .. m) /\ IsFiniteSet(0 .. m)
    BY FS_Interval
  <2> QED
    BY <2>1, FS_Subset
<1>2. m \in T
  OBVIOUS
<1>3. \A x \in T : x - 1 \in T \ {m}
  <2> SUFFICES ASSUME NEW x \in T
               PROVE  x - 1 \in T \ {m}
    OBVIOUS
  <2>1. x \in Nat /\ x # 0 /\ x <= m /\ x \notin S
    OBVIOUS
  <2>2. x - 1 \in Nat /\ (x - 1) + 1 = x
    BY <2>1
  <2> QED
    BY <2>1, <2>2
<1>4. f \in [T -> T \ {m}]
  BY <1>3
<1>5. IsFiniteSet(T \ {m}) /\ Cardinality(T \ {m}) = Cardinality(T) - 1 /\ Cardinality(T) \in Nat
  BY <1>1, <1>2, FS_RemoveElement, FS_CardinalityType
<1>6. PICK x, y \in T : x # y /\ f[x] = f[y]
  <2> HIDE DEF f, T
  <2> QED
    BY <1>1, <1>4, <1>5, FS_PigeonHole
<1> QED
  BY <1>6

\* A set of numbers that has one has a least one.
LEMMA LeastNumber ==
  ASSUME NEW N \in SUBSET Nat, N # {}
  PROVE  \E x \in N : \A y \in N : x <= y
<1> SUFFICES ASSUME \A x \in N : \E y \in N : y < x
             PROVE  FALSE
  OBVIOUS
<1> DEFINE S == {n \in Nat : \A x \in N : n <= x}
<1>1. 0 \in S
  OBVIOUS
<1>2. ASSUME NEW n \in Nat, n \in S
      PROVE  n + 1 \in S
  <2>1. n \notin N
    BY <1>2
  <2> QED
    BY <1>2, <2>1
<1>3. \A n \in Nat : n \in S
  <2> HIDE DEF S
  <2> QED
    BY <1>1, <1>2, SetInduction
<1>4. PICK x : x \in N
  OBVIOUS
<1>5. x \in Nat /\ x + 1 \in Nat
  BY <1>4
<1>6. x + 1 \in S
  BY <1>3, <1>5
<1>7. x + 1 <= x
  BY <1>4, <1>6
<1> QED
  BY <1>5, <1>7

\* A recursive function exists: n steps from x0, each one a function of X.
LEMMA StepsExist ==
  ASSUME NEW X, NEW x0 \in X, NEW n \in Nat, NEW step \in [1 .. n -> [X -> X]]
  PROVE  \E f \in [0 .. n -> X] : f[0] = x0 /\ \A i \in 1 .. n : f[i] = step[i][f[i - 1]]
<1> DEFINE Steps(m, f) == f[0] = x0 /\ \A i \in 1 .. m : f[i] = step[i][f[i - 1]]
           S == {m \in Nat : m <= n => \E f \in [0 .. m -> X] : Steps(m, f)}
<1>1. 0 \in S
  <2> DEFINE f == [i \in 0 .. 0 |-> x0]
  <2>1. f \in [0 .. 0 -> X] /\ Steps(0, f)
    OBVIOUS
  <2> HIDE DEF f, Steps
  <2> QED
    BY <2>1
<1>2. ASSUME NEW m \in Nat, m \in S
      PROVE  m + 1 \in S
  <2> SUFFICES ASSUME m + 1 <= n
               PROVE  \E f \in [0 .. m + 1 -> X] : Steps(m + 1, f)
    OBVIOUS
  <2>1. PICK f \in [0 .. m -> X] : Steps(m, f)
    BY <1>2
  <2> DEFINE last == step[m + 1][f[m]]
             g == [i \in 0 .. m + 1 |-> IF i <= m THEN f[i] ELSE last]
  <2>2. f[m] \in X /\ step[m + 1] \in [X -> X]
    OBVIOUS
  <2>3. last \in X
    BY <2>2
  <2>4. \A i \in 0 .. m : g[i] = f[i]
    OBVIOUS
  <2>5. g[m + 1] = last
    OBVIOUS
  <2>6. g \in [0 .. m + 1 -> X]
    <3> HIDE DEF last
    <3> QED
      BY <2>3
  <2> HIDE DEF g
  <2>7. ASSUME NEW i \in 1 .. m + 1
        PROVE  g[i] = step[i][g[i - 1]]
    <3>1. CASE i = m + 1
      BY <2>4, <2>5, <3>1
    <3>2. CASE i # m + 1
      <4>1. i \in 1 .. m /\ i \in 0 .. m /\ i - 1 \in 0 .. m
        BY <3>2
      <4> QED
        BY <2>1, <2>4, <4>1
    <3> QED
      BY <3>1, <3>2
  <2>8. g[0] = x0
    BY <2>1, <2>4
  <2>9. Steps(m + 1, g)
    BY <2>7, <2>8
  <2> HIDE DEF Steps
  <2> QED
    BY <2>6, <2>9
<1>3. \A m \in Nat : m \in S
  <2> HIDE DEF S
  <2> QED
    BY <1>1, <1>2, SetInduction
<1> QED
  BY <1>3

------------------------------------------------------------------------------
(* A packed hop on the router *)

\* The place of a coin in a pool's list is a place where that coin is.
LEMMA CoinIndexFinds ==
  ASSUME NEW coins, Len(coins) \in Nat, DOMAIN coins = 1 .. Len(coins), NEW t \in ToSet(coins)
  PROVE  CoinIndex(coins, t) + 1 \in DOMAIN coins /\ coins[CoinIndex(coins, t) + 1] = t
<1> DEFINE N == {i \in 1 .. Len(coins) : coins[i] = t}
<1>1. N \in SUBSET Nat /\ N # {}
  BY DEF ToSet
<1>2. \E x \in N : \A y \in N : x <= y
  BY <1>1, LeastNumber
<1>3. Min(N) \in N
  BY <1>2 DEF Min
<1>4. CoinIndex(coins, t) = Min(N) - 1
  BY <1>1 DEF CoinIndex, SelectInSeq
<1> QED
  BY <1>3, <1>4

LEMMA BpsType == Bps \in Nat \ {0}
  BY DEF Bps

\* What a hop that can be packed is a hop of.
LEMMA PackableHop ==
  ASSUME NEW h \in PathHop, Packable(h)
  PROVE  /\ h.pool \in DOMAIN Registered
         /\ Registered[h.pool].kind \in Kinds \ {"custom"}
         /\ Registered[h.pool].coins \in Seq(Nat)
         /\ Registered[h.pool].kind = "v2" => Registered[h.pool].fee \in 0 .. Bps - 1
         /\ Registered[h.pool].kind = "curve" =>
              /\ Registered[h.pool].variant \in Variants
              /\ h.token_in \in ToSet(Registered[h.pool].coins)
              /\ h.token_out \in ToSet(Registered[h.pool].coins) /\ h.token_in # h.token_out
<1>1. h.pool \in DOMAIN Registered
  BY DEF PathHop
<1>2. Registered[h.pool].kind \in Kinds /\ Registered[h.pool].coins \in Seq(Nat)
  BY <1>1, ExecutionAssumption
<1> DEFINE p == Registered[h.pool]
<1>3. /\ p.kind # "custom" /\ (p.kind = "v2" => p.fee \in 0 .. Bps - 1)
      /\ p.kind = "curve" => p.variant \in Variants
      /\ p.kind = "curve" => {h.token_in, h.token_out} \subseteq ToSet(p.coins) /\ h.token_in # h.token_out
  BY DEF Packable
<1> HIDE DEF p
<1>4. p.kind = "curve" => h.token_in \in ToSet(p.coins) /\ h.token_out \in ToSet(p.coins)
  BY <1>3
<1> QED
  BY <1>1, <1>2, <1>3, <1>4 DEF p

\* The tag tells the protocol.
LEMMA TagOfKind ==
  ASSUME NEW p, p.kind \in Kinds \ {"custom"}, p.kind = "curve" => p.variant \in Variants
  PROVE  \/ p.kind = "v2" /\ Tag(p) = 0
         \/ p.kind = "v3" /\ Tag(p) = 1
         \/ p.kind = "pancake" /\ Tag(p) = 2
         \/ p.kind = "slipstream" /\ Tag(p) = 3
         \/ p.kind = "solidly" /\ Tag(p) = 4
         \/ p.kind = "balancer" /\ Tag(p) = 5
         \/ p.kind = "curve" /\ p.variant = "stable" /\ Tag(p) = 6
         \/ p.kind = "curve" /\ p.variant = "crypto" /\ Tag(p) = 7
         \/ p.kind = "curve" /\ p.variant = "cryptoNG" /\ Tag(p) = 8
<1>1. ASSUME p.kind = "curve"
      PROVE  \/ p.variant = "stable" /\ Tag(p) = 6
             \/ p.variant = "crypto" /\ Tag(p) = 7
             \/ p.variant = "cryptoNG" /\ Tag(p) = 8
  <2>1. Tag(p) = CASE p.variant = "stable" -> 6 [] p.variant = "crypto" -> 7 [] p.variant = "cryptoNG" -> 8
    BY <1>1 DEF Tag
  <2> QED
    BY <1>1, <2>1 DEF Variants
<1>2. p.kind = "v2" => Tag(p) = 0
  BY DEF Tag
<1>3. p.kind = "v3" => Tag(p) = 1
  BY DEF Tag
<1>4. p.kind = "pancake" => Tag(p) = 2
  BY DEF Tag
<1>5. p.kind = "slipstream" => Tag(p) = 3
  BY DEF Tag
<1>6. p.kind = "solidly" => Tag(p) = 4
  BY DEF Tag
<1>7. p.kind = "balancer" => Tag(p) = 5
  BY DEF Tag
<1>8. \/ p.kind = "v2" \/ p.kind = "v3" \/ p.kind = "pancake" \/ p.kind = "slipstream"
      \/ p.kind = "solidly" \/ p.kind = "balancer" \/ p.kind = "curve"
  BY DEF Kinds
<1> QED
  BY <1>1, <1>2, <1>3, <1>4, <1>5, <1>6, <1>7, <1>8

\* The router reaches the pool that was packed, and no other.
LEMMA ReachesPool ==
  ASSUME NEW h \in PathHop, Packable(h)
  PROVE  Reached(PackHop(h)) = {h.pool}
<1> DEFINE p == Registered[h.pool]
           packed == PackHop(h)
<1>1. h.pool \in DOMAIN Registered /\ p.kind \in Kinds \ {"custom"}
      /\ (p.kind = "curve" => p.variant \in Variants)
  BY PackableHop
<1>2. /\ packed.endpoint = p.endpoint /\ packed.tag = Tag(p)
      /\ p.kind = "balancer" => packed.extra = <<p.id>>
  BY DEF PackHop, Extra
<1> HIDE DEF p, packed
<1>3. \/ p.kind = "v2" /\ Tag(p) = 0
      \/ p.kind = "v3" /\ Tag(p) = 1
      \/ p.kind = "pancake" /\ Tag(p) = 2
      \/ p.kind = "slipstream" /\ Tag(p) = 3
      \/ p.kind = "solidly" /\ Tag(p) = 4
      \/ p.kind = "balancer" /\ Tag(p) = 5
      \/ p.kind = "curve" /\ p.variant = "stable" /\ Tag(p) = 6
      \/ p.kind = "curve" /\ p.variant = "crypto" /\ Tag(p) = 7
      \/ p.kind = "curve" /\ p.variant = "cryptoNG" /\ Tag(p) = 8
  BY <1>1, TagOfKind
<1>4. h.pool \in Reached(packed)
  BY <1>1, <1>2, <1>3 DEF Reached, p
<1>5. ASSUME NEW q \in Reached(packed)
      PROVE  q = h.pool
  <2>1. /\ q \in DOMAIN Registered /\ Registered[q].endpoint = p.endpoint
        /\ Tag(p) = 5 => <<p.id>> = <<Registered[q].id>>
    BY <1>2, <1>3 DEF Reached
  <2>2. Registered[q].kind = p.kind
    BY <1>2, <1>3 DEF Reached
  <2>3. p.kind = "balancer" => p.id = Registered[q].id
    BY <1>3, <2>1
  <2> QED
    BY <1>1, <2>1, <2>2, <2>3, ExecutionAssumption DEF p
<1> QED
  BY <1>4, <1>5 DEF packed

\* A turn of the router's loop on a hop of the current token whose swap takes everything.
LEMMA TurnGives ==
  ASSUME NEW token, NEW amount, NEW h, NEW p, NEW out, h.token_in = token, Reached(h) = {p},
         SwapHop(p, h, amount) = Swap(amount, out)
  PROVE  RunHop(<<[token |-> token, amount |-> amount]>>, h) = <<[token |-> h.token_out, amount |-> out]>>
<1> DEFINE acc == <<[token |-> token, amount |-> amount]>>
           swap == Swap(amount, out)
<1>1. acc # <<>> /\ acc[1].token = token /\ acc[1].amount = amount
  OBVIOUS
<1>2. swap # <<>> /\ swap[1].consumed = amount /\ swap[1].out = out
  BY DEF Swap
<1>3. (CHOOSE q \in Reached(h) : TRUE) = p /\ Reached(h) # {}
  OBVIOUS
<1> HIDE DEF acc, swap
<1>4. SwapHop(CHOOSE q \in Reached(h) : TRUE, h, acc[1].amount) = swap
  BY <1>1, <1>3 DEF swap
<1>5. RunHop(acc, h) = <<[token |-> h.token_out, amount |-> out]>>
  BY <1>1, <1>2, <1>3, <1>4 DEF RunHop
<1> QED
  BY <1>5 DEF acc

\* What the router gets of a packed hop: what was quoted, one unit less of a pool that
\* rounds.
Given(h, amount) == HopOut(h, amount) - (IF h.pool \in Rounds THEN 1 ELSE 0)

\* One turn of the router's loop on a packed hop.
LEMMA HopRuns ==
  ASSUME NEW h \in PathHop, Packable(h), NEW amount \in Int,
         <<h.token_in, h.token_out>> \in DOMAIN Rate[h.pool]
  PROVE  /\ Given(h, amount) \in Int
         /\ \/ RunHop(<<[token |-> h.token_in, amount |-> amount]>>, PackHop(h))
                 = <<[token |-> h.token_out, amount |-> Given(h, amount)]>>
            \/ /\ RunHop(<<[token |-> h.token_in, amount |-> amount]>>, PackHop(h)) = <<>>
               /\ ~(amount \in Nat \ {0} /\ amount <= Holds[h.pool])
<1> DEFINE p == Registered[h.pool]
           packed == PackHop(h)
           rate == Rate[h.pool][<<h.token_in, h.token_out>>]
           out == rate * amount
           given == Given(h, amount)
<1>1. /\ h.pool \in DOMAIN Registered /\ p.kind \in Kinds \ {"custom"} /\ p.coins \in Seq(Nat)
      /\ p.kind = "v2" => p.fee \in 0 .. Bps - 1
      /\ p.kind = "curve" =>
           /\ p.variant \in Variants /\ h.token_in \in ToSet(p.coins)
           /\ h.token_out \in ToSet(p.coins) /\ h.token_in # h.token_out
  BY PackableHop
<1>2. /\ packed.endpoint = p.endpoint /\ packed.tag = Tag(p) /\ packed.extra = Extra(h)
      /\ packed.token_in = h.token_in /\ packed.token_out = h.token_out
  BY DEF PackHop
<1>3. rate \in Nat
  BY <1>1, ExecutionAssumption
<1>4. given = out - (IF h.pool \in Rounds THEN 1 ELSE 0)
  BY DEF Given, HopOut
<1>5. out \in Int
  <2> HIDE DEF rate
  <2> QED
    BY <1>3
<1>6. h.pool \in Rounds => p.kind = "curve"
  BY ExecutionAssumption
<1>7. Rate[h.pool][<<packed.token_in, packed.token_out>>] * amount = out
  BY <1>2
<1>8. Reached(packed) = {h.pool}
  BY ReachesPool
<1>9. /\ p.kind = "v2" => Extra(h) = <<p.fee>>
      /\ p.kind = "curve" => Extra(h) = <<CoinIndex(p.coins, h.token_in), CoinIndex(p.coins, h.token_out)>>
  BY DEF Extra
<1>10. \/ p.kind = "v2" /\ packed.tag = 0
       \/ p.kind = "v3" /\ packed.tag = 1
       \/ p.kind = "pancake" /\ packed.tag = 2
       \/ p.kind = "slipstream" /\ packed.tag = 3
       \/ p.kind = "solidly" /\ packed.tag = 4
       \/ p.kind = "balancer" /\ packed.tag = 5
       \/ p.kind = "curve" /\ packed.tag \in 6 .. 8
  <2> HIDE DEF p, packed
  <2> QED
    BY <1>1, <1>2, TagOfKind
<1> HIDE DEF packed, out, given, rate
<1>11. p.kind # "curve" => given = out
  <2> HIDE DEF p
  <2> QED
    BY <1>4, <1>5, <1>6
<1>12. given \in Int
  BY <1>4, <1>5
<1>13. SwapHop(h.pool, packed, amount) = Swap(amount, given) =>
         RunHop(<<[token |-> h.token_in, amount |-> amount]>>, packed)
           = <<[token |-> h.token_out, amount |-> given]>>
  BY <1>2, <1>8, TurnGives
<1> SUFFICES \/ SwapHop(h.pool, packed, amount) = Swap(amount, given)
             \/ /\ RunHop(<<[token |-> h.token_in, amount |-> amount]>>, packed) = <<>>
                /\ ~(amount \in Nat \ {0} /\ amount <= Holds[h.pool])
  BY <1>12, <1>13 DEF packed, given
<1>14. CASE packed.tag = 0
  <2>1. p.kind = "v2"
    BY <1>10, <1>14
  <2>2. packed.extra[1] = p.fee /\ p.fee \in 0 .. Bps - 1
    BY <1>1, <1>2, <1>9, <2>1
  <2>3. ~(packed.extra[1] > Registered[h.pool].fee) /\ ~(packed.extra[1] < Registered[h.pool].fee)
    BY <2>2
  <2>4. GetAmountOut(h.pool, packed, amount, packed.extra[1]) = out
    BY <1>5, <1>7, <2>3 DEF GetAmountOut
  <2>5. CallPairSwap(h.pool, packed, amount, out) = Swap(amount, out)
    BY <1>5, <1>7 DEF CallPairSwap
  <2>6. ~(packed.extra[1] >= Bps)
    BY <2>2, BpsType
  <2>7. SwapV2(h.pool, packed, amount) = Swap(amount, out)
    BY <2>4, <2>5, <2>6 DEF SwapV2
  <2> QED
    BY <1>11, <1>14, <2>1, <2>7 DEF SwapHop
<1>15. CASE packed.tag \in 1 .. 3
  <2>1. p.kind # "curve"
    BY <1>10, <1>15
  <2>2. SwapHop(h.pool, packed, amount) = SwapV3Family(h.pool, packed, amount)
    BY <1>15 DEF SwapHop
  <2>3. CASE amount <= Holds[h.pool] /\ amount \in 1 .. amount
    <3>1. CallV3Swap(h.pool, amount) = amount
      BY <2>3 DEF CallV3Swap
    <3>2. PayCallback(Registered[h.pool].endpoint, packed.endpoint, amount, amount)
      BY <1>2, <2>3 DEF PayCallback
    <3>3. SwapV3Family(h.pool, packed, amount) = Swap(amount, out)
      BY <1>7, <3>1, <3>2 DEF SwapV3Family
    <3> QED
      BY <1>11, <2>1, <2>2, <3>3
  <2>4. CASE ~(amount <= Holds[h.pool] /\ amount \in 1 .. amount)
    <3> DEFINE due == CallV3Swap(h.pool, amount)
               swap == SwapHop(h.pool, packed, amount)
    <3>1. due = amount => amount <= Holds[h.pool]
      BY DEF CallV3Swap
    <3> HIDE DEF due
    <3>2. swap = <<>> \/ (due \in 1 .. amount /\ swap[1].consumed = due /\ swap # <<>>)
      BY <2>2 DEF SwapV3Family, Swap, PayCallback, due
    <3>3. swap = <<>> \/ swap[1].consumed # amount
      BY <2>4, <3>1, <3>2
    <3>4. (CHOOSE p_1 \in Reached(packed) : TRUE) = h.pool /\ Reached(packed) # {}
      BY <1>8
    <3> DEFINE acc == <<[token |-> h.token_in, amount |-> amount]>>
    <3>5. acc # <<>> /\ acc[1].token = h.token_in /\ acc[1].amount = amount
      OBVIOUS
    <3> HIDE DEF acc
    <3>6. SwapHop(CHOOSE p_1 \in Reached(packed) : TRUE, packed, acc[1].amount) = swap
      BY <3>4, <3>5
    <3> HIDE DEF swap
    <3>7. RunHop(acc, packed) = <<>>
      BY <3>3, <3>5, <3>6 DEF RunHop
    <3>8. ~(amount \in Nat \ {0} /\ amount <= Holds[h.pool])
      BY <2>4
    <3> QED
      BY <3>7, <3>8 DEF acc
  <2> QED
    BY <2>3, <2>4
<1>16. CASE packed.tag = 4
  <2>1. p.kind # "curve"
    BY <1>10, <1>16
  <2>2. SwapSolidlyV2(h.pool, packed, amount) = Swap(amount, out)
    BY <1>5, <1>7 DEF SwapSolidlyV2, CallPairSwap
  <2>3. SwapHop(h.pool, packed, amount) = SwapSolidlyV2(h.pool, packed, amount)
    BY <1>16 DEF SwapHop
  <2> QED
    BY <1>11, <2>1, <2>2, <2>3
<1>17. CASE packed.tag = 5
  <2>1. p.kind # "curve"
    BY <1>10, <1>17
  <2>2. SwapBalancerV2(h.pool, packed, amount) = Swap(amount, out)
    BY <1>7 DEF SwapBalancerV2
  <2>3. SwapHop(h.pool, packed, amount) = SwapBalancerV2(h.pool, packed, amount)
    BY <1>17 DEF SwapHop
  <2> QED
    BY <1>11, <2>1, <2>2, <2>3
<1>18. CASE packed.tag \in 6 .. 8
  <2> DEFINE i == CoinIndex(p.coins, h.token_in)
             j == CoinIndex(p.coins, h.token_out)
  <2>1. p.kind = "curve"
    BY <1>10, <1>18
  <2>2. packed.extra[1] = i /\ packed.extra[2] = j
    BY <1>2, <1>9, <2>1
  <2>3. Len(p.coins) \in Nat /\ DOMAIN p.coins = 1 .. Len(p.coins)
    BY <1>1
  <2>4. /\ i + 1 \in DOMAIN p.coins /\ p.coins[i + 1] = h.token_in
        /\ j + 1 \in DOMAIN p.coins /\ p.coins[j + 1] = h.token_out
    BY <1>1, <2>1, <2>3, CoinIndexFinds
  <2>5. i # j
    BY <1>1, <2>1, <2>4
  <2> HIDE DEF i, j
  <2> DEFINE call == [from |-> h.token_in, to |-> h.token_out, out |-> given]
  <2>6. CallCurve(h.pool, i, j, amount) = <<call>>
    BY <1>4, <2>4, <2>5 DEF CallCurve, out, rate
  <2>7. call.from = h.token_in /\ call.to = h.token_out /\ call.out = given
    OBVIOUS
  <2> HIDE DEF call
  <2>8. <<call>> # <<>> /\ <<call>>[1] = call
    OBVIOUS
  <2>9. SwapCurve(h.pool, packed, amount) = Swap(amount, given)
    BY <1>2, <2>2, <2>6, <2>7, <2>8 DEF SwapCurve
  <2>10. SwapHop(h.pool, packed, amount) = SwapCurve(h.pool, packed, amount)
    BY <1>18 DEF SwapHop
  <2> QED
    BY <2>9, <2>10
<1> QED
  BY <1>10, <1>14, <1>15, <1>16, <1>17, <1>18

\* What the router has before or after a hop: nothing once it reverted.
Accs == {<<>>} \cup {<<[token |-> x[1], amount |-> x[2]]>> : x \in Nat \X Int}

\* One turn of the loop from anything: of an amount within what was quoted it makes one that is.
LEMMA HopBounded ==
  ASSUME NEW h \in PathHop, Packable(h), NEW x \in Accs,
         <<h.token_in, h.token_out>> \in DOMAIN Rate[h.pool]
  PROVE  /\ RunHop(x, PackHop(h)) \in Accs
         /\ \A b \in Nat :
              (/\ RunHop(x, PackHop(h)) # <<>>
               /\ (x # <<>> => x[1].amount <= b)) =>
                  /\ RunHop(x, PackHop(h))[1].token = h.token_out
                  /\ RunHop(x, PackHop(h))[1].amount <= HopOut(h, b)
<1> DEFINE packed == PackHop(h)
           rate == Rate[h.pool][<<h.token_in, h.token_out>>]
<1>1. packed.token_in = h.token_in
  BY DEF PackHop
<1>2. rate \in Nat /\ h.token_out \in Nat
  BY ExecutionAssumption DEF PathHop
<1> HIDE DEF packed, rate
<1>3. CASE x = <<>> \/ x[1].token # h.token_in
  <2>1. RunHop(x, packed) = <<>>
    BY <1>1, <1>3 DEF RunHop
  <2> QED
    BY <2>1 DEF Accs, packed
<1>4. CASE x # <<>> /\ x[1].token = h.token_in
  <2>1. PICK tk \in Nat, amount \in Int : x = <<[token |-> tk, amount |-> amount]>>
    BY <1>4 DEF Accs
  <2>2. tk = h.token_in /\ x[1].amount = amount
    BY <1>4, <2>1
  <2> DEFINE after == <<[token |-> h.token_out, amount |-> Given(h, amount)]>>
  <2>3. Given(h, amount) \in Int /\ (RunHop(x, packed) = after \/ RunHop(x, packed) = <<>>)
    BY <2>1, <2>2, HopRuns DEF packed
  <2>4. RunHop(x, packed) \in Accs
    <3> DEFINE pair == <<h.token_out, Given(h, amount)>>
    <3>1. pair \in Nat \X Int /\ after = <<[token |-> pair[1], amount |-> pair[2]]>>
      BY <1>2, <2>3
    <3> HIDE DEF pair, after
    <3>2. after \in Accs
      BY <3>1 DEF Accs
    <3> QED
      BY <2>3, <3>2 DEF Accs
  <2>5. ASSUME NEW b \in Nat, amount <= b
        PROVE  Given(h, amount) <= HopOut(h, b)
    <3>1. rate * amount <= rate * b
      BY <1>2, <2>5
    <3>2. rate * amount \in Int /\ rate * b \in Int
      BY <1>2
    <3>3. Given(h, amount) = rate * amount - (IF h.pool \in Rounds THEN 1 ELSE 0)
      BY DEF Given, HopOut, rate
    <3>4. HopOut(h, b) = rate * b
      BY DEF HopOut, rate
    <3> QED
      BY <3>1, <3>2, <3>3, <3>4
  <2>6. after[1].token = h.token_out /\ after[1].amount = Given(h, amount)
    OBVIOUS
  <2> HIDE DEF after
  <2> QED
    BY <1>4, <2>2, <2>3, <2>4, <2>5, <2>6 DEF packed
<1> QED
  BY <1>3, <1>4

------------------------------------------------------------------------------
(* A packed route on the router *)

\* The amounts of a quote are numbers, and a route that gives something has something at
\* every hop.
LEMMA TraceType ==
  ASSUME NEW q, IsQuote(q)
  PROVE  /\ Len(q.path) \in Nat \ {0} /\ DOMAIN q.path = 1 .. Len(q.path)
         /\ \A i \in 1 .. Len(q.path) : q.path[i] \in PathHop
         /\ \A i \in 1 .. Len(q.path) + 1 : q.trace[i] \in Nat
         /\ q.amount_out # 0 => \A i \in 1 .. Len(q.path) + 1 : q.trace[i] \in Nat \ {0}
<1> DEFINE path == q.path
           n == Len(path)
           t == q.trace
           rate(i) == Rate[path[i].pool][<<path[i].token_in, path[i].token_out>>]
<1>1. path \in Seq(PathHop) /\ path # <<>>
  BY DEF IsQuote
<1>2. n \in Nat \ {0} /\ DOMAIN path = 1 .. n
  BY <1>1, EmptySeq
<1>3. \A i \in 1 .. n : path[i] \in PathHop
  BY <1>1, ElementOfSeq
<1>4. \A i \in DOMAIN path : <<path[i].token_in, path[i].token_out>> \in DOMAIN Rate[path[i].pool]
  BY DEF IsQuote
<1>5. \A i \in 1 .. n : rate(i) \in Nat
  <2> SUFFICES ASSUME NEW i \in 1 .. n
               PROVE  rate(i) \in Nat
    OBVIOUS
  <2>1. path[i].pool \in DOMAIN Registered
    BY <1>3 DEF PathHop
  <2> QED
    BY <1>2, <1>4, <2>1, ExecutionAssumption
<1>6. t[1] \in Nat /\ q.amount_out = t[n + 1]
  BY DEF IsQuote
<1>7. \A i \in 1 .. n : t[i + 1] = rate(i) * t[i]
  BY <1>2 DEF IsQuote, HopOut
<1> HIDE DEF path, n, t, rate
<1>8. \A i \in 1 .. n + 1 : t[i] \in Nat
  <2> DEFINE S == {k \in Nat : k <= n => t[k + 1] \in Nat}
  <2>1. 0 \in S
    BY <1>6
  <2>2. ASSUME NEW k \in Nat, k \in S
        PROVE  k + 1 \in S
    <3> SUFFICES ASSUME k + 1 <= n
                 PROVE  t[(k + 1) + 1] \in Nat
      OBVIOUS
    <3>1. k + 1 \in 1 .. n /\ t[k + 1] \in Nat
      BY <1>2, <2>2
    <3> QED
      BY <1>5, <1>7, <3>1
  <2>3. \A k \in Nat : k \in S
    <3> HIDE DEF S
    <3> QED
      BY <2>1, <2>2, SetInduction
  <2> SUFFICES ASSUME NEW i \in 1 .. n + 1
               PROVE  t[i] \in Nat
    OBVIOUS
  <2>4. i - 1 \in Nat /\ i - 1 <= n /\ (i - 1) + 1 = i
    BY <1>2
  <2> QED
    BY <2>3, <2>4
<1>9. ASSUME q.amount_out # 0
      PROVE  \A i \in 1 .. n + 1 : t[i] \in Nat \ {0}
  <2> DEFINE S == {k \in Nat : k <= n => t[n + 1 - k] # 0}
  <2>1. 0 \in S
    BY <1>2, <1>6, <1>9
  <2>2. ASSUME NEW k \in Nat, k \in S
        PROVE  k + 1 \in S
    <3> SUFFICES ASSUME k + 1 <= n
                 PROVE  t[n + 1 - (k + 1)] # 0
      OBVIOUS
    <3> DEFINE i == n - k
    <3>1. i \in 1 .. n /\ n + 1 - (k + 1) = i /\ n + 1 - k = i + 1
      BY <1>2
    <3> HIDE DEF i
    <3>2. t[i + 1] # 0 /\ t[i + 1] = rate(i) * t[i] /\ rate(i) \in Nat
      BY <1>2, <1>5, <1>7, <2>2, <3>1
    <3>3. t[i] # 0
      BY <3>2
    <3> QED
      BY <3>1, <3>3
  <2>3. \A k \in Nat : k \in S
    <3> HIDE DEF S
    <3> QED
      BY <2>1, <2>2, SetInduction
  <2> SUFFICES ASSUME NEW i \in 1 .. n + 1
               PROVE  t[i] # 0
    BY <1>8
  <2>4. n + 1 - i \in Nat /\ n + 1 - i <= n /\ n + 1 - (n + 1 - i) = i
    BY <1>2
  <2> QED
    BY <2>3, <2>4
<1> QED
  BY <1>2, <1>3, <1>8, <1>9 DEF path, n, t

\* What is lost at the end of a route: the rounding of its last pool.
Rounding(q) == IF Last(q.path).pool \in Rounds THEN 1 ELSE 0

\* The router's loop takes one turn for each hop of a packed route.
LEMMA RouteTurns ==
  ASSUME NEW q, IsQuote(q), \A i \in DOMAIN q.path : Packable(q.path[i]),
         NEW tx, tx.route = [i \in DOMAIN q.path |-> PackHop(q.path[i])],
         tx.token_in = Head(q.path).token_in, tx.amount_in = q.amount_in
  PROVE  \E run \in [0 .. Len(q.path) -> Accs] :
           /\ run[0] = <<[token |-> q.path[1].token_in, amount |-> q.trace[1]]>>
           /\ \A i \in 1 .. Len(q.path) : run[i] = RunHop(run[i - 1], PackHop(q.path[i]))
           /\ RunRoute(tx) = run[Len(q.path)]
<1> DEFINE path == q.path
           n == Len(path)
           start == <<[token |-> tx.token_in, amount |-> tx.amount_in]>>
           Turn(i, x) == RunHop(x, PackHop(path[i]))
           step == [i \in 1 .. n |-> [x \in Accs |-> Turn(i, x)]]
           Body(f) == [i \in 0 .. Len(tx.route) |->
                         IF i = 0 THEN start ELSE RunHop(f[i - 1], tx.route[i])]
           run == CHOOSE f : f = Body(f)
<1>1. /\ n \in Nat \ {0} /\ DOMAIN path = 1 .. n
      /\ \A i \in 1 .. n : path[i] \in PathHop
      /\ q.trace[1] \in Nat
  <2>1. /\ n \in Nat \ {0} /\ DOMAIN path = 1 .. n
        /\ \A i \in 1 .. n : path[i] \in PathHop
        /\ \A i \in 1 .. n + 1 : q.trace[i] \in Nat
    BY TraceType
  <2>2. 1 \in 1 .. n + 1
    BY <2>1
  <2> QED
    BY <2>1, <2>2
<1>2. /\ \A i \in 1 .. n : <<path[i].token_in, path[i].token_out>> \in DOMAIN Rate[path[i].pool]
      /\ \A i \in 1 .. n : Packable(path[i])
      /\ q.trace[1] = q.amount_in
  BY <1>1 DEF IsQuote
<1>3. Head(path) = path[1]
  <2>1. path \in Seq(PathHop) /\ path # <<>>
    BY DEF IsQuote
  <2> QED
    BY <2>1
<1>4. Len(tx.route) = n /\ \A i \in 1 .. n : tx.route[i] = PackHop(path[i])
  <2> DEFINE T == {PackHop(path[i]) : i \in 1 .. n}
             s == [i \in 1 .. n |-> PackHop(path[i])]
  <2>1. tx.route = s
    BY <1>1
  <2> HIDE DEF T, n, path
  <2>2. \A i \in 1 .. n : PackHop(path[i]) \in T
    BY DEF T
  <2>3. s \in Seq(T)
    BY <1>1, <2>2, IsASeq
  <2>4. Len(s) \in Nat /\ DOMAIN s = 1 .. Len(s) /\ DOMAIN s = 1 .. n
    BY <2>3, LenProperties
  <2>5. Len(s) = n
    BY <1>1, <2>4
  <2> QED
    BY <2>1, <2>5
<1>5. start = <<[token |-> path[1].token_in, amount |-> q.trace[1]]>>
  BY <1>2, <1>3
<1>6. start \in Accs
  <2> DEFINE pair == <<path[1].token_in, q.trace[1]>>
  <2>1. path[1].token_in \in Nat /\ q.trace[1] \in Int
    BY <1>1 DEF PathHop
  <2>2. pair \in Nat \X Int /\ start = <<[token |-> pair[1], amount |-> pair[2]]>>
    BY <1>5, <2>1
  <2> HIDE DEF pair, start
  <2> QED
    BY <2>2 DEF Accs
<1> HIDE DEF path, n, start
<1>7. \A i \in 1 .. n, x \in Accs : Turn(i, x) \in Accs
  BY <1>1, <1>2, HopBounded
<1>8. step \in [1 .. n -> [Accs -> Accs]]
  <2> HIDE DEF Turn
  <2> QED
    BY <1>7
<1>9. PICK f \in [0 .. n -> Accs] : f[0] = start /\ \A i \in 1 .. n : f[i] = step[i][f[i - 1]]
  <2> DEFINE X == Accs
  <2>1. n \in Nat
    BY <1>1
  <2>2. start \in X
    BY <1>6
  <2>3. step \in [1 .. n -> [X -> X]]
    BY <1>8
  <2> HIDE DEF step, X
  <2>4. \E f \in [0 .. n -> X] : f[0] = start /\ \A i \in 1 .. n : f[i] = step[i][f[i - 1]]
    BY ONLY <2>1, <2>2, <2>3, StepsExist
  <2> QED
    BY <2>4 DEF X
<1>10. \A i \in 1 .. n : f[i] = Turn(i, f[i - 1])
  <2> SUFFICES ASSUME NEW i \in 1 .. n
               PROVE  f[i] = Turn(i, f[i - 1])
    OBVIOUS
  <2> HIDE DEF Turn
  <2>1. i - 1 \in 0 .. n
    BY <1>1
  <2>2. f[i - 1] \in Accs
    BY <2>1
  <2>3. step[i][f[i - 1]] = Turn(i, f[i - 1])
    BY <2>2
  <2> HIDE DEF step
  <2> QED
    BY <1>9, <2>3
<1>11. \A g : \A i \in 0 .. n : Body(g)[i] = IF i = 0 THEN start ELSE Turn(i, g[i - 1])
  <2> SUFFICES ASSUME NEW g, NEW i \in 0 .. n
               PROVE  Body(g)[i] = IF i = 0 THEN start ELSE Turn(i, g[i - 1])
    OBVIOUS
  <2>1. Body(g)[i] = IF i = 0 THEN start ELSE RunHop(g[i - 1], tx.route[i])
    BY <1>4
  <2>2. i # 0 => i \in 1 .. n
    BY <1>1
  <2> HIDE DEF Body
  <2> QED
    BY <1>4, <2>1, <2>2
<1>12. f = Body(f)
  <2>1. ASSUME NEW i \in 0 .. n
        PROVE  f[i] = Body(f)[i]
    <3> HIDE DEF Body, Turn, step
    <3>1. Body(f)[i] = IF i = 0 THEN start ELSE Turn(i, f[i - 1])
      BY <1>11
    <3>2. i # 0 => i \in 1 .. n
      BY <1>1
    <3> QED
      BY <1>9, <1>10, <3>1, <3>2
  <2>2. f = [i \in 0 .. n |-> f[i]] /\ Body(f) = [i \in 0 .. n |-> Body(f)[i]]
    BY <1>4
  <2> HIDE DEF Body
  <2> QED
    BY <2>1, <2>2
<1>13. run = Body(run)
  <2> HIDE DEF Body
  <2> QED
    BY <1>12
<1>14. \A k \in Nat : k <= n => run[k] = f[k]
  <2> DEFINE S == {k \in Nat : k <= n => run[k] = f[k]}
  <2> HIDE DEF run, Body, Turn, step
  <2>1. \A k \in 0 .. n : run[k] = IF k = 0 THEN start ELSE Turn(k, run[k - 1])
    BY <1>11, <1>13
  <2>2. 0 \in S
    <3>1. 0 \in 0 .. n
      BY <1>1
    <3> QED
      BY <1>9, <2>1, <3>1
  <2>3. ASSUME NEW k \in Nat, k \in S
        PROVE  k + 1 \in S
    <3> SUFFICES ASSUME k + 1 <= n
                 PROVE  run[k + 1] = f[k + 1]
      OBVIOUS
    <3>1. k + 1 \in 1 .. n /\ k + 1 \in 0 .. n /\ (k + 1) - 1 = k /\ k + 1 # 0 /\ run[k] = f[k]
      BY <1>1, <2>3
    <3>2. run[k + 1] = Turn(k + 1, run[k])
      BY <2>1, <3>1
    <3>3. f[k + 1] = Turn(k + 1, f[k])
      BY <1>10, <3>1
    <3> QED
      BY <3>1, <3>2, <3>3
  <2>4. \A k \in Nat : k \in S
    <3> HIDE DEF S
    <3> QED
      BY <2>2, <2>3, SetInduction
  <2> QED
    BY <2>4
<1>15. RunRoute(tx) = run[n]
  BY <1>4 DEF RunRoute, start
<1> HIDE DEF run, Body, step
<1>16. RunRoute(tx) = f[n]
  BY <1>1, <1>14, <1>15
<1> QED
  BY <1>5, <1>9, <1>10, <1>16 DEF path, n

\* The router's loop on a packed route, every hop of which can take its input whole and only
\* the last one of which may round.
LEMMA RouteRuns ==
  ASSUME NEW q, IsQuote(q), ValidQuote(q), q.amount_out # 0,
         \A i \in DOMAIN q.path : Packable(q.path[i]),
         \A i \in DOMAIN q.path : q.trace[i] <= Holds[q.path[i].pool],
         \A i \in 1 .. Len(q.path) - 1 : q.path[i].pool \notin Rounds,
         NEW tx, tx.route = [i \in DOMAIN q.path |-> PackHop(q.path[i])],
         tx.token_in = Head(q.path).token_in, tx.amount_in = q.amount_in
  PROVE  RunRoute(tx) = <<[token |-> Last(q.path).token_out, amount |-> q.amount_out - Rounding(q)]>>
<1> DEFINE path == q.path
           n == Len(path)
           t == q.trace
           out(i) == <<[token |-> path[i].token_out, amount |-> Given(path[i], t[i])]>>
<1>1. /\ n \in Nat \ {0} /\ DOMAIN path = 1 .. n
      /\ \A i \in 1 .. n : path[i] \in PathHop
      /\ \A i \in 1 .. n + 1 : t[i] \in Nat \ {0}
  BY TraceType
<1>2. /\ \A i \in 1 .. n : t[i + 1] = HopOut(path[i], t[i])
      /\ \A i \in 1 .. n : <<path[i].token_in, path[i].token_out>> \in DOMAIN Rate[path[i].pool]
      /\ q.amount_out = t[n + 1]
  BY <1>1 DEF IsQuote
<1>3. /\ \A i \in 1 .. n : Packable(path[i]) /\ t[i] <= Holds[path[i].pool]
      /\ \A i \in 1 .. n - 1 : path[i].pool \notin Rounds /\ path[i].token_out = path[i + 1].token_in
  BY <1>1 DEF ValidQuote
<1>4. Last(path) = path[n]
  BY DEF Last
<1>5. PICK run \in [0 .. n -> Accs] :
           /\ run[0] = <<[token |-> path[1].token_in, amount |-> t[1]]>>
           /\ \A i \in 1 .. n : run[i] = RunHop(run[i - 1], PackHop(path[i]))
           /\ RunRoute(tx) = run[n]
  BY RouteTurns
<1> HIDE DEF path, n, t
<1>6. ASSUME NEW i \in 1 .. n, run[i - 1] = <<[token |-> path[i].token_in, amount |-> t[i]]>>
      PROVE  run[i] = out(i)
  <2>1. i \in 1 .. n + 1
    BY <1>1
  <2>2. t[i] \in Nat \ {0} /\ t[i] \in Int /\ t[i] <= Holds[path[i].pool]
    BY <1>1, <1>3, <2>1
  <2>3. /\ path[i] \in PathHop /\ Packable(path[i])
        /\ <<path[i].token_in, path[i].token_out>> \in DOMAIN Rate[path[i].pool]
    BY <1>1, <1>2, <1>3
  <2>4. RunHop(<<[token |-> path[i].token_in, amount |-> t[i]]>>, PackHop(path[i])) = out(i)
    BY <2>2, <2>3, HopRuns
  <2> QED
    BY <1>5, <1>6, <2>4
<1>7. ASSUME NEW i \in 1 .. n, i < n
      PROVE  out(i) = <<[token |-> path[i + 1].token_in, amount |-> t[i + 1]]>>
  <2>1. i \in 1 .. n - 1 /\ i + 1 \in 1 .. n + 1
    BY <1>1, <1>7
  <2>2. path[i].pool \notin Rounds /\ t[i + 1] \in Nat /\ t[i + 1] = HopOut(path[i], t[i])
    BY <1>1, <1>2, <1>3, <2>1
  <2>3. Given(path[i], t[i]) = t[i + 1]
    BY <2>2 DEF Given
  <2> QED
    BY <1>3, <2>1, <2>3
<1>8. \A k \in Nat : k + 1 <= n => run[k + 1] = out(k + 1)
  <2> DEFINE S == {k \in Nat : k + 1 <= n => run[k + 1] = out(k + 1)}
  <2>1. 0 \in S
    <3>1. 1 \in 1 .. n /\ 1 - 1 = 0
      BY <1>1
    <3>2. run[1] = out(1)
      BY <1>5, <1>6, <3>1
    <3> HIDE DEF out
    <3> QED
      BY <3>2
  <2>2. ASSUME NEW k \in Nat, k \in S
        PROVE  k + 1 \in S
    <3> SUFFICES ASSUME (k + 1) + 1 <= n
                 PROVE  run[(k + 1) + 1] = out((k + 1) + 1)
      OBVIOUS
    <3> DEFINE i == k + 1
    <3>1. i \in 1 .. n /\ i < n /\ i + 1 \in 1 .. n /\ (i + 1) - 1 = i /\ run[i] = out(i)
      BY <1>1, <2>2
    <3> HIDE DEF i
    <3>2. run[i] = <<[token |-> path[i + 1].token_in, amount |-> t[i + 1]]>>
      BY <1>7, <3>1
    <3>3. run[i + 1] = out(i + 1)
      BY <1>6, <3>1, <3>2
    <3> QED
      BY <3>3 DEF i
  <2>3. \A k \in Nat : k \in S
    <3> HIDE DEF S
    <3> QED
      BY <2>1, <2>2, SetInduction
  <2> QED
    BY <2>3
<1>9. run[n] = out(n)
  <2>1. n - 1 \in Nat /\ (n - 1) + 1 = n
    BY <1>1
  <2> HIDE DEF out
  <2> QED
    BY <1>8, <2>1
<1>10. Given(path[n], t[n]) = q.amount_out - Rounding(q)
  <2>1. n \in 1 .. n
    BY <1>1
  <2>2. q.amount_out = HopOut(path[n], t[n])
    BY <1>2, <2>1
  <2> QED
    BY <1>4, <2>2 DEF Given, Rounding, path
<1> QED
  BY <1>4, <1>5, <1>9, <1>10 DEF path

\* Whatever the pools take and round, the loop reverts or ends with no more than was quoted.
LEMMA RouteBounded ==
  ASSUME NEW q, IsQuote(q), \A i \in DOMAIN q.path : Packable(q.path[i]),
         NEW tx, tx.route = [i \in DOMAIN q.path |-> PackHop(q.path[i])],
         tx.token_in = Head(q.path).token_in, tx.amount_in = q.amount_in, RunRoute(tx) # <<>>
  PROVE  RunRoute(tx)[1].amount \in Int /\ RunRoute(tx)[1].amount <= q.amount_out
<1> DEFINE path == q.path
           n == Len(path)
           t == q.trace
<1>1. /\ n \in Nat \ {0} /\ DOMAIN path = 1 .. n
      /\ \A i \in 1 .. n : path[i] \in PathHop
      /\ \A i \in 1 .. n + 1 : t[i] \in Nat
  BY TraceType
<1>2. /\ \A i \in 1 .. n : t[i + 1] = HopOut(path[i], t[i])
      /\ \A i \in 1 .. n : <<path[i].token_in, path[i].token_out>> \in DOMAIN Rate[path[i].pool]
      /\ \A i \in 1 .. n : Packable(path[i])
      /\ q.amount_out = t[n + 1]
  BY <1>1 DEF IsQuote
<1>3. PICK run \in [0 .. n -> Accs] :
           /\ run[0] = <<[token |-> path[1].token_in, amount |-> t[1]]>>
           /\ \A i \in 1 .. n : run[i] = RunHop(run[i - 1], PackHop(path[i]))
           /\ RunRoute(tx) = run[n]
  BY RouteTurns
<1> HIDE DEF path, n, t
<1> DEFINE S == {k \in Nat : k <= n => (run[k] # <<>> => run[k][1].amount <= t[k + 1])}
<1>4. 0 \in S
  <2>1. t[1] \in Nat /\ run[0][1].amount = t[1]
    <3>1. 1 \in 1 .. n + 1
      BY <1>1
    <3> QED
      BY <1>1, <1>3, <3>1
  <2> QED
    BY <2>1
<1>5. ASSUME NEW k \in Nat, k \in S
      PROVE  k + 1 \in S
  <2> SUFFICES ASSUME k + 1 <= n, run[k + 1] # <<>>
               PROVE  run[k + 1][1].amount <= t[(k + 1) + 1]
    OBVIOUS
  <2> DEFINE i == k + 1
  <2>1. /\ i \in 1 .. n /\ i - 1 = k /\ k \in 0 .. n /\ i \in 1 .. n + 1
        /\ (run[k] # <<>> => run[k][1].amount <= t[i])
    BY <1>1, <1>5
  <2> HIDE DEF i
  <2>2. run[i] = RunHop(run[k], PackHop(path[i])) /\ run[k] \in Accs /\ t[i] \in Nat
    BY <1>1, <1>3, <2>1
  <2>3. run[i] # <<>>
    BY DEF i
  <2>4. run[i][1].amount <= HopOut(path[i], t[i])
    BY <1>1, <1>2, <2>1, <2>2, <2>3, HopBounded
  <2> QED
    BY <1>2, <2>1, <2>4 DEF i
<1>6. \A k \in Nat : k \in S
  <2> HIDE DEF S
  <2> QED
    BY <1>4, <1>5, SetInduction
<1>7. run[n] # <<>> /\ run[n][1].amount <= q.amount_out
  BY <1>1, <1>2, <1>3, <1>6
<1>8. run[n] \in Accs
  BY <1>1, <1>3
<1> QED
  BY <1>3, <1>7, <1>8 DEF Accs

------------------------------------------------------------------------------
(* An executable quote *)

\* The routes an execution chooses from are routes of the report.
LEMMA ExecutableOfReport ==
  ASSUME NEW report \in Reports
  PROVE  Executable(report) \in Seq({report[i] : i \in DOMAIN report})
<1> DEFINE n == Len(report)
           Q == {report[i] : i \in DOMAIN report}
           X == Seq(Q)
           Turn(i, x) == IF ProtocolsAllowed(report[i]) THEN Append(x, report[i]) ELSE x
           step == [i \in 1 .. n |-> [x \in X |-> Turn(i, x)]]
           Body(f) == [i \in 0 .. Len(report) |->
                         IF i = 0 THEN <<>>
                         ELSE IF ProtocolsAllowed(report[i]) THEN Append(f[i - 1], report[i])
                         ELSE f[i - 1]]
           kept == CHOOSE f : f = Body(f)
<1>1. n \in Nat /\ DOMAIN report = 1 .. n
  BY ReportAssumption
<1>2. <<>> \in X
  OBVIOUS
<1>3. \A i \in 1 .. n : report[i] \in Q
  BY <1>1
<1>4. \A i \in 1 .. n, x \in X : Turn(i, x) \in X
  <2> HIDE DEF Q, n
  <2> QED
    BY <1>3
<1>5. step \in [1 .. n -> [X -> X]]
  <2> HIDE DEF X, Turn, n
  <2> QED
    BY <1>4
<1>6. PICK f \in [0 .. n -> X] : f[0] = <<>> /\ \A i \in 1 .. n : f[i] = step[i][f[i - 1]]
  <2> DEFINE none == <<>>
  <2>1. none \in X
    BY <1>2
  <2> HIDE DEF X, step, n, none
  <2>2. \E f \in [0 .. n -> X] : f[0] = none /\ \A i \in 1 .. n : f[i] = step[i][f[i - 1]]
    BY <1>1, <1>5, <2>1, StepsExist
  <2> QED
    BY <2>2 DEF none
<1>7. \A i \in 1 .. n : f[i] = Turn(i, f[i - 1])
  <2> SUFFICES ASSUME NEW i \in 1 .. n
               PROVE  f[i] = Turn(i, f[i - 1])
    OBVIOUS
  <2> HIDE DEF X, Turn, n
  <2>1. i - 1 \in 0 .. n
    BY <1>1
  <2>2. f[i - 1] \in X
    BY <2>1
  <2>3. step[i][f[i - 1]] = Turn(i, f[i - 1])
    BY <2>2
  <2> HIDE DEF step
  <2> QED
    BY <1>6, <2>3
<1>8. f = Body(f)
  <2>1. ASSUME NEW i \in 0 .. n
        PROVE  f[i] = Body(f)[i]
    <3>1. Body(f)[i] = IF i = 0 THEN <<>> ELSE Turn(i, f[i - 1])
      OBVIOUS
    <3>2. CASE i = 0
      BY <1>6, <3>1, <3>2
    <3>3. CASE i # 0
      <4>1. i \in 1 .. n
        BY <1>1, <3>3
      <4> HIDE DEF Body, Turn
      <4> QED
        BY <1>7, <3>1, <3>3, <4>1
    <3> QED
      BY <3>2, <3>3
  <2>2. Body(f) = [i \in 0 .. n |-> Body(f)[i]]
    OBVIOUS
  <2>3. f = [i \in 0 .. n |-> f[i]]
    BY <1>6
  <2> HIDE DEF Body, n
  <2> QED
    BY <2>1, <2>2, <2>3
<1>9. kept = Body(kept)
  <2> HIDE DEF Body
  <2> QED
    BY <1>8
<1>10. /\ kept[0] = <<>>
       /\ \A i \in 1 .. n : kept[i] = Turn(i, kept[i - 1])
  <2> HIDE DEF kept
  <2>1. /\ Body(kept)[0] = <<>>
        /\ \A i \in 1 .. n : Body(kept)[i] = Turn(i, kept[i - 1])
    BY <1>1
  <2> HIDE DEF Body, Turn
  <2> QED
    BY <1>9, <2>1
<1> DEFINE S == {i \in Nat : i <= n => kept[i] \in X}
<1> HIDE DEF kept, X, Turn, n
<1>11. 0 \in S
  BY <1>2, <1>10
<1>12. ASSUME NEW i \in Nat, i \in S
       PROVE  i + 1 \in S
  <2> SUFFICES ASSUME i + 1 <= n
               PROVE  kept[i + 1] \in X
    OBVIOUS
  <2>1. kept[i] \in X /\ i + 1 \in 1 .. n /\ (i + 1) - 1 = i
    BY <1>1, <1>12
  <2> QED
    BY <1>4, <1>10, <2>1
<1>13. \A i \in Nat : i \in S
  <2> HIDE DEF S
  <2> QED
    BY <1>11, <1>12, SetInduction
<1>14. kept[n] \in X
  BY <1>1, <1>13
<1>15. Executable(report) = kept[n]
  BY DEF Executable, kept, n
<1> QED
  BY <1>14, <1>15 DEF X

LEMMA SlippageType ==
  ASSUME NEW amount \in Nat, NEW bps \in Nat
  PROVE  MinFromSlippage(amount, bps) \in Nat
<1>1. CASE bps >= Bps
  BY <1>1 DEF MinFromSlippage
<1>2. CASE ~(bps >= Bps)
  <2> DEFINE kept == Bps - bps
             whole == amount \div Bps
             rest == amount % Bps
  <2>1. kept \in Nat
    BY <1>2, BpsType
  <2>2. whole \in Nat /\ rest \in Nat
    BY DEF Bps
  <2>3. MinFromSlippage(amount, bps) = whole * kept + ((rest * kept) \div Bps)
    BY <1>2 DEF MinFromSlippage
  <2> HIDE DEF kept, whole, rest
  <2>4. whole * kept \in Nat /\ rest * kept \in Nat
    BY <2>1, <2>2
  <2> DEFINE prod == rest * kept
  <2>5. prod \in Nat
    BY <2>4
  <2> HIDE DEF prod
  <2>6. prod \div Bps \in Nat
    BY <2>5 DEF Bps
  <2> QED
    BY <2>3, <2>4, <2>6 DEF prod
<1> QED
  BY <1>1, <1>2

\* A sequence of quotes.
HasQuotes(s) == \E Q : s \in Seq(Q) /\ \A q \in Q : IsQuote(q)

LEMMA QuotesOf ==
  ASSUME NEW s, HasQuotes(s)
  PROVE  Len(s) \in Nat /\ (s # <<>> => Len(s) # 0) /\ \A i \in 1 .. Len(s) : IsQuote(s[i])
<1>1. PICK Q : s \in Seq(Q) /\ \A q \in Q : IsQuote(q)
  BY DEF HasQuotes
<1>2. Len(s) \in Nat /\ \A i \in 1 .. Len(s) : s[i] \in Q
  BY <1>1, ElementOfSeq
<1>3. s # <<>> => Len(s) # 0
  BY <1>1, EmptySeq
<1> QED
  BY <1>1, <1>2, <1>3

LEMMA AmountOutType ==
  ASSUME NEW q, IsQuote(q)
  PROVE  q.amount_out \in Nat
<1>1. Len(q.path) \in Nat \ {0} /\ \A i \in 1 .. Len(q.path) + 1 : q.trace[i] \in Nat
  BY TraceType
<1>2. q.amount_out = q.trace[Len(q.path) + 1]
  BY DEF IsQuote
<1>3. Len(q.path) + 1 \in 1 .. Len(q.path) + 1
  BY <1>1
<1> QED
  BY <1>1, <1>2, <1>3

\* The floor is a number, whoever sets it.
LEMMA FloorType ==
  ASSUME NEW s, HasQuotes(s), NEW minimum \in Int
  PROVE  MinAmountOut(s, minimum) \in Nat
<1>1. CASE minimum >= 0
  BY <1>1 DEF MinAmountOut
<1>2. CASE ~(minimum >= 0)
  <2>1. CASE Len(s) < 2
    BY <1>2, <2>1 DEF MinAmountOut
  <2>2. CASE ~(Len(s) < 2)
    <3>1. 2 \in 1 .. Len(s)
      BY <2>2, QuotesOf
    <3>2. s[2].amount_out \in Nat
      BY <3>1, QuotesOf, AmountOutType
    <3>3. MinAmountOut(s, minimum) = 0 \/ MinAmountOut(s, minimum) = s[2].amount_out
      BY <1>2 DEF MinAmountOut
    <3> QED
      BY <3>2, <3>3
  <2> QED
    BY <2>1, <2>2
<1> QED
  BY <1>1, <1>2

\* The routes a request for an executable quote is packed from.
Packed(a, s, tx) ==
  /\ HasQuotes(s) /\ s # <<>> /\ GoodDeadline(a) /\ GoodTerms(a, s[1])
  /\ tx = BuildExecutableSwap(s, ExecutionRequest(a, s[1])) /\ tx # <<>>

\* What a call the router accepts pays: what its loop ends with, if that reaches the floor.
Paid(tx) ==
  LET ran == RunRoute(tx)
  IN IF ran = <<>> THEN <<>>
     ELSE IF ran[1].token # tx.token_out \/ ran[1].amount < tx.min THEN <<>>
     ELSE <<ran[1].amount>>

\* A call that was packed: the router accepts it, and what it pays is what its loop ends with,
\* unless that is below the floor.
LEMMA PackedCall ==
  ASSUME NEW l \in Loads, NEW r \in Requests, NEW s, NEW swap,
         l.requests[r].kind = "executable", Packed(l.requests[r], s, swap)
  PROVE  /\ IsQuote(s[1]) /\ ValidQuote(s[1]) /\ s[1].amount_out \in Nat
         /\ \A i \in DOMAIN s[1].path : Packable(s[1].path[i])
         /\ swap[1].route = [i \in DOMAIN s[1].path |-> PackHop(s[1].path[i])]
         /\ swap[1].token_in = Head(s[1].path).token_in /\ swap[1].amount_in = s[1].amount_in
         /\ swap[1].token_out = Last(s[1].path).token_out /\ swap[1].min \in Nat \ {0}
         /\ Execute(swap[1], Now) = Paid(swap[1])
<1> DEFINE a == l.requests[r]
           best == s[1]
           request == ExecutionRequest(a, best)
           tx == swap[1]
<1>1. a.min \in Int /\ a.bps \in Int /\ a.deadline \in Nat /\ a.ttl \in Nat
  BY RequestAssumption
<1>2. HasQuotes(s) /\ s # <<>> /\ GoodDeadline(a)
  BY DEF Packed
<1>3. IsQuote(best) /\ best.amount_out \in Nat
  <2>1. 1 \in 1 .. Len(s)
    BY <1>2, QuotesOf
  <2> QED
    BY <1>2, <2>1, QuotesOf, AmountOutType
<1>4. request.minimum \in Int
  <2>1. request.minimum = IF a.bps >= 0 THEN MinFromSlippage(best.amount_out, a.bps) ELSE a.min
    BY DEF ExecutionRequest
  <2>2. CASE a.bps >= 0
    <3>1. a.bps \in Nat
      BY <1>1, <2>2
    <3>2. MinFromSlippage(best.amount_out, a.bps) \in Nat
      BY <1>3, <3>1, SlippageType
    <3> QED
      BY <2>1, <2>2, <3>2
  <2>3. CASE ~(a.bps >= 0)
    BY <1>1, <2>1, <2>3
  <2> QED
    BY <2>2, <2>3
<1>5. swap = BuildExecutableSwap(s, request) /\ swap # <<>>
  BY DEF Packed
<1>6. request.recipient = a.recipient /\ request.deadline = Deadline(a) /\ request.weth = Weth
  BY DEF ExecutionRequest
<1> HIDE DEF request, a, best
<1>7. /\ ValidRequest(request) /\ ValidQuote(best) /\ MinAmountOut(s, request.minimum) # 0
      /\ \A i \in DOMAIN best.path : Packable(best.path[i])
      /\ request.authorization = "native" => Head(best.path).token_in = request.weth
  BY <1>5 DEF BuildExecutableSwap, best
<1>8. /\ tx.call = request.authorization /\ tx.token_in = Head(best.path).token_in
      /\ tx.token_out = Last(best.path).token_out /\ tx.amount_in = best.amount_in
      /\ tx.min = MinAmountOut(s, request.minimum) /\ tx.recipient = request.recipient
      /\ tx.deadline = request.deadline /\ tx.final = Last(best.path).token_out
      /\ tx.route = [i \in DOMAIN best.path |-> PackHop(best.path[i])]
      /\ tx.value = IF request.authorization = "native" THEN best.amount_in ELSE 0
  BY <1>5 DEF BuildExecutableSwap, best
<1>9. tx.min \in Nat \ {0}
  BY <1>2, <1>4, <1>7, <1>8, FloorType
<1> HIDE DEF tx
<1>13. Validated(tx, Now)
  <2>1. tx.token_in # tx.token_out
    BY <1>3, <1>8 DEF IsQuote
  <2>2. tx.recipient # 0
    BY <1>7, <1>8 DEF ValidRequest
  <2>3. Deadline(a) \in Int /\ Deadline(a) - Now \in 1 .. MaxDeadline
    BY <1>1, <1>2 DEF Deadline, GoodDeadline, Now, a
  <2>4. Now <= tx.deadline
    BY <1>6, <1>8, <2>3 DEF Now
  <2> QED
    BY <1>9, <2>1, <2>2, <2>4 DEF Validated
<1>14. Funded(tx)
  BY <1>6, <1>7, <1>8 DEF Funded
<1>15. tx.route # <<>>
  <2>1. DOMAIN tx.route = DOMAIN best.path /\ 1 \in DOMAIN best.path
    BY <1>3, <1>8, TraceType
  <2>2. DOMAIN <<>> = {}
    OBVIOUS
  <2> QED
    BY <2>1, <2>2
<1>16. tx.final = tx.token_out
  BY <1>8
<1>17. Execute(tx, Now) = Paid(tx)
  BY <1>13, <1>14, <1>15, <1>16 DEF Execute, Paid
<1> QED
  BY <1>3, <1>7, <1>8, <1>9, <1>17 DEF tx, best

\* What was packed pays no more than was quoted and no less than the floor.
LEMMA PackedBounded ==
  ASSUME NEW l \in Loads, NEW r \in Requests, NEW s, NEW swap,
         l.requests[r].kind = "executable", Packed(l.requests[r], s, swap),
         Execute(swap[1], Now) # <<>>
  PROVE  Execute(swap[1], Now)[1] \in swap[1].min .. s[1].amount_out
<1> DEFINE best == s[1]
           tx == swap[1]
           ran == RunRoute(tx)
<1>1. /\ IsQuote(best) /\ best.amount_out \in Nat
      /\ \A i \in DOMAIN best.path : Packable(best.path[i])
      /\ tx.route = [i \in DOMAIN best.path |-> PackHop(best.path[i])]
      /\ tx.token_in = Head(best.path).token_in /\ tx.amount_in = best.amount_in
      /\ tx.min \in Nat \ {0}
      /\ Execute(tx, Now) = Paid(tx)
  BY PackedCall
<1> HIDE DEF best, tx
<1>2. Execute(tx, Now) # <<>>
  BY DEF tx
<1>3. ran # <<>> /\ ~(ran[1].amount < tx.min) /\ Execute(tx, Now) = <<ran[1].amount>>
  BY <1>1, <1>2 DEF Paid
<1>4. ran[1].amount \in Int /\ ran[1].amount <= best.amount_out
  BY <1>1, <1>3, RouteBounded
<1>5. Execute(tx, Now)[1] = ran[1].amount
  BY <1>3
<1> QED
  BY <1>1, <1>3, <1>4, <1>5 DEF tx, best

\* What was packed runs to the quoted amount, where every pool takes all and only the last
\* one may round.
LEMMA PackedExecutes ==
  ASSUME NEW l \in Loads, NEW r \in Requests, NEW s, NEW swap,
         l.requests[r].kind = "executable", Packed(l.requests[r], s, swap),
         \A i \in DOMAIN s[1].path : s[1].trace[i] <= Holds[s[1].path[i].pool],
         \A i \in 1 .. Len(s[1].path) - 1 : s[1].path[i].pool \notin Rounds,
         swap[1].min <= s[1].amount_out - Rounding(s[1])
  PROVE  Execute(swap[1], Now) = <<s[1].amount_out - Rounding(s[1])>>
<1> DEFINE best == s[1]
           tx == swap[1]
           out == best.amount_out - Rounding(best)
           end == [token |-> Last(best.path).token_out, amount |-> out]
           ran == RunRoute(tx)
<1>1. /\ IsQuote(best) /\ ValidQuote(best) /\ best.amount_out \in Nat
      /\ \A i \in DOMAIN best.path : Packable(best.path[i])
      /\ tx.route = [i \in DOMAIN best.path |-> PackHop(best.path[i])]
      /\ tx.token_in = Head(best.path).token_in /\ tx.amount_in = best.amount_in
      /\ tx.token_out = Last(best.path).token_out /\ tx.min \in Nat \ {0}
      /\ Execute(tx, Now) = Paid(tx)
  BY PackedCall
<1>2. /\ \A i \in DOMAIN best.path : best.trace[i] <= Holds[best.path[i].pool]
      /\ \A i \in 1 .. Len(best.path) - 1 : best.path[i].pool \notin Rounds
      /\ tx.min <= out
  OBVIOUS
<1> HIDE DEF best, tx
<1>3. Rounding(best) \in {0, 1}
  BY DEF Rounding
<1>4. best.amount_out # 0 /\ out \in Nat /\ ~(out < tx.min)
  BY <1>1, <1>2, <1>3
<1>5. ran = <<end>>
  BY <1>1, <1>2, <1>4, RouteRuns
<1>6. end.token = tx.token_out /\ end.amount = out
  BY <1>1
<1> HIDE DEF end, out, ran
<1>7. ran # <<>> /\ ran[1] = end
  BY <1>5
<1>8. Execute(tx, Now) = <<out>>
  BY <1>1, <1>4, <1>6, <1>7 DEF Paid, ran
<1> QED
  BY <1>8 DEF tx, out, best

------------------------------------------------------------------------------
(* The plans of the requests *)

\* Where a request has a report, and where it has a transaction.
Reported == {"fenceNode", "fenceState", "block"}
Planned == {"approve", "simulate", "lastNode", "lastState", "done"}

\* A request for an executable quote has a report of its search until it has a transaction,
\* and that is what was packed of routes that are quotes. ask, at and p are its request,
\* where its handler is and its plan.
PlanOk(ask, at, p) ==
  /\ p = [best |-> p.best, tx |-> p.tx]
  /\ at = "block" => ask.kind = "executable"
  /\ (at \in Reported /\ ask.kind = "executable") => p.best \in Reports
  /\ at \notin Planned => p.tx = <<>>
  /\ p.tx # <<>> => ask.kind = "executable" /\ \E s : Packed(ask, s, p.tx) /\ p.best = <<s[1]>>
PlanInv == \A r \in Requests : PlanOk(Ask(r), pc[r], plan[r])

LEMMA PlanSame ==
  ASSUME PlanInv, UNCHANGED <<load, reqVars>>
  PROVE  PlanInv'
<1>1. UNCHANGED <<pc, plan>> /\ \A r \in Requests : Ask(r)' = Ask(r)
  BY DEF reqVars, Ask
<1>2. \A r \in Requests : PlanOk(Ask(r), pc[r], plan[r])
  BY DEF PlanInv
<1>3. \A r \in Requests : PlanOk(Ask(r)', pc'[r], plan'[r])
  BY <1>1, <1>2
<1> QED
  BY <1>3 DEF PlanInv

\* A step of one request keeps the plans of the others.
LEMMA OnePlan ==
  ASSUME PlanInv, NEW r \in Requests, UNCHANGED load,
         \A q \in Requests : q # r => pc'[q] = pc[q] /\ plan'[q] = plan[q],
         PlanOk(Ask(r), pc'[r], plan'[r])
  PROVE  PlanInv'
<1>1. \A q \in Requests : Ask(q)' = Ask(q)
  BY DEF Ask
<1>2. \A q \in Requests : PlanOk(Ask(q), pc[q], plan[q])
  BY DEF PlanInv
<1>3. \A q \in Requests : PlanOk(Ask(q)', pc'[q], plan'[q])
  BY <1>1, <1>2
<1> QED
  BY <1>3 DEF PlanInv

\* No plan at all is fine in every state of a handler that holds no report.
LEMMA NoPlanOk ==
  ASSUME NEW ask, NEW at, at \notin Reported
  PROVE  PlanOk(ask, at, NoPlan)
<1>1. NoPlan.best = <<>> /\ NoPlan.tx = <<>> /\ NoPlan = [best |-> NoPlan.best, tx |-> NoPlan.tx]
  BY DEF NoPlan
<1> QED
  BY <1>1 DEF PlanOk, Reported

\* A handler answers.
LEMMA AnswerKeepsPlan ==
  ASSUME PlanInv, RequestTypes, NEW r \in Requests, NEW code, Answer(r, code), UNCHANGED load
  PROVE  PlanInv'
<1>1. pc' = [pc EXCEPT ![r] = "done"] /\ plan' = IF code = 200 THEN plan ELSE [plan EXCEPT ![r] = NoPlan]
  BY DEF Answer, Go
<1>2. DOMAIN pc = Requests /\ DOMAIN plan = Requests
  BY DEF RequestTypes
<1>3. pc'[r] = "done" /\ \A q \in Requests : q # r => pc'[q] = pc[q] /\ plan'[q] = plan[q]
  BY <1>1, <1>2
<1>4. plan'[r] = plan[r] \/ plan'[r] = NoPlan
  BY <1>1, <1>2
<1>5. PlanOk(Ask(r), pc[r], plan[r])
  BY DEF PlanInv
<1>6. PlanOk(Ask(r), "done", plan[r])
  BY <1>5 DEF PlanOk, Reported, Planned
<1>7. PlanOk(Ask(r), "done", NoPlan)
  BY NoPlanOk DEF Reported
<1>8. PlanOk(Ask(r), pc'[r], plan'[r])
  BY <1>3, <1>4, <1>6, <1>7
<1> QED
  BY <1>3, <1>8, OnePlan

\* A handler goes on.
LEMMA OnKeepsPlan ==
  ASSUME PlanInv, RequestTypes, NEW r \in Requests, NEW to, Go(r, to), UNCHANGED <<load, plan>>,
         to = "block" => Ask(r).kind = "executable",
         (to \in Reported /\ Ask(r).kind = "executable") => pc[r] \in Reported,
         to \notin Planned => pc[r] \notin Planned
  PROVE  PlanInv'
<1>1. pc' = [pc EXCEPT ![r] = to] /\ DOMAIN pc = Requests
  BY DEF Go, RequestTypes
<1>2. pc'[r] = to /\ \A q \in Requests : q # r => pc'[q] = pc[q] /\ plan'[q] = plan[q]
  BY <1>1
<1>3. PlanOk(Ask(r), pc[r], plan[r])
  BY DEF PlanInv
<1>4. PlanOk(Ask(r), to, plan[r])
  BY <1>3 DEF PlanOk
<1>5. PlanOk(Ask(r), pc'[r], plan'[r])
  BY <1>2, <1>4
<1> QED
  BY <1>2, <1>5, OnePlan

\* Every step of a request's handler keeps the plans.
LEMMA HandlerKeepsPlan ==
  ASSUME PlanInv, RequestTypes, NEW r \in Requests,
         \/ Begin(r) \/ HandlerStep(r) \/ SearchReady(r) \/ SearchClosed(r) \/ ClientLeaves(r)
  PROVE  PlanInv'
<1> USE DEF Reported, Planned
<1>e. ASSUME NEW code, Answer(r, code), UNCHANGED load
      PROVE  PlanInv'
  BY <1>e, AnswerKeepsPlan
<1>1. CASE Begin(r)
  <2>1. UNCHANGED load /\ pc[r] = "idle"
    BY <1>1 DEF Begin
  <2>2. \/ Answer(r, 400) \/ Answer(r, 401) \/ Answer(r, 429) \/ On(r, "prepare") \/ On(r, "node")
    BY <1>1, ZenonT(60) DEF Begin
  <2> QED
    BY <1>e, <2>1, <2>2, OnKeepsPlan DEF On
<1>2. CASE ReadNode(r)
  <2>1. UNCHANGED load /\ pc[r] \in {"node", "fenceNode", "lastNode"}
    BY <1>2 DEF ReadNode
  <2>2. \/ Answer(r, 503)
        \/ pc[r] = "node" /\ On(r, "state")
        \/ pc[r] = "fenceNode" /\ On(r, "fenceState")
        \/ pc[r] = "lastNode" /\ On(r, "lastState")
    BY <1>2, <2>1 DEF ReadNode
  <2> QED
    BY <1>e, <2>1, <2>2, OnKeepsPlan DEF On
<1>3. CASE ReadState(r)
  <2>1. UNCHANGED load /\ pc[r] \in {"state", "fenceState", "lastState"}
    BY <1>3 DEF ReadState
  <2>2. \/ Answer(r, 503) \/ Answer(r, 200)
        \/ pc[r] = "state" /\ Go(r, "graph") /\ UNCHANGED plan
        \/ pc[r] = "fenceState" /\ Ask(r).kind = "executable" /\ On(r, "block")
    BY <1>3 DEF ReadState
  <2> QED
    BY <1>e, <2>1, <2>2, OnKeepsPlan DEF On
<1>4. CASE Graph(r)
  <2>1. UNCHANGED load /\ pc[r] = "graph"
    BY <1>4 DEF Graph
  <2>2. \/ Answer(r, 400) \/ Answer(r, 401) \/ Answer(r, 422) \/ Answer(r, 429)
        \/ On(r, "subscribe") \/ On(r, "prepare")
    BY <1>4, ZenonT(60) DEF Graph
  <2> QED
    BY <1>e, <2>1, <2>2, OnKeepsPlan DEF On
<1>5. CASE PrepareCall(r)
  <2>1. UNCHANGED load /\ pc[r] = "prepare"
    BY <1>5 DEF PrepareCall
  <2>2. Answer(r, 422) \/ On(r, "preparing")
    BY <1>5 DEF PrepareCall
  <2> QED
    BY <1>e, <2>1, <2>2, OnKeepsPlan DEF On
<1>6. CASE Prepared(r)
  <2>1. UNCHANGED load /\ pc[r] = "preparing"
    BY <1>6 DEF Prepared
  <2>2. Answer(r, 422) \/ Answer(r, 200) \/ Answer(r, 202) \/ On(r, "subscribe")
    BY <1>6, ZenonT(60) DEF Prepared
  <2> QED
    BY <1>e, <2>1, <2>2, OnKeepsPlan DEF On
<1>7. CASE Subscribe(r)
  <2>1. UNCHANGED load /\ pc[r] = "subscribe"
    BY <1>7 DEF Subscribe
  <2>2. Answer(r, 500) \/ (Go(r, "searching") /\ UNCHANGED plan)
    BY <1>7 DEF Subscribe
  <2> QED
    BY <1>e, <2>1, <2>2, OnKeepsPlan
<1>8. CASE SearchReady(r)
  <2>1. UNCHANGED load /\ pc[r] = "searching"
    BY <1>8 DEF SearchReady
  <2>2. CASE Ask(r).kind = "quote" /\ On(r, "fenceNode")
    BY <2>1, <2>2, OnKeepsPlan DEF On
  <2>3. ASSUME NEW report \in Reports, plan' = [plan EXCEPT ![r].best = report], Go(r, "fenceNode")
        PROVE  PlanInv'
    <3>1. PlanOk(Ask(r), pc[r], plan[r])
      BY DEF PlanInv
    <3>2. plan[r] = [best |-> plan[r].best, tx |-> plan[r].tx] /\ plan[r].tx = <<>>
      BY <2>1, <3>1 DEF PlanOk
    <3>3. DOMAIN pc = Requests /\ DOMAIN plan = Requests
      BY DEF RequestTypes
    <3>4. plan'[r] = [plan[r] EXCEPT !.best = report]
      BY <2>3, <3>3
    <3>5. [plan[r] EXCEPT !.best = report] = [best |-> report, tx |-> <<>>]
      BY <3>2
    <3>6. pc'[r] = "fenceNode" /\ \A q \in Requests : q # r => pc'[q] = pc[q] /\ plan'[q] = plan[q]
      BY <2>3, <3>3 DEF Go
    <3> DEFINE p == [best |-> report, tx |-> <<>>]
    <3>7. p.best = report /\ p.tx = <<>> /\ p = [best |-> p.best, tx |-> p.tx]
      OBVIOUS
    <3> HIDE DEF p
    <3>8. PlanOk(Ask(r), "fenceNode", p)
      BY <3>7 DEF PlanOk
    <3>9. plan'[r] = p
      BY <3>4, <3>5 DEF p
    <3> QED
      BY <2>1, <3>6, <3>8, <3>9, OnePlan
  <2> QED
    BY <1>8, <2>2, <2>3 DEF SearchReady
<1>9. CASE SearchClosed(r)
  BY <1>9, <1>e DEF SearchClosed
<1>10. CASE SearchTimesOut(r)
  BY <1>10, <1>e DEF SearchTimesOut
<1>11. CASE CallFails(r)
  BY <1>11, <1>e DEF CallFails
<1>12. CASE ClientLeaves(r)
  BY <1>12, <1>e DEF ClientLeaves
<1>13. CASE Approve(r)
  <2>1. UNCHANGED load /\ pc[r] = "approve"
    BY <1>13 DEF Approve
  <2>2. Answer(r, 428) \/ (Go(r, "simulate") /\ UNCHANGED plan)
    BY <1>13 DEF Approve
  <2> QED
    BY <1>e, <2>1, <2>2, OnKeepsPlan
<1>14. CASE Simulate(r)
  <2>1. UNCHANGED load /\ pc[r] = "simulate"
    BY <1>14 DEF Simulate
  <2>2. Answer(r, 422) \/ (Go(r, "lastNode") /\ UNCHANGED plan)
    BY <1>14, ZenonT(60) DEF Simulate
  <2> QED
    BY <1>e, <2>1, <2>2, OnKeepsPlan
<1>15. CASE Block(r)
  <2> DEFINE choices == Executable(plan[r].best)
             ask == Ask(r)
             swap == BuildExecutableSwap(choices, ExecutionRequest(ask, choices[1]))
             p == [best |-> <<choices[1]>>, tx |-> swap]
             to == IF swap[1].spender = 0 THEN "simulate" ELSE "approve"
  <2>1. UNCHANGED load /\ pc[r] = "block"
    BY <1>15 DEF Block
  <2>2. \/ Answer(r, 400) \/ Answer(r, 422) \/ Answer(r, 429)
        \/ /\ GoodDeadline(ask) /\ choices # <<>> /\ GoodTerms(ask, choices[1]) /\ swap # <<>>
           /\ plan' = [plan EXCEPT ![r] = p] /\ Go(r, to)
    BY <1>15, ZenonT(60) DEF Block
  <2>3. ASSUME GoodDeadline(ask), choices # <<>>, GoodTerms(ask, choices[1]), swap # <<>>,
               plan' = [plan EXCEPT ![r] = p], Go(r, to)
        PROVE  PlanInv'
    <3>1. PlanOk(ask, pc[r], plan[r])
      BY DEF PlanInv
    <3>2. ask.kind = "executable" /\ plan[r].best \in Reports
      BY <2>1, <3>1 DEF PlanOk
    <3>3. HasQuotes(choices)
      <4> DEFINE Q == {plan[r].best[i] : i \in DOMAIN plan[r].best}
      <4>1. choices \in Seq(Q)
        BY <3>2, ExecutableOfReport
      <4>2. \A q \in Q : IsQuote(q)
        BY <3>2, ReportAssumption
      <4> HIDE DEF Q, choices
      <4> QED
        BY <4>1, <4>2 DEF HasQuotes
    <3>4. DOMAIN pc = Requests /\ DOMAIN plan = Requests
      BY DEF RequestTypes
    <3>5. to \in Planned /\ to \notin Reported
      OBVIOUS
    <3> HIDE DEF choices, ask, swap, to
    <3>6. Packed(ask, choices, swap)
      BY <2>3, <3>3 DEF Packed, swap
    <3>7. p.best = <<choices[1]>> /\ p.tx = swap /\ p = [best |-> p.best, tx |-> p.tx]
      OBVIOUS
    <3> HIDE DEF p
    <3>8. pc'[r] = to /\ plan'[r] = p
          /\ \A q \in Requests : q # r => pc'[q] = pc[q] /\ plan'[q] = plan[q]
      BY <2>3, <3>4 DEF Go
    <3>9. PlanOk(ask, to, p)
      BY <3>2, <3>5, <3>6, <3>7 DEF PlanOk
    <3> QED
      BY <2>1, <3>8, <3>9, OnePlan DEF ask
  <2> QED
    BY <1>e, <2>1, <2>2, <2>3
<1> QED
  BY <1>1, <1>2, <1>3, <1>4, <1>5, <1>6, <1>7, <1>8, <1>9, <1>10, <1>11, <1>12, <1>13, <1>14, <1>15
     DEF HandlerStep

LEMMA PlanInit == Init => PlanInv
<1> SUFFICES ASSUME Init, NEW r \in Requests
             PROVE  PlanOk(Ask(r), pc[r], plan[r])
  BY DEF PlanInv
<1>1. pc[r] = "idle" /\ plan[r] = NoPlan
  BY DEF Init
<1> QED
  BY <1>1, NoPlanOk DEF Reported

LEMMA PlanStep == GenerationInv /\ PlanInv /\ [Next]_vars => PlanInv'
<1> SUFFICES ASSUME GenerationInv, PlanInv, [Next]_vars
             PROVE  PlanInv'
  OBVIOUS
<1>0. HistoryInv /\ SupervisorInv /\ RequestTypes
  BY DEF GenerationInv, RequestsInv
<1>1. CASE LoseTrust \/ PauseOrResume \/ HeadMovesOrNot
  BY <1>0, <1>1, ConnectionKeepsSupervisor, PlanSame
<1>2. CASE SupStep \/ BuildOk \/ Signal \/ Shutdown \/ CloseActive \/ Close
  BY <1>0, <1>2, SupervisorSteps, PlanSame
<1>3. CASE TokenStatus
  BY <1>3, PlanSame DEF TokenStatus
<1>4. CASE \E n \in Nodes : NodeStep(n)
  BY <1>4, PlanSame DEF NodeStep
<1>5. CASE \E r \in Requests : PrepareStep(r)
  BY <1>5, PlanSame DEF PrepareStep
<1>6. ASSUME NEW r \in Requests,
             \/ Begin(r) \/ HandlerStep(r) \/ SearchReady(r) \/ SearchClosed(r) \/ ClientLeaves(r)
      PROVE  PlanInv'
  BY <1>0, <1>6, HandlerKeepsPlan
<1>7. CASE UNCHANGED vars
  BY <1>7, PlanSame DEF vars
<1> QED
  BY <1>1, <1>2, <1>3, <1>4, <1>5, <1>6, <1>7 DEF Next

\* What build_executable_swap packs, of any registry, route and request: the router reverts or
\* pays at least the floor and no more than was quoted. It pays what was quoted under the
\* conditions the property states: every pool takes its whole input, no StableSwap pool rounds
\* before the last hop, and a last one that rounds costs one unit the floor allows.
THEOREM RoutesExecuteAsQuotedAlways == Spec => []RoutesExecuteAsQuoted
<1>1. GenerationInv /\ PlanInv => RoutesExecuteAsQuoted
  <2> SUFFICES ASSUME GenerationInv, PlanInv, NEW r \in Requests, plan[r].tx # <<>>
               PROVE  LET best == plan[r].best[1]
                          tx == plan[r].tx[1]
                          out == Execute(tx, Now)
                      IN /\ out # <<>> => out[1] \in tx.min .. best.amount_out
                         /\ (/\ \A i \in DOMAIN best.path : best.trace[i] <= Holds[best.path[i].pool]
                             /\ \A i \in 1 .. Len(best.path) - 1 : best.path[i].pool \notin Rounds
                             /\ tx.min <= best.amount_out - Rounding(best)) =>
                               out = <<best.amount_out - Rounding(best)>>
    BY DEF RoutesExecuteAsQuoted, Rounding
  <2>1. PlanOk(Ask(r), pc[r], plan[r])
    BY DEF PlanInv
  <2>2. PICK s : Packed(Ask(r), s, plan[r].tx) /\ plan[r].best = <<s[1]>>
    BY <2>1 DEF PlanOk
  <2>3. Ask(r).kind = "executable" /\ Ask(r) = load.requests[r] /\ load \in Loads
    BY <2>1 DEF PlanOk, Ask, GenerationInv, SupervisorInv
  <2>4. plan[r].best[1] = s[1]
    BY <2>2
  <2> DEFINE swap == plan[r].tx
  <2>5. Packed(load.requests[r], s, swap) /\ load.requests[r].kind = "executable"
    BY <2>2, <2>3
  <2> HIDE DEF swap
  <2>6. Execute(swap[1], Now) # <<>> =>
          Execute(swap[1], Now)[1] \in swap[1].min .. s[1].amount_out
    BY <2>3, <2>5, PackedBounded
  <2>7. (/\ \A i \in DOMAIN s[1].path : s[1].trace[i] <= Holds[s[1].path[i].pool]
         /\ \A i \in 1 .. Len(s[1].path) - 1 : s[1].path[i].pool \notin Rounds
         /\ swap[1].min <= s[1].amount_out - Rounding(s[1])) =>
           Execute(swap[1], Now) = <<s[1].amount_out - Rounding(s[1])>>
    BY <2>3, <2>5, PackedExecutes
  <2> QED
    BY <2>4, <2>6, <2>7 DEF swap
<1>2. GenerationInv /\ PlanInv /\ [Next]_vars => PlanInv'
  BY PlanStep
<1> QED
  BY <1>1, <1>2, PlanInit, GenerationInvariant, PTL DEF Spec

------------------------------------------------------------------------------
(* apply_delta *)

\* Of a finite set, the part X is exchanged for Y.
LEMMA Exchange ==
  ASSUME NEW U, NEW X, NEW Y, IsFiniteSet(U), IsFiniteSet(X), IsFiniteSet(Y),
         U \cap X = {}, U \cap Y = {}
  PROVE  Cardinality(U \cup X) + Cardinality(Y) - Cardinality(X) = Cardinality(U \cup Y)
<1>1. Cardinality(U) \in Nat /\ Cardinality(X) \in Nat /\ Cardinality(Y) \in Nat
  BY FS_CardinalityType
<1>2. Cardinality(U \cap X) = 0 /\ Cardinality(U \cap Y) = 0
  BY FS_EmptySet
<1>3. Cardinality(U \cup X) = Cardinality(U) + Cardinality(X) - Cardinality(U \cap X)
  BY FS_Union
<1>4. Cardinality(U \cup Y) = Cardinality(U) + Cardinality(Y) - Cardinality(U \cap Y)
  BY FS_Union
<1> QED
  BY <1>1, <1>2, <1>3, <1>4

Difference(A, B) ==
  [p \in {q \in Pools : A[q] # B[q]} |-> [before |-> A[p], after |-> B[p]]]

\* The counts that apply_delta keeps, of pools and of directed edges, are those of a graph
\* that is built anew.
LEMMA AppliedIsGraph ==
  ASSUME NEW A \in [Pools -> SUBSET Tokens], NEW B \in [Pools -> SUBSET Tokens], NEW v \in Nat
  PROVE  Applied(FromGraph(A, v), [version |-> v + 1, changes |-> Difference(A, B)])
           = FromGraph(B, v + 1)
<1> DEFINE c == Difference(A, B)
           D == {q \in Pools : A[q] # B[q]}
           Same == {q \in Pools : A[q] = B[q]}
<1>1. DOMAIN c = D /\ \A p \in D : c[p].before = A[p] /\ c[p].after = B[p]
  BY DEF Difference
<1>2. Changed(A, c) = B
  BY <1>1 DEF Changed
<1>3. ASSUME NEW t \in Tokens
      PROVE  Cardinality({p \in Pools : t \in A[p]}) + Cardinality(PoolsAfter(c, t))
               - Cardinality(PoolsBefore(c, t)) = Cardinality({p \in Pools : t \in B[p]})
  <2> DEFINE U == {p \in Same : t \in A[p]}
             X == PoolsBefore(c, t)
             Y == PoolsAfter(c, t)
  <2>1. X = {p \in D : t \in A[p]} /\ Y = {p \in D : t \in B[p]}
    BY <1>1 DEF PoolsBefore, PoolsAfter
  <2>2. U \in SUBSET Pools /\ X \in SUBSET Pools /\ Y \in SUBSET Pools
    BY <2>1
  <2>3. IsFiniteSet(U) /\ IsFiniteSet(X) /\ IsFiniteSet(Y)
    BY <2>2, FS_Subset, NodeAssumption
  <2>4. U \cap X = {} /\ U \cap Y = {}
    BY <2>1
  <2>5. {p \in Pools : t \in A[p]} = U \cup X /\ {p \in Pools : t \in B[p]} = U \cup Y
    BY <2>1
  <2> HIDE DEF U, X, Y
  <2>6. Cardinality(U \cup X) + Cardinality(Y) - Cardinality(X) = Cardinality(U \cup Y)
    BY <2>3, <2>4, Exchange
  <2> QED
    BY <2>5, <2>6 DEF X, Y
<1> DEFINE EdgesOf(T) == {e \in Pools \X (Tokens \X Tokens) : e[2] \in TokenPairs(T[e[1]])}
<1>4. Cardinality(EdgesOf(A)) + Cardinality(EdgesAfter(c)) - Cardinality(EdgesBefore(c))
        = Cardinality(EdgesOf(B))
  <2> DEFINE U == {e \in Same \X (Tokens \X Tokens) : e[2] \in TokenPairs(A[e[1]])}
             X == EdgesBefore(c)
             Y == EdgesAfter(c)
             All == Pools \X (Tokens \X Tokens)
  <2>1. /\ X = {e \in D \X (Tokens \X Tokens) : e[2] \in TokenPairs(A[e[1]])}
        /\ Y = {e \in D \X (Tokens \X Tokens) : e[2] \in TokenPairs(B[e[1]])}
    BY <1>1 DEF EdgesBefore, EdgesAfter
  <2>2. U \in SUBSET All /\ X \in SUBSET All /\ Y \in SUBSET All
    BY <2>1
  <2>3. IsFiniteSet(All)
    BY FS_Product, NodeAssumption
  <2>4. IsFiniteSet(U) /\ IsFiniteSet(X) /\ IsFiniteSet(Y)
    BY <2>2, <2>3, FS_Subset
  <2>5. U \cap X = {} /\ U \cap Y = {}
    BY <2>1
  <2>6. EdgesOf(A) = U \cup X /\ EdgesOf(B) = U \cup Y
    BY <2>1
  <2> HIDE DEF U, X, Y, EdgesOf
  <2>7. Cardinality(U \cup X) + Cardinality(Y) - Cardinality(X) = Cardinality(U \cup Y)
    BY <2>4, <2>5, Exchange
  <2> QED
    BY <2>6, <2>7 DEF X, Y
<1>5. FromGraph(A, v).pool_tokens = A
      /\ FromGraph(A, v).edges = Cardinality(EdgesOf(A))
      /\ FromGraph(A, v).token_pools = [t \in Tokens |-> Cardinality({p \in Pools : t \in A[p]})]
  BY DEF FromGraph
<1> HIDE DEF c, EdgesOf
<1>6. [t \in Tokens |-> FromGraph(A, v).token_pools[t] + Cardinality(PoolsAfter(c, t))
                          - Cardinality(PoolsBefore(c, t))]
        = [t \in Tokens |-> Cardinality({p \in Pools : t \in B[p]})]
  BY <1>3, <1>5
<1> QED
  BY <1>2, <1>4, <1>5, <1>6 DEF Applied, FromGraph, c, EdgesOf
------------------------------------------------------------------------------
(* The graph index *)

\* The deltas on their way are those of versions the route runtime has been through, and
\* that is never ahead of the AMM runtime.
Sent(n) == {Delta(n, v) : v \in 2 .. routed[n]}
EventsInv ==
  /\ routed \in [Nodes -> Nat] /\ DOMAIN events = Nodes /\ DOMAIN index = Nodes
  /\ \A n \in Nodes : /\ routed[n] <= Version(n) /\ events[n] \in Seq(Sent(n))
                      /\ history[n] # <<>> => routed[n] >= 1
IndexInv == EventsInv /\ IndexIsGraph

LEMMA VersionIsNat ==
  ASSUME HistoryInv, NEW n \in Nodes
  PROVE  /\ Version(n) \in Nat /\ (history[n] # <<>> <=> Version(n) >= 1)
         /\ \A v \in 1 .. Version(n) : history[n][v] \in Topologies
                                       /\ history[n][v] \in [Pools -> SUBSET Tokens]
<1>1. history[n] \in Seq(Topologies)
  BY DEF HistoryInv
<1>2. Len(history[n]) \in Nat /\ (history[n] # <<>> <=> Len(history[n]) >= 1)
  BY <1>1, EmptySeq
<1>3. \A v \in 1 .. Len(history[n]) : history[n][v] \in Topologies
  BY <1>1, ElementOfSeq
<1> QED
  BY <1>2, <1>3, NodeAssumption DEF Version

\* The deltas of versions that stay are the same.
LEMMA SentSame ==
  ASSUME NEW n \in Nodes, routed[n] \in Nat, routed'[n] = routed[n],
         \A v \in 1 .. routed[n] : history'[n][v] = history[n][v]
  PROVE  Sent(n)' = Sent(n)
<1>1. \A v \in 2 .. routed[n] : v - 1 \in 1 .. routed[n] /\ v \in 1 .. routed[n]
  OBVIOUS
<1>2. ASSUME NEW v \in 2 .. routed[n]
      PROVE  Delta(n, v)' = Delta(n, v)
  <2>1. history'[n][v] = history[n][v] /\ history'[n][v - 1] = history[n][v - 1]
    BY <1>1
  <2> QED
    BY <2>1 DEF Delta
<1> QED
  BY <1>2 DEF Sent

LEMMA IndexSame ==
  ASSUME IndexInv, UNCHANGED <<history, routed, events, index>>
  PROVE  IndexInv'
<1>1. \A n \in Nodes : Sent(n)' = Sent(n)
  BY SentSame DEF IndexInv, EventsInv
<1>2. \A n \in Nodes : Version(n)' = Version(n)
  BY DEF Version
<1>3. EventsInv'
  BY <1>1, <1>2 DEF IndexInv, EventsInv
<1>4. IndexIsGraph'
  BY <1>2 DEF IndexInv, IndexIsGraph
<1> QED
  BY <1>3, <1>4 DEF IndexInv

\* A version is committed: no earlier one changes.
LEMMA CommitKeepsIndex ==
  ASSUME HistoryInv, IndexInv, NEW n \in Nodes, NEW topology \in Topologies, history[n] # <<>>,
         history' = [history EXCEPT ![n] = Append(@, topology)], UNCHANGED <<routed, events, index>>
  PROVE  IndexInv'
<1>1. history[n] \in Seq(Topologies)
  BY DEF HistoryInv
<1>2. history'[n] = Append(history[n], topology) /\ \A m \in Nodes \ {n} : history'[m] = history[m]
  BY DEF HistoryInv
<1>3. /\ Len(history'[n]) = Len(history[n]) + 1
      /\ \A v \in 1 .. Len(history[n]) : history'[n][v] = history[n][v]
      /\ history'[n] # <<>>
  BY <1>1, <1>2, AppendProperties
<1>4. ASSUME NEW m \in Nodes
      PROVE  /\ Version(m) \in Nat /\ Version(m)' \in Nat /\ Version(m) <= Version(m)'
             /\ \A v \in 1 .. Version(m) : history'[m][v] = history[m][v]
             /\ (history'[m] # <<>>) <=> (history[m] # <<>>)
  BY <1>2, <1>3, VersionIsNat DEF Version
<1>5. ASSUME NEW m \in Nodes
      PROVE  routed'[m] <= Version(m)' /\ events'[m] \in Seq(Sent(m))'
             /\ (history'[m] # <<>> => routed'[m] >= 1)
  <2>1. routed[m] \in Nat /\ routed[m] <= Version(m)
    BY DEF IndexInv, EventsInv
  <2>0. Version(m) \in Nat /\ \A v \in 1 .. Version(m) : history'[m][v] = history[m][v]
    BY <1>4
  <2>2. ASSUME NEW v \in 1 .. routed[m]
        PROVE  history'[m][v] = history[m][v]
    <3>1. v \in 1 .. Version(m)
      BY <2>0, <2>1
    <3> QED
      BY <2>0, <3>1
  <2>3. Sent(m)' = Sent(m)
    BY <2>1, <2>2, SentSame
  <2> QED
    BY <1>4, <2>1, <2>3 DEF IndexInv, EventsInv
<1>6. ASSUME NEW m \in Nodes, history'[m] # <<>>
      PROVE  /\ index'[m].version \in 1 .. Version(m)'
             /\ index'[m] = FromGraph(history'[m][index'[m].version], index'[m].version)
  <2>1. /\ index[m].version \in 1 .. Version(m)
        /\ index[m] = FromGraph(history[m][index[m].version], index[m].version)
    BY <1>4, <1>6 DEF IndexInv, IndexIsGraph
  <2>2. /\ Version(m) \in Nat /\ Version(m)' \in Nat /\ Version(m) <= Version(m)'
        /\ \A v \in 1 .. Version(m) : history'[m][v] = history[m][v]
    BY <1>4
  <2>3. history'[m][index[m].version] = history[m][index[m].version]
    BY <2>1, <2>2
  <2>4. index' = index
    OBVIOUS
  <2>5. index[m].version \in 1 .. Version(m)'
    BY <2>1, <2>2
  <2> QED
    BY <2>1, <2>3, <2>4, <2>5
<1>7. EventsInv'
  BY <1>5 DEF IndexInv, EventsInv
<1>8. IndexIsGraph'
  BY <1>6 DEF IndexIsGraph
<1> QED
  BY <1>7, <1>8 DEF IndexInv

\* A delta is broadcast, and the oldest may be lost.
LEMMA RouteCommitKeepsIndex ==
  ASSUME HistoryInv, IndexInv, NEW n \in Nodes, RouteCommit(n)
  PROVE  IndexInv'
<1> DEFINE d == Delta(n, routed[n] + 1)
           sent == Append(events[n], d)
<1>1. /\ routed[n] < Version(n) /\ routed' = [routed EXCEPT ![n] = @ + 1]
      /\ UNCHANGED <<history, index>>
      /\ events' = [events EXCEPT ![n] = sent] \/ events' = [events EXCEPT ![n] = Tail(sent)]
  BY DEF RouteCommit
<1>2. routed[n] \in Nat /\ routed[n] >= 1 /\ routed'[n] = routed[n] + 1
  BY <1>1, VersionIsNat DEF IndexInv, EventsInv
<1>3. Sent(n)' = {Delta(n, v) : v \in 2 .. routed[n] + 1}
  BY <1>1, <1>2, ZenonT(30) DEF Sent, Delta
<1>4. Sent(n) \subseteq Sent(n)' /\ d \in Sent(n)'
  BY <1>2, <1>3 DEF Sent
<1>5. events[n] \in Seq(Sent(n)')
  BY <1>4 DEF IndexInv, EventsInv
<1> HIDE DEF d
<1>6. sent \in Seq(Sent(n)') /\ sent # <<>>
  BY <1>4, <1>5, AppendProperties
<1>7. Tail(sent) \in Seq(Sent(n)')
  BY <1>6, HeadTailProperties
<1>8. events'[n] \in Seq(Sent(n)')
  BY <1>1, <1>6, <1>7 DEF IndexInv, EventsInv
<1>9. ASSUME NEW m \in Nodes \ {n}
      PROVE  events'[m] \in Seq(Sent(m)') /\ routed'[m] = routed[m]
  <2>1. events'[m] = events[m] /\ routed'[m] = routed[m] /\ routed[m] \in Nat
    BY <1>1 DEF IndexInv, EventsInv
  <2>2. Sent(m)' = Sent(m)
    BY <1>1, <2>1, SentSame
  <2> QED
    BY <2>1, <2>2 DEF IndexInv, EventsInv
<1>10. \A m \in Nodes : routed'[m] <= Version(m)' /\ (history'[m] # <<>> => routed'[m] >= 1)
  <2> TAKE m \in Nodes
  <2>1. Version(m) \in Nat /\ Version(m)' = Version(m)
    BY <1>1, VersionIsNat DEF Version
  <2>2. CASE m = n
    BY <1>1, <1>2, <2>1, <2>2
  <2>3. CASE m # n
    BY <1>1, <1>9, <2>1, <2>3 DEF IndexInv, EventsInv
  <2> QED
    BY <2>2, <2>3
<1>11. routed' \in [Nodes -> Nat] /\ DOMAIN events' = Nodes /\ DOMAIN index' = Nodes
  BY <1>1, <1>2 DEF IndexInv, EventsInv
<1>12. EventsInv'
  BY <1>8, <1>9, <1>10, <1>11 DEF EventsInv
<1>13. IndexIsGraph'
  BY <1>1 DEF IndexInv, IndexIsGraph, Version
<1> QED
  BY <1>12, <1>13 DEF IndexInv

\* An index that is built from the latest version.
LEMMA RebuiltIsGraph ==
  ASSUME HistoryInv, NEW n \in Nodes, history[n] # <<>>
  PROVE  /\ Rebuilt(n).version \in 1 .. Version(n)
         /\ Rebuilt(n) = FromGraph(history[n][Rebuilt(n).version], Rebuilt(n).version)
BY VersionIsNat DEF Rebuilt, FromGraph
\* The updater takes an event: it is old, the next one that fits, or a reason to rebuild.
LEMMA IndexEventKeepsIndex ==
  ASSUME HistoryInv, IndexInv, NEW n \in Nodes, IndexEvent(n)
  PROVE  IndexInv'
<1>1. UNCHANGED <<history, routed>>
  BY DEF IndexEvent
<1>2. \A m \in Nodes : Version(m)' = Version(m) /\ Sent(m)' = Sent(m)
  BY <1>1, SentSame DEF Version, IndexInv, EventsInv
<1>3. events' = events \/ (events[n] # <<>> /\ events' = [events EXCEPT ![n] = Tail(@)])
  BY DEF IndexEvent
<1>4. EventsInv'
  <2>1. \A m \in Nodes : events'[m] \in Seq(Sent(m))
    <3>1. \A m \in Nodes : events[m] \in Seq(Sent(m))
      BY DEF IndexInv, EventsInv
    <3>2. events[n] # <<>> => Tail(events[n]) \in Seq(Sent(n))
      BY <3>1, HeadTailProperties
    <3> QED
      BY <1>3, <3>1, <3>2 DEF IndexInv, EventsInv
  <2>2. DOMAIN events' = Nodes /\ DOMAIN index' = Nodes
    BY <1>3 DEF IndexEvent, IndexInv, EventsInv
  <2> QED
    BY <1>1, <1>2, <2>1, <2>2 DEF IndexInv, EventsInv
<1> DEFINE Good(idx, m) == idx.version \in 1 .. Version(m)
                           /\ idx = FromGraph(history[m][idx.version], idx.version)
<1>5. \A m \in Nodes : history[m] # <<>> => Good(index[m], m)
  BY DEF IndexInv, IndexIsGraph
<1>6. SUFFICES \A m \in Nodes : history[m] # <<>> => Good(index'[m], m)
  BY <1>1, <1>2, <1>4 DEF IndexInv, IndexIsGraph
<1>7. CASE index' = index
  BY <1>5, <1>7
<1>8. ASSUME NEW idx, index' = [index EXCEPT ![n] = idx], history[n] # <<>> => Good(idx, n)
      PROVE  \A m \in Nodes : history[m] # <<>> => Good(index'[m], m)
  BY <1>5, <1>8 DEF IndexInv, EventsInv
<1>9. history[n] # <<>> => Good(Rebuilt(n), n)
  BY RebuiltIsGraph
<1>10. CASE index' = [index EXCEPT ![n] = Rebuilt(n)]
  BY <1>8, <1>9, <1>10
<1>11. CASE events[n] # <<>> /\ Coherent(index[n], Head(events[n]))
            /\ index' = [index EXCEPT ![n] = Applied(index[n], Head(events[n]))]
  <2> DEFINE d == Head(events[n])
  <2>1. d \in Sent(n)
    BY <1>11, HeadTailProperties DEF IndexInv, EventsInv
  <2>2. PICK v \in 2 .. routed[n] : d = Delta(n, v)
    BY <2>1 DEF Sent
  <2>3. Version(n) \in Nat /\ routed[n] \in Nat /\ routed[n] <= Version(n) /\ history[n] # <<>>
    BY <2>2, VersionIsNat DEF IndexInv, EventsInv
  <2>4. v - 1 \in 1 .. Version(n) /\ v \in 1 .. Version(n) /\ v - 1 \in Nat /\ (v - 1) + 1 = v
    BY <2>3
  <2>5. history[n][v - 1] \in [Pools -> SUBSET Tokens] /\ history[n][v] \in [Pools -> SUBSET Tokens]
    BY <2>4, VersionIsNat
  <2>6. d = [version |-> v, changes |-> Difference(history[n][v - 1], history[n][v])]
    BY <2>2 DEF Delta, Difference
  <2>7. index[n].version \in 1 .. Version(n) /\ d.version = v
    BY <1>5, <2>3, <2>6
  <2>8. index[n].version = v - 1
    BY <1>11, <2>4, <2>7 DEF Coherent
  <2>9. index[n] = FromGraph(history[n][v - 1], v - 1)
    BY <1>5, <2>3, <2>8
  <2>10. Applied(index[n], d) = FromGraph(history[n][v], v)
    BY <2>4, <2>5, <2>6, <2>9, AppliedIsGraph
  <2>11. Good(FromGraph(history[n][v], v), n)
    BY <2>4 DEF FromGraph
  <2> QED
    BY <1>8, <1>11, <2>10, <2>11
<1> QED
  BY <1>7, <1>10, <1>11 DEF IndexEvent

\* A new node has the index of its first version.
LEMMA FreshNodeKeepsIndex ==
  ASSUME HistoryInv, IndexInv, NEW n \in Nodes, history[n] = <<>>, NEW topology \in Topologies,
         NEW configured, FreshNode(n, topology, configured)
  PROVE  IndexInv'
<1>1. /\ history' = [history EXCEPT ![n] = <<topology>>] /\ routed' = [routed EXCEPT ![n] = 1]
      /\ index' = [index EXCEPT ![n] = FromGraph(topology, 1)] /\ events' = events
  BY DEF FreshNode
<1>2. /\ history'[n] = <<topology>> /\ \A m \in Nodes \ {n} : history'[m] = history[m]
      /\ routed'[n] = 1 /\ \A m \in Nodes \ {n} : routed'[m] = routed[m]
      /\ index'[n] = FromGraph(topology, 1) /\ \A m \in Nodes \ {n} : index'[m] = index[m]
  BY <1>1 DEF HistoryInv, IndexInv, EventsInv
<1>3. \A m \in Nodes \ {n} : Version(m)' = Version(m) /\ Sent(m)' = Sent(m)
  BY <1>2, SentSame DEF Version, IndexInv, EventsInv
<1>4. events[n] \in Seq({})
  <2>1. routed[n] = 0
    BY VersionIsNat DEF IndexInv, EventsInv
  <2>2. Sent(n) = {}
    BY <2>1 DEF Sent
  <2> QED
    BY <2>2 DEF IndexInv, EventsInv
<1>5. Sent(n)' = {}
  BY <1>2 DEF Sent
<1>6. Version(n)' = 1 /\ history'[n][1] = topology /\ history'[n] # <<>>
  BY <1>2 DEF Version
<1>7. EventsInv'
  <2>1. routed' \in [Nodes -> Nat] /\ DOMAIN events' = Nodes /\ DOMAIN index' = Nodes
    BY <1>1 DEF IndexInv, EventsInv
  <2>2. \A m \in Nodes : /\ routed'[m] <= Version(m)' /\ events'[m] \in Seq(Sent(m)')
                         /\ history'[m] # <<>> => routed'[m] >= 1
    <3> TAKE m \in Nodes
    <3>1. CASE m = n
      BY <3>1, <1>1, <1>2, <1>4, <1>5, <1>6
    <3>2. CASE m # n
      BY <3>2, <1>1, <1>2, <1>3 DEF IndexInv, EventsInv
    <3> QED
      BY <3>1, <3>2
  <2> QED
    BY <2>1, <2>2 DEF EventsInv
<1>8. IndexIsGraph'
  <2> SUFFICES ASSUME NEW m \in Nodes, history'[m] # <<>>
               PROVE  /\ index'[m].version \in 1 .. Version(m)'
                      /\ index'[m] = FromGraph(history'[m][index'[m].version], index'[m].version)
    BY DEF IndexIsGraph
  <2>1. CASE m = n
    BY <2>1, <1>2, <1>6 DEF FromGraph
  <2>2. CASE m # n
    BY <2>2, <1>2, <1>3 DEF IndexInv, IndexIsGraph
  <2> QED
    BY <2>1, <2>2
<1> QED
  BY <1>7, <1>8 DEF IndexInv
------------------------------------------------------------------------------
(* What a step of the sidecar is to the nodes *)

\* A handler calls prepare_token on the active node.
CallsPrepare(r) ==
  /\ pc[r] = "prepare" /\ pc' = [pc EXCEPT ![r] = "preparing"]
  /\ active \in Nodes /\ history[active] # <<>>
  /\ \E refresh \in BOOLEAN, wait \in BOOLEAN : StartPrepare(r, active, refresh, wait)
  /\ UNCHANGED <<history, routed, amm, routes, events, lagged, index, work, found, cov, expired,
                 holder, gaveUp>>

RuntimeStep(n) ==
  \/ \E topology \in Topologies : AmmCommit(n, topology)
  \/ \E r \in Requests, topology \in Topologies : DiscoveryDone(n, r, topology)
  \/ RouteCommit(n) \/ IndexEvent(n) \/ NegativeExpires(n) \/ RoutesFail(n) \/ RefreshCoverage(n)
PreparationStep(r) ==
  \/ ReadCoverage(r) \/ WaitIdle(r) \/ Settle(r) \/ PrepareTimesOut(r) \/ PrepareDropped(r)
  \/ \E accepted \in BOOLEAN : QueueDiscovery(r, accepted)

NodesNext ==
  \/ UNCHANGED nodeVars
  \/ \E n : NodeShutdown(n) \/ NodeLeft(n)
  \/ /\ Built + 1 \in Nodes
     /\ \E topology \in Topologies : FreshNode(Built + 1, topology, load.configured)
  \/ \E n \in Nodes : RuntimeStep(n)
  \/ \E r \in Requests : PreparationStep(r) \/ CallsPrepare(r)

LEMMA SidecarIsNodesNext ==
  ASSUME GenerationInv, [Next]_vars
  PROVE  NodesNext
<1>0. /\ HistoryInv /\ SupervisorInv /\ RequestsInv /\ load.topologies \subseteq Topologies
      /\ load.nodes \in 1 .. Cardinality(Nodes) /\ Built \in Nodes
  BY LoadAssumption DEF GenerationInv, SupervisorInv, HistoryInv
<1>1. CASE UNCHANGED vars \/ LoseTrust \/ PauseOrResume \/ HeadMovesOrNot \/ Signal \/ Shutdown
           \/ CloseActive
  BY <1>1 DEF vars, LoseTrust, PauseOrResume, HeadMovesOrNot, Signal, Shutdown, CloseActive,
              NodesNext
<1>2. CASE SupStep
  BY <1>2 DEF SupStep, Check, Take, Invalidate, DrainOld, BuildFails, NotifiedWhileBuilding,
              DelayOver, Publish, Ready, NodesNext
<1>3. CASE BuildOk
  <2>1. Built + 1 \in Nodes
    BY <1>0, <1>3, NodeAssumption DEF BuildOk
  <2> QED
    BY <1>0, <1>3, <2>1 DEF BuildOk, NodesNext
<1>4. CASE Close
  BY <1>4 DEF Close, NodesNext
<1>5. CASE TokenStatus
  <2>1. ~shutting
    BY <1>0, <1>5 DEF TokenStatus, SupervisorInv
  <2>2. active \in Nodes /\ RefreshCoverage(active)
    BY <1>0, <1>5, <2>1, ActiveNode DEF TokenStatus
  <2> QED
    BY <2>2 DEF RuntimeStep, NodesNext
<1>6. ASSUME NEW n \in Nodes, NodeStep(n)
      PROVE  NodesNext
  BY <1>0, <1>6 DEF NodeStep, RuntimeStep, NodesNext
<1>7. ASSUME NEW r \in Requests, PrepareStep(r)
      PROVE  NodesNext
  BY <1>7 DEF PrepareStep, PreparationStep, NodesNext
<1>8. ASSUME NEW r \in Requests, PrepareCall(r)
      PROVE  NodesNext
  <2>1. CASE active = 0
    BY <1>8, <2>1 DEF PrepareCall, NodesNext, nodeVars
  <2>2. CASE active # 0
    <3>1. pc[r] = "prepare" /\ ~shutting
      BY <1>0, <1>8, NotShutting DEF PrepareCall
    <3>2. active \in Nodes /\ history[active] # <<>>
      BY <1>0, <2>2, <3>1, ActiveNode, NodeAssumption DEF HistoryInv
    <3>3. StartPrepare(r, active, Ask(r).discovery = "refresh", Ask(r).kind # "prewarm" \/ Ask(r).wait)
      BY <1>8, <2>2 DEF PrepareCall
    <3>4. (Ask(r).discovery = "refresh") \in BOOLEAN
          /\ (Ask(r).kind # "prewarm" \/ Ask(r).wait) \in BOOLEAN
      OBVIOUS
    <3>5. \E refresh \in BOOLEAN, wait \in BOOLEAN : StartPrepare(r, active, refresh, wait)
      BY <3>3, <3>4
    <3>6. CallsPrepare(r)
      BY <1>8, <2>2, <3>1, <3>2, <3>5 DEF PrepareCall, CallsPrepare, On, Go
    <3> QED
      BY <3>6 DEF NodesNext
  <2> QED
    BY <2>1, <2>2
<1>9. ASSUME NEW r \in Requests,
             \/ Begin(r) \/ ReadNode(r) \/ ReadState(r) \/ Graph(r) \/ Prepared(r) \/ Subscribe(r)
             \/ SearchReady(r) \/ SearchClosed(r) \/ SearchTimesOut(r) \/ CallFails(r) \/ Block(r)
             \/ Approve(r) \/ Simulate(r)
      PROVE  NodesNext
  <2>1. UNCHANGED nodeVars
    BY <1>9 DEF Begin, ReadNode, ReadState, Graph, Prepared, Subscribe, SearchReady, SearchClosed,
                SearchTimesOut, CallFails, Block, Approve, Simulate
  <2> QED
    BY <2>1 DEF NodesNext
<1>10. ASSUME NEW r \in Requests, ClientLeaves(r)
       PROVE  NodesNext
  BY <1>10 DEF ClientLeaves, PreparationStep, NodesNext
<1> QED
  BY <1>1, <1>2, <1>3, <1>4, <1>5, <1>6, <1>7, <1>8, <1>9, <1>10 DEF Next, HandlerStep

\* The histories with the indexes: no step but these three touches an index.
LEMMA IndexStep ==
  ASSUME HistoryInv, IndexInv, NodesNext
  PROVE  IndexInv'
<1>1. CASE UNCHANGED nodeVars \/ \E n : NodeShutdown(n) \/ NodeLeft(n)
  BY <1>1, IndexSame DEF nodeVars, NodeShutdown, NodeLeft
<1>2. ASSUME Built + 1 \in Nodes, NEW topology \in Topologies,
             FreshNode(Built + 1, topology, load.configured)
      PROVE  IndexInv'
  <2>1. Built \in Nat /\ ~(Built + 1 <= Built)
    BY NodeAssumption DEF HistoryInv
  <2>2. history[Built + 1] = <<>>
    BY <1>2, <2>1 DEF HistoryInv
  <2> QED
    BY <1>2, <2>2, FreshNodeKeepsIndex
<1>3. ASSUME NEW n \in Nodes, RuntimeStep(n)
      PROVE  IndexInv'
  <2>1. ASSUME NEW topology \in Topologies, AmmCommit(n, topology)
        PROVE  IndexInv'
    BY <2>1, CommitKeepsIndex DEF AmmCommit, HistoryInv
  <2>2. ASSUME NEW r \in Requests, NEW topology \in Topologies, DiscoveryDone(n, r, topology)
        PROVE  IndexInv'
    <3>1. CASE history' = history
      BY <2>2, <3>1, IndexSame DEF DiscoveryDone
    <3>2. CASE history' = [history EXCEPT ![n] = Append(@, topology)]
      BY <2>2, <3>2, CommitKeepsIndex DEF DiscoveryDone, HistoryInv
    <3> QED
      BY <2>2, <3>1, <3>2 DEF DiscoveryDone
  <2>3. CASE NegativeExpires(n) \/ RoutesFail(n) \/ RefreshCoverage(n)
    BY <2>3, IndexSame DEF NegativeExpires, RoutesFail, RefreshCoverage
  <2> QED
    BY <1>3, <2>1, <2>2, <2>3, RouteCommitKeepsIndex, IndexEventKeepsIndex DEF RuntimeStep
<1>4. ASSUME NEW r \in Requests, PreparationStep(r) \/ CallsPrepare(r)
      PROVE  IndexInv'
  BY <1>4, IndexSame DEF PreparationStep, ReadCoverage, WaitIdle, Settle, PrepareTimesOut,
                         PrepareDropped, QueueDiscovery, CallsPrepare
<1> QED
  BY <1>1, <1>2, <1>3, <1>4 DEF NodesNext

LEMMA IndexInit == Init => IndexInv
<1> SUFFICES ASSUME Init
             PROVE  IndexInv
  OBVIOUS
<1>1. load.topologies \subseteq Topologies
  BY LoadAssumption DEF Init
<1>2. PICK topology \in load.topologies : NodeInit(topology, load.configured)
  BY DEF Init
<1>3. /\ history = [n \in Nodes |-> IF n = 1 THEN <<topology>> ELSE <<>>]
      /\ routed = [n \in Nodes |-> IF n = 1 THEN 1 ELSE 0] /\ events = [n \in Nodes |-> <<>>]
      /\ index = [n \in Nodes |-> IF n = 1 THEN FromGraph(topology, 1)
                                  ELSE FromGraph([p \in Pools |-> {}], 0)]
  BY <1>2 DEF NodeInit
<1>4. EventsInv
  <2>1. \A n \in Nodes : Version(n) = routed[n] /\ routed[n] \in Nat
    BY <1>3 DEF Version
  <2>2. \A n \in Nodes : history[n] # <<>> => routed[n] >= 1
    BY <1>3
  <2>3. \A n \in Nodes : events[n] \in Seq(Sent(n))
    BY <1>3, EmptySeq
  <2> QED
    BY <1>3, <2>1, <2>2, <2>3 DEF EventsInv
<1>5. IndexIsGraph
  <2> SUFFICES ASSUME NEW n \in Nodes, history[n] # <<>>
               PROVE  /\ index[n].version \in 1 .. Version(n)
                      /\ index[n] = FromGraph(history[n][index[n].version], index[n].version)
    BY DEF IndexIsGraph
  <2>1. n = 1
    BY <1>3
  <2>2. history[n] = <<topology>> /\ index[n] = FromGraph(topology, 1)
    BY <1>3, <2>1
  <2>3. index[n].version = 1 /\ Version(n) = 1
    BY <2>2 DEF FromGraph, Version
  <2> QED
    BY <2>2, <2>3
<1> QED
  BY <1>4, <1>5 DEF IndexInv

\* The graph index that answers requests is always that of one AMM version of its node:
\* from_graph and apply_delta give the same counts, and spawn_graph_index_updater rebuilds
\* whenever a delta does not fit, whatever was lost or overtaken, for any pools, tokens,
\* versions and capacity of the broadcast.
THEOREM IndexIsGraphAlways == Spec => []IndexIsGraph
<1>1. Init => GenerationInv /\ IndexInv
  BY GenerationInit, IndexInit
<1>2. GenerationInv /\ IndexInv /\ [Next]_vars => (GenerationInv /\ IndexInv)'
  BY GenerationStep, SidecarIsNodesNext, IndexStep DEF GenerationInv
<1>3. IndexInv => IndexIsGraph
  BY DEF IndexInv
<1> QED
  BY <1>1, <1>2, <1>3, PTL DEF Spec
------------------------------------------------------------------------------
(* The preparations of the token *)

Stages == {"none", "lock", "queue", "idle", "version", "done", "joined", "failed"}
PrepTypes ==
  /\ prep \in [Requests -> [stage : Stages, refresh : BOOLEAN, wait : BOOLEAN, node : Nodes,
                            target : Nat]]
  /\ cov \in [Nodes -> CoverageStates] /\ DOMAIN expired = Nodes
  /\ holder \in [Nodes -> Requests \cup {0}] /\ work \in [Nodes -> SUBSET Requests]
  /\ found \in [Requests -> Nat] /\ gaveUp \in BOOLEAN

\* A request prepares once, on a node that was built; it holds the token's lock while it
\* queues its job, and waits for a version that has what the job found.
Early == {"idle", "node", "state", "graph", "prepare"}
PrepOf(r) ==
  /\ history[prep[r].node] # <<>>
  /\ pc[r] \in Early => prep[r].stage = "none"
  /\ prep[r].stage = "none" => ~prep[r].refresh /\ found[r] = 0
  /\ prep[r].stage = "queue" => holder[prep[r].node] = r
  /\ found[r] <= Version(prep[r].node)
  /\ prep[r].stage = "version" => found[r] <= prep[r].target
WorkInv ==
  \A n \in Nodes : \A r \in work[n] : prep[r].node = n /\ prep[r].stage \in {"idle", "failed"}

\* Without a refresh the ledger says Discovering while somebody waits for a discovery, which
\* is one request. (After that one gave up it still does, and nobody waits.)
Waits(r) == prep[r].stage \in {"idle", "version"}
Quiet == \A r \in Requests : ~prep[r].refresh
LedgerInv ==
  /\ \A r \in Requests : prep[r].stage = "queue" => cov[prep[r].node] # "discovering"
  /\ \A r \in Requests : Waits(r) => cov[prep[r].node] = "discovering"
  /\ \A q \in Requests, r \in Requests :
       (Waits(q) /\ Waits(r) /\ prep[q].node = prep[r].node) => q = r
PrepInv == PrepTypes /\ (\A r \in Requests : PrepOf(r)) /\ WorkInv /\ (Quiet => LedgerInv)
\* No step takes a version away, and no handler is before its preparation again.
HistoryGrows ==
  \A n \in Nodes : /\ Version(n) \in Nat /\ Version(n)' \in Nat /\ Version(n) <= Version(n)'
                   /\ history[n] # <<>> => history'[n] # <<>>
PcForward == \A r \in Requests : pc'[r] \in Early => pc[r] \in Early

\* A step that leaves a request's preparation and its job alone.
LEMMA PrepOfSame ==
  ASSUME PrepInv, HistoryGrows, PcForward, NEW r \in Requests, prep'[r] = prep[r],
         found'[r] = found[r],
         holder[prep[r].node] = r => holder'[prep[r].node] = r
  PROVE  PrepOf(r)'
<1>1. PrepOf(r) /\ found[r] \in Nat
  BY DEF PrepInv, PrepTypes
<1>2. PICK m \in Nodes : prep[r].node = m
  BY DEF PrepInv, PrepTypes
<1>3. Len(history[m]) \in Nat /\ Len(history'[m]) \in Nat /\ Len(history[m]) <= Len(history'[m])
      /\ (history[m] # <<>> => history'[m] # <<>>)
  BY DEF HistoryGrows, Version
<1> QED
  BY <1>1, <1>2, <1>3 DEF PrepOf, PcForward, Version

LEMMA PrepSame ==
  ASSUME PrepInv, HistoryGrows, PcForward, UNCHANGED <<prep, cov, holder, work, found, gaveUp>>,
         DOMAIN expired' = Nodes
  PROVE  PrepInv'
<1>1. PrepTypes'
  BY DEF PrepInv, PrepTypes
<1>2. \A r \in Requests : PrepOf(r)'
  BY PrepOfSame
<1>3. WorkInv'
  BY DEF PrepInv, WorkInv
<1>4. (Quiet => LedgerInv)'
  BY DEF PrepInv, Quiet, LedgerInv, Waits
<1> QED
  BY <1>1, <1>2, <1>3, <1>4 DEF PrepInv

\* Nobody prepares on a node that is only being built.
LEMMA FreshNodeKeepsPrep ==
  ASSUME PrepInv, HistoryGrows, PcForward, NEW n \in Nodes, history[n] = <<>>,
         NEW topology, NEW configured, FreshNode(n, topology, configured)
  PROVE  PrepInv'
<1>1. /\ UNCHANGED <<work, found, holder, prep, gaveUp>>
      /\ cov' = [cov EXCEPT ![n] = ConfiguredCoverage(topology, configured)]
      /\ expired' = [expired EXCEPT ![n] = FALSE]
  BY DEF FreshNode, Mutate
<1>2. ConfiguredCoverage(topology, configured) \in CoverageStates
  BY DEF ConfiguredCoverage, Settled, CoverageStates
<1>3. PrepTypes'
  BY <1>1, <1>2 DEF PrepInv, PrepTypes
<1>4. \A r \in Requests : PrepOf(r)'
  BY <1>1, PrepOfSame
<1>5. WorkInv'
  BY <1>1 DEF PrepInv, WorkInv
<1>6. \A r \in Requests : prep[r].node \in Nodes \ {n}
  BY DEF PrepInv, PrepOf, PrepTypes
<1>7. \A r \in Requests : cov'[prep[r].node] = cov[prep[r].node]
  BY <1>1, <1>6 DEF PrepInv, PrepTypes
<1>8. (Quiet => LedgerInv)'
  BY <1>1, <1>7 DEF PrepInv, Quiet, LedgerInv, Waits
<1> QED
  BY <1>3, <1>4, <1>5, <1>8 DEF PrepInv

\* token_coverage turns no Discovering into anything else, nor anything into it.
LEMMA RefreshCoverageKeepsPrep ==
  ASSUME PrepInv, HistoryGrows, PcForward, NEW n \in Nodes, RefreshCoverage(n)
  PROVE  PrepInv'
<1>1. /\ UNCHANGED <<work, found, holder, prep, gaveUp>>
      /\ cov' = [cov EXCEPT ![n] = IF GraphContains(n, Wanted) /\ cov[n] \in {"unknown", "empty"}
                                   THEN "ready" ELSE cov[n]]
      /\ expired' = [expired EXCEPT ![n] = FALSE]
  BY DEF RefreshCoverage, RefreshGraphState, Mutate
<1>2. cov \in [Nodes -> CoverageStates]
  BY DEF PrepInv, PrepTypes
<1>3. cov' \in [Nodes -> CoverageStates]
      /\ \A m \in Nodes : cov'[m] = "discovering" <=> cov[m] = "discovering"
  BY <1>1, <1>2 DEF CoverageStates
<1>4. PrepTypes'
  BY <1>1, <1>3 DEF PrepInv, PrepTypes
<1>5. \A r \in Requests : PrepOf(r)'
  BY <1>1, PrepOfSame
<1>6. WorkInv'
  BY <1>1 DEF PrepInv, WorkInv
<1>7. \A r \in Requests : prep[r].node \in Nodes
  BY DEF PrepInv, PrepTypes
<1>8. (Quiet => LedgerInv)'
  BY <1>1, <1>3, <1>7 DEF PrepInv, Quiet, LedgerInv, Waits
<1> QED
  BY <1>4, <1>5, <1>6, <1>8 DEF PrepInv

\* A job is done; nobody waits for a version yet whose own job still runs.
LEMMA DiscoveryDoneKeepsPrep ==
  ASSUME PrepInv, HistoryGrows, PcForward, NEW n \in Nodes, NEW r \in Requests, NEW topology,
         DiscoveryDone(n, r, topology)
  PROVE  PrepInv'
<1>1. /\ r \in work[n] /\ work' = [work EXCEPT ![n] = @ \ {r}]
      /\ found' = [found EXCEPT ![r] = Version(n)'] /\ UNCHANGED <<cov, expired, holder, prep, gaveUp>>
  BY DEF DiscoveryDone, Version
<1>2. PrepTypes'
  BY <1>1 DEF PrepInv, PrepTypes, HistoryGrows
<1>3. WorkInv'
  BY <1>1 DEF PrepInv, PrepTypes, WorkInv
<1>4. ASSUME NEW q \in Requests
      PROVE  PrepOf(q)'
  <2>1. CASE q # r
    BY <1>1, <2>1, PrepOfSame DEF PrepInv, PrepTypes
  <2>2. CASE q = r
    <3>1. prep[r].node = n /\ prep[r].stage \in {"idle", "failed"} /\ found'[r] = Version(n)'
      BY <1>1 DEF PrepInv, PrepTypes, WorkInv
    <3>2. PrepOf(r) /\ history'[n] # <<>> /\ Version(n)' \in Nat
      BY <3>1 DEF PrepInv, PrepOf, HistoryGrows
    <3> QED
      BY <1>1, <2>2, <3>1, <3>2 DEF PrepOf, PcForward, Version
  <2> QED
    BY <2>1, <2>2
<1>5. (Quiet => LedgerInv)'
  BY <1>1 DEF PrepInv, Quiet, LedgerInv, Waits
<1> QED
  BY <1>2, <1>3, <1>4, <1>5 DEF PrepInv
\* What Stage does to the preparation of r.
LEMMA StageIs ==
  ASSUME PrepTypes, NEW r \in Requests, NEW s \in Stages, Stage(r, s)
  PROVE  /\ prep' \in [Requests -> [stage : Stages, refresh : BOOLEAN, wait : BOOLEAN, node : Nodes,
                                    target : Nat]]
         /\ \A q \in Requests \ {r} : prep'[q] = prep[q]
         /\ prep'[r].stage = s /\ prep'[r].refresh = prep[r].refresh
         /\ prep'[r].node = prep[r].node /\ prep'[r].wait = prep[r].wait
BY ZenonT(30) DEF PrepTypes, Stage

\* The lock goes back only from the request that holds it.
LEMMA UnlockedIs ==
  ASSUME PrepTypes, NEW r \in Requests
  PROVE  /\ Unlocked(r) \in [Nodes -> Requests \cup {0}]
         /\ \A n \in Nodes : holder[n] # r => Unlocked(r)[n] = holder[n]
BY DEF PrepTypes, Unlocked

\* One request's preparation moves to a stage in which it neither queues nor waits.
LEMMA StageEnds ==
  ASSUME PrepInv, HistoryGrows, PcForward, NEW r \in Requests, NEW s \in {"done", "failed"},
         Stage(r, s), prep[r].stage # "none", history' = history, found' = found, PrepTypes',
         \A n \in Nodes : holder[n] # r /\ holder[n] # 0 => holder'[n] = holder[n]
  PROVE  \A q \in Requests : PrepOf(q)'
<1>0. s \in Stages /\ s \notin {"none", "queue", "version"}
  BY DEF Stages
<1>1. /\ \A q \in Requests \ {r} : prep'[q] = prep[q]
      /\ prep'[r].stage = s /\ prep'[r].node = prep[r].node
  BY <1>0, StageIs DEF PrepInv
<1> TAKE q \in Requests
<1>2. CASE q # r
  <2>1. holder[prep[q].node] = q => holder'[prep[q].node] = q
    BY <1>2, NodeAssumption DEF PrepInv, PrepTypes
  <2> QED
    BY <1>1, <1>2, <2>1, PrepOfSame
<1>3. CASE q = r
  <2>1. PrepOf(r)
    BY DEF PrepInv
  <2> QED
    BY <1>0, <1>1, <1>3, <2>1 DEF PrepOf, PcForward, Version
<1> QED
  BY <1>2, <1>3

LEMMA ReadCoverageKeepsPrep ==
  ASSUME PrepInv, HistoryGrows, PcForward, NEW r \in Requests, ReadCoverage(r)
  PROVE  PrepInv'
<1>1. PICK n \in Nodes : prep[r].node = n
  BY DEF PrepInv, PrepTypes
<1>2. /\ prep[r].stage = "lock" /\ holder[n] = 0
      /\ UNCHANGED <<history, work, found, cov, expired, gaveUp>>
      /\ \/ (Stage(r, "done") \/ Stage(r, "joined")) /\ UNCHANGED holder
         \/ /\ ~Covered(n) \/ prep[r].refresh
            /\ Stage(r, "queue") /\ holder' = [holder EXCEPT ![n] = r]
  BY <1>1 DEF ReadCoverage, LockFree
<1>3. PICK s \in {"done", "joined", "queue"} : Stage(r, s)
  BY <1>2
<1>4. s \in Stages
  BY DEF Stages
<1>5. /\ \A q \in Requests \ {r} : prep'[q] = prep[q]
      /\ prep'[r].stage = s /\ prep'[r].refresh = prep[r].refresh /\ prep'[r].node = n
  BY <1>1, <1>3, <1>4, StageIs DEF PrepInv
<1>6. PrepTypes'
  BY <1>2, <1>3, <1>4, StageIs DEF PrepInv, PrepTypes
<1>7. ASSUME NEW q \in Requests
      PROVE  PrepOf(q)'
  <2>1. CASE q # r
    <3>1. holder[prep[q].node] = q => holder'[prep[q].node] = q
      BY <1>2, <2>1, NodeAssumption DEF PrepInv, PrepTypes
    <3> QED
      BY <1>2, <1>5, <2>1, <3>1, PrepOfSame
  <2>2. CASE q = r
    <3>1. PrepOf(r) /\ holder \in [Nodes -> Requests \cup {0}]
      BY DEF PrepInv, PrepTypes
    <3>2. s = "queue" => holder'[n] = r
      BY <1>2, <1>5, <3>1, StageIs DEF PrepInv, Stages
    <3> QED
      BY <1>1, <1>2, <1>5, <2>2, <3>1, <3>2 DEF PrepOf, PcForward, Version
  <2> QED
    BY <2>1, <2>2
<1>8. WorkInv'
  BY <1>2, <1>5 DEF PrepInv, PrepTypes, WorkInv
<1>9. ASSUME Quiet'
      PROVE  LedgerInv'
  <2>1. Quiet /\ LedgerInv
    BY <1>2, <1>5, <1>9 DEF Quiet, PrepInv
  <2>2. s = "queue" => cov[n] # "discovering"
    BY <1>2, <1>5, <2>1, StageIs DEF PrepInv, Stages, Quiet, Covered
  <2>3. \A q \in Requests : Waits(q)' => Waits(q) /\ q # r
    BY <1>5 DEF Waits
  <2> QED
    BY <1>2, <1>5, <2>1, <2>2, <2>3 DEF LedgerInv
<1> QED
  BY <1>6, <1>7, <1>8, <1>9 DEF PrepInv

LEMMA WaitIdleKeepsPrep ==
  ASSUME PrepInv, HistoryGrows, PcForward, NEW r \in Requests, WaitIdle(r)
  PROVE  PrepInv'
<1>1. PICK n \in Nodes : prep[r].node = n
  BY DEF PrepInv, PrepTypes
<1>2. /\ prep[r].stage = "idle" /\ work[n] = {}
      /\ prep' = [prep EXCEPT ![r].stage = "version", ![r].target = Version(n)]
      /\ UNCHANGED <<history, work, found, cov, expired, holder, gaveUp>>
  BY <1>1 DEF WaitIdle
<1>3. Version(n) \in Nat
  BY DEF HistoryGrows
<1>4. /\ \A q \in Requests \ {r} : prep'[q] = prep[q]
      /\ prep'[r].stage = "version" /\ prep'[r].refresh = prep[r].refresh
      /\ prep'[r].node = n /\ prep'[r].target = Version(n)
  BY <1>1, <1>2 DEF PrepInv, PrepTypes
<1>5. PrepTypes'
  <2>1. prep \in [Requests -> [stage : Stages, refresh : BOOLEAN, wait : BOOLEAN, node : Nodes,
                              target : Nat]]
    BY DEF PrepInv, PrepTypes
  <2>2. prep' \in [Requests -> [stage : Stages, refresh : BOOLEAN, wait : BOOLEAN, node : Nodes,
                               target : Nat]]
    BY <1>2, <1>3, <2>1, ZenonT(30) DEF Stages
  <2> QED
    BY <1>2, <2>2 DEF PrepInv, PrepTypes
<1>6. ASSUME NEW q \in Requests
      PROVE  PrepOf(q)'
  <2>1. CASE q # r
    BY <1>2, <1>4, <2>1, PrepOfSame
  <2>2. CASE q = r
    <3>1. PrepOf(r)
      BY DEF PrepInv
    <3> QED
      BY <1>1, <1>2, <1>4, <2>2, <3>1 DEF PrepOf, PcForward, Version
  <2> QED
    BY <2>1, <2>2
<1>7. WorkInv'
  BY <1>1, <1>2, <1>4 DEF PrepInv, PrepTypes, WorkInv
<1>8. ASSUME Quiet'
      PROVE  LedgerInv'
  <2>1. Quiet /\ LedgerInv
    BY <1>2, <1>4, <1>8 DEF Quiet, PrepInv
  <2>2. \A q \in Requests : /\ (Waits(q)' <=> Waits(q)) /\ prep'[q].node = prep[q].node
                            /\ prep'[q].stage = "queue" => prep[q].stage = "queue"
    BY <1>1, <1>2, <1>4 DEF Waits
  <2> QED
    <3>0. cov' = cov
      BY <1>2
    <3>1. ASSUME NEW q \in Requests
          PROVE  /\ prep'[q].stage = "queue" => cov'[prep'[q].node] # "discovering"
                 /\ Waits(q)' => cov'[prep'[q].node] = "discovering"
      <4>1. /\ prep[q].stage = "queue" => cov[prep[q].node] # "discovering"
            /\ Waits(q) => cov[prep[q].node] = "discovering"
        BY <2>1 DEF LedgerInv
      <4>2. cov'[prep'[q].node] = cov[prep[q].node]
        BY <2>2, <3>0
      <4> QED
        BY <2>2, <4>1, <4>2
    <3>2. ASSUME NEW p \in Requests, NEW q \in Requests,
                 Waits(p)', Waits(q)', prep'[p].node = prep'[q].node
          PROVE  p = q
      BY <2>1, <2>2, <3>2 DEF LedgerInv
    <3> QED
      BY <3>1, <3>2 DEF LedgerInv
<1> QED
  BY <1>5, <1>6, <1>7, <1>8 DEF PrepInv

\* A job is queued by the request that holds the lock: then nobody waits for another one.
LEMMA QueueDiscoveryKeepsPrep ==
  ASSUME PrepInv, HistoryGrows, PcForward, NEW r \in Requests, NEW accepted \in BOOLEAN,
         QueueDiscovery(r, accepted)
  PROVE  PrepInv'
<1>1. PICK n \in Nodes : prep[r].node = n
  BY DEF PrepInv, PrepTypes
<1> DEFINE s == IF accepted THEN "idle" ELSE "failed"
           c == IF accepted THEN "discovering" ELSE "failed"
<1>2. /\ prep[r].stage = "queue" /\ Stage(r, s)
      /\ cov' = [cov EXCEPT ![n] = c] /\ expired' = [expired EXCEPT ![n] = FALSE]
      /\ work' = [work EXCEPT ![n] = IF accepted THEN @ \cup {r} ELSE @]
      /\ holder' = holder \/ holder' = Unlocked(r)
      /\ UNCHANGED <<history, found, gaveUp>>
  BY <1>1 DEF QueueDiscovery, MarkQueued, MarkFailed, Mutate
<1>3. s \in Stages /\ c \in CoverageStates
  BY DEF Stages, CoverageStates
<1>4. /\ prep' \in [Requests -> [stage : Stages, refresh : BOOLEAN, wait : BOOLEAN, node : Nodes,
                                 target : Nat]]
      /\ \A q \in Requests \ {r} : prep'[q] = prep[q]
      /\ prep'[r].stage = s /\ prep'[r].refresh = prep[r].refresh /\ prep'[r].node = n
  BY <1>1, <1>2, <1>3, StageIs DEF PrepInv
<1>5. /\ holder' \in [Nodes -> Requests \cup {0}]
      /\ \A m \in Nodes : holder[m] # r => holder'[m] = holder[m]
  BY <1>2, UnlockedIs DEF PrepInv, PrepTypes
<1>6. PrepTypes'
  BY <1>2, <1>3, <1>4, <1>5 DEF PrepInv, PrepTypes
<1>7. ASSUME NEW q \in Requests
      PROVE  PrepOf(q)'
  <2>1. CASE q # r
    <3>1. holder[prep[q].node] = q => holder'[prep[q].node] = q
      BY <1>5, <2>1 DEF PrepInv, PrepTypes
    <3> QED
      BY <1>2, <1>4, <2>1, <3>1, PrepOfSame
  <2>2. CASE q = r
    <3>1. PrepOf(r)
      BY DEF PrepInv
    <3> QED
      BY <1>1, <1>2, <1>4, <2>2, <3>1 DEF PrepOf, PcForward, Version
  <2> QED
    BY <2>1, <2>2
<1>8. WorkInv'
  <2> SUFFICES ASSUME NEW m \in Nodes, NEW q \in work'[m]
               PROVE  prep'[q].node = m /\ prep'[q].stage \in {"idle", "failed"}
    BY DEF WorkInv
  <2>1. (q \in work[m] /\ q \in Requests) \/ (m = n /\ q = r)
    BY <1>2 DEF PrepInv, PrepTypes
  <2>2. CASE q = r /\ m = n
    BY <1>4, <2>2
  <2>3. CASE q \in work[m] /\ q \in Requests
    BY <1>2, <1>4, <2>3 DEF PrepInv, WorkInv
  <2> QED
    BY <2>1, <2>2, <2>3
<1>9. ASSUME Quiet'
      PROVE  LedgerInv'
  <2>1. Quiet /\ LedgerInv
    BY <1>2, <1>4, <1>9 DEF Quiet, PrepInv
  <2>2. \A q \in Requests : PrepOf(q) /\ prep[q].node \in Nodes
    BY DEF PrepInv, PrepTypes
  <2>3. cov[n] # "discovering"
    BY <1>1, <1>2, <2>1 DEF LedgerInv
  <2>4. \A q \in Requests \ {r} : prep[q].node = n => ~Waits(q) /\ prep[q].stage # "queue"
    BY <1>1, <1>2, <2>1, <2>2, <2>3 DEF LedgerInv, PrepOf
  <2>5. \A q \in Requests \ {r} : Waits(q)' = Waits(q)
    BY <1>4 DEF Waits
  <2>6. Waits(r)' => accepted
    BY <1>4 DEF Waits
  <2>7. cov'[n] = c /\ \A m \in Nodes \ {n} : cov'[m] = cov[m]
    BY <1>2 DEF PrepInv, PrepTypes
  <2>8. \A q \in Requests : prep'[q].stage = "queue" => cov'[prep'[q].node] # "discovering"
    BY <1>4, <2>1, <2>2, <2>4, <2>7 DEF LedgerInv
  <2>9. \A q \in Requests : Waits(q)' => cov'[prep'[q].node] = "discovering"
    BY <1>4, <2>1, <2>2, <2>4, <2>5, <2>6, <2>7 DEF LedgerInv
  <2>10. ASSUME NEW p \in Requests, NEW q \in Requests, Waits(p)', Waits(q)',
                prep'[p].node = prep'[q].node
         PROVE  p = q
    BY <1>4, <2>1, <2>4, <2>5, <2>10 DEF LedgerInv
  <2> QED
    BY <2>8, <2>9, <2>10 DEF LedgerInv
<1> QED
  BY <1>6, <1>7, <1>8, <1>9 DEF PrepInv

\* The verdict is recorded by the one request that waits.
LEMMA SettleKeepsPrep ==
  ASSUME PrepInv, HistoryGrows, PcForward, NEW r \in Requests, Settle(r)
  PROVE  PrepInv'
<1>1. PICK n \in Nodes : prep[r].node = n
  BY DEF PrepInv, PrepTypes
<1> DEFINE c == Settled(GraphContains(n, Wanted))
<1>2. /\ prep[r].stage = "version" /\ Stage(r, "done")
      /\ cov' = [cov EXCEPT ![n] = c] /\ expired' = [expired EXCEPT ![n] = FALSE]
      /\ holder' = Unlocked(r) /\ UNCHANGED <<history, work, found, gaveUp>>
  BY <1>1 DEF Settle, MarkSettled, Mutate
<1>3. "done" \in Stages /\ c \in CoverageStates
  BY DEF Stages, CoverageStates, Settled
<1>4. /\ prep' \in [Requests -> [stage : Stages, refresh : BOOLEAN, wait : BOOLEAN, node : Nodes,
                                 target : Nat]]
      /\ \A q \in Requests \ {r} : prep'[q] = prep[q]
      /\ prep'[r].stage = "done" /\ prep'[r].refresh = prep[r].refresh /\ prep'[r].node = n
  BY <1>1, <1>2, <1>3, StageIs DEF PrepInv
<1>5. PrepTypes'
  BY <1>2, <1>3, <1>4, UnlockedIs DEF PrepInv, PrepTypes
<1>6. \A m \in Nodes : holder[m] # r /\ holder[m] # 0 => holder'[m] = holder[m]
  BY <1>2, UnlockedIs DEF PrepInv
<1>7. \A q \in Requests : PrepOf(q)'
  BY <1>2, <1>5, <1>6, StageEnds
<1>8. WorkInv'
  BY <1>2, <1>4, SMTT(30) DEF PrepInv, PrepTypes, WorkInv
<1>9. ASSUME Quiet'
      PROVE  LedgerInv'
  <2>1. Quiet /\ LedgerInv
    BY <1>2, <1>4, <1>9 DEF Quiet, PrepInv
  <2>2. cov[n] = "discovering" /\ \A q \in Requests \ {r} : prep[q].node = n => ~Waits(q)
    BY <1>1, <1>2, <2>1 DEF LedgerInv, Waits
  <2>3. cov'[n] # "discovering" /\ \A m \in Nodes \ {n} : cov'[m] = cov[m]
    BY <1>2 DEF PrepInv, PrepTypes, Settled
  <2>4. \A q \in Requests : prep[q].node \in Nodes
    BY DEF PrepInv, PrepTypes
  <2>5. \A q \in Requests : Waits(q)' => Waits(q) /\ q # r
    BY <1>4 DEF Waits
  <2> QED
    BY <1>4, <2>1, <2>2, <2>3, <2>4, <2>5 DEF LedgerInv
<1> QED
  BY <1>5, <1>7, <1>8, <1>9 DEF PrepInv

\* A task that times out was the one that waits; a request that does leaves the ledger.
LEMMA PrepareTimesOutKeepsPrep ==
  ASSUME PrepInv, HistoryGrows, PcForward, NEW r \in Requests, PrepareTimesOut(r)
  PROVE  PrepInv'
<1>1. PICK n \in Nodes : prep[r].node = n
  BY DEF PrepInv, PrepTypes
<1>2. /\ prep[r].stage \in {"idle", "version"} /\ Stage(r, "failed")
      /\ \/ prep[r].wait /\ UNCHANGED <<cov, expired>>
         \/ ~prep[r].wait /\ cov' = [cov EXCEPT ![n] = "failed"]
                          /\ expired' = [expired EXCEPT ![n] = FALSE]
      /\ gaveUp' = (gaveUp \/ prep[r].wait)
      /\ holder' = Unlocked(r) /\ UNCHANGED <<history, work, found>>
  BY <1>1 DEF PrepareTimesOut, MarkFailed, Mutate
<1>3. "failed" \in Stages /\ "failed" \in CoverageStates
  BY DEF Stages, CoverageStates
<1>4. /\ prep' \in [Requests -> [stage : Stages, refresh : BOOLEAN, wait : BOOLEAN, node : Nodes,
                                 target : Nat]]
      /\ \A q \in Requests \ {r} : prep'[q] = prep[q]
      /\ prep'[r].stage = "failed" /\ prep'[r].refresh = prep[r].refresh /\ prep'[r].node = n
  BY <1>1, <1>2, <1>3, StageIs DEF PrepInv
<1>5. PrepTypes'
  <2>1. gaveUp' \in BOOLEAN
    BY <1>2
  <2>2. cov' \in [Nodes -> CoverageStates] /\ DOMAIN expired' = Nodes
    BY <1>2, <1>3 DEF PrepInv, PrepTypes
  <2> QED
    BY <1>2, <1>4, <2>1, <2>2, UnlockedIs DEF PrepInv, PrepTypes
<1>6. \A m \in Nodes : holder[m] # r /\ holder[m] # 0 => holder'[m] = holder[m]
  BY <1>2, UnlockedIs DEF PrepInv
<1>7. \A q \in Requests : PrepOf(q)'
  BY <1>2, <1>5, <1>6, StageEnds
<1>8. WorkInv'
  BY <1>1, <1>2, <1>4 DEF PrepInv, PrepTypes, WorkInv
<1>9. ASSUME Quiet'
      PROVE  LedgerInv'
  <2>1. Quiet /\ LedgerInv
    BY <1>2, <1>4, <1>9 DEF Quiet, PrepInv
  <2>2. cov[n] = "discovering" /\ \A q \in Requests \ {r} : prep[q].node = n => ~Waits(q)
    BY <1>1, <1>2, <2>1 DEF LedgerInv, Waits
  <2>3. /\ cov'[n] \in {"discovering", "failed"} /\ \A m \in Nodes \ {n} : cov'[m] = cov[m]
        /\ \A q \in Requests : prep[q].stage = "queue" => prep[q].node # n
    BY <1>2, <2>1, <2>2 DEF LedgerInv, PrepInv, PrepTypes
  <2>4. \A q \in Requests : prep[q].node \in Nodes
    BY DEF PrepInv, PrepTypes
  <2>5. \A q \in Requests : Waits(q)' => Waits(q) /\ q # r
    BY <1>4 DEF Waits
  <2> QED
    BY <1>4, <2>1, <2>2, <2>3, <2>4, <2>5 DEF LedgerInv
<1> QED
  BY <1>5, <1>7, <1>8, <1>9 DEF PrepInv

\* A handler that is dropped leaves its job and the ledger as they are.
LEMMA PrepareDroppedKeepsPrep ==
  ASSUME PrepInv, HistoryGrows, PcForward, NEW r \in Requests, PrepareDropped(r)
  PROVE  PrepInv'
<1>1. PICK n \in Nodes : prep[r].node = n
  BY DEF PrepInv, PrepTypes
<1>2. /\ prep[r].stage \in {"lock", "queue", "idle", "version"} /\ Stage(r, "failed")
      /\ gaveUp' = (gaveUp \/ prep[r].stage \in {"idle", "version"})
      /\ work' = work \/ work' = [work EXCEPT ![n] = @ \cup {r}]
      /\ holder' = Unlocked(r) /\ UNCHANGED <<history, cov, expired, found>>
  BY <1>1 DEF PrepareDropped
<1>3. "failed" \in Stages
  BY DEF Stages
<1>4. /\ prep' \in [Requests -> [stage : Stages, refresh : BOOLEAN, wait : BOOLEAN, node : Nodes,
                                 target : Nat]]
      /\ \A q \in Requests \ {r} : prep'[q] = prep[q]
      /\ prep'[r].stage = "failed" /\ prep'[r].refresh = prep[r].refresh /\ prep'[r].node = n
  BY <1>1, <1>2, <1>3, StageIs DEF PrepInv
<1>5. PrepTypes'
  <2>1. gaveUp' \in BOOLEAN
    BY <1>2
  <2>2. work' \in [Nodes -> SUBSET Requests]
    BY <1>2 DEF PrepInv, PrepTypes
  <2> QED
    BY <1>2, <1>4, <2>1, <2>2, UnlockedIs DEF PrepInv, PrepTypes
<1>6. \A m \in Nodes : holder[m] # r /\ holder[m] # 0 => holder'[m] = holder[m]
  BY <1>2, UnlockedIs DEF PrepInv
<1>7. \A q \in Requests : PrepOf(q)'
  BY <1>2, <1>5, <1>6, StageEnds
<1>8. WorkInv'
  <2> SUFFICES ASSUME NEW m \in Nodes, NEW q \in work'[m]
               PROVE  prep'[q].node = m /\ prep'[q].stage \in {"idle", "failed"}
    BY DEF WorkInv
  <2>1. (q \in work[m] /\ q \in Requests) \/ (m = n /\ q = r)
    BY <1>2 DEF PrepInv, PrepTypes
  <2>2. CASE q = r /\ m = n
    BY <1>4, <2>2
  <2>3. CASE q \in work[m] /\ q \in Requests
    BY <1>1, <1>4, <2>3 DEF PrepInv, WorkInv
  <2> QED
    BY <2>1, <2>2, <2>3
<1>9. ASSUME Quiet'
      PROVE  LedgerInv'
  <2>1. Quiet /\ LedgerInv
    BY <1>2, <1>4, <1>9 DEF Quiet, PrepInv
  <2>2. \A q \in Requests : (Waits(q)' => Waits(q) /\ q # r) /\ prep'[q].node = prep[q].node
                            /\ (prep'[q].stage = "queue" => prep[q].stage = "queue")
    BY <1>1, <1>4 DEF Waits
  <2> QED
    BY <1>2, <2>1, <2>2 DEF LedgerInv
<1> QED
  BY <1>5, <1>7, <1>8, <1>9 DEF PrepInv

\* A preparation begins, the only one of its request.
LEMMA CallsPrepareKeepsPrep ==
  ASSUME PrepInv, HistoryGrows, PcForward, NEW r \in Requests, CallsPrepare(r), RequestTypes
  PROVE  PrepInv'
<1>1. PICK refresh \in BOOLEAN, wait \in BOOLEAN : StartPrepare(r, active, refresh, wait)
  BY DEF CallsPrepare
<1>2. /\ pc[r] = "prepare" /\ pc'[r] = "preparing" /\ active \in Nodes /\ history[active] # <<>>
      /\ UNCHANGED <<history, work, found, cov, expired, holder, gaveUp>>
      /\ prep' = [prep EXCEPT ![r] = [stage |-> "lock", refresh |-> refresh, wait |-> wait,
                                      node |-> active, target |-> 0]]
  BY <1>1 DEF CallsPrepare, StartPrepare, RequestTypes
<1>3. prep[r].stage = "none" /\ found[r] = 0 /\ ~prep[r].refresh
  BY <1>2 DEF PrepInv, PrepOf, Early
<1>4. /\ \A q \in Requests \ {r} : prep'[q] = prep[q]
      /\ prep'[r].stage = "lock" /\ prep'[r].node = active
  BY <1>2 DEF PrepInv, PrepTypes
<1>5. PrepTypes'
  BY <1>2 DEF PrepInv, PrepTypes, Stages
<1>6. ASSUME NEW q \in Requests
      PROVE  PrepOf(q)'
  <2>1. CASE q # r
    BY <1>2, <1>4, <2>1, PrepOfSame
  <2>2. CASE q = r
    <3>1. Version(active) \in Nat
      BY <1>2 DEF HistoryGrows
    <3> QED
      BY <1>2, <1>3, <1>4, <2>2, <3>1 DEF PrepOf, Early, Version
  <2> QED
    BY <2>1, <2>2
<1>7. WorkInv'
  BY <1>2, <1>3, <1>4 DEF PrepInv, PrepTypes, WorkInv
<1>8. ASSUME Quiet'
      PROVE  LedgerInv'
  <2>1. Quiet /\ LedgerInv
    BY <1>2, <1>3, <1>4, <1>8 DEF Quiet, PrepInv
  <2>2. \A q \in Requests : /\ (Waits(q)' => Waits(q) /\ q # r)
                            /\ (prep'[q].stage = "queue" => prep[q].stage = "queue" /\ q # r)
    BY <1>4 DEF Waits
  <2> QED
    BY <1>2, <1>4, <2>1, <2>2 DEF LedgerInv
<1> QED
  BY <1>5, <1>6, <1>7, <1>8 DEF PrepInv
LEMMA HistoryGrowsAlways ==
  ASSUME HistoryInv, NodesNext
  PROVE  HistoryGrows
<1>1. \A n \in Nodes : Version(n) \in Nat
  BY VersionIsNat
<1>2. CASE history' = history
  BY <1>1, <1>2 DEF HistoryGrows, Version
<1>3. ASSUME NEW n \in Nodes, NEW topology \in Topologies,
             history' = [history EXCEPT ![n] = Append(@, topology)]
      PROVE  HistoryGrows
  <2>1. history[n] \in Seq(Topologies)
    BY DEF HistoryInv
  <2>2. Len(history'[n]) = Len(history[n]) + 1 /\ history'[n] # <<>>
    BY <1>3, <2>1, AppendProperties DEF HistoryInv
  <2>3. \A m \in Nodes \ {n} : history'[m] = history[m]
    BY <1>3 DEF HistoryInv
  <2> QED
    BY <1>1, <2>2, <2>3 DEF HistoryGrows, Version
<1>4. ASSUME Built + 1 \in Nodes, NEW topology \in Topologies,
             FreshNode(Built + 1, topology, load.configured)
      PROVE  HistoryGrows
  <2>1. Built \in Nat /\ ~(Built + 1 <= Built)
    BY NodeAssumption DEF HistoryInv
  <2>2. history[Built + 1] = <<>>
    BY <1>4, <2>1 DEF HistoryInv
  <2>3. history' = [history EXCEPT ![Built + 1] = <<topology>>]
    BY <1>4 DEF FreshNode
  <2>4. Len(history'[Built + 1]) = 1 /\ \A m \in Nodes \ {Built + 1} : history'[m] = history[m]
    BY <1>4, <2>3 DEF HistoryInv
  <2>5. Len(history[Built + 1]) = 0
    BY <2>2
  <2> QED
    BY <1>1, <2>2, <2>4, <2>5 DEF HistoryGrows, Version
<1>5. ASSUME NEW n \in Nodes, RuntimeStep(n)
      PROVE  \/ history' = history
             \/ \E topology \in Topologies : history' = [history EXCEPT ![n] = Append(@, topology)]
  <2>1. ASSUME NEW topology \in Topologies, AmmCommit(n, topology)
        PROVE  history' = [history EXCEPT ![n] = Append(@, topology)]
    BY <2>1 DEF AmmCommit
  <2>2. ASSUME NEW r \in Requests, NEW topology \in Topologies, DiscoveryDone(n, r, topology)
        PROVE  history' = history \/ history' = [history EXCEPT ![n] = Append(@, topology)]
    BY <2>2 DEF DiscoveryDone
  <2>3. CASE RouteCommit(n)
    BY <2>3 DEF RouteCommit
  <2>4. CASE IndexEvent(n)
    BY <2>4 DEF IndexEvent
  <2>5. CASE NegativeExpires(n) \/ RoutesFail(n) \/ RefreshCoverage(n)
    BY <2>5 DEF NegativeExpires, RoutesFail, RefreshCoverage
  <2> QED
    BY <1>5, <2>1, <2>2, <2>3, <2>4, <2>5 DEF RuntimeStep
<1>6. ASSUME NEW r \in Requests, PreparationStep(r) \/ CallsPrepare(r)
      PROVE  history' = history
  BY <1>6 DEF PreparationStep, ReadCoverage, WaitIdle, Settle, PrepareTimesOut, PrepareDropped,
              QueueDiscovery, CallsPrepare
<1>7. CASE UNCHANGED nodeVars \/ \E n : NodeShutdown(n) \/ NodeLeft(n)
  BY <1>2, <1>7 DEF nodeVars, NodeShutdown, NodeLeft
<1> QED
  BY <1>2, <1>3, <1>4, <1>5, <1>6, <1>7 DEF NodesNext

LEMMA PcForwardAlways ==
  ASSUME RequestTypes, [Next]_vars
  PROVE  PcForward
<1>1. CASE UNCHANGED pc
  BY <1>1 DEF PcForward
<1>2. ASSUME NEW r \in Requests, NEW to, Go(r, to), to \in Early => pc[r] \in Early
      PROVE  PcForward
  BY <1>2 DEF PcForward, Go, RequestTypes
<1>3. ASSUME NEW r \in Requests, NEW code, Answer(r, code)
      PROVE  PcForward
  BY <1>2, <1>3 DEF Answer, Early
<1>4. ASSUME NEW r \in Requests,
             \/ Begin(r) \/ HandlerStep(r) \/ SearchReady(r) \/ SearchClosed(r) \/ ClientLeaves(r)
      PROVE  PcForward
  <2> USE DEF Early
  <2>1. CASE Begin(r)
    BY <1>2, <1>3, <2>1 DEF Begin, On
  <2>2. CASE ReadNode(r)
    BY <1>2, <1>3, <2>2 DEF ReadNode, On
  <2>3. CASE ReadState(r)
    BY <1>2, <1>3, <2>3 DEF ReadState, On
  <2>4. CASE Graph(r)
    <3>1. \/ Answer(r, 400) \/ Answer(r, 401) \/ Answer(r, 422) \/ Answer(r, 429)
          \/ On(r, "subscribe") \/ On(r, "prepare")
      BY <2>4 DEF Graph
    <3>2. pc[r] = "graph"
      BY <2>4 DEF Graph
    <3> QED
      BY <1>2, <1>3, <3>1, <3>2 DEF On
  <2>5. CASE PrepareCall(r)
    BY <1>2, <1>3, <2>5 DEF PrepareCall, On
  <2>6. CASE Prepared(r)
    BY <1>2, <1>3, <2>6 DEF Prepared, On
  <2>7. CASE Subscribe(r)
    BY <1>2, <1>3, <2>7 DEF Subscribe
  <2>8. CASE SearchReady(r)
    BY <1>2, <1>3, <2>8 DEF SearchReady, On
  <2>9. CASE SearchClosed(r) \/ SearchTimesOut(r) \/ CallFails(r) \/ ClientLeaves(r)
    BY <1>3, <2>9 DEF SearchClosed, SearchTimesOut, CallFails, ClientLeaves
  <2>10. CASE Block(r)
    <3>1. (\E code : Answer(r, code)) \/ Go(r, "simulate") \/ Go(r, "approve")
      BY <2>10 DEF Block
    <3> QED
      BY <1>2, <1>3, <3>1
  <2>11. CASE Approve(r)
    BY <1>2, <1>3, <2>11 DEF Approve
  <2>12. CASE Simulate(r)
    <3>1. Answer(r, 422) \/ Go(r, "lastNode")
      BY <2>12 DEF Simulate
    <3> QED
      BY <1>2, <1>3, <3>1
  <2> QED
    BY <1>4, <2>1, <2>2, <2>3, <2>4, <2>5, <2>6, <2>7, <2>8, <2>9, <2>10, <2>11, <2>12
       DEF HandlerStep
<1>5. CASE UNCHANGED vars \/ LoseTrust \/ PauseOrResume \/ HeadMovesOrNot \/ Signal \/ Shutdown
           \/ CloseActive \/ Close \/ BuildOk \/ TokenStatus
  BY <1>1, <1>5 DEF vars, LoseTrust, PauseOrResume, HeadMovesOrNot, Signal, Shutdown, CloseActive,
                    Close, BuildOk, TokenStatus, reqVars
<1>6. CASE SupStep
  BY <1>1, <1>6 DEF SupStep, Check, Take, Invalidate, DrainOld, BuildFails, NotifiedWhileBuilding,
                    DelayOver, Publish, Ready, reqVars
<1>7. ASSUME NEW n \in Nodes, NodeStep(n)
      PROVE  PcForward
  BY <1>1, <1>7 DEF NodeStep, reqVars
<1>8. ASSUME NEW r \in Requests, PrepareStep(r)
      PROVE  PcForward
  BY <1>1, <1>8 DEF PrepareStep, reqVars
<1> QED
  BY <1>4, <1>5, <1>6, <1>7, <1>8 DEF Next

LEMMA PrepStep ==
  ASSUME HistoryInv, RequestTypes, PrepInv, NodesNext, PcForward
  PROVE  PrepInv'
<1>0. HistoryGrows
  BY HistoryGrowsAlways
<1>1. ASSUME UNCHANGED <<prep, cov, expired, holder, work, found, gaveUp>>
      PROVE  PrepInv'
  <2>1. DOMAIN expired' = Nodes
    BY <1>1 DEF PrepInv, PrepTypes
  <2> QED
    BY <1>0, <1>1, <2>1, PrepSame
<1>2. CASE UNCHANGED nodeVars \/ \E n : NodeShutdown(n) \/ NodeLeft(n)
  BY <1>1, <1>2 DEF nodeVars, NodeShutdown, NodeLeft
<1>3. ASSUME Built + 1 \in Nodes, NEW topology \in Topologies,
             FreshNode(Built + 1, topology, load.configured)
      PROVE  PrepInv'
  <2>1. Built \in Nat /\ ~(Built + 1 <= Built)
    BY NodeAssumption DEF HistoryInv
  <2>2. history[Built + 1] = <<>>
    BY <1>3, <2>1 DEF HistoryInv
  <2> QED
    BY <1>0, <1>3, <2>2, FreshNodeKeepsPrep
<1>4. ASSUME NEW n \in Nodes, RuntimeStep(n)
      PROVE  PrepInv'
  <2>1. ASSUME NEW topology \in Topologies, AmmCommit(n, topology)
        PROVE  PrepInv'
    BY <1>1, <2>1 DEF AmmCommit
  <2>2. ASSUME NEW r \in Requests, NEW topology \in Topologies, DiscoveryDone(n, r, topology)
        PROVE  PrepInv'
    BY <1>0, <2>2, DiscoveryDoneKeepsPrep
  <2>3. CASE RouteCommit(n)
    BY <1>1, <2>3 DEF RouteCommit
  <2>4. CASE IndexEvent(n)
    BY <1>1, <2>4 DEF IndexEvent
  <2>5. CASE RoutesFail(n)
    BY <1>1, <2>5 DEF RoutesFail
  <2>6. CASE NegativeExpires(n)
    <3>1. UNCHANGED <<prep, cov, holder, work, found, gaveUp>> /\ DOMAIN expired' = Nodes
      BY <2>6 DEF NegativeExpires, PrepInv, PrepTypes
    <3> QED
      BY <1>0, <3>1, PrepSame
  <2>7. CASE RefreshCoverage(n)
    BY <1>0, <2>7, RefreshCoverageKeepsPrep
  <2> QED
    BY <1>4, <2>1, <2>2, <2>3, <2>4, <2>5, <2>6, <2>7 DEF RuntimeStep
<1>5. ASSUME NEW r \in Requests, PreparationStep(r)
      PROVE  PrepInv'
  BY <1>0, <1>5, ReadCoverageKeepsPrep, WaitIdleKeepsPrep, SettleKeepsPrep,
     PrepareTimesOutKeepsPrep, PrepareDroppedKeepsPrep, QueueDiscoveryKeepsPrep DEF PreparationStep
<1>6. ASSUME NEW r \in Requests, CallsPrepare(r)
      PROVE  PrepInv'
  BY <1>0, <1>6, CallsPrepareKeepsPrep
<1> QED
  BY <1>2, <1>3, <1>4, <1>5, <1>6 DEF NodesNext

LEMMA PrepInit == Init => PrepInv
<1> SUFFICES ASSUME Init
             PROVE  PrepInv
  OBVIOUS
<1>1. 1 \in Nodes
  BY NodeAssumption
<1>2. PICK topology \in load.topologies : NodeInit(topology, load.configured)
  BY DEF Init
<1>3. /\ history = [n \in Nodes |-> IF n = 1 THEN <<topology>> ELSE <<>>]
      /\ work = [n \in Nodes |-> {}] /\ found = [r \in Requests |-> 0]
      /\ cov = [n \in Nodes |-> IF n = 1 THEN ConfiguredCoverage(topology, load.configured)
                                ELSE "unknown"]
      /\ expired = [n \in Nodes |-> FALSE] /\ holder = [n \in Nodes |-> 0]
      /\ prep = [r \in Requests |-> [stage |-> "none", refresh |-> FALSE, wait |-> FALSE,
                                     node |-> 1, target |-> 0]]
      /\ gaveUp = FALSE
  BY <1>2 DEF NodeInit
<1>4. ConfiguredCoverage(topology, load.configured) \in CoverageStates
  BY DEF ConfiguredCoverage, Settled, CoverageStates
<1>5. PrepTypes
  <2>1. prep \in [Requests -> [stage : Stages, refresh : BOOLEAN, wait : BOOLEAN, node : Nodes,
                               target : Nat]]
    BY <1>1, <1>3 DEF Stages
  <2>2. cov \in [Nodes -> CoverageStates]
    BY <1>3, <1>4 DEF CoverageStates
  <2> QED
    BY <1>3, <2>1, <2>2 DEF PrepTypes
<1>6. \A r \in Requests : PrepOf(r)
  <2> TAKE r \in Requests
  <2>1. prep[r].node = 1 /\ prep[r].stage = "none" /\ prep[r].refresh = FALSE /\ found[r] = 0
    BY <1>3
  <2>2. history[1] = <<topology>> /\ Len(history[1]) = 1
    BY <1>1, <1>3
  <2> QED
    BY <2>1, <2>2 DEF PrepOf, Version
<1>7. WorkInv
  BY <1>3 DEF WorkInv
<1>8. LedgerInv
  BY <1>3 DEF LedgerInv, Waits
<1> QED
  BY <1>5, <1>6, <1>7, <1>8 DEF PrepInv

------------------------------------------------------------------------------
(* The theorems about the preparations *)

NodesInv == GenerationInv /\ IndexInv /\ PrepInv

LEMMA NodesInvStep == NodesInv /\ [Next]_vars => NodesInv'
<1> SUFFICES ASSUME NodesInv, [Next]_vars
             PROVE  NodesInv'
  OBVIOUS
<1>1. GenerationInv /\ IndexInv /\ PrepInv /\ HistoryInv /\ RequestTypes
  BY DEF NodesInv, GenerationInv, RequestsInv
<1>2. NodesNext /\ PcForward
  BY <1>1, SidecarIsNodesNext, PcForwardAlways
<1> QED
  BY <1>1, <1>2, GenerationStep, IndexStep, PrepStep DEF NodesInv

LEMMA NodesInvariant == Spec => []NodesInv
<1>1. Init => NodesInv
  BY GenerationInit, IndexInit, PrepInit DEF NodesInv
<1> QED
  BY <1>1, NodesInvStep, PTL DEF Spec

\* prepare_token coalesces: of the requests that ensure one token, one at a time discovers
\* it, unless a refresh came between; the lock of the token and the ledger's Discovering
\* together see to it, for any number of requests and nodes, also after one gave up.
THEOREM EnsureCoalescesAlways == Spec => []EnsureCoalesces
<1>1. NodesInv => EnsureCoalesces
  <2> SUFFICES ASSUME NodesInv, \A r \in Requests : ~prep[r].refresh, NEW n \in Nodes
               PROVE  Cardinality({r \in Requests : prep[r].node = n
                        /\ prep[r].stage \in {"queue", "idle", "version"}}) <= 1
    BY DEF EnsureCoalesces
  <2> DEFINE S == {r \in Requests : prep[r].node = n
                                     /\ prep[r].stage \in {"queue", "idle", "version"}}
  <2>1. LedgerInv /\ \A r \in Requests : PrepOf(r)
    BY DEF NodesInv, PrepInv, Quiet
  <2>2. \A q \in S, r \in S : q = r
    BY <2>1 DEF LedgerInv, PrepOf, Waits
  <2>3. S = {} \/ \E x : S = {x}
    BY <2>2
  <2> HIDE DEF S
  <2>4. Cardinality(S) = 0 \/ Cardinality(S) = 1
    BY <2>3, FS_EmptySet, FS_Singleton
  <2> QED
    BY <2>4 DEF S
<1> QED
  BY <1>1, NodesInvariant, PTL

\* A preparation settles on Empty only of a version that has all its own job found: the
\* version it waits for is read when no job runs, and the index is that of a version no
\* older (wait_for_runtime_idle, wait_for_version and mark_settled).
THEOREM NoFalseEmptyAlways == Spec => NoFalseEmpty
<1>1. ASSUME NodesInv, NEW r \in Requests, Settle(r), cov'[prep[r].node] = "empty"
      PROVE  \E v \in found[r] .. Version(prep[r].node) :
               \A p \in Pools : Wanted \notin history[prep[r].node][v][p]
  <2>1. PICK n \in Nodes : prep[r].node = n
    BY <1>1 DEF NodesInv, PrepInv, PrepTypes
  <2>2. /\ prep[r].stage = "version" /\ index[n].version >= prep[r].target
        /\ cov' = [cov EXCEPT ![n] = Settled(GraphContains(n, Wanted))]
    BY <1>1, <2>1 DEF Settle, CaughtUp, MarkSettled, Mutate
  <2>3. ~(index[n].token_pools[Wanted] > 0)
    BY <1>1, <2>1, <2>2 DEF NodesInv, PrepInv, PrepTypes, Settled, GraphContains
  <2>4. history[n] # <<>> /\ found[r] <= prep[r].target /\ found[r] \in Nat /\ prep[r].target \in Nat
    BY <1>1, <2>1, <2>2 DEF NodesInv, PrepInv, PrepTypes, PrepOf
  <2> DEFINE v == index[n].version
             P == {p \in Pools : Wanted \in history[n][v][p]}
  <2>5. v \in 1 .. Version(n) /\ index[n] = FromGraph(history[n][v], v)
    BY <1>1, <2>4 DEF NodesInv, IndexInv, IndexIsGraph
  <2>6. Version(n) \in Nat
    BY <1>1, VersionIsNat DEF NodesInv, GenerationInv
  <2>7. index[n].token_pools[Wanted] = Cardinality(P)
    BY <2>5, NodeAssumption DEF FromGraph
  <2>8. IsFiniteSet(P) /\ P \subseteq Pools
    BY FS_Subset, NodeAssumption
  <2>9. Cardinality(P) = 0
    BY <2>3, <2>7, <2>8, FS_CardinalityType
  <2>10. P = {}
    BY <2>8, <2>9, FS_EmptySet
  <2>11. v \in found[r] .. Version(n)
    BY <2>2, <2>4, <2>5, <2>6
  <2> QED
    BY <2>1, <2>10, <2>11
<1>2. NodesInv /\ [Next]_vars =>
        [\A r \in Requests :
           (Settle(r) /\ cov'[prep[r].node] = "empty") =>
             \E v \in found[r] .. Version(prep[r].node) :
               \A p \in Pools : Wanted \notin history[prep[r].node][v][p]]_nodeVars
  BY <1>1
<1> QED
  BY <1>2, NodesInvariant, PTL DEF Spec, NoFalseEmpty
==============================================================================
