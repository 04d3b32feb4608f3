--------------------------- MODULE StreamingSearch ---------------------------
(***************************************************************************)
(* stream_routes_parallel_with_cache of src/search.rs: one streaming route  *)
(* search. The coordinating thread runs the heuristic phase, enumerates the *)
(* routes it left out, splits them among workers that share the quote cache *)
(* (QuoteCache) and send what they quote over a channel, and tells the       *)
(* caller of everything through a callback that may stop the search at any   *)
(* event. HeuristicSearch models which routes the heuristic phase quotes;    *)
(* here it is any of them, in any order. The parallel and the batch searches *)
(* run the same workers over the same cache, without callbacks: a worker      *)
(* keeps what it quotes, with the request it quotes it for, until it is       *)
(* joined; the results are then sorted by request.                           *)
(*                                                                         *)
(* A route is a number, in the order of enumeration, and a sequence of hop   *)
(* quotes (keys): routes with a common prefix share its keys. Its amount is  *)
(* its last hop's. An amount of 0 stands for none. With one worker the code  *)
(* calls back instead of sending: one of the orders of sends and receipts.   *)
(* A definition whose name says what it gets wrong is a mutation of the one  *)
(* that follows it, never used.                                              *)
(***************************************************************************)
EXTENDS QuoteCache, Sequences, SequencesExt

CONSTANTS
  PathKeys,    \* the keys of each route
  Settings,    \* StreamingSearchConfig, max_candidates and the requests, see ValidSettings
  MaxPanics,   \* bound: panics of an adapter simulation
  MaxFailed    \* bound: prefixes that fail to quote in the heuristic phase

Paths == DOMAIN PathKeys

\* StreamingThresholdPolicy: a threshold of 0 is none, and no policy at all has neither.
NoPolicy == [mode |-> "none", confidence |-> 0, fraction |-> 0]
ValidPolicy(p) ==
  p.mode \in {"all", "any", "none"} /\ p.confidence \in 0 .. 10000 /\ p.fraction \in 0 .. 10000
  /\ (p.mode # "none" => p.confidence + p.fraction > 0)

\* policy_with_confidence and policy_with_exhaustive_fraction: a threshold more.
AllUnlessSet(p) == IF p.mode = "none" THEN "all" ELSE p.mode
PolicyWithConfidence(p, bps) == [p EXCEPT !.mode = AllUnlessSet(p), !.confidence = bps]
PolicyWithFraction(p, bps) == [p EXCEPT !.mode = AllUnlessSet(p), !.fraction = bps]

\* StreamingSearchConfig, with its default, whose setters are EXCEPT. A batch has several
\* requests, each the routes that enumerate_routes finds for it; cap is max_candidates.
DefaultSettings ==
  [completion |-> "exhaustive", stop |-> NoPolicy, gate |-> NoPolicy, top_k |-> 1, cap |-> 0,
   requests |-> <<>>]
OneShot(c) == c.completion \in {"parallel", "batch"}
ValidSettings(c) ==
  /\ OneShot(c) \/ c.completion \in {"fast lane", "heuristic", "exhaustive"}
  /\ ValidPolicy(c.stop) /\ ValidPolicy(c.gate) /\ c.top_k >= 1 /\ c.cap \in Nat
  /\ c.requests \in Seq(Seq(Paths)) /\ (c.completion = "parallel" => Len(c.requests) = 1)

\* ParallelSearchConfig: at least one worker, and no more than there are items.
Workers(items) == Min({Cardinality(Threads), Len(items)})

ASSUME StreamingAssumption ==
  /\ \A c \in Settings : ValidSettings(c)
  /\ Cardinality(Threads) \in Nat /\ Threads = 1 .. Cardinality(Threads) /\ Threads # {}
  /\ PathKeys \in Seq(Seq(Keys) \ {<<>>})
  /\ MaxPanics \in Nat /\ MaxFailed \in Nat

VARIABLES
  cfg,
  pc,         \* where the coordinating thread is
  st,         \* StreamingRouteState
  quoted,     \* evaluated_paths, observed_quotes
  error,      \* heuristic_error
  live,       \* should_continue
  chunk, hop, \* of each worker: the routes left, the next hop of the first of them
  failures,   \* of each worker
  channel,    \* the quotes sent and not yet received
  serving,    \* of each worker of a one-shot search: the requests left, by index, the
              \* first being served; the chunk holds what is left of that one's routes
  kept,       \* what those workers quoted: <<index of the request, route>>
  cancelled,  \* the flag the workers read
  worker,     \* "idle", "running", "ended" or "panicked"
  told,       \* the best amount the callback was ever given
  refused,    \* the callback returned SearchControl::Stop
  answers,    \* of a parallel or a batch search, to each request
  outcome     \* "none", then SearchFinality of the report, "ranked", or "error"

searchVars == <<cfg, st, quoted, error, live, told, refused, answers, outcome>>
serviceVars == <<serving, kept>>
workerVars == <<chunk, hop, failures, channel, cancelled, worker, serviceVars>>
vars == <<searchVars, workerVars, cacheVars, pc>>

\* The elements of S in the order of R.
InOrder(S, R) ==
  [i \in 1 .. Cardinality(S) |-> CHOOSE x \in S : Cardinality({y \in S : <<y, x>> \in R}) = i]
Ascending(S) == {r \in S \X S : r[1] <= r[2]}

\* How a report says its search ended; "policy" is StopPolicySatisfied.
SearchFinality == {"fast lane only", "heuristic only", "exhaustive", "policy", "stopped"}

AmountOf(p) ==
  IF \E i \in DOMAIN PathKeys[p] : Outcome[PathKeys[p][i]] = 0 THEN 0
  ELSE Outcome[PathKeys[p][Len(PathKeys[p])]]
Panics == Cardinality({t \in Threads : worker[t] = "panicked"})

Init ==
  /\ cfg \in Settings /\ CacheInit
  /\ pc = "start" /\ quoted = {} /\ error = FALSE /\ live = TRUE
  /\ st = [best |-> 0, heuristic |-> 0, top |-> <<>>, observed |-> 0, failed |-> 0, total |-> -1,
           completed |-> FALSE, released |-> cfg.gate.mode = "none", finality |-> "none"]
  /\ chunk = [t \in Threads |-> <<>>] /\ hop = [t \in Threads |-> 1]
  /\ failures = [t \in Threads |-> 0] /\ channel = <<>> /\ cancelled = FALSE
  /\ serving = [t \in Threads |-> <<>>] /\ kept = {}
  /\ worker = [t \in Threads |-> "idle"]
  /\ told = 0 /\ refused = FALSE /\ answers = <<>> /\ outcome = "none"

------------------------------------------------------------------------------
(* Progress and policies *)

Evaluated(s) == s.observed + s.failed

\* progress: the fraction of the candidates, -1 while their number is not known.
FractionBps(s) ==
  IF s.total = -1 THEN -1 ELSE IF s.total = 0 THEN 10000
  ELSE (Min({Evaluated(s), s.total}) * 10000) \div s.total

\* confidence_bps
ConfidenceBps(s) ==
  IF s.best = 0 THEN 0
  ELSE IF s.total > 0 /\ Evaluated(s) >= s.total THEN 9999
  ELSE IF s.total # -1 THEN Min({9000 + (FractionBps(s) \div 10), 9999})
  ELSE IF s.completed THEN 9000 ELSE 7000

\* is_satisfied
IsSatisfied(p, s) ==
  LET confident == ConfidenceBps(s) >= p.confidence
      enough == FractionBps(s) >= p.fraction
  IN \/ p.mode = "all" /\ (p.confidence # 0 => confident) /\ (p.fraction # 0 => enough)
     \/ p.mode = "any" /\ ((p.confidence # 0 /\ confident) \/ (p.fraction # 0 /\ enough))

\* emit_progress_and_apply_policies, and the events its caller emits after it ("best",
\* "found"). The callback stops the search at event n of those, or not (n = 0). Before
\* the gate opens nothing but progress is emitted; the event that opens it carries
\* the best so far.
Events(s, more) ==
  <<"progress">>
  \o (IF ~s.released /\ s.best # 0 /\ IsSatisfied(cfg.gate, s) THEN <<"ready">> ELSE <<>>)
  \o (IF ~s.released \/ (s.best # 0 /\ IsSatisfied(cfg.stop, s)) THEN <<>> ELSE more)
Announce(s, more, n) ==
  LET evs == Events(s, more)
      emitted == IF n = 0 THEN evs ELSE SubSeq(evs, 1, n)
      halt == n = 0 /\ s.best # 0 /\ IsSatisfied(cfg.stop, s)
  IN /\ n \in 0 .. Len(evs)
     /\ st' = [s EXCEPT !.released = @ \/ "ready" \in ToSet(emitted),
                        !.finality = IF n # 0 THEN "stopped" ELSE IF halt THEN "policy" ELSE @]
     /\ told' = IF ToSet(emitted) \cap {"ready", "best"} # {} THEN s.best ELSE told
     /\ refused' = (refused \/ n # 0)
Halted == st'.finality # "none"

\* observe_quote with record_top_route: a better quote replaces the best, and a quote among
\* the top_k is announced.
Ranked(s, p) == 1 + Cardinality({i \in DOMAIN s.top : AmountOf(s.top[i]) >= AmountOf(p)})
RecordTopRoute(s, p) ==
  LET top == InsertAt(s.top, Ranked(s, p), p) IN SubSeq(top, 1, Min({cfg.top_k, Len(top)}))
ObserveQuote(p, n) ==
  LET better == AmountOf(p) > st.best
      more == (IF better THEN <<"best">> ELSE <<>>)
              \o (IF Ranked(st, p) <= cfg.top_k THEN <<"found">> ELSE <<>>)
  IN Announce([st EXCEPT !.observed = @ + 1, !.top = RecordTopRoute(st, p),
                         !.best = IF better THEN AmountOf(p) ELSE @], more, n)

\* observe_failed_candidates
ObserveFailed(f, n) ==
  IF f = 0 THEN n = 0 /\ UNCHANGED <<st, told, refused>>
  ELSE Announce([st EXCEPT !.failed = @ + f], <<>>, n)

------------------------------------------------------------------------------
(* The coordinating thread *)

\* finish_stream_report: a gate that never opened is opened at the end, if the search found
\* a route, and the callback may stop there; then Completed, whose answer is ignored.
FinishReport(finality, completed, n) ==
  LET opens == ~st.released /\ st.best # 0
  IN /\ n \in IF opens THEN {0, 1} ELSE {0}
     /\ pc' = "returned"
     /\ outcome' = IF n = 1 THEN "stopped" ELSE finality
     /\ st' = [st EXCEPT !.released = @ \/ opens]
     /\ told' = IF opens \/ completed THEN st.best ELSE told
     /\ refused' = (refused \/ n = 1)
     /\ UNCHANGED <<cfg, answers, quoted, error, live, workerVars, cacheVars>>

\* stop_finality and should_emit_completion_for_stop
StopReportWithoutEvent(n) ==
  FinishReport(IF st.finality = "none" THEN "stopped" ELSE st.finality, FALSE, n)
StopReport(n) ==
  FinishReport(IF st.finality = "none" THEN "stopped" ELSE st.finality, st.finality = "policy", n)

Fail ==
  /\ pc' = "returned" /\ outcome' = "error"
  /\ UNCHANGED <<cfg, answers, st, quoted, error, live, told, refused, workerVars, cacheVars>>

\* The Started event; a stop there returns the empty report.
Start ==
  /\ pc = "start" /\ ~OneShot(cfg)
  /\ \/ pc' = "heuristic" /\ UNCHANGED <<refused, outcome>>
     \/ pc' = "returned" /\ refused' = TRUE /\ outcome' = "stopped"
  /\ UNCHANGED <<cfg, answers, st, quoted, error, live, told, workerVars, cacheVars>>

\* The heuristic phase quotes a route, and its hops are cached.
HeuristicQuote(p, n) ==
  /\ pc = "heuristic" /\ p \notin quoted /\ AmountOf(p) # 0
  /\ ObserveQuote(p, n)
  /\ quoted' = quoted \cup {p}
  /\ Quoted(ToSet(PathKeys[p]))
  /\ pc' = IF Halted THEN "heuristic over" ELSE pc
  /\ UNCHANGED <<cfg, answers, error, live, outcome, workerVars>>

\* The heuristic phase is over: stopped by the callback, by a policy or by the
\* candidate cap in the fast lane (capped), or exhausted. Without any route it
\* is an error, kept for later, unless only the fast lane was asked for.
HeuristicOver(f, capped, n) ==
  /\ pc = "heuristic" \/ pc = "heuristic over"
  /\ capped => cfg.cap # 0 /\ Cardinality(quoted) >= cfg.cap
  /\ IF quoted = {} /\ cfg.completion # "fast lane"
       THEN error' = TRUE /\ n = 0 /\ UNCHANGED <<st, told, refused>>
       ELSE ObserveFailed(f, n) /\ UNCHANGED error
  /\ pc' = IF pc = "heuristic over" \/ capped \/ Halted THEN "stopping" ELSE "heuristic done"
  /\ UNCHANGED <<cfg, answers, quoted, live, outcome, workerVars, cacheVars>>

\* finish_heuristic_phase, then should_continue.
FinishHeuristic(n) ==
  /\ pc = "heuristic done"
  /\ Announce([st EXCEPT !.heuristic = st.best, !.completed = TRUE], <<>>, n)
  /\ pc' = IF Halted \/ ~live THEN "stopping" ELSE "heuristic phase"
  /\ UNCHANGED <<cfg, answers, quoted, error, live, outcome, workerVars, cacheVars>>

Stopping(n) == pc = "stopping" /\ StopReport(n)

\* PhaseCompleted of the heuristic phase, which the callback may stop at (stop), and
\* what the configured completion asks for after it.
HeuristicPhase(stop, n) ==
  /\ pc = "heuristic phase"
  /\ \/ /\ stop /\ pc' = "refused" /\ refused' = TRUE /\ n = 0
        /\ UNCHANGED <<cfg, answers, st, quoted, error, live, told, outcome, workerVars, cacheVars>>
     \/ /\ ~stop /\ cfg.completion = "exhaustive" /\ n = 0
        /\ pc' = "enumerate"
        /\ UNCHANGED <<searchVars, workerVars, cacheVars>>
     \/ /\ ~stop /\ cfg.completion # "exhaustive"
        /\ IF st.best = 0 /\ error THEN n = 0 /\ Fail
           ELSE FinishReport(IF cfg.completion = "fast lane" THEN "fast lane only"
                             ELSE "heuristic only", TRUE, n)

Refused(n) == pc = "refused" /\ FinishReport("stopped", FALSE, n)

\* enumerate_routes_filtered: the routes not quoted yet, as many as the cap leaves. It
\* polls should_continue; without any route at all there is nothing to enumerate.
UnquotedOrNotTop == Paths \ {p \in quoted : p \in ToSet(st.top)}
Unquoted == Paths \ quoted
Remaining ==
  LET left == InOrder(Unquoted, Ascending(Unquoted))
      budget == Max({cfg.cap - Evaluated(st), 0})
  IN IF cfg.cap = 0 THEN left ELSE SubSeq(left, 1, Min({budget, Len(left)}))

\* split_paths: route i goes to worker i modulo their number.
SplitPaths(paths) ==
  LET workers == Workers(paths)
      mine(t) == {i \in DOMAIN paths : i % workers = t % workers}
  IN [t \in Threads |->
        IF t > workers THEN <<>>
        ELSE LET idx == InOrder(mine(t), Ascending(mine(t)))
             IN [i \in DOMAIN idx |-> paths[idx[i]]]]

Enumerate(n) ==
  /\ pc = "enumerate"
  /\ IF ~live THEN n = 0 /\ pc' = "refused" /\ UNCHANGED <<searchVars, workerVars, cacheVars>>
     ELSE LET left == Remaining
          IN /\ Announce([st EXCEPT !.total = Evaluated(st) + Len(left)], <<>>, n)
             /\ chunk' = IF left = <<>> THEN chunk ELSE SplitPaths(left)
             /\ worker' = [t \in Threads |-> IF chunk'[t] # <<>> /\ ~Halted THEN "running" ELSE "idle"]
             /\ pc' = IF Halted THEN "stopping" ELSE "workers"
             /\ UNCHANGED <<cfg, answers, quoted, error, live, outcome, hop, failures, channel, cancelled,
                            serviceVars, cacheVars>>

\* on_quote for a message of the channel; a stop raises the flag and drops the receiver.
Receive(n) ==
  /\ pc = "workers" /\ channel # <<>> /\ ~cancelled
  /\ ObserveQuote(Head(channel), n)
  /\ quoted' = quoted \cup {Head(channel)}
  /\ cancelled' = Halted
  /\ channel' = IF Halted THEN <<>> ELSE Tail(channel)
  /\ UNCHANGED <<cfg, answers, error, live, outcome, chunk, hop, failures, worker, serviceVars,
                 cacheVars, pc>>

\* All workers are joined: every sender is gone and the channel drained.
Join(n) ==
  /\ pc = "workers" /\ channel = <<>> /\ \A t \in Threads : worker[t] # "running"
  /\ IF Panics > 0 THEN n = 0 /\ Fail
     ELSE /\ IF cancelled THEN n = 0 /\ UNCHANGED <<st, told, refused>>
             ELSE ObserveFailed(FoldFunction(+, 0, failures), n)
          /\ pc' = IF cancelled \/ Halted THEN "stopping" ELSE "exhaustive phase"
          /\ UNCHANGED <<cfg, answers, quoted, error, live, outcome, workerVars, cacheVars>>

\* PhaseCompleted of the exhaustive phase, and the final report.
ExhaustivePhase(stop, n) ==
  /\ pc = "exhaustive phase"
  /\ \/ /\ stop /\ pc' = "refused" /\ refused' = TRUE /\ n = 0
        /\ UNCHANGED <<cfg, answers, st, quoted, error, live, told, outcome, workerVars, cacheVars>>
     \/ /\ ~stop
        /\ IF st.best = 0 THEN n = 0 /\ Fail ELSE FinishReport("exhaustive", TRUE, n)

\* The first max_candidates routes of a request.
UpToCap(r) == IF cfg.cap = 0 THEN r ELSE SubSeq(r, 1, Min({cfg.cap, Len(r)}))

\* quote_and_rank_parallel splits the routes of one request. A batch splits the requests
\* (split_indexed_items), and a worker serves whole requests, one after the other
\* (find_route_request_chunk, find_cycle_request_chunk).
SplitIndexedItems(requests) == SplitPaths([i \in DOMAIN requests |-> i])
RoutesOf(i) == UpToCap(cfg.requests[i])
StartWorkers(indexes, chunks) ==
  /\ pc = "start" /\ pc' = "ranking" /\ serving' = indexes /\ chunk' = chunks
  /\ worker' = [t \in Threads |-> IF indexes[t] # <<>> THEN "running" ELSE "idle"]
  /\ UNCHANGED <<searchVars, hop, failures, channel, cancelled, kept, cacheVars>>
StartParallel ==
  /\ cfg.completion = "parallel"
  /\ LET split == SplitPaths(RoutesOf(1))
     IN StartWorkers([t \in Threads |-> IF split[t] = <<>> THEN <<>> ELSE <<1>>], split)
StartBatch ==
  /\ cfg.completion = "batch"
  /\ LET split == SplitIndexedItems(cfg.requests)
     IN StartWorkers(split, [t \in Threads |-> IF split[t] = <<>> THEN <<>>
                                              ELSE RoutesOf(Head(split[t]))])

\* rank_or_no_viable: by output; which of two equals comes first does not matter here.
RanksBefore(p, q) == AmountOf(p) > AmountOf(q) \/ (AmountOf(p) = AmountOf(q) /\ p <= q)
Rank(routes) == InOrder(routes, {r \in routes \X routes : RanksBefore(r[1], r[2])})

\* What the joined workers return, each result with the index of its request.
Served ==
  IF cfg.completion = "parallel" THEN {1}
  ELSE UNION {ToSet(SplitIndexedItems(cfg.requests)[t]) : t \in Threads}
Results == {<<i, Rank({q[2] : q \in {r \in kept : r[1] = i}})>> : i \in Served}

\* collect_ordered_results: the results by index, not in the order the workers are joined,
\* and then without it.
CollectAsJoined(results) ==
  LET w == Workers(cfg.requests)
      before(x, y) == (x - 1) % w < (y - 1) % w \/ ((x - 1) % w = (y - 1) % w /\ x <= y)
      order == InOrder(results, {r \in results \X results : before(r[1][1], r[2][1])})
  IN [i \in DOMAIN order |-> order[i][2]]
CollectOrdered(results) ==
  LET order == InOrder(results, {r \in results \X results : r[1][1] <= r[2][1]})
  IN [i \in DOMAIN order |-> order[i][2]]

\* The workers are joined; a panic of one fails the whole call.
RankAnswers ==
  /\ pc = "ranking" /\ \A t \in Threads : worker[t] # "running"
  /\ IF Panics > 0 THEN Fail
     ELSE /\ pc' = "returned" /\ outcome' = "ranked"
          /\ answers' = CollectOrdered(Results) /\ kept' = {}
          /\ UNCHANGED <<cfg, st, quoted, error, live, told, refused, chunk, hop, failures, channel,
                         cancelled, serving, worker, cacheVars>>

\* The owner of a live search cancels it.
Cancel ==
  /\ pc \notin {"start", "returned"} /\ ~OneShot(cfg) /\ live /\ live' = FALSE
  /\ UNCHANGED <<cfg, answers, pc, st, quoted, error, told, refused, outcome, workerVars, cacheVars>>

------------------------------------------------------------------------------
(* The workers *)

coordinatorIdle == UNCHANGED <<searchVars, pc>>

\* The quote cache is asked for the next hop of the first route of the chunk.
AskHop(t) ==
  /\ worker[t] = "running" /\ chunk[t] # <<>> /\ doing[t] = "idle" /\ reply[t] = <<>>
  /\ Ask(t, PathKeys[Head(chunk[t])][hop[t]])
  /\ coordinatorIdle /\ UNCHANGED workerVars

WorkerLookUp(t) == LookUp(t) /\ coordinatorIdle /\ UNCHANGED workerVars
WorkerSimulated(t) == Simulated(t) /\ coordinatorIdle /\ UNCHANGED workerVars
WorkerPanics(t) ==
  /\ Panics < MaxPanics /\ Panicked(t)
  /\ worker' = [worker EXCEPT ![t] = "panicked"] /\ chunk' = [chunk EXCEPT ![t] = <<>>]
  /\ coordinatorIdle /\ UNCHANGED <<hop, failures, channel, cancelled, serviceVars>>

NextPath(t) == chunk' = [chunk EXCEPT ![t] = Tail(@)] /\ hop' = [hop EXCEPT ![t] = 1]
Consumed(t) == reply' = [reply EXCEPT ![t] = <<>>] /\ UNCHANGED <<entries, indexed, asking, doing>>

\* The hop is quoted: go on, or fail the route at its first hop without a quote.
HopDone(t) ==
  /\ doing[t] = "idle" /\ reply[t] # <<>> /\ chunk[t] # <<>>
  /\ \/ /\ reply[t][2] = 0
        /\ NextPath(t) /\ failures' = [failures EXCEPT ![t] = @ + 1]
     \/ /\ reply[t][2] # 0 /\ hop[t] < Len(PathKeys[Head(chunk[t])])
        /\ hop' = [hop EXCEPT ![t] = @ + 1] /\ UNCHANGED <<chunk, failures>>
  /\ Consumed(t) /\ coordinatorIdle /\ UNCHANGED <<channel, cancelled, worker, serviceVars>>

\* The whole route is quoted, and kept for the request being served; or on_worker_quote: nothing
\* is sent once the flag is up, and a send to a dropped receiver fails; either ends the worker.
SendQuote(t) ==
  /\ doing[t] = "idle" /\ reply[t] # <<>> /\ chunk[t] # <<>>
  /\ reply[t][2] # 0 /\ hop[t] = Len(PathKeys[Head(chunk[t])])
  /\ IF OneShot(cfg)
       THEN kept' = kept \cup {<<Head(serving[t]), Head(chunk[t])>>} /\ UNCHANGED <<channel, worker>>
     ELSE IF cancelled
       THEN worker' = [worker EXCEPT ![t] = "ended"] /\ UNCHANGED <<channel, kept>>
       ELSE channel' = Append(channel, Head(chunk[t])) /\ UNCHANGED <<worker, kept>>
  /\ NextPath(t) /\ Consumed(t) /\ coordinatorIdle /\ UNCHANGED <<failures, cancelled, serving>>

\* A request is served: the routes of the next one are enumerated.
NextRequest(t) ==
  /\ worker[t] = "running" /\ chunk[t] = <<>> /\ Len(serving[t]) > 1
  /\ serving' = [serving EXCEPT ![t] = Tail(@)]
  /\ chunk' = [chunk EXCEPT ![t] = RoutesOf(serving[t][2])] /\ hop' = [hop EXCEPT ![t] = 1]
  /\ coordinatorIdle /\ UNCHANGED <<failures, channel, cancelled, worker, kept, cacheVars>>

WorkerEnds(t) ==
  /\ worker[t] = "running" /\ chunk[t] = <<>> /\ Len(serving[t]) <= 1
  /\ worker' = [worker EXCEPT ![t] = "ended"]
  /\ coordinatorIdle
  /\ UNCHANGED <<chunk, hop, failures, channel, cancelled, serviceVars, cacheVars>>

Stops == 0 .. 4
Coordinate ==
  \/ Start \/ StartParallel \/ StartBatch \/ RankAnswers
  \/ \E n \in Stops :
       \/ \E p \in Paths : HeuristicQuote(p, n)
       \/ \E f \in 0 .. MaxFailed, c \in BOOLEAN : HeuristicOver(f, c, n)
       \/ \E s \in BOOLEAN : HeuristicPhase(s, n) \/ ExhaustivePhase(s, n)
       \/ FinishHeuristic(n) \/ Stopping(n) \/ Refused(n) \/ Enumerate(n) \/ Receive(n) \/ Join(n)
Work(t) ==
  AskHop(t) \/ WorkerLookUp(t) \/ WorkerSimulated(t) \/ HopDone(t) \/ SendQuote(t)
  \/ NextRequest(t) \/ WorkerEnds(t)

Next == Coordinate \/ Cancel \/ \E t \in Threads : Work(t) \/ WorkerPanics(t)

Spec == Init /\ [][Next]_vars
\* Scoped threads run, and so does the thread that waits for them.
Fairness == WF_vars(Coordinate) /\ \A t \in Threads : WF_vars(Work(t))
FairSpec == Spec /\ Fairness

------------------------------------------------------------------------------
(* Properties *)

\* A report that calls itself exhaustive has seen every route of the request, whichever
\* phase or worker quoted it, and names the best of them. A batch gives every request an
\* answer, in the place of that request, with every route that can be quoted for it and
\* no other, whichever worker served it and whatever routes other requests share with it.
ExhaustiveIsExact ==
  /\ (outcome = "exhaustive" /\ cfg.cap = 0) =>
       /\ quoted = {p \in Paths : AmountOf(p) # 0}
       /\ st.best = Max({AmountOf(p) : p \in Paths})
  /\ outcome = "ranked" =>
       /\ DOMAIN answers = DOMAIN cfg.requests
       /\ \A i \in DOMAIN cfg.requests :
            ToSet(answers[i]) = {p \in ToSet(RoutesOf(i)) : AmountOf(p) # 0}

\* No route is reported twice: what the heuristic phase quoted is left out of the remainder.
EachRouteOnce == st.observed = Cardinality(quoted)

\* A caller that only listens to events knows the best route as soon as the gate is open,
\* but for what arrives together with the stop policy's verdict, and in any case once the
\* search returns a report, whether it ran to its end, was cancelled or was stopped by a
\* policy. Left out are a caller that itself said stop, and a search that failed.
CallerKnowsBest ==
  ~refused /\ outcome # "error" /\ (pc = "returned" \/ (st.released /\ st.finality # "policy"))
    => told = st.best

\* Stopped, cancelled or with a panicking worker, the search returns: no worker waits for a
\* quote that nobody simulates, and the coordinator does not wait for a worker that is gone.
SearchReturns == <>(pc = "returned")
==============================================================================
