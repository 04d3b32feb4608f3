------------------------------ MODULE QuoteCache ------------------------------
(***************************************************************************)
(* SharedQuoteCache of src/search.rs: the exact-hop quotes that the threads *)
(* of one search share. The first thread that misses a key simulates it     *)
(* outside the lock; the others sleep on the condition variable until it    *)
(* is ready, or until the simulation panicked and its guard removed the     *)
(* entry, when one of them takes its place.                                 *)
(* A definition whose name says what it gets wrong is a mutation of the one *)
(* that follows it, never used.                                             *)
(***************************************************************************)
EXTENDS Integers, FiniteSets

CONSTANTS Threads, Keys, Outcome  \* see QuoteMemo
Absent == -2
InFlight == -1

ASSUME CacheAssumption == IsFiniteSet(Threads) /\ Outcome \in [Keys -> Nat]

VARIABLES
  entries,  \* QuoteCacheState of each key, Ready as its result
  indexed,  \* the keys in keys_by_pool
  asking,   \* the key each thread is getting, Absent if none
  doing,    \* "idle", "lookup", "asleep" or "simulating"
  reply     \* what get_or_quote last returned to each thread

cacheVars == <<entries, indexed, asking, doing, reply>>

CacheInit ==
  /\ entries = [k \in Keys |-> Absent] /\ indexed = {}
  /\ asking = [t \in Threads |-> Absent] /\ doing = [t \in Threads |-> "idle"]
  /\ reply = [t \in Threads |-> <<>>]

\* A thread calls get_or_quote.
Ask(t, k) ==
  /\ doing[t] = "idle"
  /\ asking' = [asking EXCEPT ![t] = k] /\ doing' = [doing EXCEPT ![t] = "lookup"]
  /\ reply' = [reply EXCEPT ![t] = <<>>]
  /\ UNCHANGED <<entries, indexed>>

\* notify_all: sleepers look again.
Notified(d) == [t \in Threads |-> IF d[t] = "asleep" THEN "lookup" ELSE d[t]]

Returned(t, result) ==
  /\ reply' = [reply EXCEPT ![t] = <<asking[t], result>>]
  /\ asking' = [asking EXCEPT ![t] = Absent]

\* What a turn of the loop finds.
MissesInFlight(k) == entries[k] < 0
Misses(k) == entries[k] = Absent

\* One turn of the loop, under the lock of the entries.
LookUp(t) ==
  /\ doing[t] = "lookup"
  /\ LET k == asking[t]
     IN \/ /\ entries[k] >= 0
           /\ Returned(t, entries[k]) /\ doing' = [doing EXCEPT ![t] = "idle"]
           /\ UNCHANGED <<entries, indexed>>
        \/ /\ entries[k] < 0 /\ ~Misses(k)
           /\ doing' = [doing EXCEPT ![t] = "asleep"]
           /\ UNCHANGED <<entries, indexed, asking, reply>>
        \/ /\ Misses(k)
           /\ entries' = [entries EXCEPT ![k] = InFlight] /\ indexed' = indexed \cup {k}
           /\ doing' = [doing EXCEPT ![t] = "simulating"]
           /\ UNCHANGED <<asking, reply>>

\* The simulation is over: its result is kept, a failure too, and the guard is disarmed.
SimulatedStillArmed(t) ==
  /\ doing[t] = "simulating"
  /\ entries' = [entries EXCEPT ![asking[t]] = Absent] /\ indexed' = indexed \ {asking[t]}
  /\ Returned(t, Outcome[asking[t]])
  /\ doing' = Notified([doing EXCEPT ![t] = "idle"])
Simulated(t) ==
  /\ doing[t] = "simulating"
  /\ LET k == asking[t]
     IN /\ entries' = [entries EXCEPT ![k] = IF @ = InFlight THEN Outcome[k] ELSE @]
        /\ Returned(t, Outcome[k])
        /\ doing' = Notified([doing EXCEPT ![t] = "idle"])
        /\ UNCHANGED indexed

\* The simulation panics: InFlightQuoteGuard::drop removes the entry while it unwinds.
PanickedUnnoticed(t) ==
  /\ doing[t] = "simulating"
  /\ entries' = [entries EXCEPT ![asking[t]] = Absent] /\ indexed' = indexed \ {asking[t]}
  /\ asking' = [asking EXCEPT ![t] = Absent] /\ doing' = [doing EXCEPT ![t] = "idle"]
  /\ UNCHANGED reply
Panicked(t) ==
  /\ doing[t] = "simulating"
  /\ entries' = [entries EXCEPT ![asking[t]] = Absent] /\ indexed' = indexed \ {asking[t]}
  /\ asking' = [asking EXCEPT ![t] = Absent]
  /\ doing' = Notified([doing EXCEPT ![t] = "idle"])
  /\ UNCHANGED reply

\* A search in one thread quoted the keys of S: nothing was in flight.
Quoted(S) ==
  /\ entries' = [k \in Keys |-> IF k \in S /\ entries[k] = Absent THEN Outcome[k] ELSE entries[k]]
  /\ indexed' = indexed \cup S
  /\ UNCHANGED <<asking, doing, reply>>

------------------------------------------------------------------------------
(* Properties *)

\* A key is in flight exactly while one thread simulates it, no two threads simulate the
\* same key, and every entry, in flight or ready, is found by its pool for invalidation.
SingleFlight ==
  /\ \A k \in Keys :
       Cardinality({t \in Threads : doing[t] = "simulating" /\ asking[t] = k})
         = IF entries[k] = InFlight THEN 1 ELSE 0
  /\ indexed = {k \in Keys : entries[k] # Absent}

\* The cache implements the memo: entries in flight do not show, sleeping and
\* panics are stutters.
Memo == INSTANCE QuoteMemo WITH
  memo <- [k \in Keys |-> IF entries[k] >= 0 THEN entries[k] ELSE Absent]
ImplementsMemo == Memo!Spec
==============================================================================
