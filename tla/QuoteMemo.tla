------------------------------- MODULE QuoteMemo -------------------------------
(***************************************************************************)
(* What the shared quote cache promises its callers: a quote is simulated   *)
(* once, kept, and every caller that asks for it gets that one result. How  *)
(* callers wait for one another does not show.                              *)
(***************************************************************************)
EXTENDS Integers

CONSTANTS
  Threads,  \* the callers
  Keys,     \* HopQuoteKey
  Outcome,  \* what simulating a key gives; 0 is a failure
  Absent    \* no result

VARIABLES
  memo,   \* the results kept
  reply   \* the key and result of each thread's last call, <<>> if it was taken

Init == memo = [k \in Keys |-> Absent] /\ reply = [t \in Threads |-> <<>>]

\* Results already known, as the search before the threads start leaves them.
Remember ==
  /\ memo' \in [Keys -> {Absent} \cup {Outcome[k] : k \in Keys}]
  /\ \A k \in Keys : memo'[k] # memo[k] => memo[k] = Absent /\ memo'[k] = Outcome[k]
  /\ UNCHANGED reply

\* A caller gets the result kept for its key, or the one it is the first to find.
Answer(t, k) ==
  /\ memo' = [memo EXCEPT ![k] = IF @ = Absent THEN Outcome[k] ELSE @]
  /\ reply' = [reply EXCEPT ![t] = <<k, memo'[k]>>]

Forget(t) == reply' = [reply EXCEPT ![t] = <<>>] /\ UNCHANGED memo

Next ==
  \/ Remember
  \/ \E t \in Threads : Forget(t) \/ \E k \in Keys : Answer(t, k)

Spec == Init /\ [][Next]_<<memo, reply>>
==============================================================================
