-------------------------- MODULE MCStreamingSearch --------------------------
EXTENDS StreamingSearch

\* Routes 1 and 2 share their first hop, route 3 fails at its second, route 4 is direct.
MCPathKeys == <<<<1, 2>>, <<1, 3>>, <<4, 5>>, <<6>>>>
MCOutcome == <<1, 2, 3, 1, 0, 2>>

MCSettings ==
  {DefaultSettings,
   [DefaultSettings EXCEPT !.gate = PolicyWithFraction(PolicyWithConfidence(NoPolicy, 9000), 5000)],
   [DefaultSettings EXCEPT !.stop = [mode |-> "any", confidence |-> 9999, fraction |-> 7500],
                           !.cap = 3],
   [DefaultSettings EXCEPT !.completion = "heuristic",
                           !.gate = [mode |-> "any", confidence |-> 7500, fraction |-> 0]],
   [DefaultSettings EXCEPT !.completion = "fast lane", !.cap = 2],
   [DefaultSettings EXCEPT !.completion = "parallel", !.requests = <<<<4, 1, 3, 2>>>>, !.cap = 3],
   [DefaultSettings EXCEPT !.completion = "batch", !.requests = <<<<1, 4>>, <<1, 3>>, <<4>>>>]}
==============================================================================
