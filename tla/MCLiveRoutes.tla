----------------------------- MODULE MCLiveRoutes -----------------------------
(* LiveRoutes on small instances; see the cfg files for the bounds. *)
EXTENDS LiveRoutes, TLC

Symmetry == Permutations(Workers) \cup Permutations(Specs)
==============================================================================
