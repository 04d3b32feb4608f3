----------------------------- MODULE MCWarmStore -----------------------------
(* WarmStore on small instances; see the cfg files for the bounds. *)
EXTENDS WarmStore, TLC

Symmetry == Permutations(Hashes)
==============================================================================
