----------------------------- MODULE MCLiveGraph -----------------------------
EXTENDS LiveGraph, TLC

CONSTANTS p1, p2, ta, tb, tc

\* A pair, and a pool over it and a third token.
Pair == [status |-> "Ready", tokens |-> {ta, tb}]
Triple == [status |-> "Ready", tokens |-> {ta, tb, tc}]
MCMetadata == {Pair, Triple}

Symmetry == Permutations(Pools)
==============================================================================
