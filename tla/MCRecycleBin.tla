---------------------------- MODULE MCRecycleBin ----------------------------
EXTENDS RecycleBin, TLC

CONSTANTS k1, k2, nk, v1

(* Every other text cell, '' for one, comes back as v1, the NULL. *)
MCReread == [v \in Vals |-> v1]

(* A filter that leaves a key out, and one that every row matches. *)
NarrowFilter == {Keys \ {k1}}
WideFilter == {Keys}

Symmetry == Permutations(Batches) \cup Permutations(Reqs) \cup Permutations(Pks)
=============================================================================
