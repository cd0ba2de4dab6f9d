----------------------------- MODULE MCFkLabels -----------------------------
(* Small instances of FkLabels. *)
EXTENDS FkLabels, TLC

CONSTANTS w1, w2, r1, r2, r3, LA, FC, Lagos, Capital

TwoAndOne == (r1 :> w1) @@ (r2 :> w1) @@ (r3 :> w2)
Symmetry == Permutations(Codes) \cup Permutations(Names) \cup Permutations({r1, r2})
=============================================================================
