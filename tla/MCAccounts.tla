----------------------------- MODULE MCAccounts -----------------------------
(* Small instances of Accounts. *)
EXTENDS Accounts, TLC

CONSTANTS u1, u2, t1, t2, l1, r1, r2

Symmetry == Permutations(Users) \cup Permutations(Tokens) \cup Permutations(Reqs)
=============================================================================
