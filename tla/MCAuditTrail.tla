---------------------------- MODULE MCAuditTrail ----------------------------
(* Two files of one name, uploaded to one table. *)
EXTENDS AuditTrail, TLC
CONSTANTS u1, u2, n1, t1, r1, r2, r3
Symmetry == Permutations(Reqs) \cup Permutations(Uploads)
MCFileName == u1 :> n1 @@ u2 :> n1
MCTableName == u1 :> t1 @@ u2 :> t1
=============================================================================
