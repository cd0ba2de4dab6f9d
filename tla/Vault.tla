------------------------------- MODULE Vault -------------------------------
(***************************************************************************)
(* What the recycle bin promises of one table, whatever happens inside:    *)
(* a row id that entered the table is in the table, or in the bin, or in   *)
(* both; a row leaves the table only for the bin; a row comes back only    *)
(* from the bin.  README.md, "How deletion works".                         *)
(***************************************************************************)
CONSTANT Ids
VARIABLES live,   \* ids of the rows in the table
          bin     \* ids of the rows some committed batch archives

known == live \cup bin

Init == live \subseteq Ids /\ bin = {}

(* An upload brings rows nobody has seen. *)
Enter == /\ \E S \in SUBSET (Ids \ known) : live' = live \cup S
         /\ UNCHANGED bin

(* A delete archives the rows S and removes those of them still there. *)
Discard == \E S \in SUBSET known, D \in SUBSET live :
              /\ D \subseteq S
              /\ live' = live \ D
              /\ bin' = bin \cup S

(* A restore brings archived rows back; the archive stays. *)
Recover == /\ \E S \in SUBSET bin : live' = live \cup S
           /\ UNCHANGED bin

Next == Enter \/ Discard \/ Recover
Spec == Init /\ [][Next]_<<live, bin>>
=============================================================================
