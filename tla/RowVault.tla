------------------------------ MODULE RowVault ------------------------------
(***************************************************************************)
(* The promise of Vault with the contents of the rows: a row leaves the    *)
(* table only when a copy of what it contains is in the bin; it comes back *)
(* as some copy has it, and never in place of a row that is there; a copy, *)
(* once in the bin, stays.  Nothing but an edit changes a row in place.    *)
(***************************************************************************)
CONSTANTS Ids, Contents, Absent,
          Copied    \* Copied[c]: what the copy of a row with contents c holds
VARIABLES rows,     \* rows[p]: the contents of row p, Absent when it is not there
          bin       \* the copies: pairs of a row id and contents

There == {p \in Ids : rows[p] # Absent}
known == There \cup {copy[1] : copy \in bin}

Init == rows \in [Ids -> Contents \cup {Absent}] /\ bin = {}

(* An upload brings rows nobody has seen. *)
Enter == /\ \A p \in Ids : \/ rows'[p] = rows[p]
                           \/ p \notin known /\ rows'[p] \in Contents
         /\ UNCHANGED bin

Edit == /\ \E p \in There : /\ rows'[p] \in Contents
                            /\ \A q \in Ids \ {p} : rows'[q] = rows[q]
        /\ UNCHANGED bin

(* A delete puts copies in the bin, and of what it removes a true one. *)
Discard == /\ \A p \in Ids : \/ rows'[p] = rows[p]
                             \/ rows'[p] = Absent /\ <<p, Copied[rows[p]]>> \in bin'
           /\ bin \subseteq bin'
           /\ \A copy \in bin' : copy[1] \in known

Recover == /\ \A p \in Ids : \/ rows'[p] = rows[p]
                             \/ rows[p] = Absent /\ <<p, rows'[p]>> \in bin
           /\ UNCHANGED bin

Next == Enter \/ Edit \/ Discard \/ Recover
Spec == Init /\ [][Next]_<<rows, bin>>
=============================================================================
