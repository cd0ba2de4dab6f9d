------------------------------- MODULE Ledger -------------------------------
(***************************************************************************)
(* What an audit trail owes its readers, change by change: every committed *)
(* change is entered, is about to be entered by the request that made it,  *)
(* or was lost with that request; no entry is without its change, none is  *)
(* ever taken back, and the kinds in Atomic are entered in the very commit *)
(* that makes the change.                                                  *)
(***************************************************************************)
EXTENDS Integers

CONSTANTS Subjects, Kinds, Atomic
VARIABLES
  made,      \* changes committed, of each kind to each subject
  entries,   \* entries in the log
  owed,      \* changes whose request has still to enter them
  lost       \* changes whose request ended without an entry

Zero == [s \in Subjects |-> [k \in Kinds |-> 0]]
Plus(f, s, k, n) == [f EXCEPT ![s] = [f[s] EXCEPT ![k] = f[s][k] + n]]

Init == made = Zero /\ entries = Zero /\ owed = Zero /\ lost = Zero

Together(s, k) == /\ made' = Plus(made, s, k, 1)
                  /\ entries' = Plus(entries, s, k, 1)
                  /\ UNCHANGED <<owed, lost>>
Change(s, k) == /\ k \notin Atomic
                /\ made' = Plus(made, s, k, 1)
                /\ owed' = Plus(owed, s, k, 1)
                /\ UNCHANGED <<entries, lost>>
Enter(s, k) == /\ owed[s][k] > 0
               /\ owed' = Plus(owed, s, k, -1)
               /\ entries' = Plus(entries, s, k, 1)
               /\ UNCHANGED <<made, lost>>
Lose(s, k) == /\ owed[s][k] > 0
              /\ owed' = Plus(owed, s, k, -1)
              /\ lost' = Plus(lost, s, k, 1)
              /\ UNCHANGED <<made, entries>>

Next == \E s \in Subjects, k \in Kinds :
           Together(s, k) \/ Change(s, k) \/ Enter(s, k) \/ Lose(s, k)
Spec == Init /\ [][Next]_<<made, entries, owed, lost>>

-----------------------------------------------------------------------------
(* What follows for a reader of the log.                                   *)

Counts == [Subjects -> [Kinds -> Nat]]
TypeOK == made \in Counts /\ entries \in Counts /\ owed \in Counts /\ lost \in Counts

(* Each change is accounted for once: no entry is missing without reason,  *)
(* none is without its change, and none is there twice.                    *)
Balanced == \A s \in Subjects, k \in Kinds :
               made[s][k] = entries[s][k] + owed[s][k] + lost[s][k]

(* Of the kinds in Atomic the log is never behind. *)
UpToDate == \A s \in Subjects, k \in Kinds \cap Atomic : entries[s][k] = made[s][k]
=============================================================================
