----------------------------- MODULE RecycleBin -----------------------------
(***************************************************************************)
(* The recycle bin of the admin API (src/app/services/recycle_bin.py) over *)
(* one production table, with every handler that writes the table:         *)
(* row and bulk delete, row and batch restore, row edit (tables.py,        *)
(* recycle.py) and the COPY of an upload (uploads.py).                     *)
(*                                                                         *)
(* Each request in Reqs runs on a pooled connection of its own.  A delete  *)
(* or a restore is one READ COMMITTED transaction, split here at every     *)
(* database or storage call, because the calls of other requests fall      *)
(* between them.  What a transaction has not committed lives in tx[r]:     *)
(* the rows it deleted or inserted are locked against the other requests   *)
(* and invisible to them.  Object storage takes no part in a transaction:  *)
(* a rollback leaves the objects behind.                                   *)
(***************************************************************************)
EXTENDS Naturals, FiniteSets

CONSTANTS
  Pks,          \* primary keys the table's sequence can hand out (a bound)
  Keys,         \* natural keys: the columns of the table's unique index
  NullKeys,     \* natural keys with a NULL column: the index never equates them
  Vals,         \* contents of the remaining columns
  Reread,       \* Reread[v]: what v is after _csv_cell and _coerce
  Batches,      \* batch ids that uuid4 can draw (a bound)
  Reqs,         \* requests in flight at once (a bound)
  BulkFilters,  \* sets of natural keys that a bulk-delete filter can select
  NoRow, NoBatch

Row == [key : Keys, val : Vals]

ASSUME NullKeysAssumption == NullKeys \subseteq Keys
ASSUME RereadAssumption == Reread \in [Vals -> Vals]
ASSUME FiltersAssumption == BulkFilters \subseteq SUBSET Keys
ASSUME NoRowAssumption == NoRow \notin Row
ASSUME NoBatchAssumption == NoBatch \notin Batches
ASSUME PksAssumption == IsFiniteSet(Pks)

(* A set of rows indexed by primary key: the table, a CSV, an overlay. *)
Archive == [Pks -> Row \cup {NoRow}]
Empty == [p \in Pks |-> NoRow]
RowsOf(a) == {p \in Pks : a[p] # NoRow}

(* What the CSV of the rows in a gives back when it is read. *)
Stored(row) == IF row = NoRow THEN NoRow ELSE [row EXCEPT !.val = Reread[@]]
Csv(a) == [p \in Pks |-> Stored(a[p])]

(* WHERE clauses: delete_row names one primary key, bulk_delete a filter. *)
Wheres == {[pks |-> {p}, keys |-> Keys] : p \in Pks}
            \cup {[pks |-> Pks, keys |-> K] : K \in BulkFilters}
MatchingAnyPk(a, w) == {p \in RowsOf(a) : a[p].key \in w.keys}        \* mutant
Matching(a, w) == {p \in RowsOf(a) : p \in w.pks /\ a[p].key \in w.keys}

VARIABLES
  live,      \* the committed production table
  issued,    \* primary keys handed out so far
  csv,       \* object storage: the CSV of each batch, Empty when not written
  sidecar,   \* object storage: batches whose type sidecar is written
  status,    \* admin_recycle_batches.status, "none" when there is no such row
  listed,    \* admin_recycle_rows: the row_pks recorded for each batch
  rowCount,  \* admin_recycle_batches.row_count
  tx         \* the request a connection is serving, and its open transaction

store == <<csv, sidecar>>
manifest == <<status, listed, rowCount>>
vars == <<live, issued, csv, sidecar, status, listed, rowCount, tx>>

Stages == {"idle", "selected", "exported", "described", "deleted",
           "inserting", "returning", "kept", "emptied"}
NoWhere == [pks |-> {}, keys |-> {}]

(***************************************************************************)
(* tx[r].at: the last call the handler made; where, sel: the delete's      *)
(* predicate and the rows it read; bat: its batch; del, ins: uncommitted   *)
(* deletes and inserts; todo: rows _insert_rows has still to insert; want: *)
(* the row restore_row was asked for.                                      *)
(***************************************************************************)
Tx == [at : Stages, where : [pks : SUBSET Pks, keys : SUBSET Keys],
       sel : Archive, bat : Batches \cup {NoBatch}, del : SUBSET Pks,
       ins : Archive, todo : SUBSET Pks, want : SUBSET Pks]
NoTx == [at |-> "idle", where |-> NoWhere, sel |-> Empty, bat |-> NoBatch,
         del |-> {}, ins |-> Empty, todo |-> {}, want |-> {}]

UniqueKeys(a) == \A p, q \in RowsOf(a) :
                    p # q /\ a[p].key = a[q].key => a[p].key \in NullKeys

Init == /\ live \in {a \in Archive : UniqueKeys(a)}
        /\ issued = RowsOf(live)
        /\ csv = [b \in Batches |-> Empty]
        /\ sidecar = {}
        /\ status = [b \in Batches |-> "none"]
        /\ listed = [b \in Batches |-> {}]
        /\ rowCount = [b \in Batches |-> 0]
        /\ tx = [r \in Reqs |-> NoTx]

-----------------------------------------------------------------------------
(* Locks.  A statement that meets a lock of another request waits: it is   *)
(* modelled as not running until the lock is gone.                         *)

RowLocked(r, p) == \E q \in Reqs \ {r} : p \in tx[q].del \/ tx[q].ins[p] # NoRow

KeyLocked(r, k) ==
  /\ k \notin NullKeys
  /\ \E q \in Reqs \ {r}, p \in Pks :
        \/ p \in tx[q].del /\ live[p] # NoRow /\ live[p].key = k
        \/ tx[q].ins[p] # NoRow /\ tx[q].ins[p].key = k

(* Some row of a, other than p, already has the natural key k. *)
Taken(a, p, k) == k \notin NullKeys /\ \E q \in RowsOf(a) \ {p} : a[q].key = k

(* The table as r's transaction leaves it. *)
Committed(r) == [p \in Pks |-> IF tx[r].ins[p] # NoRow THEN tx[r].ins[p]
                               ELSE IF p \in tx[r].del THEN NoRow ELSE live[p]]

Finish(r) == tx' = [tx EXCEPT ![r] = NoTx]

-----------------------------------------------------------------------------
(* RecycleBin.soft_delete, called by delete_row and bulk_delete_rows *)

Unused(b) == /\ csv[b] = Empty /\ b \notin sidecar /\ status[b] = "none"
             /\ \A q \in Reqs : tx[q].bat # b

(* The rows the SELECT returns. *)
ReadFirst(w) == LET first == CHOOSE p \in Matching(live, w) : TRUE      \* mutant
                IN  [p \in Pks |-> IF p = first THEN live[p] ELSE NoRow]
Read(w) == [p \in Pks |-> IF p \in Matching(live, w) THEN live[p] ELSE NoRow]

(* SELECT the matching rows; a uuid4 names the batch. *)
SelectRows(r) ==
  /\ tx[r].at = "idle"
  /\ \E w \in Wheres, b \in Batches :
        /\ Matching(live, w) # {}
        /\ Unused(b)
        /\ tx' = [tx EXCEPT ![r] =
             [@ EXCEPT !.at = "selected", !.where = w, !.bat = b, !.sel = Read(w)]]
  /\ UNCHANGED <<live, issued, store, manifest>>

(* No row matches: {"deleted": 0}, and the handler answers 404. *)
NothingToDelete(r) ==
  /\ tx[r].at = "idle"
  /\ \E w \in Wheres : Matching(live, w) = {}
  /\ UNCHANGED vars

PutCsv(r) ==
  /\ tx[r].at = "selected"
  /\ csv' = [csv EXCEPT ![tx[r].bat] = Csv(tx[r].sel)]
  /\ tx' = [tx EXCEPT ![r] = [@ EXCEPT !.at = "exported"]]
  /\ UNCHANGED <<live, issued, sidecar, manifest>>

PutSidecarSwallowed(r) ==                                              \* mutant
  /\ tx[r].at = "exported"
  /\ tx' = [tx EXCEPT ![r] = [@ EXCEPT !.at = "described"]]
  /\ UNCHANGED <<live, issued, store, manifest>>
PutSidecar(r) ==
  /\ tx[r].at = "exported"
  /\ sidecar' = sidecar \cup {tx[r].bat}
  /\ tx' = [tx EXCEPT ![r] = [@ EXCEPT !.at = "described"]]
  /\ UNCHANGED <<live, issued, csv, manifest>>

(* The DELETE runs the predicate again, on the rows committed by now. *)
DeleteRows(r) ==
  /\ tx[r].at = "described"
  /\ \A p \in Matching(live, tx[r].where) : ~RowLocked(r, p)
  /\ tx' = [tx EXCEPT ![r] = [@ EXCEPT !.at = "deleted",
                                !.del = Matching(live, tx[r].where)]]
  /\ UNCHANGED <<live, issued, store, manifest>>

(* COMMIT: the manifest rows inserted before the DELETE, and the DELETE,   *)
(* become visible together.                                                *)
CommitDelete(r) ==
  LET b == tx[r].bat
  IN  /\ tx[r].at = "deleted"
      /\ live' = Committed(r)
      /\ status' = [status EXCEPT ![b] = "active"]
      /\ listed' = [listed EXCEPT ![b] = RowsOf(tx[r].sel)]
      /\ rowCount' = [rowCount EXCEPT ![b] = Cardinality(RowsOf(tx[r].sel))]
      /\ Finish(r)
      /\ UNCHANGED <<issued, store>>

-----------------------------------------------------------------------------
(* RecycleBin.restore_batch, restore_row and _insert_rows *)

RestoredMisspelt == "restore"                                           \* mutant
ManifestDropped == "none"                                               \* mutant
Restored == "restored"

RestoreBatch(r) ==
  /\ tx[r].at = "idle"
  /\ \E b \in Batches :
        /\ status[b] = "active"
        /\ tx' = [tx EXCEPT ![r] = [@ EXCEPT !.at = "inserting", !.bat = b,
                                      !.todo = RowsOf(csv[b])]]
  /\ UNCHANGED <<live, issued, store, manifest>>

RestoreRowByObject(r) ==                                               \* mutant
  /\ tx[r].at = "idle"
  /\ \E b \in Batches, p \in Pks :
        /\ csv[b][p] # NoRow
        /\ tx' = [tx EXCEPT ![r] = [@ EXCEPT !.at = "returning", !.bat = b,
                                      !.todo = {p}, !.want = {p}]]
  /\ UNCHANGED <<live, issued, store, manifest>>
(* LIMIT 1 with no ORDER BY and no look at the batch's status. *)
RestoreRow(r) ==
  /\ tx[r].at = "idle"
  /\ \E b \in Batches, p \in Pks :
        /\ p \in listed[b]
        /\ csv[b][p] # NoRow
        /\ tx' = [tx EXCEPT ![r] = [@ EXCEPT !.at = "returning", !.bat = b,
                                      !.todo = {p}, !.want = {p}]]
  /\ UNCHANGED <<live, issued, store, manifest>>

(* One row of executemany.  ON CONFLICT DO NOTHING covers the primary key  *)
(* and the natural key.                                                    *)
ConflictUpdates(r, p, row) == Taken(live, p, row.key)                   \* mutant
ConflictOfNulls(r, p, row) == \/ live[p] # NoRow                        \* mutant
                              \/ \E q \in RowsOf(live) : live[q].key = row.key
Conflict(r, p, row) == \/ live[p] # NoRow
                       \/ Taken(live, p, row.key)
                       \/ Taken(tx[r].ins, p, row.key)

InsertRow(r) ==
  /\ tx[r].at \in {"inserting", "returning"}
  /\ \E p \in tx[r].todo :
        LET row == csv[tx[r].bat][p]
        IN  /\ ~RowLocked(r, p)
            /\ ~KeyLocked(r, row.key)
            /\ tx' = [tx EXCEPT ![r] =
                 [@ EXCEPT !.todo = tx[r].todo \ {p},
                    !.ins = IF Conflict(r, p, row) THEN tx[r].ins
                            ELSE [tx[r].ins EXCEPT ![p] = row]]]
  /\ UNCHANGED <<live, issued, store, manifest>>

CommitRestoreBatch(r) ==
  /\ tx[r].at = "inserting"
  /\ tx[r].todo = {}
  /\ live' = Committed(r)
  /\ status' = [status EXCEPT ![tx[r].bat] = Restored]
  /\ Finish(r)
  /\ UNCHANGED <<issued, store, listed, rowCount>>

(* DELETE the admin_recycle_rows entry, then count what is left: the count *)
(* does not see entries other requests have deleted and not committed.     *)
CountedFirst(r) == listed[tx[r].bat] = {}                                \* mutant
NothingLeft(r) == listed[tx[r].bat] \subseteq tx[r].want

UnlistAndCount(r) ==
  /\ tx[r].at = "returning"
  /\ tx[r].todo = {}
  /\ \A q \in Reqs \ {r} : ~ /\ tx[q].at \in {"kept", "emptied"}
                             /\ tx[q].bat = tx[r].bat
                             /\ tx[q].want = tx[r].want
  /\ tx' = [tx EXCEPT ![r] =
       [@ EXCEPT !.at = IF NothingLeft(r) THEN "emptied" ELSE "kept"]]
  /\ UNCHANGED <<live, issued, store, manifest>>

CommitRestoreRow(r) ==
  LET b == tx[r].bat
  IN  /\ tx[r].at \in {"kept", "emptied"}
      /\ live' = Committed(r)
      /\ listed' = [listed EXCEPT ![b] = @ \ tx[r].want]
      /\ status' = IF tx[r].at = "emptied"
                   THEN [status EXCEPT ![b] = Restored] ELSE status
      /\ Finish(r)
      /\ UNCHANGED <<issued, store, rowCount>>

-----------------------------------------------------------------------------
(* A failing call, a dropped connection, a crashed worker, a deadlock      *)
(* victim or a statement past command_timeout: the transaction rolls back, *)
(* the objects already put stay.                                           *)
RollbackInAutocommit(r) ==                                             \* mutant
  /\ tx[r].at # "idle"
  /\ live' = Committed(r)
  /\ Finish(r)
  /\ UNCHANGED <<issued, store, manifest>>
Rollback(r) ==
  /\ tx[r].at # "idle"
  /\ Finish(r)
  /\ UNCHANGED <<live, issued, store, manifest>>

(* update_row: one UPDATE in autocommit; a duplicate key is a 409. *)
UpdateRow(r) ==
  /\ tx[r].at = "idle"
  /\ \E p \in RowsOf(live), row \in Row :
        /\ ~RowLocked(r, p)
        /\ ~KeyLocked(r, row.key)
        /\ ~Taken(live, p, row.key)
        /\ live' = [live EXCEPT ![p] = row]
  /\ UNCHANGED <<issued, store, manifest, tx>>

(* _copy_into_table: one COPY in autocommit, all of the file or nothing.   *)
CopyIn(r) ==
  /\ tx[r].at = "idle"
  /\ \E file \in Archive :
        LET after == [p \in Pks |-> IF file[p] # NoRow THEN file[p] ELSE live[p]]
        IN  /\ RowsOf(file) # {}
            /\ RowsOf(file) \cap issued = {}
            /\ \A p \in RowsOf(file) : ~KeyLocked(r, file[p].key)
            /\ UniqueKeys(after)
            /\ live' = after
            /\ issued' = issued \cup RowsOf(file)
  /\ UNCHANGED <<store, manifest, tx>>

-----------------------------------------------------------------------------
Delete(r) == PutCsv(r) \/ PutSidecar(r) \/ DeleteRows(r) \/ CommitDelete(r)
Restore(r) == \/ InsertRow(r) \/ CommitRestoreBatch(r)
              \/ UnlistAndCount(r) \/ CommitRestoreRow(r)
Arrive(r) == \/ SelectRows(r) \/ NothingToDelete(r) \/ RestoreBatch(r)
             \/ RestoreRow(r) \/ UpdateRow(r) \/ CopyIn(r)

Next == \E r \in Reqs : Arrive(r) \/ Delete(r) \/ Restore(r) \/ Rollback(r)

Spec == Init /\ [][Next]_vars

(* Every call of an accepted request ends: it succeeds, or the deadlock    *)
(* detector or command_timeout ends the wait for a lock.                   *)
Waiting(r) == tx[r].at # "idle" /\ ~ENABLED (Delete(r) \/ Restore(r))
NeverTimedOut(r) == FALSE                                               \* mutant
TimedOut(r) == Waiting(r) /\ Rollback(r)

Fairness == \A r \in Reqs : WF_vars(Delete(r) \/ Restore(r) \/ TimedOut(r))
FairSpec == Spec /\ Fairness

-----------------------------------------------------------------------------
(* What may overlap.  Nothing in the code keeps requests apart between the *)
(* calls of a handler, and some of the properties below hold only when     *)
(* something does.  Each restriction says what the steps of others must    *)
(* not do to a request that has read and has not yet acted on it; all      *)
(* other overlaps, and all failures, are allowed.                          *)

Pending == {"selected", "exported", "described"}
Restoring == {"inserting", "returning", "kept", "emptied"}

(* Row p of batch b is in the table a, or another row there has its key.   *)
Back(a, b, p) == a[p] # NoRow \/ Taken(a, p, csv[b][p].key)

(* The rows a restore has been asked for. *)
Wanted(r) == IF tx[r].at = "inserting" THEN RowsOf(csv[tx[r].bat]) ELSE tx[r].want

(* Between the SELECT and the DELETE of a delete no other step brings a    *)
(* row under its predicate that the SELECT has not read.                   *)
NoneJoins ==
  \A r \in Reqs : tx[r].at \in Pending /\ tx'[r] = tx[r] =>
     Matching(live', tx[r].where) \ Matching(live, tx[r].where) \subseteq RowsOf(tx[r].sel)

(* Nor does one change what a row under it contains, but back to what the  *)
(* SELECT has read: this asks more than NoneJoins.                         *)
StillAsRead ==
  \A r \in Reqs : tx[r].at \in Pending /\ tx'[r] = tx[r] =>
     \A p \in Matching(live', tx[r].where) : live'[p] \in {live[p], tx[r].sel[p]}

(* Until a restore commits, no other step takes away a row it has been     *)
(* through and found in the table, or the last key that kept such a row    *)
(* out of it.                                                              *)
StaysBack ==
  \A r \in Reqs : tx[r].at \in Restoring /\ tx'[r] = tx[r] =>
     \A p \in Wanted(r) \ tx[r].todo :
        Back(live, tx[r].bat, p) => Back(live', tx[r].bat, p)

(* Two row restores of a batch do not both count entries of the other.     *)
OneCounts ==
  \A r, q \in Reqs : r # q /\ tx[r].at = "kept" /\ tx[q].at = "kept" => tx[r].bat # tx[q].bat

UndisturbedNext == Next /\ StillAsRead /\ StaysBack /\ OneCounts'
UndisturbedSpec == Init /\ [][UndisturbedNext]_vars

-----------------------------------------------------------------------------
ActiveBatches == {b \in Batches : status[b] = "active"}
CommittedBatches == {b \in Batches : status[b] # "none"}

(* The rows some committed batch archives. *)
InBin == UNION {RowsOf(csv[b]) : b \in CommittedBatches}

(* What the bin promises, read off its state. *)
Promise == INSTANCE Vault WITH Ids <- Pks, live <- RowsOf(live), bin <- InBin

(* The same with the contents that the committed batches hold. *)
Copies == UNION {{<<p, csv[b][p]>> : p \in RowsOf(csv[b])} : b \in CommittedBatches}
Custody == INSTANCE RowVault WITH Ids <- Pks, Contents <- Row, Absent <- NoRow,
             Copied <- [row \in Row |-> Stored(row)], rows <- live, bin <- Copies

-----------------------------------------------------------------------------
(* Every variable has its type. *)
TypeOK ==
  /\ live \in Archive
  /\ issued \subseteq Pks
  /\ csv \in [Batches -> Archive]
  /\ sidecar \subseteq Batches
  /\ status \in [Batches -> {"none", "active", "restored"}]
  /\ listed \in [Batches -> SUBSET Pks]
  /\ rowCount \in [Batches -> Nat]
  /\ tx \in [Reqs -> Tx]

(* A committed batch can be restored: its type sidecar and its CSV are in  *)
(* storage, every row it still lists is in that CSV, and row_count is the  *)
(* number of rows of the CSV, whatever failed or ran beside the delete.    *)
ManifestBacked ==
  \A b \in Batches : status[b] # "none" =>
     /\ b \in sidecar
     /\ csv[b] # Empty
     /\ listed[b] \subseteq RowsOf(csv[b])
     /\ rowCount[b] = Cardinality(RowsOf(csv[b]))

(* A committing restore leaves every row of the table as it is: a row that *)
(* was edited or uploaded again since is not replaced by the archived one. *)
RestoreNeverOverwrites ==
  [][\A r \in Reqs :
        (tx[r].at \in {"inserting", "kept", "emptied"} /\ tx'[r].at = "idle")
           => \A p \in RowsOf(live) : live'[p] = live[p]]_vars

(* No row id the table ever held is lost: it is in the table or in the CSV *)
(* of a committed batch.                                                   *)
NothingVanishes == issued \subseteq RowsOf(live) \cup InBin

(* The bin keeps the promise of the module Vault: rows leave the table     *)
(* only for the bin, enter it only by an upload or from the bin, and none  *)
(* of this depends on what failed in between.                              *)
KeepsPromise == Promise!Spec

(* And the promise of RowVault: a row is removed only with a true copy in  *)
(* the bin, returns as a copy has it, is changed in place by edits only,   *)
(* and no failure, restore or later delete takes a copy away.              *)
KeepsCopies == Custody!Spec

(* A row leaves the table only into an active batch whose CSV holds what   *)
(* the row contained when it left.                                         *)
DeletionArchivesContent ==
  [][\A p \in Pks : live[p] # NoRow /\ live'[p] = NoRow
        => \E b \in Batches : /\ status'[b] = "active"
                              /\ p \in listed'[b]
                              /\ csv'[b][p] = Stored(live[p])]_vars

(* With requests side by side a row may leave unarchived, but only in a    *)
(* delete that read it before it had its present contents; and a delete    *)
(* that names the row has archived earlier contents of it.                 *)
UnarchivedOnlyIfChanged ==
  [][\A p \in Pks : live[p] # NoRow /\ live'[p] = NoRow
        => \E r \in Reqs : /\ p \in tx[r].del
                           /\ live[p] # tx[r].sel[p] \/ csv'[tx[r].bat][p] = Stored(live[p])
                           /\ tx[r].where.pks = {p} => csv'[tx[r].bat][p] # NoRow]_vars

(* A row id that comes back into the table comes back with the contents    *)
(* that a committed batch holds for it, perhaps an old one: never with     *)
(* what a delete put in storage and then rolled back.                      *)
ReturnsAsArchived ==
  [][\A p \in issued : live[p] = NoRow /\ live'[p] # NoRow
        => \E b \in CommittedBatches : csv[b][p] = live'[p]]_vars

(* A batch whose last row has been restored is marked restored. *)
EmptyBatchIsRestored == \A b \in ActiveBatches : listed[b] # {}

(* When a batch turns restored, each row it still listed is back in the    *)
(* table, or another row has taken its natural key.                        *)
RestoredBatchIsComplete ==
  [][\A b \in Batches : status[b] = "active" /\ status'[b] = "restored"
        => \A p \in listed[b] : Back(live', b, p)]_vars

(* An entry of a batch goes only when its row is in the table again, or    *)
(* another row has taken its natural key: no other list offers that row.   *)
UnlistedRowIsBack ==
  [][\A b \in Batches : \A p \in listed[b] \ listed'[b] : Back(live', b, p)]_vars

(* A request that was accepted ends, also when restores wait for each      *)
(* other's locks.                                                          *)
RequestsEnd == \A r \in Reqs : tx[r].at # "idle" ~> tx[r].at = "idle"
=============================================================================
