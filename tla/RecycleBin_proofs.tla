-------------------------- MODULE RecycleBin_proofs --------------------------
(***************************************************************************)
(* Proofs about RecycleBin, for any number of keys, rows, batches and      *)
(* concurrent requests.                                                    *)
(***************************************************************************)
EXTENDS RecycleBin, FiniteSetTheorems, TLAPS

LEMMA EmptyArchive == Empty \in Archive /\ RowsOf(Empty) = {}
  BY DEF Empty, Archive, RowsOf

(* Writing and reading a CSV keeps the set of rows. *)
LEMMA CsvKeepsRows ==
  ASSUME NEW a \in Archive
  PROVE  Csv(a) \in Archive /\ RowsOf(Csv(a)) = RowsOf(a)
<1>1. \A p \in Pks : a[p] \in Row \cup {NoRow}
  BY DEF Archive
<1>2. \A row \in Row \cup {NoRow} : /\ Stored(row) \in Row \cup {NoRow}
                                    /\ Stored(row) = NoRow <=> row = NoRow
  <2>1. \A row \in Row : [row EXCEPT !.val = Reread[row.val]] \in Row
    BY RereadAssumption DEF Row
  <2> QED  BY <2>1, NoRowAssumption DEF Stored
<1> QED  BY <1>1, <1>2 DEF Csv, Archive, RowsOf

LEMMA NoTxType == NoTx \in Tx
  BY EmptyArchive DEF NoTx, Tx, Stages, NoWhere

LEMMA WheresType ==
  \A w \in Wheres : w \in [pks : SUBSET Pks, keys : SUBSET Keys]
  BY FiltersAssumption DEF Wheres

(* The table a committing transaction leaves is a table. *)
LEMMA CommittedType ==
  ASSUME TypeOK, NEW r \in Reqs
  PROVE  Committed(r) \in Archive
<1>1. tx[r].ins \in Archive
  BY DEF TypeOK, Tx
<1> QED  BY <1>1 DEF Committed, TypeOK, Archive

LEMMA FiniteRows == \A a : IsFiniteSet(RowsOf(a)) /\ Cardinality(RowsOf(a)) \in Nat
  BY PksAssumption, FS_Subset, FS_CardinalityType DEF RowsOf

-----------------------------------------------------------------------------
(***************************************************************************)
(* Typing.  TypeOK is not inductive alone: a request past "idle" must have *)
(* a batch, or storage and manifest would be written at NoBatch.           *)
(***************************************************************************)
BatchNamed == \A r \in Reqs : tx[r].at # "idle" => tx[r].bat \in Batches
Typing == TypeOK /\ BatchNamed

LEMMA TypeInit == Init => Typing
  BY EmptyArchive, NoTxType DEF Init, Typing, TypeOK, BatchNamed, RowsOf, NoTx

(* Every step only replaces the transaction of the request that takes it.  *)
LEMMA TypeOfTx ==
  ASSUME Typing, NEW r \in Reqs, NEW t \in Tx,
         t.at # "idle" => t.bat \in Batches,
         tx' = [tx EXCEPT ![r] = t]
  PROVE  tx' \in [Reqs -> Tx] /\ BatchNamed'
  BY DEF Typing, TypeOK, BatchNamed

LEMMA TypeStep == Typing /\ [Next]_vars => Typing'
<1> SUFFICES ASSUME Typing, [Next]_vars PROVE Typing'
  OBVIOUS
<1> USE DEF store, manifest
<1>1. CASE UNCHANGED vars
  BY <1>1 DEF Typing, TypeOK, BatchNamed, vars
<1>2. CASE Next
  <2> PICK r \in Reqs : Arrive(r) \/ Delete(r) \/ Restore(r) \/ Rollback(r)
    BY <1>2 DEF Next
  <2>t. tx[r] \in Tx /\ (tx[r].at # "idle" => tx[r].bat \in Batches)
    BY DEF Typing, TypeOK, BatchNamed
  <2>f. Finish(r) => tx' \in [Reqs -> Tx] /\ BatchNamed'
    BY TypeOfTx, NoTxType DEF Finish, NoTx
  <2>c. Committed(r) \in Archive
    BY CommittedType DEF Typing
  <2>1. CASE SelectRows(r)
    <3>1. PICK w \in Wheres, b \in Batches :
             tx' = [tx EXCEPT ![r] = [tx[r] EXCEPT !.at = "selected",
                      !.where = w, !.bat = b, !.sel = Read(w)]]
      BY <2>1, <2>t DEF SelectRows, Typing, TypeOK
    <3>2. Read(w) \in Archive
      BY DEF Read, Typing, TypeOK, Archive
    <3>3. w \in [pks : SUBSET Pks, keys : SUBSET Keys]
      BY WheresType
    <3> DEFINE t == [tx[r] EXCEPT !.at = "selected", !.where = w, !.bat = b,
                       !.sel = Read(w)]
    <3>4. t \in Tx /\ t.bat \in Batches
      BY <2>t, <3>2, <3>3 DEF Tx, Stages
    <3> HIDE DEF t
    <3>5. tx' = [tx EXCEPT ![r] = t]
      BY <3>1 DEF t
    <3>6. tx' \in [Reqs -> Tx] /\ BatchNamed'
      BY <3>4, <3>5, TypeOfTx
    <3> QED  BY <3>6, <2>1 DEF SelectRows, Typing, TypeOK
  <2>2. CASE NothingToDelete(r)
    BY <2>2 DEF NothingToDelete, Typing, TypeOK, BatchNamed, vars
  <2>3. CASE RestoreBatch(r)
    <3>1. PICK b \in Batches :
             tx' = [tx EXCEPT ![r] = [tx[r] EXCEPT !.at = "inserting",
                      !.bat = b, !.todo = RowsOf(csv[b])]]
      BY <2>3, <2>t DEF RestoreBatch, Typing, TypeOK
    <3> DEFINE t == [tx[r] EXCEPT !.at = "inserting", !.bat = b, !.todo = RowsOf(csv[b])]
    <3>2. t \in Tx /\ t.bat \in Batches
      BY <2>t DEF Tx, Stages, RowsOf
    <3> HIDE DEF t
    <3>3. tx' = [tx EXCEPT ![r] = t]
      BY <3>1 DEF t
    <3>4. tx' \in [Reqs -> Tx] /\ BatchNamed'
      BY <3>2, <3>3, TypeOfTx
    <3> QED  BY <3>4, <2>3 DEF RestoreBatch, Typing, TypeOK
  <2>4. CASE RestoreRow(r)
    <3>1. PICK b \in Batches, p \in Pks :
             tx' = [tx EXCEPT ![r] = [tx[r] EXCEPT !.at = "returning",
                      !.bat = b, !.todo = {p}, !.want = {p}]]
      BY <2>4, <2>t DEF RestoreRow, Typing, TypeOK
    <3> DEFINE t == [tx[r] EXCEPT !.at = "returning", !.bat = b, !.todo = {p}, !.want = {p}]
    <3>2. t \in Tx /\ t.bat \in Batches
      BY <2>t DEF Tx, Stages
    <3> HIDE DEF t
    <3>3. tx' = [tx EXCEPT ![r] = t]
      BY <3>1 DEF t
    <3>4. tx' \in [Reqs -> Tx] /\ BatchNamed'
      BY <3>2, <3>3, TypeOfTx
    <3> QED  BY <3>4, <2>4 DEF RestoreRow, Typing, TypeOK
  <2>5. CASE UpdateRow(r)
    BY <2>5 DEF UpdateRow, Typing, TypeOK, BatchNamed, Archive
  <2>6. CASE CopyIn(r)
    <3>1. PICK file \in Archive :
             /\ live' = [p \in Pks |-> IF file[p] # NoRow THEN file[p] ELSE live[p]]
             /\ issued' = issued \cup RowsOf(file)
      BY <2>6 DEF CopyIn
    <3>2. live' \in Archive /\ issued' \subseteq Pks
      BY <3>1 DEF Typing, TypeOK, Archive, RowsOf
    <3> QED  BY <3>2, <2>6 DEF CopyIn, Typing, TypeOK, BatchNamed
  <2>7. CASE PutCsv(r)
    <3>1. tx[r].sel \in Archive
      BY <2>t DEF Tx
    <3>2. csv' \in [Batches -> Archive]
      BY <2>7, <3>1, CsvKeepsRows DEF PutCsv, Typing, TypeOK
    <3>3. tx' \in [Reqs -> Tx] /\ BatchNamed'
      <4> DEFINE t == [tx[r] EXCEPT !.at = "exported"]
      <4>1. t \in Tx /\ t.bat \in Batches
        BY <2>t, <2>7 DEF Tx, Stages, PutCsv
      <4>2. tx' = [tx EXCEPT ![r] = t]
        BY <2>7, <2>t DEF PutCsv, Typing, TypeOK
      <4> QED  BY <4>1, <4>2, TypeOfTx
    <3> QED  BY <2>7, <3>2, <3>3 DEF PutCsv, Typing, TypeOK
  <2>8. CASE PutSidecar(r)
    <3> DEFINE t == [tx[r] EXCEPT !.at = "described"]
    <3>1. t \in Tx /\ t.bat \in Batches
      BY <2>t, <2>8 DEF Tx, Stages, PutSidecar
    <3>2. tx' = [tx EXCEPT ![r] = t]
      BY <2>8, <2>t DEF PutSidecar, Typing, TypeOK
    <3>3. tx' \in [Reqs -> Tx] /\ BatchNamed'
      BY <3>1, <3>2, TypeOfTx
    <3> QED  BY <2>8, <2>t, <3>3 DEF PutSidecar, Typing, TypeOK
  <2>9. CASE DeleteRows(r)
    <3> DEFINE t == [tx[r] EXCEPT !.at = "deleted", !.del = Matching(live, tx[r].where)]
    <3>1. t \in Tx /\ t.bat \in Batches
      BY <2>t, <2>9 DEF Tx, Stages, Matching, RowsOf, DeleteRows
    <3>2. tx' = [tx EXCEPT ![r] = t]
      BY <2>9, <2>t DEF DeleteRows, Typing, TypeOK
    <3>3. tx' \in [Reqs -> Tx] /\ BatchNamed'
      BY <3>1, <3>2, TypeOfTx
    <3> QED  BY <2>9, <3>3 DEF DeleteRows, Typing, TypeOK
  <2>10. CASE CommitDelete(r)
    <3>1. RowsOf(tx[r].sel) \subseteq Pks /\ Cardinality(RowsOf(tx[r].sel)) \in Nat
      BY FiniteRows DEF RowsOf
    <3>2. tx' \in [Reqs -> Tx] /\ BatchNamed'
      BY <2>10, <2>f DEF CommitDelete
    <3>3. /\ status' \in [Batches -> {"none", "active", "restored"}]
          /\ listed' \in [Batches -> SUBSET Pks]
          /\ rowCount' \in [Batches -> Nat]
      BY <2>10, <3>1 DEF CommitDelete, Typing, TypeOK
    <3> QED  BY <2>10, <3>2, <3>3, <2>c DEF CommitDelete, Typing, TypeOK
  <2>11. CASE InsertRow(r)
    <3> DEFINE row(p) == csv[tx[r].bat][p]
               t(p) == [tx[r] EXCEPT !.todo = tx[r].todo \ {p},
                          !.ins = IF Conflict(r, p, row(p)) THEN tx[r].ins
                                  ELSE [tx[r].ins EXCEPT ![p] = row(p)]]
    <3>1. PICK p \in tx[r].todo : tx' = [tx EXCEPT ![r] = t(p)]
      BY <2>11, <2>t DEF InsertRow, Typing, TypeOK
    <3>2. p \in Pks /\ tx[r].bat \in Batches
      BY <2>11, <2>t DEF InsertRow, Tx
    <3>3. row(p) \in Row \cup {NoRow}
      BY <3>2 DEF Typing, TypeOK, Archive
    <3>4. [tx[r].ins EXCEPT ![p] = row(p)] \in Archive /\ tx[r].ins \in Archive
      BY <2>t, <3>2, <3>3 DEF Archive, Tx
    <3>5. t(p) \in Tx /\ t(p).bat \in Batches
      BY <2>t, <3>2, <3>4 DEF Tx
    <3> HIDE DEF t
    <3>6. tx' \in [Reqs -> Tx] /\ BatchNamed'
      BY <3>1, <3>5, TypeOfTx
    <3> QED  BY <3>6, <2>11 DEF InsertRow, Typing, TypeOK
  <2>12. CASE CommitRestoreBatch(r)
    BY <2>12, <2>f, <2>c DEF CommitRestoreBatch, Typing, TypeOK, Restored
  <2>13. CASE UnlistAndCount(r)
    <3> DEFINE t == [tx[r] EXCEPT !.at = IF NothingLeft(r) THEN "emptied" ELSE "kept"]
    <3>1. t \in Tx /\ t.bat \in Batches
      BY <2>t, <2>13 DEF Tx, Stages, UnlistAndCount
    <3>2. tx' = [tx EXCEPT ![r] = t]
      BY <2>13, <2>t DEF UnlistAndCount, Typing, TypeOK
    <3> HIDE DEF t
    <3>3. tx' \in [Reqs -> Tx] /\ BatchNamed'
      BY <3>1, <3>2, TypeOfTx
    <3> QED  BY <2>13, <3>3 DEF UnlistAndCount, Typing, TypeOK
  <2>14. CASE CommitRestoreRow(r)
    BY <2>14, <2>f, <2>c DEF CommitRestoreRow, Typing, TypeOK, Restored
  <2>15. CASE Rollback(r)
    BY <2>15, <2>f DEF Rollback, Typing, TypeOK
  <2> QED  BY <2>1, <2>2, <2>3, <2>4, <2>5, <2>6, <2>7, <2>8, <2>9, <2>10,
              <2>11, <2>12, <2>13, <2>14, <2>15 DEF Arrive, Delete, Restore
<1> QED  BY <1>1, <1>2

(* Every variable has its type in every reachable state. *)
THEOREM TypeCorrect == Spec => []TypeOK
<1>1. Init => Typing
  BY TypeInit
<1>2. Typing /\ [Next]_vars => Typing'
  BY TypeStep
<1>3. Typing => TypeOK
  BY DEF Typing
<1> QED  BY <1>1, <1>2, <1>3, PTL DEF Spec

-----------------------------------------------------------------------------
(***************************************************************************)
(* The inductive invariant behind the safety theorems.                     *)
(*                                                                         *)
(* A delete in flight owns a batch nobody else sees: its status is still   *)
(* "none", no other delete has drawn its id, and what it has put in        *)
(* storage is what it selected.  A restore in flight works on a committed  *)
(* batch, whose CSV therefore no delete will write again, and holds only   *)
(* inserts of ids that are neither in the table nor in another request's   *)
(* inserts.                                                                *)
(***************************************************************************)
Deleting == {"selected", "exported", "described", "deleted"}

DeleteOk(r) ==
  tx[r].at \in Deleting =>
    /\ status[tx[r].bat] = "none"
    /\ RowsOf(tx[r].sel) # {}
    /\ RowsOf(tx[r].sel) \subseteq issued
    /\ RowsOf(tx[r].ins) = {}
    /\ tx[r].at # "selected" => csv[tx[r].bat] = Csv(tx[r].sel)
    /\ tx[r].at \in {"described", "deleted"} => tx[r].bat \in sidecar

RestoreOk(r) ==
  tx[r].at \in Restoring =>
    /\ status[tx[r].bat] # "none"
    /\ tx[r].del = {}
    /\ tx[r].todo \subseteq RowsOf(csv[tx[r].bat])
    /\ RowsOf(tx[r].ins) \subseteq RowsOf(csv[tx[r].bat])
    /\ RowsOf(tx[r].ins) \cap RowsOf(live) = {}

IdleOk(r) == tx[r].at = "idle" => tx[r] = NoTx

RequestsOk == \A r \in Reqs : DeleteOk(r) /\ RestoreOk(r) /\ IdleOk(r)

Apart == \A r, q \in Reqs : r # q =>
           /\ tx[r].at \in Deleting /\ tx[q].at \in Deleting => tx[r].bat # tx[q].bat
           /\ RowsOf(tx[r].ins) \cap RowsOf(tx[q].ins) = {}

RowsIssued == /\ RowsOf(live) \subseteq issued
              /\ \A b \in Batches : RowsOf(csv[b]) \subseteq issued

OnlyCommittedListed == \A b \in Batches : status[b] = "none" => listed[b] = {}

IInv == /\ Typing /\ RequestsOk /\ Apart /\ RowsIssued
        /\ ManifestBacked /\ OnlyCommittedListed

LEMMA InvInit == Init => IInv
<1> SUFFICES ASSUME Init PROVE IInv
  OBVIOUS
<1>1. Typing
  BY TypeInit
<1>2. \A r \in Reqs : tx[r] = NoTx /\ NoTx.at = "idle" /\ RowsOf(NoTx.ins) = {}
  BY EmptyArchive DEF Init, NoTx
<1>3. RequestsOk /\ Apart
  BY <1>2 DEF RequestsOk, DeleteOk, RestoreOk, IdleOk, Apart, Deleting, Restoring
<1>4. RowsIssued /\ ManifestBacked /\ OnlyCommittedListed
  BY EmptyArchive DEF Init, RowsIssued, ManifestBacked, OnlyCommittedListed
<1> QED  BY <1>1, <1>3, <1>4 DEF IInv

(* A step of r that leaves table, CSVs and manifest alone preserves the    *)
(* invariant if what it makes of tx[r] is in order.                        *)
LEMMA PrivateStep ==
  ASSUME IInv, Typing', NEW r \in Reqs, NEW t,
         tx' = [tx EXCEPT ![r] = t],
         UNCHANGED <<live, issued, csv, manifest>>, sidecar \subseteq sidecar',
         (DeleteOk(r) /\ RestoreOk(r) /\ IdleOk(r))',
         \A q \in Reqs \ {r} :
            /\ t.at \in Deleting /\ tx[q].at \in Deleting => t.bat # tx[q].bat
            /\ RowsOf(t.ins) \cap RowsOf(tx[q].ins) = {}
  PROVE  IInv'
<1> USE DEF manifest
<1>1. /\ tx'[r] = t
      /\ \A q \in Reqs \ {r} : tx'[q] = tx[q]
  BY DEF IInv, Typing, TypeOK
<1>2. RequestsOk'
  <2> SUFFICES ASSUME NEW q \in Reqs \ {r} PROVE (DeleteOk(q) /\ RestoreOk(q) /\ IdleOk(q))'
    BY DEF RequestsOk
  <2>1. DeleteOk(q) /\ RestoreOk(q) /\ IdleOk(q)
    BY DEF IInv, RequestsOk
  <2> QED  BY <1>1, <2>1 DEF DeleteOk, RestoreOk, IdleOk
<1>3. Apart'
  <2> SUFFICES ASSUME NEW a \in Reqs, NEW b \in Reqs, a # b
               PROVE  /\ tx'[a].at \in Deleting /\ tx'[b].at \in Deleting
                            => tx'[a].bat # tx'[b].bat
                      /\ RowsOf(tx'[a].ins) \cap RowsOf(tx'[b].ins) = {}
    BY DEF Apart, RowsOf
  <2>1. CASE a = r
    BY <2>1, <1>1
  <2>2. CASE b = r
    BY <2>2, <1>1
  <2>3. CASE a # r /\ b # r
    BY <2>3, <1>1 DEF IInv, Apart
  <2> QED  BY <2>1, <2>2, <2>3
<1>4. RowsIssued'
  BY DEF IInv, RowsIssued, RowsOf
<1>5. ManifestBacked' /\ OnlyCommittedListed'
  BY DEF IInv, ManifestBacked, OnlyCommittedListed, RowsOf
<1> QED  BY <1>2, <1>3, <1>4, <1>5 DEF IInv

(* A step that ends r's transaction, by COMMIT or ROLLBACK, preserves the  *)
(* invariant if all it adds to the table are r's inserts and all it        *)
(* commits is r's batch.                                                   *)
LEMMA EndStep ==
  ASSUME IInv, Typing', NEW r \in Reqs, tx[r].at # "idle", Finish(r),
         UNCHANGED <<issued, csv, sidecar>>,
         RowsOf(live') \subseteq RowsOf(live) \cup RowsOf(tx[r].ins),
         \A b \in Batches : status[b] = "none" /\ status'[b] # "none"
                              => tx[r].at \in Deleting /\ b = tx[r].bat,
         \A b \in Batches : status[b] # "none" => status'[b] # "none",
         ManifestBacked', OnlyCommittedListed'
  PROVE  IInv'
<1>1. /\ tx'[r] = NoTx
      /\ \A q \in Reqs \ {r} : tx'[q] = tx[q]
  BY DEF IInv, Typing, TypeOK, Finish
<1>2. NoTx.at = "idle" /\ RowsOf(NoTx.ins) = {}
  BY EmptyArchive DEF NoTx
<1>3. RequestsOk'
  <2> SUFFICES ASSUME NEW q \in Reqs PROVE (DeleteOk(q) /\ RestoreOk(q) /\ IdleOk(q))'
    BY DEF RequestsOk
  <2>1. CASE q = r
    BY <2>1, <1>1, <1>2 DEF DeleteOk, RestoreOk, IdleOk, Deleting, Restoring
  <2>2. CASE q # r
    <3>1. DeleteOk(q) /\ RestoreOk(q) /\ IdleOk(q) /\ tx'[q] = tx[q]
      BY <2>2, <1>1 DEF IInv, RequestsOk
    <3>2. DeleteOk(q)'
      <4>1. tx[q].at \in Deleting => tx[q].bat \in Batches
        BY DEF IInv, Typing, BatchNamed, Deleting
      <4>2. tx[q].at \in Deleting /\ tx[r].at \in Deleting => tx[q].bat # tx[r].bat
        BY <2>2 DEF IInv, Apart
      <4> QED  BY <3>1, <4>1, <4>2 DEF DeleteOk
    <3>3. RestoreOk(q)'
      <4>1. tx[q].at \in Restoring => tx[q].bat \in Batches
        BY DEF IInv, Typing, BatchNamed, Restoring
      <4>2. RowsOf(tx[q].ins) \cap RowsOf(tx[r].ins) = {}
        BY <2>2 DEF IInv, Apart
      <4>3. tx[q].at \in Restoring => RowsOf(tx[q].ins) \cap RowsOf(live') = {}
        BY <3>1, <4>2 DEF RestoreOk
      <4> QED  BY <3>1, <4>1, <4>3 DEF RestoreOk, RowsOf
    <3> QED  BY <3>1, <3>2, <3>3 DEF IdleOk
  <2> QED  BY <2>1, <2>2
<1>4. Apart'
  <2> SUFFICES ASSUME NEW a \in Reqs, NEW b \in Reqs, a # b
               PROVE  /\ tx'[a].at \in Deleting /\ tx'[b].at \in Deleting
                            => tx'[a].bat # tx'[b].bat
                      /\ RowsOf(tx'[a].ins) \cap RowsOf(tx'[b].ins) = {}
    BY DEF Apart, RowsOf
  <2>1. CASE a = r \/ b = r
    BY <2>1, <1>1, <1>2 DEF Deleting
  <2>2. CASE a # r /\ b # r
    BY <2>2, <1>1 DEF IInv, Apart
  <2> QED  BY <2>1, <2>2
<1>5. RowsIssued'
  <2>1. RowsOf(tx[r].ins) \subseteq issued
    <3>1. DeleteOk(r) /\ RestoreOk(r) /\ tx[r].bat \in Batches
      BY DEF IInv, RequestsOk, Typing, BatchNamed
    <3>2. tx[r].at \in Deleting \/ tx[r].at \in Restoring
      BY DEF IInv, Typing, TypeOK, Tx, Stages, Deleting, Restoring
    <3> QED  BY <3>1, <3>2 DEF DeleteOk, RestoreOk, IInv, RowsIssued
  <2> QED  BY <2>1 DEF IInv, RowsIssued, RowsOf
<1> QED  BY <1>3, <1>4, <1>5 DEF IInv

LEMMA InvCommitDelete ==
  ASSUME IInv, Typing', NEW r \in Reqs, CommitDelete(r)
  PROVE  IInv'
<1>1. /\ DeleteOk(r) /\ tx[r].at = "deleted" /\ tx[r].at \in Deleting
      /\ tx[r].bat \in Batches /\ tx[r].sel \in Archive
  BY DEF CommitDelete, IInv, RequestsOk, Typing, TypeOK, BatchNamed, Tx, Deleting
<1>2. RowsOf(live') \subseteq RowsOf(live) \cup RowsOf(tx[r].ins)
  BY DEF CommitDelete, Committed, RowsOf
<1>3. ManifestBacked'
  <2> SUFFICES ASSUME NEW b \in Batches, status'[b] # "none"
               PROVE  /\ b \in sidecar'
                      /\ csv'[b] # Empty
                      /\ listed'[b] \subseteq RowsOf(csv'[b])
                      /\ rowCount'[b] = Cardinality(RowsOf(csv'[b]))
    BY DEF ManifestBacked, RowsOf, Empty
  <2>1. CASE b = tx[r].bat
    <3>1. csv[b] = Csv(tx[r].sel) /\ b \in sidecar /\ RowsOf(tx[r].sel) # {}
      BY <1>1, <2>1 DEF DeleteOk
    <3>2. RowsOf(csv[b]) = RowsOf(tx[r].sel)
      BY <1>1, <3>1, CsvKeepsRows
    <3>3. /\ listed'[b] = RowsOf(tx[r].sel)
          /\ rowCount'[b] = Cardinality(RowsOf(tx[r].sel))
          /\ csv' = csv /\ sidecar' = sidecar
      BY <1>1, <2>1 DEF CommitDelete, IInv, Typing, TypeOK, store
    <3> QED  BY <3>1, <3>2, <3>3, EmptyArchive
  <2>2. CASE b # tx[r].bat
    BY <2>2, <1>1 DEF CommitDelete, IInv, Typing, TypeOK, ManifestBacked, store
  <2> QED  BY <2>1, <2>2
<1>4. \A b \in Batches : status'[b] = IF b = tx[r].bat THEN "active" ELSE status[b]
  BY <1>1 DEF CommitDelete, IInv, Typing, TypeOK
<1>5. OnlyCommittedListed'
  BY <1>1, <1>4 DEF CommitDelete, IInv, Typing, TypeOK, OnlyCommittedListed
<1> QED  BY <1>1, <1>2, <1>3, <1>4, <1>5, EndStep DEF CommitDelete, store

(* A committing restore keeps the manifest backed: it marks a batch that   *)
(* was already committed, and takes entries away.                          *)
LEMMA InvCommitRestore ==
  ASSUME IInv, Typing', NEW r \in Reqs, CommitRestoreBatch(r) \/ CommitRestoreRow(r)
  PROVE  IInv'
<1>1. /\ RestoreOk(r) /\ tx[r].at \in Restoring /\ tx[r].at # "idle"
      /\ tx[r].bat \in Batches /\ status[tx[r].bat] # "none"
  BY DEF CommitRestoreBatch, CommitRestoreRow, IInv, RequestsOk, Typing,
         BatchNamed, Restoring, RestoreOk
<1>2. RowsOf(live') \subseteq RowsOf(live) \cup RowsOf(tx[r].ins)
  BY DEF CommitRestoreBatch, CommitRestoreRow, Committed, RowsOf
<1>3. \A b \in Batches : status'[b] # "none" <=> status[b] # "none"
  BY <1>1 DEF CommitRestoreBatch, CommitRestoreRow, IInv, Typing, TypeOK, Restored
<1>4. \A b \in Batches : listed'[b] \subseteq listed[b]
  BY <1>1 DEF CommitRestoreBatch, CommitRestoreRow, IInv, Typing, TypeOK
<1>5. UNCHANGED <<issued, csv, sidecar, rowCount>> /\ Finish(r)
  BY DEF CommitRestoreBatch, CommitRestoreRow, store
<1>6. ManifestBacked'
  <2> SUFFICES ASSUME NEW b \in Batches, status'[b] # "none"
               PROVE  /\ b \in sidecar'
                      /\ csv'[b] # Empty
                      /\ listed'[b] \subseteq RowsOf(csv'[b])
                      /\ rowCount'[b] = Cardinality(RowsOf(csv'[b]))
    BY DEF ManifestBacked, RowsOf, Empty
  <2> QED  BY <1>3, <1>4, <1>5 DEF IInv, ManifestBacked
<1>7. OnlyCommittedListed'
  BY <1>3, <1>4 DEF IInv, OnlyCommittedListed
<1> QED  BY <1>1, <1>2, <1>3, <1>5, <1>6, <1>7, EndStep

LEMMA InvRollback ==
  ASSUME IInv, Typing', NEW r \in Reqs, Rollback(r)
  PROVE  IInv'
<1>1. ManifestBacked' /\ OnlyCommittedListed'
  BY DEF Rollback, store, manifest, IInv, ManifestBacked, OnlyCommittedListed, RowsOf
<1> QED  BY <1>1, EndStep DEF Rollback, store, manifest

LEMMA InvSelectRows ==
  ASSUME IInv, Typing', NEW r \in Reqs, SelectRows(r)
  PROVE  IInv'
<1>1. PICK w \in Wheres, b \in Batches :
        /\ Matching(live, w) # {}
        /\ Unused(b)
        /\ tx' = [tx EXCEPT ![r] = [tx[r] EXCEPT !.at = "selected",
                    !.where = w, !.bat = b, !.sel = Read(w)]]
  BY DEF SelectRows, IInv, Typing, TypeOK
<1> DEFINE t == [tx[r] EXCEPT !.at = "selected", !.where = w, !.bat = b, !.sel = Read(w)]
<1>2. /\ tx[r] \in Tx /\ tx[r] = NoTx
      /\ UNCHANGED <<live, issued, csv, sidecar, manifest>>
  BY DEF SelectRows, IInv, Typing, TypeOK, RequestsOk, IdleOk, store
<1>3. /\ t.at = "selected" /\ t.bat = b /\ t.sel = Read(w)
      /\ t.ins = tx[r].ins /\ RowsOf(t.ins) = {}
  BY <1>2, EmptyArchive DEF Tx, NoTx
<1> HIDE DEF t
<1>4. tx' = [tx EXCEPT ![r] = t] /\ tx'[r] = t
  BY <1>1 DEF t, IInv, Typing, TypeOK
<1>5. RowsOf(Read(w)) = Matching(live, w) /\ Matching(live, w) \subseteq RowsOf(live)
  BY DEF Read, Matching, RowsOf
<1>6. (DeleteOk(r) /\ RestoreOk(r) /\ IdleOk(r))'
  BY <1>1, <1>2, <1>3, <1>4, <1>5
     DEF DeleteOk, RestoreOk, IdleOk, Restoring, Unused, manifest, IInv, RowsIssued, RowsOf
<1>7. \A q \in Reqs \ {r} : /\ t.at \in Deleting /\ tx[q].at \in Deleting => t.bat # tx[q].bat
                            /\ RowsOf(t.ins) \cap RowsOf(tx[q].ins) = {}
  BY <1>1, <1>3 DEF Unused
<1> QED  BY <1>2, <1>4, <1>6, <1>7, PrivateStep

LEMMA InvPutSidecar ==
  ASSUME IInv, Typing', NEW r \in Reqs, PutSidecar(r)
  PROVE  IInv'
<1> DEFINE t == [tx[r] EXCEPT !.at = "described"]
<1>1. /\ tx[r] \in Tx /\ tx[r].at = "exported" /\ DeleteOk(r)
      /\ UNCHANGED <<live, issued, csv, manifest>>
      /\ sidecar' = sidecar \cup {tx[r].bat}
  BY DEF PutSidecar, IInv, Typing, TypeOK, RequestsOk
<1>2. t.at = "described" /\ t.bat = tx[r].bat /\ t.ins = tx[r].ins /\ t.sel = tx[r].sel
  BY <1>1 DEF Tx
<1> HIDE DEF t
<1>3. tx' = [tx EXCEPT ![r] = t] /\ tx'[r] = t
  BY DEF PutSidecar, t, IInv, Typing, TypeOK
<1>4. (DeleteOk(r) /\ RestoreOk(r) /\ IdleOk(r))'
  BY <1>1, <1>2, <1>3 DEF DeleteOk, RestoreOk, IdleOk, Restoring, Deleting, manifest, RowsOf
<1>5. \A q \in Reqs \ {r} : /\ t.at \in Deleting /\ tx[q].at \in Deleting => t.bat # tx[q].bat
                            /\ RowsOf(t.ins) \cap RowsOf(tx[q].ins) = {}
  BY <1>1, <1>2 DEF IInv, Apart, Deleting
<1> QED  BY <1>1, <1>3, <1>4, <1>5, PrivateStep

LEMMA InvDeleteRows ==
  ASSUME IInv, Typing', NEW r \in Reqs, DeleteRows(r)
  PROVE  IInv'
<1> DEFINE t == [tx[r] EXCEPT !.at = "deleted", !.del = Matching(live, tx[r].where)]
<1>1. /\ tx[r] \in Tx /\ tx[r].at = "described" /\ DeleteOk(r)
      /\ UNCHANGED <<live, issued, csv, sidecar, manifest>>
  BY DEF DeleteRows, IInv, Typing, TypeOK, RequestsOk, store
<1>2. t.at = "deleted" /\ t.bat = tx[r].bat /\ t.ins = tx[r].ins /\ t.sel = tx[r].sel
  BY <1>1 DEF Tx
<1> HIDE DEF t
<1>3. tx' = [tx EXCEPT ![r] = t] /\ tx'[r] = t
  BY DEF DeleteRows, t, IInv, Typing, TypeOK
<1>4. (DeleteOk(r) /\ RestoreOk(r) /\ IdleOk(r))'
  BY <1>1, <1>2, <1>3 DEF DeleteOk, RestoreOk, IdleOk, Restoring, Deleting, manifest, RowsOf
<1>5. \A q \in Reqs \ {r} : /\ t.at \in Deleting /\ tx[q].at \in Deleting => t.bat # tx[q].bat
                            /\ RowsOf(t.ins) \cap RowsOf(tx[q].ins) = {}
  BY <1>1, <1>2 DEF IInv, Apart, Deleting
<1> QED  BY <1>1, <1>3, <1>4, <1>5, PrivateStep

LEMMA InvRestoreBatch ==
  ASSUME IInv, Typing', NEW r \in Reqs, RestoreBatch(r)
  PROVE  IInv'
<1>1. PICK b \in Batches :
        /\ status[b] = "active"
        /\ tx' = [tx EXCEPT ![r] = [tx[r] EXCEPT !.at = "inserting", !.bat = b,
                                      !.todo = RowsOf(csv[b])]]
  BY DEF RestoreBatch, IInv, Typing, TypeOK
<1> DEFINE t == [tx[r] EXCEPT !.at = "inserting", !.bat = b, !.todo = RowsOf(csv[b])]
<1>2. /\ tx[r] \in Tx /\ tx[r] = NoTx
      /\ UNCHANGED <<live, issued, csv, sidecar, manifest>>
  BY DEF RestoreBatch, IInv, Typing, TypeOK, RequestsOk, IdleOk, store
<1>3. /\ t.at = "inserting" /\ t.bat = b /\ t.todo = RowsOf(csv[b])
      /\ t.ins = Empty /\ RowsOf(t.ins) = {} /\ t.del = {}
  BY <1>2, EmptyArchive DEF Tx, NoTx
<1> HIDE DEF t
<1>4. tx' = [tx EXCEPT ![r] = t] /\ tx'[r] = t
  BY <1>1 DEF t, IInv, Typing, TypeOK
<1>5. (DeleteOk(r) /\ RestoreOk(r) /\ IdleOk(r))'
  BY <1>1, <1>2, <1>3, <1>4 DEF DeleteOk, RestoreOk, IdleOk, Deleting, manifest, RowsOf
<1>6. \A q \in Reqs \ {r} : /\ t.at \in Deleting /\ tx[q].at \in Deleting => t.bat # tx[q].bat
                            /\ RowsOf(t.ins) \cap RowsOf(tx[q].ins) = {}
  BY <1>3 DEF Deleting
<1> QED  BY <1>2, <1>4, <1>5, <1>6, PrivateStep

LEMMA InvRestoreRow ==
  ASSUME IInv, Typing', NEW r \in Reqs, RestoreRow(r)
  PROVE  IInv'
<1>1. PICK b \in Batches, p \in Pks :
        /\ p \in listed[b]
        /\ csv[b][p] # NoRow
        /\ tx' = [tx EXCEPT ![r] = [tx[r] EXCEPT !.at = "returning", !.bat = b,
                                      !.todo = {p}, !.want = {p}]]
  BY DEF RestoreRow, IInv, Typing, TypeOK
<1> DEFINE t == [tx[r] EXCEPT !.at = "returning", !.bat = b, !.todo = {p}, !.want = {p}]
<1>2. /\ tx[r] \in Tx /\ tx[r] = NoTx
      /\ UNCHANGED <<live, issued, csv, sidecar, manifest>>
  BY DEF RestoreRow, IInv, Typing, TypeOK, RequestsOk, IdleOk, store
<1>3. /\ t.at = "returning" /\ t.bat = b /\ t.todo = {p}
      /\ t.ins = Empty /\ RowsOf(t.ins) = {} /\ t.del = {}
  BY <1>2, EmptyArchive DEF Tx, NoTx
<1> HIDE DEF t
<1>4. tx' = [tx EXCEPT ![r] = t] /\ tx'[r] = t
  BY <1>1 DEF t, IInv, Typing, TypeOK
<1>5. status[b] # "none" /\ {p} \subseteq RowsOf(csv[b])
  BY <1>1 DEF IInv, OnlyCommittedListed, RowsOf
<1>6. (DeleteOk(r) /\ RestoreOk(r) /\ IdleOk(r))'
  BY <1>2, <1>3, <1>4, <1>5 DEF DeleteOk, RestoreOk, IdleOk, Deleting, manifest, RowsOf
<1>7. \A q \in Reqs \ {r} : /\ t.at \in Deleting /\ tx[q].at \in Deleting => t.bat # tx[q].bat
                            /\ RowsOf(t.ins) \cap RowsOf(tx[q].ins) = {}
  BY <1>3 DEF Deleting
<1> QED  BY <1>2, <1>4, <1>6, <1>7, PrivateStep

LEMMA InvInsertRow ==
  ASSUME IInv, Typing', NEW r \in Reqs, InsertRow(r)
  PROVE  IInv'
<1> DEFINE row(p) == csv[tx[r].bat][p]
           t(p) == [tx[r] EXCEPT !.todo = tx[r].todo \ {p},
                      !.ins = IF Conflict(r, p, row(p)) THEN tx[r].ins
                              ELSE [tx[r].ins EXCEPT ![p] = row(p)]]
<1>1. PICK p \in tx[r].todo : ~RowLocked(r, p) /\ tx' = [tx EXCEPT ![r] = t(p)]
  BY DEF InsertRow, IInv, Typing, TypeOK
<1>2. /\ tx[r] \in Tx /\ RestoreOk(r) /\ tx[r].at \in Restoring /\ p \in Pks
      /\ UNCHANGED <<live, issued, csv, sidecar, manifest>>
  BY DEF InsertRow, IInv, Typing, TypeOK, RequestsOk, store, Restoring, Tx
<1> DEFINE ins == t(p).ins
<1>3. /\ t(p).at = tx[r].at /\ t(p).bat = tx[r].bat /\ t(p).del = tx[r].del
      /\ t(p).todo = tx[r].todo \ {p}
  BY <1>2 DEF Tx
<1>4. RowsOf(ins) \subseteq RowsOf(tx[r].ins) \cup ({p} \ RowsOf(live))
  <2>1. CASE Conflict(r, p, row(p))
    <3>1. ins = tx[r].ins
      BY <1>2, <2>1 DEF Tx
    <3> QED  BY <3>1
  <2>2. CASE ~Conflict(r, p, row(p))
    <3>1. ins = [tx[r].ins EXCEPT ![p] = row(p)]
      BY <1>2, <2>2 DEF Tx
    <3>2. p \notin RowsOf(live)
      BY <2>2 DEF Conflict, RowsOf
    <3>3. tx[r].ins \in Archive
      BY <1>2 DEF Tx
    <3> QED  BY <3>1, <3>2, <3>3 DEF RowsOf, Archive
  <2> QED  BY <2>1, <2>2
<1> HIDE DEF t, ins
<1>5. tx'[r] = t(p) /\ t(p).ins = ins
  BY <1>1 DEF ins, IInv, Typing, TypeOK
<1>6. (DeleteOk(r) /\ RestoreOk(r) /\ IdleOk(r))'
  <2>1. RowsOf(ins) \subseteq RowsOf(csv[tx[r].bat]) /\ RowsOf(ins) \cap RowsOf(live) = {}
    BY <1>1, <1>2, <1>4 DEF RestoreOk
  <2> QED  BY <1>2, <1>3, <1>5, <2>1
           DEF DeleteOk, RestoreOk, IdleOk, Deleting, Restoring, manifest, RowsOf
<1>7. \A q \in Reqs \ {r} : /\ t(p).at \in Deleting /\ tx[q].at \in Deleting
                                  => t(p).bat # tx[q].bat
                            /\ RowsOf(t(p).ins) \cap RowsOf(tx[q].ins) = {}
  <2>1. t(p).at \notin Deleting
    BY <1>2, <1>3 DEF Deleting, Restoring
  <2>2. \A q \in Reqs \ {r} : p \notin RowsOf(tx[q].ins)
    BY <1>1 DEF RowLocked, RowsOf
  <2> QED  BY <2>1, <2>2, <1>4, <1>5 DEF IInv, Apart
<1> QED  BY <1>1, <1>2, <1>6, <1>7, PrivateStep

LEMMA InvUnlistAndCount ==
  ASSUME IInv, Typing', NEW r \in Reqs, UnlistAndCount(r)
  PROVE  IInv'
<1> DEFINE t == [tx[r] EXCEPT !.at = IF NothingLeft(r) THEN "emptied" ELSE "kept"]
<1>1. /\ tx[r] \in Tx /\ tx[r].at \in Restoring /\ RestoreOk(r)
      /\ UNCHANGED <<live, issued, csv, sidecar, manifest>>
  BY DEF UnlistAndCount, IInv, Typing, TypeOK, RequestsOk, store, Restoring
<1>2. /\ t.at \in {"emptied", "kept"} /\ t.bat = tx[r].bat /\ t.ins = tx[r].ins
      /\ t.del = tx[r].del /\ t.todo = tx[r].todo
  BY <1>1 DEF Tx
<1> HIDE DEF t
<1>3. tx' = [tx EXCEPT ![r] = t] /\ tx'[r] = t
  BY DEF UnlistAndCount, t, IInv, Typing, TypeOK
<1>4. (DeleteOk(r) /\ RestoreOk(r) /\ IdleOk(r))'
  BY <1>1, <1>2, <1>3 DEF DeleteOk, RestoreOk, IdleOk, Restoring, Deleting, manifest, RowsOf
<1>5. \A q \in Reqs \ {r} : /\ t.at \in Deleting /\ tx[q].at \in Deleting => t.bat # tx[q].bat
                            /\ RowsOf(t.ins) \cap RowsOf(tx[q].ins) = {}
  BY <1>2 DEF IInv, Apart, Deleting
<1> QED  BY <1>1, <1>3, <1>4, <1>5, PrivateStep

LEMMA InvPutCsv ==
  ASSUME IInv, Typing', NEW r \in Reqs, PutCsv(r)
  PROVE  IInv'
<1> DEFINE t == [tx[r] EXCEPT !.at = "exported"]
           b == tx[r].bat
<1>1. /\ tx[r] \in Tx /\ tx[r].at = "selected" /\ DeleteOk(r) /\ b \in Batches
      /\ status[b] = "none" /\ tx[r].sel \in Archive
      /\ UNCHANGED <<live, issued, sidecar, manifest>>
      /\ csv' = [csv EXCEPT ![b] = Csv(tx[r].sel)]
  BY DEF PutCsv, IInv, Typing, TypeOK, BatchNamed, RequestsOk, DeleteOk, Deleting, Tx
<1>2. t.at = "exported" /\ t.bat = b /\ t.ins = tx[r].ins /\ t.sel = tx[r].sel
  BY <1>1 DEF Tx
<1> HIDE DEF t
<1>3. tx' = [tx EXCEPT ![r] = t] /\ tx'[r] = t /\ \A q \in Reqs \ {r} : tx'[q] = tx[q]
  BY DEF PutCsv, t, IInv, Typing, TypeOK
<1>4. csv'[b] = Csv(tx[r].sel) /\ \A c \in Batches \ {b} : csv'[c] = csv[c]
  BY <1>1 DEF IInv, Typing, TypeOK
<1>5. RequestsOk'
  <2> SUFFICES ASSUME NEW q \in Reqs PROVE (DeleteOk(q) /\ RestoreOk(q) /\ IdleOk(q))'
    BY DEF RequestsOk
  <2>1. CASE q = r
    BY <2>1, <1>1, <1>2, <1>3, <1>4
       DEF DeleteOk, RestoreOk, IdleOk, Deleting, Restoring, manifest, RowsOf
  <2>2. CASE q # r
    <3>1. /\ DeleteOk(q) /\ RestoreOk(q) /\ IdleOk(q)
          /\ tx[q].at # "idle" => tx[q].bat \in Batches
      BY DEF IInv, RequestsOk, Typing, BatchNamed
    <3>2. tx[q].at \in Deleting \/ tx[q].at \in Restoring => tx[q].bat # b
      BY <2>2, <3>1, <1>1 DEF IInv, Apart, RestoreOk, Deleting
    <3>3. tx[q].at \in Deleting \/ tx[q].at \in Restoring => csv'[tx[q].bat] = csv[tx[q].bat]
      BY <3>1, <3>2, <1>4 DEF Deleting, Restoring
    <3> QED  BY <2>2, <3>1, <3>3, <1>1, <1>3 DEF DeleteOk, RestoreOk, IdleOk, manifest, RowsOf
  <2> QED  BY <2>1, <2>2
<1>6. Apart'
  <2> SUFFICES ASSUME NEW x \in Reqs, NEW y \in Reqs, x # y
               PROVE  /\ tx'[x].at \in Deleting /\ tx'[y].at \in Deleting
                            => tx'[x].bat # tx'[y].bat
                      /\ RowsOf(tx'[x].ins) \cap RowsOf(tx'[y].ins) = {}
    BY DEF Apart, RowsOf
  <2>1. \A q \in Reqs : /\ tx'[q].bat = tx[q].bat /\ tx'[q].ins = tx[q].ins
                        /\ tx'[q].at \in Deleting => tx[q].at \in Deleting
    BY <1>1, <1>2, <1>3 DEF Deleting
  <2> QED  BY <2>1 DEF IInv, Apart
<1>7. RowsIssued'
  <2>1. RowsOf(csv'[b]) \subseteq issued
    BY <1>1, <1>4, CsvKeepsRows DEF DeleteOk, Deleting
  <2>2. \A c \in Batches : RowsOf(csv'[c]) \subseteq issued
    BY <2>1, <1>4 DEF IInv, RowsIssued
  <2> QED  BY <2>2, <1>1 DEF IInv, RowsIssued, RowsOf
<1>8. ManifestBacked'
  <2> SUFFICES ASSUME NEW c \in Batches, status'[c] # "none"
               PROVE  /\ c \in sidecar'
                      /\ csv'[c] # Empty
                      /\ listed'[c] \subseteq RowsOf(csv'[c])
                      /\ rowCount'[c] = Cardinality(RowsOf(csv'[c]))
    BY DEF ManifestBacked, RowsOf, Empty
  <2>1. c # b /\ status[c] # "none"
    BY <1>1 DEF manifest
  <2> QED  BY <2>1, <1>1, <1>4 DEF IInv, ManifestBacked, manifest
<1>9. OnlyCommittedListed'
  BY <1>1 DEF IInv, OnlyCommittedListed, manifest
<1> QED  BY <1>5, <1>6, <1>7, <1>8, <1>9 DEF IInv

(* An edit keeps the ids of the table; an upload adds ids that no archive  *)
(* and no restore in flight can hold, since they were never handed out.    *)
LEMMA InvTableWrite ==
  ASSUME IInv, Typing', NEW r \in Reqs, UpdateRow(r) \/ CopyIn(r)
  PROVE  IInv'
<1>1. UNCHANGED <<csv, sidecar, status, listed, rowCount, tx>>
  BY DEF UpdateRow, CopyIn, store, manifest
<1>2. /\ issued \subseteq issued'
      /\ RowsOf(live') \subseteq issued'
      /\ RowsOf(live') \cap issued \subseteq RowsOf(live)
  <2>1. CASE UpdateRow(r)
    <3>1. RowsOf(live') \subseteq RowsOf(live) /\ issued' = issued
      BY <2>1 DEF UpdateRow, RowsOf, IInv, Typing, TypeOK, Archive
    <3> QED  BY <3>1 DEF IInv, RowsIssued
  <2>2. CASE CopyIn(r)
    <3>1. PICK file \in Archive :
             /\ RowsOf(file) \cap issued = {}
             /\ live' = [p \in Pks |-> IF file[p] # NoRow THEN file[p] ELSE live[p]]
             /\ issued' = issued \cup RowsOf(file)
      BY <2>2 DEF CopyIn
    <3>2. RowsOf(live') \subseteq RowsOf(live) \cup RowsOf(file)
      BY <3>1 DEF RowsOf
    <3> QED  BY <3>1, <3>2 DEF IInv, RowsIssued
  <2> QED  BY <2>1, <2>2
<1>3. RequestsOk'
  <2> SUFFICES ASSUME NEW q \in Reqs PROVE (DeleteOk(q) /\ RestoreOk(q) /\ IdleOk(q))'
    BY DEF RequestsOk
  <2>1. /\ DeleteOk(q) /\ RestoreOk(q) /\ IdleOk(q)
        /\ tx[q].at # "idle" => tx[q].bat \in Batches
    BY DEF IInv, RequestsOk, Typing, BatchNamed
  <2>2. tx[q].at \in Restoring => RowsOf(tx[q].ins) \subseteq issued
    BY <2>1 DEF RestoreOk, IInv, RowsIssued, Restoring
  <2>3. tx[q].at \in Restoring => RowsOf(tx[q].ins) \cap RowsOf(live') = {}
    BY <2>1, <2>2, <1>2 DEF RestoreOk
  <2> QED  BY <2>1, <2>3, <1>1, <1>2 DEF DeleteOk, RestoreOk, IdleOk, RowsOf
<1>4. Apart'
  BY <1>1 DEF IInv, Apart, RowsOf
<1>5. RowsIssued'
  BY <1>1, <1>2 DEF IInv, RowsIssued, RowsOf
<1>6. ManifestBacked' /\ OnlyCommittedListed'
  BY <1>1 DEF IInv, ManifestBacked, OnlyCommittedListed, RowsOf
<1> QED  BY <1>3, <1>4, <1>5, <1>6 DEF IInv

LEMMA InvStep == IInv /\ [Next]_vars => IInv'
<1> SUFFICES ASSUME IInv, [Next]_vars PROVE IInv'
  OBVIOUS
<1>t. Typing'
  BY TypeStep DEF IInv
<1>1. CASE UNCHANGED vars
  <2>1. RequestsOk'
    BY <1>1 DEF vars, IInv, RequestsOk, DeleteOk, RestoreOk, IdleOk, RowsOf
  <2>2. Apart'
    BY <1>1 DEF vars, IInv, Apart, RowsOf
  <2>3. RowsIssued'
    BY <1>1 DEF vars, IInv, RowsIssued, RowsOf
  <2>4. ManifestBacked' /\ OnlyCommittedListed'
    BY <1>1 DEF vars, IInv, ManifestBacked, OnlyCommittedListed, RowsOf
  <2> QED  BY <1>t, <2>1, <2>2, <2>3, <2>4 DEF IInv
<1>2. CASE Next
  <2> PICK r \in Reqs : Arrive(r) \/ Delete(r) \/ Restore(r) \/ Rollback(r)
    BY <1>2 DEF Next
  <2>1. CASE NothingToDelete(r)
    BY <2>1, <1>1 DEF NothingToDelete
  <2> QED  BY <1>t, <2>1, InvSelectRows, InvPutCsv, InvPutSidecar, InvDeleteRows,
              InvCommitDelete, InvRestoreBatch, InvRestoreRow, InvInsertRow,
              InvCommitRestore, InvUnlistAndCount, InvRollback, InvTableWrite
           DEF Arrive, Delete, Restore
<1> QED  BY <1>1, <1>2

(***************************************************************************)
(* A committed batch can be restored: sidecar and CSV are in storage, the  *)
(* rows it lists are in the CSV, row_count is exact.  Holds for every      *)
(* interleaving of deletes, restores, edits, uploads and failures.         *)
(***************************************************************************)
THEOREM ManifestAlwaysBacked == Spec => []ManifestBacked
<1>1. IInv => ManifestBacked
  BY DEF IInv
<1> QED  BY InvInit, InvStep, <1>1, PTL DEF Spec

(* A request leaves "idle" only by arriving, and ends only in one of the   *)
(* commits or in a rollback; a rollback leaves the table alone, and the    *)
(* inserts of a restore are of ids the table does not hold.                *)
THEOREM RestoresNeverOverwrite == Spec => RestoreNeverOverwrites
<1> DEFINE Safe == \A r \in Reqs :
              (tx[r].at \in {"inserting", "kept", "emptied"} /\ tx'[r].at = "idle")
                 => \A p \in RowsOf(live) : live'[p] = live[p]
<1>1. IInv /\ [Next]_vars => Safe
  <2> SUFFICES ASSUME IInv, [Next]_vars, NEW r \in Reqs,
                      tx[r].at \in {"inserting", "kept", "emptied"}, tx'[r].at = "idle"
               PROVE  \A p \in RowsOf(live) : live'[p] = live[p]
    OBVIOUS
  <2>1. tx' # tx
    OBVIOUS
  <2>2. PICK q \in Reqs : Arrive(q) \/ Delete(q) \/ Restore(q) \/ Rollback(q)
    BY <2>1 DEF Next, vars
  <2>3. live' = live \/ live' = Committed(q)
    BY <2>1, <2>2 DEF Arrive, Delete, Restore, SelectRows, NothingToDelete, vars,
       RestoreBatch, RestoreRow, UpdateRow, CopyIn, PutCsv, PutSidecar, DeleteRows,
       CommitDelete, InsertRow, CommitRestoreBatch, UnlistAndCount, CommitRestoreRow, Rollback
  <2>4. CASE live' = Committed(q) /\ q = r
    <3>1. tx[r].del = {} /\ RowsOf(tx[r].ins) \cap RowsOf(live) = {}
      BY DEF IInv, RequestsOk, RestoreOk, Restoring
    <3> QED  BY <3>1, <2>4 DEF Committed, RowsOf
  <2>5. CASE q # r
    <3>1. tx'[r] = tx[r]
      BY <2>2, <2>5 DEF Arrive, Delete, Restore, SelectRows, NothingToDelete, vars,
         RestoreBatch, RestoreRow, UpdateRow, CopyIn, PutCsv, PutSidecar, DeleteRows,
         CommitDelete, InsertRow, CommitRestoreBatch, UnlistAndCount, CommitRestoreRow,
         Rollback, Finish, IInv, Typing, TypeOK
    <3> QED  BY <3>1
  <2> QED  BY <2>3, <2>4, <2>5
<1> QED  BY InvInit, InvStep, <1>1, PTL DEF Spec, RestoreNeverOverwrites

-----------------------------------------------------------------------------
(***************************************************************************)
(* The promise of the module Vault, for deletes of one row at a time (the  *)
(* handler delete_row).  It fails for bulk deletes, whose DELETE may match *)
(* rows their SELECT did not: there the assumption below is needed.        *)
(***************************************************************************)
OneRow(r) == tx[r].at \in Deleting =>
               \E p \in Pks : /\ tx[r].where.pks = {p}
                              /\ RowsOf(tx[r].sel) = {p}
                              /\ tx[r].del \subseteq {p}

RowScoped == \A r \in Reqs : OneRow(r)

LEMMA RowScopedInit == Init => RowScoped
  BY DEF Init, RowScoped, OneRow, NoTx, Deleting

LEMMA RowScopedStep ==
  ASSUME BulkFilters = {}, IInv, RowScoped, [Next]_vars
  PROVE  RowScoped'
<1>1. CASE UNCHANGED vars
  BY <1>1 DEF vars, RowScoped, OneRow, RowsOf
<1>2. CASE Next
  <2> PICK r \in Reqs : Arrive(r) \/ Delete(r) \/ Restore(r) \/ Rollback(r)
    BY <1>2 DEF Next
  <2>1. \A q \in Reqs \ {r} : tx'[q] = tx[q]
    BY DEF Arrive, Delete, Restore, SelectRows, NothingToDelete, vars,
       RestoreBatch, RestoreRow, UpdateRow, CopyIn, PutCsv, PutSidecar, DeleteRows,
       CommitDelete, InsertRow, CommitRestoreBatch, UnlistAndCount, CommitRestoreRow,
       Rollback, Finish, IInv, Typing, TypeOK
  <2>2. \A q \in Reqs \ {r} : OneRow(q)'
    BY <2>1 DEF RowScoped, OneRow, RowsOf
  <2>t. tx[r] \in Tx /\ tx \in [Reqs -> Tx] /\ OneRow(r)
    BY DEF IInv, Typing, TypeOK, RowScoped
  <2>3. OneRow(r)'
    <3>1. CASE SelectRows(r)
      <4>1. PICK w \in Wheres, b \in Batches :
              /\ Matching(live, w) # {}
              /\ tx'[r] = [tx[r] EXCEPT !.at = "selected", !.where = w,
                             !.bat = b, !.sel = Read(w)]
        BY <3>1, <2>t DEF SelectRows
      <4>2. PICK p \in Pks : w = [pks |-> {p}, keys |-> Keys]
        BY DEF Wheres
      <4>3. Matching(live, w) \subseteq {p} /\ RowsOf(Read(w)) = Matching(live, w)
        BY <4>2 DEF Matching, Read, RowsOf
      <4>4. tx[r].del = {}
        BY <3>1, EmptyArchive DEF SelectRows, IInv, RequestsOk, IdleOk, NoTx
      <4>5. /\ tx'[r].where.pks = {p} /\ tx'[r].sel = Read(w) /\ tx'[r].del = {}
        BY <4>1, <4>2, <4>4, <2>t DEF Tx
      <4> QED  BY <4>1, <4>3, <4>5 DEF OneRow, RowsOf
    <3>2. CASE PutCsv(r) \/ PutSidecar(r)
      <4>1. /\ tx[r].at \in Deleting /\ tx'[r].where = tx[r].where
            /\ tx'[r].sel = tx[r].sel /\ tx'[r].del = tx[r].del
        BY <3>2, <2>t DEF PutCsv, PutSidecar, Tx, Deleting
      <4> QED  BY <4>1, <2>t DEF OneRow, RowsOf
    <3>3. CASE DeleteRows(r)
      <4>1. /\ tx[r].at \in Deleting /\ tx'[r].where = tx[r].where
            /\ tx'[r].sel = tx[r].sel /\ tx'[r].del = Matching(live, tx[r].where)
        BY <3>3, <2>t DEF DeleteRows, Tx, Deleting
      <4>2. Matching(live, tx[r].where) \subseteq tx[r].where.pks
        BY DEF Matching
      <4> QED  BY <4>1, <4>2, <2>t DEF OneRow, RowsOf
    <3>4. CASE Finish(r)
      BY <3>4, <2>t DEF Finish, OneRow, NoTx, Deleting
    <3>5. CASE UpdateRow(r) \/ CopyIn(r) \/ NothingToDelete(r)
      BY <3>5, <2>t DEF UpdateRow, CopyIn, NothingToDelete, vars, OneRow, RowsOf
    <3>6. CASE RestoreBatch(r) \/ RestoreRow(r) \/ InsertRow(r) \/ UnlistAndCount(r)
      <4>1. tx'[r].at \notin Deleting
        <5>1. CASE RestoreBatch(r)
          BY <5>1, <2>t DEF RestoreBatch, Tx, Deleting
        <5>2. CASE RestoreRow(r)
          BY <5>2, <2>t DEF RestoreRow, Tx, Deleting
        <5>3. CASE InsertRow(r)
          <6>1. tx'[r].at = tx[r].at /\ tx[r].at \in {"inserting", "returning"}
            BY <5>3, <2>t DEF InsertRow, Tx
          <6> QED  BY <6>1 DEF Deleting
        <5>4. CASE UnlistAndCount(r)
          BY <5>4, <2>t DEF UnlistAndCount, Tx, Deleting
        <5> QED  BY <3>6, <5>1, <5>2, <5>3, <5>4
      <4> QED  BY <4>1 DEF OneRow
    <3> QED  BY <3>1, <3>2, <3>3, <3>4, <3>5, <3>6 DEF Arrive, Delete, Restore,
                CommitDelete, CommitRestoreBatch, CommitRestoreRow, Rollback
  <2> QED  BY <2>2, <2>3 DEF RowScoped
<1> QED  BY <1>1, <1>2

(* What the promise rests on: what a DELETE removed, its SELECT had read. *)
RemovesOnlyRead == \A r \in Reqs : tx[r].at = "deleted" => tx[r].del \subseteq RowsOf(tx[r].sel)

LEMMA RowDeletesRemoveRead == RowScoped => RemovesOnlyRead
  BY DEF RowScoped, OneRow, RemovesOnlyRead, Deleting

(* Membership in the bin, without the UNION. *)
LEMMA InBinMeaning ==
  \A p : p \in InBin <=> \E b \in Batches : status[b] # "none" /\ p \in RowsOf(csv[b])
  BY DEF InBin, CommittedBatches

LEMMA InBinMeaningNext ==
  \A p : p \in InBin' <=> \E b \in Batches : status'[b] # "none" /\ p \in RowsOf(csv'[b])
  BY DEF InBin, CommittedBatches, RowsOf

LEMMA PromiseStep ==
  ASSUME IInv, RemovesOnlyRead, NothingVanishes, [Next]_vars
  PROVE  NothingVanishes' /\ [Promise!Next]_<<RowsOf(live), InBin>>
<1> DEFINE inLive == RowsOf(live)
           inLiveNext == RowsOf(live')
<1>0. RowsOf(live)' = inLiveNext
  BY DEF RowsOf
<1>known. issued = inLive \cup InBin
  BY InBinMeaning DEF NothingVanishes, IInv, RowsIssued
<1>1. CASE live' = live /\ issued' = issued /\ csv' = csv /\ status' = status
  <2>1. InBin' = InBin
    BY <1>1, InBinMeaning, InBinMeaningNext
  <2> QED  BY <2>1, <1>0, <1>1 DEF NothingVanishes
<1>2. ASSUME NEW r \in Reqs, PutCsv(r)
      PROVE  InBin' = InBin /\ inLiveNext = inLive /\ issued' = issued
  <2>1. /\ live' = live /\ issued' = issued /\ status' = status
        /\ status[tx[r].bat] = "none"
        /\ \A b \in Batches : b # tx[r].bat => csv'[b] = csv[b]
    BY <1>2 DEF PutCsv, IInv, Typing, TypeOK, RequestsOk, DeleteOk, Deleting, manifest
  <2>2. \A b \in Batches : status[b] # "none" => csv'[b] = csv[b]
    BY <2>1
  <2> QED  BY <2>1, <2>2, InBinMeaning, InBinMeaningNext
<1>3. ASSUME NEW r \in Reqs, CommitDelete(r)
      PROVE  NothingVanishes' /\ Promise!Discard
  <2> DEFINE S == RowsOf(tx[r].sel)
             D == tx[r].del \cap inLive
             b == tx[r].bat
  <2>1. /\ DeleteOk(r) /\ tx[r].at = "deleted" /\ b \in Batches
        /\ tx[r].sel \in Archive
    BY <1>3 DEF CommitDelete, IInv, RequestsOk, Typing, TypeOK, BatchNamed, Tx
  <2>2. /\ S \subseteq issued /\ RowsOf(tx[r].ins) = {} /\ csv[b] = Csv(tx[r].sel)
        /\ status[b] = "none" /\ tx[r].del \subseteq S
    BY <2>1 DEF DeleteOk, RemovesOnlyRead, Deleting
  <2>3. RowsOf(csv[b]) = S
    BY <2>1, <2>2, CsvKeepsRows
  <2>4. inLiveNext = inLive \ D
    BY <1>3, <2>2 DEF CommitDelete, Committed, RowsOf
  <2>5. /\ csv' = csv /\ issued' = issued
        /\ \A c \in Batches : status'[c] = IF c = b THEN "active" ELSE status[c]
    BY <1>3, <2>1 DEF CommitDelete, IInv, Typing, TypeOK, store
  <2>6. InBin' = InBin \cup S
    BY <2>1, <2>3, <2>5, InBinMeaning, InBinMeaningNext
  <2>7. S \subseteq inLive \cup InBin /\ D \subseteq inLive /\ D \subseteq S
    BY <2>2, <1>known
  <2>8. Promise!Discard
    BY <2>4, <2>6, <2>7, <1>0 DEF Promise!Discard, Promise!known
  <2>9. NothingVanishes'
    BY <2>4, <2>5, <2>6, <2>7, <1>0, <1>known DEF NothingVanishes
  <2> QED  BY <2>8, <2>9
<1>4. ASSUME NEW r \in Reqs, CommitRestoreBatch(r) \/ CommitRestoreRow(r)
      PROVE  NothingVanishes' /\ Promise!Recover
  <2>1. RestoreOk(r) /\ tx[r].at \in Restoring /\ tx[r].bat \in Batches
    BY <1>4 DEF CommitRestoreBatch, CommitRestoreRow, IInv, RequestsOk, Typing,
       BatchNamed, Restoring
  <2>2. /\ RowsOf(tx[r].ins) \subseteq InBin /\ tx[r].del = {}
        /\ status[tx[r].bat] # "none"
    BY <2>1, InBinMeaning DEF RestoreOk
  <2>3. inLiveNext = inLive \cup RowsOf(tx[r].ins)
    BY <1>4, <2>2 DEF CommitRestoreBatch, CommitRestoreRow, Committed, RowsOf
  <2>4. /\ csv' = csv /\ issued' = issued
        /\ \A c \in Batches : status'[c] # "none" <=> status[c] # "none"
    BY <1>4, <2>1, <2>2 DEF CommitRestoreBatch, CommitRestoreRow, IInv, Typing,
       TypeOK, store, Restored
  <2>5. InBin' = InBin
    BY <2>4, InBinMeaning, InBinMeaningNext
  <2> QED  BY <2>2, <2>3, <2>4, <2>5, <1>0 DEF Promise!Recover, NothingVanishes
<1>5. ASSUME NEW r \in Reqs, UpdateRow(r)
      PROVE  InBin' = InBin /\ inLiveNext = inLive /\ issued' = issued
  <2>1. csv' = csv /\ status' = status /\ issued' = issued
    BY <1>5 DEF UpdateRow, store, manifest
  <2>2. inLiveNext = inLive
    <3>1. PICK p \in RowsOf(live), row \in Row : live' = [live EXCEPT ![p] = row]
      BY <1>5 DEF UpdateRow
    <3> QED  BY <3>1, NoRowAssumption DEF RowsOf, IInv, Typing, TypeOK, Archive
  <2> QED  BY <2>1, <2>2, InBinMeaning, InBinMeaningNext
<1>6. ASSUME NEW r \in Reqs, CopyIn(r)
      PROVE  NothingVanishes' /\ Promise!Enter
  <2>1. csv' = csv /\ status' = status
    BY <1>6 DEF CopyIn, store, manifest
  <2>2. PICK file \in Archive :
             /\ RowsOf(file) \cap issued = {}
             /\ live' = [p \in Pks |-> IF file[p] # NoRow THEN file[p] ELSE live[p]]
             /\ issued' = issued \cup RowsOf(file)
    BY <1>6 DEF CopyIn
  <2>3. inLiveNext = inLive \cup RowsOf(file)
    BY <2>2 DEF RowsOf
  <2>4. InBin' = InBin
    BY <2>1, InBinMeaning, InBinMeaningNext
  <2>5. RowsOf(file) \in SUBSET (Pks \ (inLive \cup InBin))
    BY <2>2, <1>known DEF RowsOf
  <2> QED  BY <2>2, <2>3, <2>4, <2>5, <1>0 DEF Promise!Enter, Promise!known, NothingVanishes
<1>7. CASE InBin' = InBin /\ inLiveNext = inLive /\ issued' = issued
  BY <1>7, <1>0 DEF NothingVanishes
<1>8. CASE UNCHANGED vars
  BY <1>8, <1>1 DEF vars
<1>9. CASE Next
  <2> PICK r \in Reqs : Arrive(r) \/ Delete(r) \/ Restore(r) \/ Rollback(r)
    BY <1>9 DEF Next
  <2>1. CASE \/ SelectRows(r) \/ NothingToDelete(r) \/ RestoreBatch(r) \/ RestoreRow(r)
             \/ PutSidecar(r) \/ DeleteRows(r) \/ InsertRow(r) \/ UnlistAndCount(r)
             \/ Rollback(r)
    BY <2>1, <1>1 DEF SelectRows, NothingToDelete, RestoreBatch, RestoreRow, PutSidecar,
       DeleteRows, InsertRow, UnlistAndCount, Rollback, vars, store, manifest
  <2>2. CASE \/ PutCsv(r) \/ UpdateRow(r)
    BY <2>2, <1>2, <1>5, <1>7
  <2>3. CASE CommitDelete(r) \/ CommitRestoreBatch(r) \/ CommitRestoreRow(r) \/ CopyIn(r)
    BY <2>3, <1>3, <1>4, <1>6 DEF Promise!Next
  <2> QED  BY <2>1, <2>2, <2>3 DEF Arrive, Delete, Restore
<1> QED  BY <1>8, <1>9

LEMMA PromiseInit == Init => NothingVanishes /\ Promise!Init
<1> SUFFICES ASSUME Init PROVE NothingVanishes /\ Promise!Init
  OBVIOUS
<1>1. InBin = {}
  BY InBinMeaning DEF Init
<1> QED  BY <1>1 DEF Init, NothingVanishes, Promise!Init, RowsOf

(***************************************************************************)
(* As long as rows are deleted one at a time, no id the table ever held is *)
(* lost, whatever runs or fails beside the delete.                         *)
(***************************************************************************)
THEOREM RowDeletesLoseNothing ==
  ASSUME BulkFilters = {}
  PROVE  Spec => []NothingVanishes
<1>1. Init => IInv /\ RowScoped /\ NothingVanishes
  BY InvInit, RowScopedInit, PromiseInit
<1>2. IInv /\ RowScoped /\ NothingVanishes /\ [Next]_vars
        => (IInv /\ RowScoped /\ NothingVanishes)'
  BY InvStep, RowScopedStep, RowDeletesRemoveRead, PromiseStep
<1> QED  BY <1>1, <1>2, PTL DEF Spec

(* And the bin, with its transactions, locks, storage and failures, is an  *)
(* implementation of Vault.                                                *)
THEOREM RowDeletesKeepPromise ==
  ASSUME BulkFilters = {}
  PROVE  Spec => KeepsPromise
<1>1. Init => IInv /\ RowScoped /\ NothingVanishes /\ Promise!Init
  BY InvInit, RowScopedInit, PromiseInit
<1>2. IInv /\ RowScoped /\ NothingVanishes /\ [Next]_vars
        => (IInv /\ RowScoped /\ NothingVanishes)' /\ [Promise!Next]_<<RowsOf(live), InBin>>
  BY InvStep, RowScopedStep, RowDeletesRemoveRead, PromiseStep
<1> QED  BY <1>1, <1>2, PTL DEF Spec, KeepsPromise, Promise!Spec
=============================================================================
