-------------------------- MODULE Deletions_proofs --------------------------
(***************************************************************************)
(* What a deletion archives and what a restore leaves behind, with any     *)
(* number of requests side by side.  Where a property needs requests to be *)
(* kept apart, the theorem has as its hypothesis the restriction of        *)
(* RecycleBin that says from what: everything else may overlap and fail.   *)
(***************************************************************************)
EXTENDS RecycleBin_proofs

-----------------------------------------------------------------------------
(* The rows a delete has read are rows its predicate names. *)
Scoped == \A r \in Reqs : tx[r].at \in Deleting => RowsOf(tx[r].sel) \subseteq tx[r].where.pks

LEMMA ScopedInit == Init => Scoped
  BY DEF Init, Scoped, NoTx, Deleting

(* One step is a step of one request, and leaves the others as they are. *)
LEMMA OneMoves ==
  ASSUME IInv, Next
  PROVE  \E r \in Reqs : /\ Arrive(r) \/ Delete(r) \/ Restore(r) \/ Rollback(r)
                         /\ \A q \in Reqs \ {r} : tx'[q] = tx[q]
<1>1. PICK r \in Reqs : Arrive(r) \/ Delete(r) \/ Restore(r) \/ Rollback(r)
  BY DEF Next
<1>2. \A q \in Reqs \ {r} : tx'[q] = tx[q]
  BY <1>1 DEF Arrive, Delete, Restore, SelectRows, NothingToDelete, vars,
     RestoreBatch, RestoreRow, UpdateRow, CopyIn, PutCsv, PutSidecar, DeleteRows,
     CommitDelete, InsertRow, CommitRestoreBatch, UnlistAndCount, CommitRestoreRow,
     Rollback, Finish, IInv, Typing, TypeOK
<1> QED  BY <1>1, <1>2

(* What SelectRows leaves in the request. *)
LEMMA Selected ==
  ASSUME IInv, NEW r \in Reqs, SelectRows(r)
  PROVE  /\ tx'[r].at = "selected"
         /\ tx'[r].sel = Read(tx'[r].where)
         /\ tx'[r].del = tx[r].del
         /\ UNCHANGED <<live, csv, status, listed>>
<1>1. PICK w \in Wheres, b \in Batches :
        tx'[r] = [tx[r] EXCEPT !.at = "selected", !.where = w, !.bat = b, !.sel = Read(w)]
  BY DEF SelectRows, IInv, Typing, TypeOK
<1>2. tx[r] \in Tx
  BY DEF IInv, Typing, TypeOK
<1>3. /\ tx'[r].at = "selected" /\ tx'[r].where = w /\ tx'[r].sel = Read(w)
      /\ tx'[r].del = tx[r].del
  BY <1>1, <1>2 DEF Tx
<1> QED  BY <1>3 DEF SelectRows, manifest, store

(* The steps between the SELECT and the COMMIT of a delete. *)
LEMMA Exports ==
  ASSUME IInv, NEW r \in Reqs, PutCsv(r) \/ PutSidecar(r) \/ DeleteRows(r)
  PROVE  /\ tx[r].at \in Pending /\ tx[r].at \in Deleting /\ tx'[r].at \in Deleting
         /\ tx'[r].sel = tx[r].sel /\ tx'[r].where = tx[r].where
         /\ tx'[r].at = "deleted" => DeleteRows(r) /\ tx'[r].del = Matching(live, tx[r].where)
         /\ tx'[r].at # "deleted" => tx'[r].del = tx[r].del
         /\ UNCHANGED <<live, status, listed>>
<1>1. tx[r] \in Tx
  BY DEF IInv, Typing, TypeOK
<1>2. CASE PutCsv(r)
  BY <1>1, <1>2 DEF PutCsv, Tx, Pending, Deleting, IInv, Typing, TypeOK, manifest
<1>3. CASE PutSidecar(r)
  BY <1>1, <1>3 DEF PutSidecar, Tx, Pending, Deleting, IInv, Typing, TypeOK, manifest
<1>4. CASE DeleteRows(r)
  BY <1>1, <1>4 DEF DeleteRows, Tx, Pending, Deleting, IInv, Typing, TypeOK, manifest
<1> QED  BY <1>2, <1>3, <1>4

(* What the calls of a restore leave in the request. *)
LEMMA BatchAsked ==
  ASSUME IInv, NEW r \in Reqs, RestoreBatch(r)
  PROVE  /\ tx'[r].at = "inserting" /\ tx'[r].todo = RowsOf(csv[tx'[r].bat])
         /\ UNCHANGED <<live, csv, status, listed>>
<1>1. tx[r] \in Tx /\ tx \in [Reqs -> Tx]
  BY DEF IInv, Typing, TypeOK
<1>2. PICK b \in Batches :
        tx' = [tx EXCEPT ![r] = [tx[r] EXCEPT !.at = "inserting", !.bat = b,
                                                !.todo = RowsOf(csv[b])]]
  BY <1>1 DEF RestoreBatch
<1> DEFINE t == [tx[r] EXCEPT !.at = "inserting", !.bat = b, !.todo = RowsOf(csv[b])]
<1>3. t.at = "inserting" /\ t.bat = b /\ t.todo = RowsOf(csv[b])
  BY <1>1 DEF Tx
<1>4. tx'[r] = t
  BY <1>1, <1>2
<1> HIDE DEF t
<1> QED  BY <1>3, <1>4 DEF RestoreBatch, manifest, store

LEMMA RowAsked ==
  ASSUME IInv, NEW r \in Reqs, RestoreRow(r)
  PROVE  /\ tx'[r].at = "returning" /\ tx'[r].todo = tx'[r].want
         /\ UNCHANGED <<live, csv, status, listed>>
<1>1. tx[r] \in Tx /\ tx \in [Reqs -> Tx]
  BY DEF IInv, Typing, TypeOK
<1>2. PICK b \in Batches, p \in Pks :
        tx' = [tx EXCEPT ![r] = [tx[r] EXCEPT !.at = "returning", !.bat = b,
                                                !.todo = {p}, !.want = {p}]]
  BY <1>1 DEF RestoreRow
<1> DEFINE t == [tx[r] EXCEPT !.at = "returning", !.bat = b, !.todo = {p}, !.want = {p}]
<1>3. t.at = "returning" /\ t.todo = t.want
  BY <1>1 DEF Tx
<1>4. tx'[r] = t
  BY <1>1, <1>2
<1> HIDE DEF t
<1> QED  BY <1>3, <1>4 DEF RestoreRow, manifest, store

LEMMA RowInserted ==
  ASSUME IInv, NEW r \in Reqs, InsertRow(r)
  PROVE  /\ tx[r].at \in {"inserting", "returning"} /\ tx'[r].at = tx[r].at
         /\ tx'[r].bat = tx[r].bat /\ tx'[r].want = tx[r].want /\ tx'[r].del = tx[r].del
         /\ \E p \in tx[r].todo :
               /\ tx'[r].todo = tx[r].todo \ {p}
               /\ tx'[r].ins = IF Conflict(r, p, csv[tx[r].bat][p]) THEN tx[r].ins
                               ELSE [tx[r].ins EXCEPT ![p] = csv[tx[r].bat][p]]
         /\ UNCHANGED <<live, csv, status, listed>>
<1> DEFINE e(p) == IF Conflict(r, p, csv[tx[r].bat][p]) THEN tx[r].ins
                   ELSE [tx[r].ins EXCEPT ![p] = csv[tx[r].bat][p]]
           t(p) == [tx[r] EXCEPT !.todo = tx[r].todo \ {p}, !.ins = e(p)]
<1>1. tx[r] \in Tx /\ tx \in [Reqs -> Tx]
  BY DEF IInv, Typing, TypeOK
<1>2. PICK p \in tx[r].todo : tx' = [tx EXCEPT ![r] = t(p)]
  BY <1>1 DEF InsertRow
<1> HIDE DEF e
<1>3. /\ t(p).at = tx[r].at /\ t(p).bat = tx[r].bat /\ t(p).want = tx[r].want
      /\ t(p).del = tx[r].del /\ t(p).todo = tx[r].todo \ {p} /\ t(p).ins = e(p)
  BY <1>1 DEF Tx
<1>4. tx'[r] = t(p)
  BY <1>1, <1>2
<1> HIDE DEF t
<1> QED  BY <1>3, <1>4 DEF InsertRow, manifest, store, e

LEMMA RowUnlisted ==
  ASSUME IInv, NEW r \in Reqs, UnlistAndCount(r)
  PROVE  /\ tx[r].at = "returning" /\ tx'[r].todo = {} /\ tx[r].todo = {}
         /\ tx'[r].bat = tx[r].bat /\ tx'[r].want = tx[r].want
         /\ tx'[r].ins = tx[r].ins /\ tx'[r].del = tx[r].del
         /\ tx'[r].at = IF NothingLeft(r) THEN "emptied" ELSE "kept"
         /\ UNCHANGED <<live, csv, status, listed>>
<1> DEFINE t == [tx[r] EXCEPT !.at = IF NothingLeft(r) THEN "emptied" ELSE "kept"]
<1>1. tx[r] \in Tx /\ tx \in [Reqs -> Tx]
  BY DEF IInv, Typing, TypeOK
<1>2. /\ t.at = (IF NothingLeft(r) THEN "emptied" ELSE "kept") /\ t.todo = tx[r].todo
      /\ t.bat = tx[r].bat /\ t.want = tx[r].want /\ t.ins = tx[r].ins /\ t.del = tx[r].del
  BY <1>1 DEF Tx
<1>3. tx'[r] = t
  BY <1>1 DEF UnlistAndCount
<1> HIDE DEF t
<1> QED  BY <1>2, <1>3 DEF UnlistAndCount, manifest, store

(* The steps of a restore before its COMMIT are no deletes. *)
LEMMA RestoresDeleteNothing ==
  ASSUME IInv, NEW r \in Reqs,
         RestoreBatch(r) \/ RestoreRow(r) \/ InsertRow(r) \/ UnlistAndCount(r)
  PROVE  tx'[r].at \in Restoring /\ UNCHANGED <<live, csv, status, listed>>
  BY BatchAsked, RowAsked, RowInserted, RowUnlisted DEF Restoring

LEMMA ScopedStep == IInv /\ Scoped /\ [Next]_vars => Scoped'
<1> SUFFICES ASSUME IInv, Scoped, [Next]_vars PROVE Scoped'
  OBVIOUS
<1>1. CASE UNCHANGED vars
  BY <1>1 DEF vars, Scoped, RowsOf
<1>2. CASE Next
  <2> PICK r \in Reqs : /\ Arrive(r) \/ Delete(r) \/ Restore(r) \/ Rollback(r)
                        /\ \A q \in Reqs \ {r} : tx'[q] = tx[q]
    BY <1>2, OneMoves
  <2>1. (tx[r].at \in Deleting => RowsOf(tx[r].sel) \subseteq tx[r].where.pks)'
    <3>1. CASE SelectRows(r)
      BY <3>1, Selected DEF Read, RowsOf, Matching
    <3>2. CASE PutCsv(r) \/ PutSidecar(r) \/ DeleteRows(r)
      BY <3>2, Exports DEF Scoped, RowsOf
    <3>3. CASE RestoreBatch(r) \/ RestoreRow(r) \/ InsertRow(r) \/ UnlistAndCount(r)
      BY <3>3, RestoresDeleteNothing DEF Deleting, Restoring
    <3>4. CASE Finish(r)
      BY <3>4 DEF Finish, NoTx, Deleting, IInv, Typing, TypeOK
    <3>5. CASE NothingToDelete(r) \/ UpdateRow(r) \/ CopyIn(r)
      BY <3>5 DEF NothingToDelete, UpdateRow, CopyIn, vars, Scoped, RowsOf
    <3> QED  BY <3>1, <3>2, <3>3, <3>4, <3>5 DEF Arrive, Delete, Restore,
                CommitDelete, CommitRestoreBatch, CommitRestoreRow, Rollback
  <2> QED  BY <2>1 DEF Scoped, RowsOf
<1> QED  BY <1>1, <1>2

(* A row that leaves the table leaves in the COMMIT of a delete. *)
LEMMA LeavesByDelete ==
  ASSUME IInv, [Next]_vars, NEW p \in Pks, live[p] # NoRow, live'[p] = NoRow
  PROVE  \E r \in Reqs : CommitDelete(r) /\ p \in tx[r].del
<1>1. live' # live
  OBVIOUS
<1>2. PICK r \in Reqs : Arrive(r) \/ Delete(r) \/ Restore(r) \/ Rollback(r)
  BY <1>1 DEF Next, vars
<1>3. CASE CommitDelete(r)
  BY <1>3 DEF CommitDelete, Committed
<1>4. CASE CommitRestoreBatch(r) \/ CommitRestoreRow(r)
  <2>1. tx[r].del = {}
    BY <1>4 DEF CommitRestoreBatch, CommitRestoreRow, IInv, RequestsOk, RestoreOk, Restoring
  <2> QED  BY <1>4, <2>1 DEF CommitRestoreBatch, CommitRestoreRow, Committed
<1>5. CASE UpdateRow(r)
  BY <1>5, NoRowAssumption DEF UpdateRow, IInv, Typing, TypeOK, Archive, RowsOf
<1>6. CASE CopyIn(r)
  BY <1>6 DEF CopyIn
<1>7. CASE ~(CommitDelete(r) \/ CommitRestoreBatch(r) \/ CommitRestoreRow(r) \/ UpdateRow(r) \/ CopyIn(r))
  BY <1>1, <1>2, <1>7 DEF Arrive, Delete, Restore, SelectRows, NothingToDelete, vars,
     RestoreBatch, RestoreRow, PutCsv, PutSidecar, DeleteRows, InsertRow, UnlistAndCount, Rollback
<1> QED  BY <1>3, <1>4, <1>5, <1>6, <1>7

(* What a committing delete has archived is what it selected. *)
LEMMA CommitArchives ==
  ASSUME IInv, NEW r \in Reqs, CommitDelete(r)
  PROVE  /\ \A p \in Pks : csv'[tx[r].bat][p] = Stored(tx[r].sel[p])
         /\ tx[r].bat \in Batches /\ tx[r].at \in Deleting
         /\ RowsOf(tx[r].sel) # {}
         /\ status'[tx[r].bat] = "active" /\ listed'[tx[r].bat] = RowsOf(tx[r].sel)
<1>1. /\ DeleteOk(r) /\ tx[r].at = "deleted" /\ tx[r].bat \in Batches
  BY DEF CommitDelete, IInv, RequestsOk, Typing, TypeOK, BatchNamed
<1>2. csv[tx[r].bat] = Csv(tx[r].sel) /\ csv' = csv
  BY <1>1 DEF DeleteOk, Deleting, CommitDelete, store
<1> QED  BY <1>1, <1>2 DEF Csv, DeleteOk, Deleting, CommitDelete, IInv, Typing, TypeOK

(***************************************************************************)
(* Whatever runs beside a delete, a row that leaves the table unarchived   *)
(* was changed after the delete had read it.                               *)
(***************************************************************************)
THEOREM UnarchivedWereChanged == Spec => UnarchivedOnlyIfChanged
<1> DEFINE A == \A p \in Pks : live[p] # NoRow /\ live'[p] = NoRow
        => \E r \in Reqs : /\ p \in tx[r].del
                           /\ live[p] # tx[r].sel[p] \/ csv'[tx[r].bat][p] = Stored(live[p])
                           /\ tx[r].where.pks = {p} => csv'[tx[r].bat][p] # NoRow
<1>1. IInv /\ Scoped /\ [Next]_vars => A
  <2> SUFFICES ASSUME IInv, Scoped, [Next]_vars, NEW p \in Pks,
                      live[p] # NoRow, live'[p] = NoRow
               PROVE  \E r \in Reqs :
                         /\ p \in tx[r].del
                         /\ live[p] # tx[r].sel[p] \/ csv'[tx[r].bat][p] = Stored(live[p])
                         /\ tx[r].where.pks = {p} => csv'[tx[r].bat][p] # NoRow
    OBVIOUS
  <2>1. PICK r \in Reqs : CommitDelete(r) /\ p \in tx[r].del
    BY LeavesByDelete
  <2>2. live[p] = tx[r].sel[p] => csv'[tx[r].bat][p] = Stored(live[p])
    BY <2>1, CommitArchives
  <2>3. ASSUME tx[r].where.pks = {p} PROVE csv'[tx[r].bat][p] # NoRow
    <3>1. tx[r].sel[p] # NoRow
      BY <2>1, <2>3, CommitArchives DEF Scoped, RowsOf
    <3>2. tx[r].sel \in Archive
      BY DEF IInv, Typing, TypeOK, Tx
    <3>3. Csv(tx[r].sel)[p] # NoRow
      BY <3>1, <3>2, CsvKeepsRows DEF RowsOf
    <3> QED  BY <2>1, <3>3, CommitArchives DEF Csv
  <2> QED  BY <2>1, <2>2, <2>3
<1>2. A => [A]_vars
  OBVIOUS
<1>3. Init => IInv /\ Scoped
  BY InvInit, ScopedInit
<1>4. IInv /\ Scoped /\ [Next]_vars => (IInv /\ Scoped)'
  BY InvStep, ScopedStep
<1> QED  BY <1>1, <1>2, <1>3, <1>4, PTL DEF Spec, UnarchivedOnlyIfChanged

-----------------------------------------------------------------------------
(***************************************************************************)
(* Deletes beside which nothing comes under the predicate.  The DELETE     *)
(* then matches only rows that the SELECT has read; nothing is asked of    *)
(* the steps between the DELETE and the COMMIT.                            *)
(***************************************************************************)
ReadCovers ==
  \A r \in Reqs :
     /\ tx[r].at \in Pending => Matching(live, tx[r].where) \subseteq RowsOf(tx[r].sel)
     /\ tx[r].at = "deleted" => tx[r].del \subseteq RowsOf(tx[r].sel)

LEMMA ReadCoversInit == Init => ReadCovers
  BY DEF Init, ReadCovers, NoTx, Pending

LEMMA ReadCoversStep == IInv /\ ReadCovers /\ [Next]_vars /\ [NoneJoins]_vars => ReadCovers'
<1> SUFFICES ASSUME IInv, ReadCovers, [Next]_vars, [NoneJoins]_vars PROVE ReadCovers'
  OBVIOUS
<1>1. CASE UNCHANGED vars
  BY <1>1 DEF vars, ReadCovers, Matching, RowsOf
<1>2. CASE Next /\ NoneJoins
  <2> PICK r \in Reqs : /\ Arrive(r) \/ Delete(r) \/ Restore(r) \/ Rollback(r)
                        /\ \A q \in Reqs \ {r} : tx'[q] = tx[q]
    BY <1>2, OneMoves
  <2> DEFINE Covers(q) ==
        /\ tx[q].at \in Pending => Matching(live, tx[q].where) \subseteq RowsOf(tx[q].sel)
        /\ tx[q].at = "deleted" => tx[q].del \subseteq RowsOf(tx[q].sel)
  <2>1. ASSUME NEW q \in Reqs \ {r} PROVE Covers(q)'
    <3>1. Covers(q) /\ tx'[q] = tx[q]
      BY DEF ReadCovers
    <3> QED  BY <3>1, <1>2 DEF NoneJoins, Matching, RowsOf
  <2>2. Covers(r)'
    <3>0. Covers(r)
      BY DEF ReadCovers
    <3>1. CASE SelectRows(r)
      BY <3>1, Selected DEF Read, Matching, RowsOf
    <3>2. CASE PutCsv(r) \/ PutSidecar(r) \/ DeleteRows(r)
      BY <3>0, <3>2, Exports DEF Matching, RowsOf, Pending
    <3>3. CASE RestoreBatch(r) \/ RestoreRow(r) \/ InsertRow(r) \/ UnlistAndCount(r)
      BY <3>3, RestoresDeleteNothing DEF Pending, Restoring
    <3>4. CASE Finish(r)
      BY <3>4 DEF Finish, NoTx, Pending, IInv, Typing, TypeOK
    <3>5. CASE NothingToDelete(r) \/ UpdateRow(r) \/ CopyIn(r)
      <4>1. tx' = tx /\ (NothingToDelete(r) => live' = live)
            /\ (UpdateRow(r) \/ CopyIn(r) => tx[r].at = "idle")
        BY <3>5 DEF NothingToDelete, UpdateRow, CopyIn, vars
      <4> QED  BY <3>0, <3>5, <4>1 DEF Pending, Matching, RowsOf
    <3> QED  BY <3>1, <3>2, <3>3, <3>4, <3>5 DEF Arrive, Delete, Restore,
                CommitDelete, CommitRestoreBatch, CommitRestoreRow, Rollback
  <2> QED  BY <2>1, <2>2 DEF ReadCovers, Matching, RowsOf
<1> QED  BY <1>1, <1>2

LEMMA AlwaysCovered == Spec /\ [][NoneJoins]_vars => [](IInv /\ ReadCovers)
<1>1. Init => IInv /\ ReadCovers
  BY InvInit, ReadCoversInit
<1>2. IInv /\ ReadCovers /\ [Next]_vars /\ [NoneJoins]_vars => (IInv /\ ReadCovers)'
  BY InvStep, ReadCoversStep
<1> QED  BY <1>1, <1>2, PTL DEF Spec

LEMMA CoveredRemovesRead == ReadCovers => RemovesOnlyRead
  BY DEF ReadCovers, RemovesOnlyRead

(***************************************************************************)
(* No row id is lost, bulk deletes included, if no step brings a row under *)
(* the predicate of a delete that has already read.                        *)
(***************************************************************************)
THEOREM CoveredDeletesLoseNothing == Spec /\ [][NoneJoins]_vars => []NothingVanishes
<1>1. Init => NothingVanishes
  BY PromiseInit
<1>2. IInv /\ ReadCovers /\ NothingVanishes /\ [Next]_vars => NothingVanishes'
  BY CoveredRemovesRead, PromiseStep
<1> QED  BY <1>1, <1>2, AlwaysCovered, PTL DEF Spec

(* And then the bin implements Vault with bulk deletes, too.               *)
THEOREM CoveredDeletesKeepPromise == Spec /\ [][NoneJoins]_vars => KeepsPromise
<1>1. Init => Promise!Init
  BY PromiseInit
<1>2. IInv /\ ReadCovers /\ NothingVanishes /\ [Next]_vars
        => [Promise!Next]_<<RowsOf(live), InBin>>
  BY CoveredRemovesRead, PromiseStep
<1> QED  BY <1>1, <1>2, AlwaysCovered, CoveredDeletesLoseNothing, PTL
         DEF Spec, KeepsPromise, Promise!Spec

-----------------------------------------------------------------------------
(***************************************************************************)
(* The locks of a delete.  From its DELETE to its COMMIT the rows it       *)
(* removes are in the table, in no other request's DELETE, and as they     *)
(* were.                                                                   *)
(***************************************************************************)
DeletesHeld == \A r \in Reqs : /\ tx[r].del \subseteq RowsOf(live)
                               /\ \A q \in Reqs \ {r} : tx[r].del \cap tx[q].del = {}

LEMMA DeletesHeldInit == Init => DeletesHeld
  BY DEF Init, DeletesHeld, NoTx

LEMMA LockedStays ==
  ASSUME IInv, DeletesHeld, NEW q \in Reqs,
         Arrive(q) \/ Delete(q) \/ Restore(q) \/ Rollback(q),
         NEW r \in Reqs \ {q}, NEW p \in tx[r].del
  PROVE  live'[p] = live[p]
<1>1. p \in Pks /\ live[p] # NoRow /\ p \notin tx[q].del /\ RowLocked(q, p) /\ p \in issued
  BY DEF DeletesHeld, RowsOf, RowLocked, IInv, RowsIssued
<1>2. tx[q].at # "idle" => tx[q].ins[p] = NoRow
  <2>1. tx[q] \in Tx /\ DeleteOk(q) /\ RestoreOk(q)
    BY DEF IInv, RequestsOk, Typing, TypeOK
  <2> QED  BY <1>1, <2>1 DEF DeleteOk, RestoreOk, Tx, Stages, Deleting, Restoring, RowsOf
<1>3. CASE CommitDelete(q) \/ CommitRestoreBatch(q) \/ CommitRestoreRow(q)
  BY <1>1, <1>2, <1>3 DEF CommitDelete, CommitRestoreBatch, CommitRestoreRow, Committed
<1>4. CASE UpdateRow(q)
  BY <1>1, <1>4 DEF UpdateRow, IInv, Typing, TypeOK, Archive
<1>5. CASE CopyIn(q)
  BY <1>1, <1>5 DEF CopyIn, RowsOf
<1>6. CASE live' = live
  BY <1>6
<1> QED  BY <1>3, <1>4, <1>5, <1>6 DEF Arrive, Delete, Restore, SelectRows, NothingToDelete,
     vars, RestoreBatch, RestoreRow, PutCsv, PutSidecar, DeleteRows, InsertRow,
     UnlistAndCount, Rollback

LEMMA DeletesHeldStep == IInv /\ DeletesHeld /\ [Next]_vars => DeletesHeld'
<1> SUFFICES ASSUME IInv, DeletesHeld, [Next]_vars PROVE DeletesHeld'
  OBVIOUS
<1>1. CASE UNCHANGED vars
  BY <1>1 DEF vars, DeletesHeld, RowsOf
<1>2. CASE Next
  <2> PICK r \in Reqs : /\ Arrive(r) \/ Delete(r) \/ Restore(r) \/ Rollback(r)
                        /\ \A q \in Reqs \ {r} : tx'[q] = tx[q]
    BY <1>2, OneMoves
  <2>1. /\ tx'[r].del \subseteq RowsOf(live')
        /\ \A q \in Reqs \ {r} : tx'[r].del \cap tx[q].del = {}
    <3>0. /\ tx[r].del \subseteq RowsOf(live)
          /\ \A q \in Reqs \ {r} : tx[r].del \cap tx[q].del = {}
      BY DEF DeletesHeld
    <3>1. CASE SelectRows(r)
      BY <3>0, <3>1, Selected
    <3>2. CASE PutCsv(r) \/ PutSidecar(r) \/ DeleteRows(r)
      <4>1. tx'[r].at # "deleted" => tx'[r].del = tx[r].del
        BY <3>2, Exports
      <4>2. tx'[r].at = "deleted" => /\ tx'[r].del \subseteq RowsOf(live)
                                     /\ \A p \in tx'[r].del : ~RowLocked(r, p)
        BY <3>2, Exports DEF DeleteRows, Matching
      <4>3. live' = live
        BY <3>2, Exports
      <4> QED  BY <3>0, <4>1, <4>2, <4>3 DEF RowLocked
    <3>3. CASE RestoreBatch(r) \/ RestoreRow(r) \/ InsertRow(r) \/ UnlistAndCount(r)
      <4>1. IInv' /\ tx'[r].at \in Restoring
        BY <3>3, InvStep, RestoresDeleteNothing
      <4> QED  BY <4>1 DEF IInv, RequestsOk, RestoreOk
    <3>4. CASE Finish(r)
      BY <3>4 DEF Finish, NoTx, IInv, Typing, TypeOK
    <3>5. CASE NothingToDelete(r)
      BY <3>0, <3>5 DEF NothingToDelete, vars
    <3>6. CASE UpdateRow(r) \/ CopyIn(r)
      <4>1. tx' = tx /\ tx[r] = NoTx
        BY <3>6 DEF UpdateRow, CopyIn, IInv, RequestsOk, IdleOk
      <4> QED  BY <4>1 DEF NoTx
    <3> QED  BY <3>1, <3>2, <3>3, <3>4, <3>5, <3>6 DEF Arrive, Delete, Restore,
                CommitDelete, CommitRestoreBatch, CommitRestoreRow, Rollback
  <2>2. ASSUME NEW q \in Reqs \ {r} PROVE tx[q].del \subseteq RowsOf(live')
    <3>1. \A p \in tx[q].del : live'[p] = live[p]
      BY LockedStays
    <3> QED  BY <3>1 DEF DeletesHeld, RowsOf
  <2>3. \A q \in Reqs \ {r} : \A s \in Reqs \ {r, q} : tx[q].del \cap tx[s].del = {}
    BY DEF DeletesHeld
  <2>4. RowsOf(live)' = RowsOf(live')
    BY DEF RowsOf
  <2> QED  BY <2>1, <2>2, <2>3, <2>4 DEF DeletesHeld
<1> QED  BY <1>1, <1>2

(* What a delete has read is what it removes, if nothing under its         *)
(* predicate has been changed before the DELETE.                           *)
SameAsRead ==
  \A r \in Reqs :
     /\ tx[r].at \in Pending => \A p \in Matching(live, tx[r].where) : live[p] = tx[r].sel[p]
     /\ tx[r].at = "deleted" => \A p \in tx[r].del : live[p] = tx[r].sel[p]

LEMMA SameAsReadInit == Init => SameAsRead
  BY DEF Init, SameAsRead, NoTx, Pending

LEMMA SameAsReadStep ==
  IInv /\ DeletesHeld /\ SameAsRead /\ [Next]_vars /\ [StillAsRead]_vars => SameAsRead'
<1> SUFFICES ASSUME IInv, DeletesHeld, SameAsRead, [Next]_vars, [StillAsRead]_vars
             PROVE  SameAsRead'
  OBVIOUS
<1>1. CASE UNCHANGED vars
  BY <1>1 DEF vars, SameAsRead, Matching, RowsOf
<1>2. CASE Next /\ StillAsRead
  <2> PICK r \in Reqs : /\ Arrive(r) \/ Delete(r) \/ Restore(r) \/ Rollback(r)
                        /\ \A q \in Reqs \ {r} : tx'[q] = tx[q]
    BY <1>2, OneMoves
  <2> DEFINE Same(q) ==
        /\ tx[q].at \in Pending => \A p \in Matching(live, tx[q].where) : live[p] = tx[q].sel[p]
        /\ tx[q].at = "deleted" => \A p \in tx[q].del : live[p] = tx[q].sel[p]
  <2>1. ASSUME NEW q \in Reqs \ {r} PROVE Same(q)'
    <3>1. Same(q) /\ tx'[q] = tx[q]
      BY DEF SameAsRead
    <3>2. \A p \in tx[q].del : live'[p] = live[p]
      BY LockedStays
    <3>3. ASSUME tx[q].at \in Pending, NEW p \in Matching(live', tx[q].where)
          PROVE  live'[p] = tx[q].sel[p]
      <4>1. live'[p] \in {live[p], tx[q].sel[p]}
        BY <3>1, <3>3, <1>2 DEF StillAsRead
      <4>2. live'[p] = live[p] => p \in Matching(live, tx[q].where)
        BY <3>3 DEF Matching, RowsOf
      <4> QED  BY <3>1, <3>3, <4>1, <4>2
    <3> QED  BY <3>1, <3>2, <3>3 DEF Matching, RowsOf
  <2>2. Same(r)'
    <3>0. Same(r)
      BY DEF SameAsRead
    <3>1. CASE SelectRows(r)
      BY <3>1, Selected DEF Read, Matching, RowsOf
    <3>2. CASE PutCsv(r) \/ PutSidecar(r) \/ DeleteRows(r)
      BY <3>0, <3>2, Exports DEF Matching, RowsOf, Pending
    <3>3. CASE RestoreBatch(r) \/ RestoreRow(r) \/ InsertRow(r) \/ UnlistAndCount(r)
      BY <3>3, RestoresDeleteNothing DEF Pending, Restoring
    <3>4. CASE Finish(r)
      BY <3>4 DEF Finish, NoTx, Pending, IInv, Typing, TypeOK
    <3>5. CASE NothingToDelete(r) \/ UpdateRow(r) \/ CopyIn(r)
      <4>1. tx' = tx /\ (NothingToDelete(r) => live' = live)
            /\ (UpdateRow(r) \/ CopyIn(r) => tx[r].at = "idle")
        BY <3>5 DEF NothingToDelete, UpdateRow, CopyIn, vars
      <4> QED  BY <3>0, <3>5, <4>1 DEF Pending, Matching, RowsOf
    <3> QED  BY <3>1, <3>2, <3>3, <3>4, <3>5 DEF Arrive, Delete, Restore,
                CommitDelete, CommitRestoreBatch, CommitRestoreRow, Rollback
  <2> QED  BY <2>1, <2>2 DEF SameAsRead, Matching, RowsOf
<1> QED  BY <1>1, <1>2

(***************************************************************************)
(* A row leaves the table only into an active batch that lists it and      *)
(* whose CSV holds what it contained, if no step changes a row under the   *)
(* predicate of a delete between its SELECT and its DELETE.                *)
(***************************************************************************)
THEOREM DeletionsArchiveContent == Spec /\ [][StillAsRead]_vars => DeletionArchivesContent
<1> DEFINE A == \A p \in Pks : live[p] # NoRow /\ live'[p] = NoRow
        => \E b \in Batches : /\ status'[b] = "active"
                              /\ p \in listed'[b]
                              /\ csv'[b][p] = Stored(live[p])
           I == IInv /\ DeletesHeld /\ SameAsRead
<1>1. I /\ [Next]_vars => A
  <2> SUFFICES ASSUME IInv, SameAsRead, [Next]_vars, NEW p \in Pks,
                      live[p] # NoRow, live'[p] = NoRow
               PROVE  \E b \in Batches : /\ status'[b] = "active"
                                         /\ p \in listed'[b]
                                         /\ csv'[b][p] = Stored(live[p])
    OBVIOUS
  <2>1. PICK r \in Reqs : CommitDelete(r) /\ p \in tx[r].del
    BY LeavesByDelete
  <2>2. tx[r].sel[p] = live[p]
    BY <2>1 DEF SameAsRead, CommitDelete
  <2> QED  BY <2>1, <2>2, CommitArchives DEF RowsOf
<1>2. A => [A]_vars
  OBVIOUS
<1>3. Init => I
  BY InvInit, DeletesHeldInit, SameAsReadInit
<1>4. I /\ [Next]_vars /\ [StillAsRead]_vars => I'
  BY InvStep, DeletesHeldStep, SameAsReadStep
<1> QED  BY <1>1, <1>2, <1>3, <1>4, PTL DEF Spec, DeletionArchivesContent

-----------------------------------------------------------------------------
(***************************************************************************)
(* Restores, whatever runs beside them.  A restore in flight holds rows as *)
(* its batch has them; one that has counted has no row left to insert; and *)
(* one that found nothing left will still find nothing when it commits,    *)
(* since a committed batch gets no new entries.                            *)
(***************************************************************************)
Progress(r) == tx[r].at \in Restoring =>
  /\ \A p \in RowsOf(tx[r].ins) : tx[r].ins[p] = csv[tx[r].bat][p]
  /\ tx[r].at \in {"kept", "emptied"} => tx[r].todo = {}
  /\ tx[r].at = "emptied" => listed[tx[r].bat] \subseteq tx[r].want

RestoresProgress == \A r \in Reqs : Progress(r)

LEMMA ProgressInit == Init => RestoresProgress
  BY DEF Init, RestoresProgress, Progress, NoTx, Restoring

(* A committed batch keeps its CSV, stays committed, and loses entries at  *)
(* most.                                                                   *)
LEMMA CommittedBatchStays ==
  ASSUME IInv, NEW q \in Reqs, Arrive(q) \/ Delete(q) \/ Restore(q) \/ Rollback(q),
         NEW b \in Batches, status[b] # "none"
  PROVE  csv'[b] = csv[b] /\ listed'[b] \subseteq listed[b]
<1>1. tx[q].at \in Deleting => tx[q].bat # b
  BY DEF IInv, RequestsOk, DeleteOk
<1>2. CASE PutCsv(q)
  BY <1>1, <1>2 DEF PutCsv, manifest, Deleting, IInv, Typing, TypeOK
<1>3. CASE CommitDelete(q)
  BY <1>1, <1>3 DEF CommitDelete, store, Deleting, IInv, Typing, TypeOK
<1>4. CASE CommitRestoreBatch(q)
  BY <1>4 DEF CommitRestoreBatch, store, IInv, Typing, TypeOK
<1>5. CASE CommitRestoreRow(q)
  BY <1>5 DEF CommitRestoreRow, store, IInv, Typing, TypeOK
<1>6. CASE csv' = csv /\ listed' = listed
  BY <1>6
<1> QED  BY <1>2, <1>3, <1>4, <1>5, <1>6 DEF Arrive, Delete, Restore, SelectRows,
     NothingToDelete, vars, store, manifest, RestoreBatch, RestoreRow, PutSidecar,
     DeleteRows, InsertRow, UnlistAndCount, Rollback, UpdateRow, CopyIn

LEMMA ProgressStep == IInv /\ RestoresProgress /\ [Next]_vars => RestoresProgress'
<1> SUFFICES ASSUME IInv, RestoresProgress, [Next]_vars PROVE RestoresProgress'
  OBVIOUS
<1>1. CASE UNCHANGED vars
  BY <1>1 DEF vars, RestoresProgress, Progress, RowsOf
<1>2. CASE Next
  <2> PICK r \in Reqs : /\ Arrive(r) \/ Delete(r) \/ Restore(r) \/ Rollback(r)
                        /\ \A q \in Reqs \ {r} : tx'[q] = tx[q]
    BY <1>2, OneMoves
  <2>1. ASSUME NEW q \in Reqs \ {r} PROVE Progress(q)'
    <3>1. Progress(q) /\ tx'[q] = tx[q]
      BY DEF RestoresProgress
    <3>2. tx[q].at \in Restoring => status[tx[q].bat] # "none" /\ tx[q].bat \in Batches
      BY DEF IInv, RequestsOk, RestoreOk, Typing, BatchNamed, Restoring
    <3>3. tx[q].at \in Restoring => /\ csv'[tx[q].bat] = csv[tx[q].bat]
                                    /\ listed'[tx[q].bat] \subseteq listed[tx[q].bat]
      BY <3>2, CommittedBatchStays
    <3> QED  BY <3>1, <3>3 DEF Progress, RowsOf
  <2>2. Progress(r)'
    <3>0. Progress(r)
      BY DEF RestoresProgress
    <3>1. CASE SelectRows(r)
      BY <3>1, Selected DEF Progress, Restoring
    <3>2. CASE PutCsv(r) \/ PutSidecar(r) \/ DeleteRows(r)
      BY <3>2, Exports DEF Progress, Restoring, Deleting
    <3>3. CASE RestoreBatch(r) \/ RestoreRow(r)
      <4>1. tx'[r].at \in {"inserting", "returning"}
        BY <3>3, BatchAsked, RowAsked
      <4>2. RestoreBatch(r) => tx'[r].ins = Empty
        BY DEF RestoreBatch, IInv, RequestsOk, IdleOk, NoTx, Typing, TypeOK
      <4>3. RestoreRow(r) => tx'[r].ins = Empty
        BY DEF RestoreRow, IInv, RequestsOk, IdleOk, NoTx, Typing, TypeOK
      <4> QED  BY <3>3, <4>1, <4>2, <4>3, EmptyArchive DEF Progress, RowsOf
    <3>4. CASE InsertRow(r)
      <4>1. PICK p \in tx[r].todo :
              tx'[r].ins = IF Conflict(r, p, csv[tx[r].bat][p]) THEN tx[r].ins
                           ELSE [tx[r].ins EXCEPT ![p] = csv[tx[r].bat][p]]
        BY <3>4, RowInserted
      <4>2. /\ tx[r].at \in {"inserting", "returning"} /\ tx'[r].at = tx[r].at
            /\ tx'[r].bat = tx[r].bat /\ csv' = csv
        BY <3>4, RowInserted
      <4>3. tx[r].ins \in Archive
        BY DEF IInv, Typing, TypeOK, Tx
      <4> QED  BY <3>0, <4>1, <4>2, <4>3 DEF Progress, RowsOf, Archive, Restoring
    <3>5. CASE UnlistAndCount(r)
      <4>1. /\ tx[r].at = "returning" /\ tx'[r].todo = {}
            /\ tx'[r].bat = tx[r].bat /\ tx'[r].want = tx[r].want
            /\ tx'[r].ins = tx[r].ins
            /\ tx'[r].at = "emptied" => NothingLeft(r)
            /\ UNCHANGED <<csv, listed>>
        BY <3>5, RowUnlisted
      <4> QED  BY <3>0, <4>1 DEF Progress, RowsOf, Restoring, NothingLeft
    <3>6. CASE Finish(r)
      BY <3>6 DEF Finish, NoTx, Progress, Restoring, IInv, Typing, TypeOK
    <3>7. CASE NothingToDelete(r) \/ UpdateRow(r) \/ CopyIn(r)
      BY <3>0, <3>7 DEF NothingToDelete, UpdateRow, CopyIn, vars, store, manifest, Progress, RowsOf
    <3> QED  BY <3>1, <3>2, <3>3, <3>4, <3>5, <3>6, <3>7 DEF Arrive, Delete, Restore,
                CommitDelete, CommitRestoreBatch, CommitRestoreRow, Rollback
  <2> QED  BY <2>1, <2>2 DEF RestoresProgress
<1> QED  BY <1>1, <1>2

LEMMA AlwaysProgress == Spec => [](IInv /\ RestoresProgress)
<1>1. Init => IInv /\ RestoresProgress
  BY InvInit, ProgressInit
<1>2. IInv /\ RestoresProgress /\ [Next]_vars => (IInv /\ RestoresProgress)'
  BY InvStep, ProgressStep
<1> QED  BY <1>1, <1>2, PTL DEF Spec

(* The table a restore commits: its inserts beside the rows that were      *)
(* there.                                                                  *)
LEMMA RestoreCommits ==
  ASSUME IInv, NEW r \in Reqs, CommitRestoreBatch(r) \/ CommitRestoreRow(r)
  PROVE  /\ tx[r].at \in Restoring /\ tx[r].bat \in Batches /\ status[tx[r].bat] # "none"
         /\ tx[r].ins \in Archive
         /\ RowsOf(tx[r].ins) \subseteq RowsOf(csv[tx[r].bat])
         /\ RowsOf(tx[r].ins) \cap RowsOf(live) = {}
         /\ \A p \in Pks : live'[p] = IF tx[r].ins[p] # NoRow THEN tx[r].ins[p] ELSE live[p]
<1>1. tx[r].at \in Restoring /\ live' = Committed(r)
  BY DEF CommitRestoreBatch, CommitRestoreRow, Restoring
<1>2. RestoreOk(r) /\ tx[r].bat \in Batches /\ tx[r].ins \in Archive
  BY <1>1 DEF IInv, RequestsOk, Typing, TypeOK, BatchNamed, Restoring, Tx
<1> QED  BY <1>1, <1>2 DEF RestoreOk, Committed

(***************************************************************************)
(* Whatever overlaps and fails, a row id that comes back into the table    *)
(* comes back as some committed batch has it.                              *)
(***************************************************************************)
THEOREM RowsReturnAsArchived == Spec => ReturnsAsArchived
<1> DEFINE A == \A p \in issued : live[p] = NoRow /\ live'[p] # NoRow
                   => \E b \in CommittedBatches : csv[b][p] = live'[p]
<1>1. IInv /\ RestoresProgress /\ [Next]_vars => A
  <2> SUFFICES ASSUME IInv, RestoresProgress, [Next]_vars, NEW p \in issued,
                      live[p] = NoRow, live'[p] # NoRow
               PROVE  \E b \in CommittedBatches : csv[b][p] = live'[p]
    OBVIOUS
  <2>0. p \in Pks /\ live' # live
    BY DEF IInv, Typing, TypeOK
  <2>1. PICK r \in Reqs : Arrive(r) \/ Delete(r) \/ Restore(r) \/ Rollback(r)
    BY <2>0 DEF Next, vars
  <2>2. ~CommitDelete(r)
    <3>1. CommitDelete(r) => RowsOf(tx[r].ins) = {}
      BY DEF CommitDelete, IInv, RequestsOk, DeleteOk, Deleting
    <3> QED  BY <2>0, <3>1 DEF CommitDelete, Committed, RowsOf
  <2>3. ~UpdateRow(r)
    BY <2>0 DEF UpdateRow, RowsOf, IInv, Typing, TypeOK, Archive
  <2>4. ~CopyIn(r)
    BY <2>0 DEF CopyIn, RowsOf
  <2>5. CommitRestoreBatch(r) \/ CommitRestoreRow(r)
    BY <2>0, <2>1, <2>2, <2>3, <2>4 DEF Arrive, Delete, Restore, SelectRows,
       NothingToDelete, vars, RestoreBatch, RestoreRow, PutCsv, PutSidecar, DeleteRows,
       InsertRow, UnlistAndCount, Rollback
  <2>6. live'[p] = tx[r].ins[p] /\ p \in RowsOf(tx[r].ins)
    BY <2>0, <2>5, RestoreCommits DEF RowsOf
  <2>7. tx[r].ins[p] = csv[tx[r].bat][p]
    BY <2>5, <2>6, RestoreCommits DEF RestoresProgress, Progress
  <2> QED  BY <2>5, <2>6, <2>7, RestoreCommits DEF CommittedBatches
<1>2. A => [A]_vars
  OBVIOUS
<1> QED  BY <1>1, <1>2, AlwaysProgress, PTL DEF Spec, ReturnsAsArchived

-----------------------------------------------------------------------------
(***************************************************************************)
(* Restores beside which what they met stays.  Each row that a restore has *)
(* been through is among its inserts, in the table, or has its key taken   *)
(* in one of the two.                                                      *)
(***************************************************************************)
Through(r) == tx[r].at \in Restoring =>
  \A p \in Wanted(r) \ tx[r].todo : \/ Back(live, tx[r].bat, p)
                                    \/ Back(tx[r].ins, tx[r].bat, p)

AllThrough == \A r \in Reqs : Through(r)

LEMMA ThroughInit == Init => AllThrough
  BY DEF Init, AllThrough, Through, NoTx, Restoring

(* An insert, made or dropped, has been through its row, and takes no      *)
(* other away.                                                             *)
LEMMA InsertGoesThrough ==
  ASSUME IInv, NEW r \in Reqs, InsertRow(r), Progress(r), Through(r)
  PROVE  Through(r)'
<1>1. PICK p \in tx[r].todo :
        /\ tx'[r].todo = tx[r].todo \ {p}
        /\ tx'[r].ins = IF Conflict(r, p, csv[tx[r].bat][p]) THEN tx[r].ins
                        ELSE [tx[r].ins EXCEPT ![p] = csv[tx[r].bat][p]]
  BY RowInserted
<1>2. /\ tx[r].at \in Restoring /\ tx'[r].at = tx[r].at /\ tx'[r].bat = tx[r].bat
      /\ tx'[r].want = tx[r].want /\ live' = live /\ csv' = csv
  BY RowInserted DEF Restoring
<1>3. /\ tx[r].ins \in Archive /\ p \in Pks /\ csv[tx[r].bat][p] # NoRow
  BY <1>2 DEF IInv, Typing, TypeOK, Tx, RequestsOk, RestoreOk, RowsOf
<1>4. \A q \in RowsOf(tx[r].ins) : tx[r].ins[q] = csv[tx[r].bat][q]
  BY <1>2 DEF Progress
<1>5. \A q \in RowsOf(tx[r].ins) : q \in RowsOf(tx'[r].ins) /\ tx'[r].ins[q] = tx[r].ins[q]
  BY <1>1, <1>3, <1>4 DEF Archive, RowsOf
<1>6. \A q \in Pks : Back(tx[r].ins, tx[r].bat, q) => Back(tx'[r].ins, tx[r].bat, q)
  BY <1>5 DEF Back, Taken, RowsOf
<1>7. Back(live, tx[r].bat, p) \/ Back(tx'[r].ins, tx[r].bat, p)
  <2>1. CASE Conflict(r, p, csv[tx[r].bat][p])
    BY <2>1, <1>3, <1>6 DEF Conflict, Back
  <2>2. CASE ~Conflict(r, p, csv[tx[r].bat][p])
    BY <2>2, <1>1, <1>3 DEF Back, Archive
  <2> QED  BY <2>1, <2>2
<1>8. Wanted(r)' = Wanted(r) /\ Wanted(r) \subseteq Pks
  BY <1>2 DEF Wanted, RowsOf, IInv, Typing, TypeOK, Tx
<1>9. \A q \in Wanted(r) \ tx'[r].todo : \/ Back(live, tx[r].bat, q)
                                         \/ Back(tx'[r].ins, tx[r].bat, q)
  BY <1>1, <1>2, <1>6, <1>7, <1>8 DEF Through
<1> QED  BY <1>2, <1>8, <1>9 DEF Through, Back, Taken, RowsOf

LEMMA ThroughStep ==
  IInv /\ RestoresProgress /\ AllThrough /\ [Next]_vars /\ [StaysBack]_vars => AllThrough'
<1> SUFFICES ASSUME IInv, RestoresProgress, AllThrough, [Next]_vars, [StaysBack]_vars
             PROVE  AllThrough'
  OBVIOUS
<1>1. CASE UNCHANGED vars
  BY <1>1 DEF vars, AllThrough, Through, Wanted, Back, Taken, RowsOf
<1>2. CASE Next /\ StaysBack
  <2> PICK r \in Reqs : /\ Arrive(r) \/ Delete(r) \/ Restore(r) \/ Rollback(r)
                        /\ \A q \in Reqs \ {r} : tx'[q] = tx[q]
    BY <1>2, OneMoves
  <2>1. ASSUME NEW q \in Reqs \ {r}, tx[q].at \in Restoring PROVE Through(q)'
    <3>1. Through(q) /\ tx'[q] = tx[q]
      BY DEF AllThrough
    <3>2. status[tx[q].bat] # "none" /\ tx[q].bat \in Batches
      BY <2>1 DEF IInv, RequestsOk, RestoreOk, Typing, BatchNamed, Restoring
    <3>3. csv'[tx[q].bat] = csv[tx[q].bat]
      BY <3>2, CommittedBatchStays
    <3>4. Wanted(q)' = Wanted(q)
      BY <3>1, <3>3 DEF Wanted, RowsOf
    <3>5. \A p \in Wanted(q) \ tx[q].todo :
            \/ Back(live', tx[q].bat, p) \/ Back(tx[q].ins, tx[q].bat, p)
      BY <1>2, <2>1, <3>1 DEF Through, StaysBack
    <3> QED  BY <3>1, <3>3, <3>4, <3>5 DEF Through, Back, Taken, RowsOf
  <2>2. ASSUME NEW q \in Reqs \ {r}, tx[q].at \notin Restoring PROVE Through(q)'
    BY <2>2 DEF Through
  <2>3. Through(r)'
    <3>0. Through(r) /\ Progress(r)
      BY DEF AllThrough, RestoresProgress
    <3>1. CASE SelectRows(r)
      BY <3>1, Selected DEF Through, Restoring
    <3>2. CASE PutCsv(r) \/ PutSidecar(r) \/ DeleteRows(r)
      BY <3>2, Exports DEF Through, Restoring, Deleting
    <3>3. CASE RestoreBatch(r)
      <4>1. tx'[r].at = "inserting" /\ tx'[r].todo = RowsOf(csv'[tx'[r].bat])
        BY <3>3, BatchAsked
      <4> QED  BY <4>1 DEF Through, Wanted, RowsOf
    <3>4. CASE RestoreRow(r)
      <4>1. tx'[r].at = "returning" /\ tx'[r].todo = tx'[r].want
        BY <3>4, RowAsked
      <4> QED  BY <4>1 DEF Through, Wanted
    <3>5. CASE InsertRow(r)
      BY <3>0, <3>5, InsertGoesThrough
    <3>6. CASE UnlistAndCount(r)
      <4>1. /\ tx[r].at = "returning" /\ tx'[r].todo = {} /\ tx[r].todo = {}
            /\ tx'[r].bat = tx[r].bat /\ tx'[r].want = tx[r].want
            /\ tx'[r].ins = tx[r].ins /\ tx'[r].at \in {"kept", "emptied"}
            /\ UNCHANGED <<live, csv>>
        BY <3>6, RowUnlisted
      <4>2. Wanted(r)' = Wanted(r)
        BY <4>1 DEF Wanted
      <4> QED  BY <3>0, <4>1, <4>2 DEF Through, Back, Taken, RowsOf, Restoring
    <3>7. CASE Finish(r)
      BY <3>7 DEF Finish, NoTx, Through, Restoring, IInv, Typing, TypeOK
    <3>8. CASE NothingToDelete(r) \/ UpdateRow(r) \/ CopyIn(r)
      <4>1. tx'[r].at = "idle"
        BY <3>8 DEF NothingToDelete, UpdateRow, CopyIn, vars
      <4> QED  BY <4>1 DEF Through, Restoring
    <3> QED  BY <3>1, <3>2, <3>3, <3>4, <3>5, <3>6, <3>7, <3>8 DEF Arrive, Delete, Restore,
                CommitDelete, CommitRestoreBatch, CommitRestoreRow, Rollback
  <2> QED  BY <2>1, <2>2, <2>3 DEF AllThrough
<1> QED  BY <1>1, <1>2

LEMMA AlwaysThrough == Spec /\ [][StaysBack]_vars => [](IInv /\ RestoresProgress /\ AllThrough)
<1>1. Init => AllThrough
  BY ThroughInit
<1>2. IInv /\ RestoresProgress /\ AllThrough /\ [Next]_vars /\ [StaysBack]_vars => AllThrough'
  BY ThroughStep
<1> QED  BY <1>1, <1>2, AlwaysProgress, PTL DEF Spec

(* What a restore has been through when it commits. *)
LEMMA RestoreDone ==
  ASSUME IInv, RestoresProgress, AllThrough, NEW r \in Reqs,
         CommitRestoreBatch(r) \/ CommitRestoreRow(r), NEW p \in Wanted(r) \cap Pks
  PROVE  Back(live', tx[r].bat, p)
<1>1. tx[r].at \in Restoring /\ tx[r].todo = {}
  BY DEF CommitRestoreBatch, CommitRestoreRow, Restoring, RestoresProgress, Progress
<1>2. Back(live, tx[r].bat, p) \/ Back(tx[r].ins, tx[r].bat, p)
  BY <1>1 DEF AllThrough, Through
<1>3. \A q \in RowsOf(live) : live'[q] = live[q]
  BY RestoreCommits DEF RowsOf
<1>4. \A q \in RowsOf(tx[r].ins) : live'[q] = tx[r].ins[q]
  BY RestoreCommits DEF RowsOf
<1> QED  BY <1>2, <1>3, <1>4 DEF Back, Taken, RowsOf

(* Entries go, and batches close, only in the COMMIT of a restore.         *)
LEMMA ClosedByRestore ==
  ASSUME IInv, [Next]_vars, NEW b \in Batches,
         listed[b] \ listed'[b] # {} \/ (status[b] = "active" /\ status'[b] = "restored")
  PROVE  \E r \in Reqs : b = tx[r].bat /\ (CommitRestoreBatch(r) \/ CommitRestoreRow(r))
<1>1. ~(listed' = listed /\ status' = status)
  OBVIOUS
<1>2. PICK r \in Reqs : Arrive(r) \/ Delete(r) \/ Restore(r) \/ Rollback(r)
  BY <1>1 DEF Next, vars
<1>3. CommitDelete(r) \/ CommitRestoreBatch(r) \/ CommitRestoreRow(r)
  BY <1>1, <1>2 DEF Arrive, Delete, Restore, SelectRows, NothingToDelete, vars, manifest,
     RestoreBatch, RestoreRow, UpdateRow, CopyIn, PutCsv, PutSidecar, DeleteRows,
     InsertRow, UnlistAndCount, Rollback
<1>4. CASE CommitDelete(r)
  <2>1. status[tx[r].bat] = "none" /\ tx[r].bat \in Batches
    BY <1>4 DEF CommitDelete, IInv, RequestsOk, DeleteOk, Deleting, Typing, BatchNamed
  <2>2. listed[tx[r].bat] = {}
    BY <2>1 DEF IInv, OnlyCommittedListed
  <2> QED  BY <1>4, <2>1, <2>2 DEF CommitDelete, IInv, Typing, TypeOK
<1>5. CASE CommitRestoreBatch(r)
  BY <1>5 DEF CommitRestoreBatch, IInv, Typing, TypeOK
<1>6. CASE CommitRestoreRow(r)
  BY <1>6 DEF CommitRestoreRow, IInv, Typing, TypeOK
<1> QED  BY <1>3, <1>4, <1>5, <1>6

(***************************************************************************)
(* A batch turns restored only when every row it still listed is in the    *)
(* table, or another row has its key, if other steps leave in place what   *)
(* the restore has met.                                                    *)
(***************************************************************************)
THEOREM RestoredBatchesComplete == Spec /\ [][StaysBack]_vars => RestoredBatchIsComplete
<1> DEFINE A == \A b \in Batches : status[b] = "active" /\ status'[b] = "restored"
                   => \A p \in listed[b] : Back(live', b, p)
           I == IInv /\ RestoresProgress /\ AllThrough
<1>1. I /\ [Next]_vars => A
  <2> SUFFICES ASSUME I, [Next]_vars, NEW b \in Batches,
                      status[b] = "active", status'[b] = "restored", NEW p \in listed[b]
               PROVE  Back(live', b, p)
    OBVIOUS
  <2>1. PICK r \in Reqs : b = tx[r].bat /\ (CommitRestoreBatch(r) \/ CommitRestoreRow(r))
    BY ClosedByRestore
  <2>2. p \in RowsOf(csv[b]) /\ p \in Pks
    BY DEF IInv, ManifestBacked, RowsOf
  <2>3. p \in Wanted(r)
    <3>1. CASE CommitRestoreBatch(r)
      BY <2>1, <2>2, <3>1 DEF Wanted, CommitRestoreBatch
    <3>2. CASE CommitRestoreRow(r)
      <4>1. tx[r].at = "emptied"
        BY <3>2 DEF CommitRestoreRow
      <4>2. listed[b] \subseteq tx[r].want
        BY <4>1, <2>1 DEF RestoresProgress, Progress, Restoring
      <4> QED  BY <4>1, <4>2 DEF Wanted
    <3> QED  BY <2>1, <3>1, <3>2
  <2> QED  BY <2>1, <2>2, <2>3, RestoreDone
<1>2. A => [A]_vars
  OBVIOUS
<1> QED  BY <1>1, <1>2, AlwaysThrough, PTL DEF Spec, RestoredBatchIsComplete

(***************************************************************************)
(* An entry of the bin goes only when its row is in the table again, or    *)
(* another row has its key, under the same restriction.                    *)
(***************************************************************************)
THEOREM UnlistedRowsAreBack == Spec /\ [][StaysBack]_vars => UnlistedRowIsBack
<1> DEFINE A == \A b \in Batches : \A p \in listed[b] \ listed'[b] : Back(live', b, p)
           I == IInv /\ RestoresProgress /\ AllThrough
<1>1. I /\ [Next]_vars => A
  <2> SUFFICES ASSUME I, [Next]_vars, NEW b \in Batches, NEW p \in listed[b] \ listed'[b]
               PROVE  Back(live', b, p)
    OBVIOUS
  <2>1. PICK r \in Reqs : b = tx[r].bat /\ (CommitRestoreBatch(r) \/ CommitRestoreRow(r))
    <3>1. listed[b] \ listed'[b] # {}
      OBVIOUS
    <3> QED  BY <3>1, ClosedByRestore
  <2>2. p \in RowsOf(csv[b]) /\ p \in Pks
    BY DEF IInv, Typing, TypeOK, ManifestBacked, OnlyCommittedListed, RowsOf
  <2>3. p \in Wanted(r)
    <3>1. CASE CommitRestoreBatch(r)
      BY <3>1 DEF CommitRestoreBatch
    <3>2. CASE CommitRestoreRow(r)
      <4>1. listed' = [listed EXCEPT ![b] = listed[b] \ tx[r].want] /\ tx[r].at # "inserting"
        BY <2>1, <3>2 DEF CommitRestoreRow
      <4>2. listed'[b] = listed[b] \ tx[r].want
        BY <4>1 DEF IInv, Typing, TypeOK
      <4> QED  BY <4>1, <4>2 DEF Wanted
    <3> QED  BY <2>1, <3>1, <3>2
  <2> QED  BY <2>1, <2>2, <2>3, RestoreDone
<1>2. A => [A]_vars
  OBVIOUS
<1> QED  BY <1>1, <1>2, AlwaysThrough, PTL DEF Spec, UnlistedRowIsBack

-----------------------------------------------------------------------------
(***************************************************************************)
(* The bin as a RowVault.  Where rows stay as a delete has read them, each *)
(* step of the bin is a step of RowVault: what is known there is what was  *)
(* issued here, and a copy is a row of the CSV of a committed batch.       *)
(***************************************************************************)
LEMMA NoChangeNoneJoins == StillAsRead => NoneJoins
<1> SUFFICES ASSUME StillAsRead, NEW r \in Reqs, tx[r].at \in Pending, tx'[r] = tx[r],
                    NEW p \in Matching(live', tx[r].where), p \notin Matching(live, tx[r].where)
             PROVE  p \in RowsOf(tx[r].sel)
  BY DEF NoneJoins
<1>1. p \in Pks /\ live'[p] # NoRow /\ live'[p] # live[p]
  BY DEF Matching, RowsOf
<1>2. live'[p] \in {live[p], tx[r].sel[p]}
  BY DEF StillAsRead
<1> QED  BY <1>1, <1>2 DEF RowsOf

LEMMA CopiesMeaning ==
  \A c : c \in Copies <=> \E b \in Batches : \E p \in RowsOf(csv[b]) :
                             status[b] # "none" /\ c = <<p, csv[b][p]>>
  BY DEF Copies, CommittedBatches

LEMMA CopiesMeaningNext ==
  \A c : c \in Copies' <=> \E b \in Batches : \E p \in RowsOf(csv'[b]) :
                              status'[b] # "none" /\ c = <<p, csv'[b][p]>>
  BY DEF Copies, CommittedBatches, RowsOf

LEMMA CopiedIds == {copy[1] : copy \in Copies} = InBin
<1>1. ASSUME NEW c \in Copies PROVE c[1] \in InBin
  BY CopiesMeaning, InBinMeaning
<1>2. ASSUME NEW p \in InBin PROVE \E c \in Copies : c[1] = p
  <2>1. PICK b \in Batches : status[b] # "none" /\ p \in RowsOf(csv[b])
    BY InBinMeaning
  <2>2. <<p, csv[b][p]>> \in Copies /\ <<p, csv[b][p]>>[1] = p
    BY <2>1, CopiesMeaning
  <2> QED  BY <2>2
<1> QED  BY <1>1, <1>2

LEMMA CopiedIdsNext == {copy[1] : copy \in Copies'} = InBin'
<1>1. ASSUME NEW c \in Copies' PROVE c[1] \in InBin'
  BY CopiesMeaningNext, InBinMeaningNext
<1>2. ASSUME NEW p \in InBin' PROVE \E c \in Copies' : c[1] = p
  <2>1. PICK b \in Batches : status'[b] # "none" /\ p \in RowsOf(csv'[b])
    BY InBinMeaningNext
  <2>2. <<p, csv'[b][p]>> \in Copies' /\ <<p, csv'[b][p]>>[1] = p
    BY <2>1, CopiesMeaningNext
  <2> QED  BY <2>2
<1> QED  BY <1>1, <1>2

LEMMA KnownIsIssued == IInv /\ NothingVanishes => Custody!known = issued
  BY CopiedIds, InBinMeaning DEF Custody!known, Custody!There, IInv, RowsIssued,
     NothingVanishes, RowsOf

(* The steps that touch no manifest. *)
LEMMA ManifestStays ==
  ASSUME NEW r \in Reqs, Arrive(r) \/ Delete(r) \/ Restore(r) \/ Rollback(r),
         ~(CommitDelete(r) \/ CommitRestoreBatch(r) \/ CommitRestoreRow(r))
  PROVE  UNCHANGED <<status, listed>>
BY DEF Arrive, Delete, Restore, SelectRows, NothingToDelete, vars, manifest, RestoreBatch,
   RestoreRow, UpdateRow, CopyIn, PutCsv, PutSidecar, DeleteRows, InsertRow,
   UnlistAndCount, Rollback

(* The steps that change no copy, and the COMMIT that adds some.           *)
LEMMA CopiesStay ==
  ASSUME IInv, NEW r \in Reqs, Arrive(r) \/ Delete(r) \/ Restore(r) \/ Rollback(r),
         ~CommitDelete(r)
  PROVE  Copies' = Copies
<1>1. \A b \in Batches : status'[b] # "none" <=> status[b] # "none"
  <2>1. CASE CommitRestoreBatch(r) \/ CommitRestoreRow(r)
    BY <2>1, RestoreCommits DEF CommitRestoreBatch, CommitRestoreRow, Restored, IInv,
       Typing, TypeOK
  <2>2. CASE status' = status
    BY <2>2
  <2> QED  BY <2>1, <2>2, ManifestStays
<1>2. \A b \in Batches : status[b] # "none" => csv'[b] = csv[b]
  BY CommittedBatchStays
<1>3. ASSUME NEW c \in Copies PROVE c \in Copies'
  <2>1. PICK b \in Batches : \E p \in RowsOf(csv[b]) :
                                status[b] # "none" /\ c = <<p, csv[b][p]>>
    BY <1>3, CopiesMeaning
  <2> QED  BY <1>1, <1>2, <2>1, CopiesMeaningNext
<1>4. ASSUME NEW c \in Copies' PROVE c \in Copies
  <2>1. PICK b \in Batches : \E p \in RowsOf(csv'[b]) :
                                status'[b] # "none" /\ c = <<p, csv'[b][p]>>
    BY <1>4, CopiesMeaningNext
  <2> QED  BY <1>1, <1>2, <2>1, CopiesMeaning
<1> QED  BY <1>3, <1>4

LEMMA CommitCopies ==
  ASSUME IInv, NEW r \in Reqs, CommitDelete(r)
  PROVE  /\ Copies \subseteq Copies'
         /\ \A p \in RowsOf(tx[r].sel) : <<p, Stored(tx[r].sel[p])>> \in Copies'
         /\ \A c \in Copies' : c \in Copies \/ c[1] \in RowsOf(tx[r].sel)
<1> DEFINE b == tx[r].bat
<1>1. DeleteOk(r) /\ b \in Batches /\ tx[r].sel \in Archive /\ tx[r].at \in Deleting
  BY CommitArchives DEF IInv, RequestsOk, Typing, TypeOK, Tx
<1>2. /\ csv' = csv /\ csv[b] = Csv(tx[r].sel) /\ status[b] = "none"
      /\ \A c \in Batches : status'[c] = IF c = b THEN "active" ELSE status[c]
  BY <1>1 DEF CommitDelete, DeleteOk, Deleting, store, IInv, Typing, TypeOK
<1>3. RowsOf(csv[b]) = RowsOf(tx[r].sel)
  BY <1>1, <1>2, CsvKeepsRows
<1>4. \A p \in Pks : csv[b][p] = Stored(tx[r].sel[p])
  BY <1>2 DEF Csv
<1> HIDE DEF b
<1>5. Copies \subseteq Copies'
  BY <1>2, CopiesMeaning, CopiesMeaningNext
<1>6. ASSUME NEW p \in RowsOf(tx[r].sel) PROVE <<p, Stored(tx[r].sel[p])>> \in Copies'
  <2>1. p \in RowsOf(csv'[b]) /\ status'[b] # "none" /\ csv'[b][p] = Stored(tx[r].sel[p])
    BY <1>1, <1>2, <1>3, <1>4, <1>6 DEF RowsOf
  <2> QED  BY <1>1, <2>1, CopiesMeaningNext
<1>7. ASSUME NEW c \in Copies', c \notin Copies PROVE c[1] \in RowsOf(tx[r].sel)
  BY <1>1, <1>2, <1>3, <1>7, CopiesMeaning, CopiesMeaningNext
<1> QED  BY <1>5, <1>6, <1>7

LEMMA CustodyStep ==
  ASSUME IInv, NothingVanishes, SameAsRead, RestoresProgress, [Next]_vars
  PROVE  [Custody!Next]_<<live, Copies>>
<1>0. live \in Archive
  BY DEF IInv, Typing, TypeOK
<1>known. Custody!known = issued
  BY KnownIsIssued
<1>1. CASE UNCHANGED vars
  BY <1>1 DEF vars, Copies, CommittedBatches, RowsOf
<1>2. ASSUME NEW r \in Reqs, CommitDelete(r) PROVE Custody!Discard
  <2>1. RowsOf(tx[r].ins) = {} /\ RowsOf(tx[r].sel) \subseteq issued
    BY <1>2 DEF CommitDelete, IInv, RequestsOk, DeleteOk, Deleting
  <2>2. ASSUME NEW p \in Pks, live'[p] # live[p]
        PROVE  live'[p] = NoRow
               /\ <<p, [row \in Row |-> Stored(row)][live[p]]>> \in Copies'
    <3>1. p \in tx[r].del /\ live'[p] = NoRow
      BY <1>2, <2>1, <2>2 DEF CommitDelete, Committed, RowsOf
    <3>2. live[p] = tx[r].sel[p]
      BY <1>2, <3>1 DEF CommitDelete, SameAsRead
    <3>3. live[p] \in Row /\ p \in RowsOf(tx[r].sel)
      BY <1>0, <2>2, <3>1, <3>2 DEF Archive, RowsOf
    <3>4. <<p, Stored(live[p])>> \in Copies'
      BY <1>2, <3>2, <3>3, CommitCopies
    <3> QED  BY <3>1, <3>3, <3>4
  <2>3. \A c \in Copies' : c[1] \in issued
    BY <1>2, <1>known, <2>1, CommitCopies DEF Custody!known
  <2>4. Copies \subseteq Copies'
    BY <1>2, CommitCopies
  <2> QED  BY <1>known, <2>2, <2>3, <2>4 DEF Custody!Discard
<1>3. ASSUME NEW r \in Reqs, CommitRestoreBatch(r) \/ CommitRestoreRow(r) PROVE Custody!Recover
  <2>1. Copies' = Copies
    BY <1>3, CopiesStay DEF Restore, CommitDelete, CommitRestoreBatch, CommitRestoreRow
  <2>2. ASSUME NEW p \in Pks, live'[p] # live[p]
        PROVE  live[p] = NoRow /\ <<p, live'[p]>> \in Copies
    <3>1. p \in RowsOf(tx[r].ins) /\ live'[p] = tx[r].ins[p] /\ live[p] = NoRow
      BY <1>3, <2>2, RestoreCommits DEF RowsOf
    <3>2. /\ tx[r].ins[p] = csv[tx[r].bat][p] /\ p \in RowsOf(csv[tx[r].bat])
          /\ tx[r].bat \in Batches /\ status[tx[r].bat] # "none"
      BY <1>3, <3>1, RestoreCommits DEF RestoresProgress, Progress
    <3> QED  BY <3>1, <3>2, CopiesMeaning
  <2> QED  BY <2>1, <2>2 DEF Custody!Recover
<1>4. ASSUME NEW r \in Reqs, UpdateRow(r) PROVE Custody!Edit
  <2>1. Copies' = Copies
    BY <1>4, CopiesStay DEF Arrive, CommitDelete, UpdateRow
  <2>2. PICK p \in RowsOf(live), row \in Row : live' = [live EXCEPT ![p] = row]
    BY <1>4 DEF UpdateRow
  <2>3. p \in Custody!There /\ live'[p] = row /\ \A q \in Pks \ {p} : live'[q] = live[q]
    BY <1>0, <2>2 DEF Custody!There, RowsOf, Archive
  <2> QED  BY <2>1, <2>3 DEF Custody!Edit
<1>5. ASSUME NEW r \in Reqs, CopyIn(r) PROVE Custody!Enter
  <2>1. Copies' = Copies
    BY <1>5, CopiesStay DEF Arrive, CommitDelete, CopyIn
  <2>2. PICK file \in Archive :
             /\ RowsOf(file) \cap issued = {}
             /\ live' = [p \in Pks |-> IF file[p] # NoRow THEN file[p] ELSE live[p]]
    BY <1>5 DEF CopyIn
  <2>3. \A p \in Pks : live'[p] = live[p] \/ (p \notin issued /\ live'[p] \in Row)
    BY <2>2 DEF RowsOf, Archive
  <2> QED  BY <1>known, <2>1, <2>3 DEF Custody!Enter
<1>6. CASE Next
  <2> PICK r \in Reqs : Arrive(r) \/ Delete(r) \/ Restore(r) \/ Rollback(r)
    BY <1>6 DEF Next
  <2>1. CASE \/ SelectRows(r) \/ NothingToDelete(r) \/ RestoreBatch(r) \/ RestoreRow(r)
             \/ PutCsv(r) \/ PutSidecar(r) \/ DeleteRows(r) \/ InsertRow(r)
             \/ UnlistAndCount(r) \/ Rollback(r)
    <3>1. live' = live
      BY <2>1 DEF SelectRows, NothingToDelete, RestoreBatch, RestoreRow, PutCsv, PutSidecar,
         DeleteRows, InsertRow, UnlistAndCount, Rollback, vars
    <3>2. CommitDelete(r) => Custody!Discard
      BY <1>2
    <3>3. ~CommitDelete(r) => Copies' = Copies
      BY CopiesStay
    <3> QED  BY <3>1, <3>2, <3>3 DEF Custody!Next
  <2>2. CASE \/ CommitDelete(r) \/ CommitRestoreBatch(r) \/ CommitRestoreRow(r)
             \/ UpdateRow(r) \/ CopyIn(r)
    BY <2>2, <1>2, <1>3, <1>4, <1>5 DEF Custody!Next
  <2> QED  BY <2>1, <2>2 DEF Arrive, Delete, Restore
<1> QED  BY <1>1, <1>6

(***************************************************************************)
(* Where no step changes a row under the predicate of a delete between its *)
(* SELECT and its DELETE, the bin implements RowVault: with transactions,  *)
(* locks, storage and failures, and any other overlap.                     *)
(***************************************************************************)
THEOREM TrueCopiesAreKept == Spec /\ [][StillAsRead]_vars => KeepsCopies
<1> DEFINE I == IInv /\ DeletesHeld /\ SameAsRead /\ RestoresProgress
<1>1. Init => I /\ Custody!Init
  <2>1. Init => Copies = {}
    BY CopiesMeaning DEF Init
  <2>2. Init => live \in [Pks -> Row \cup {NoRow}]
    BY DEF Init, Archive
  <2> QED  BY <2>1, <2>2, InvInit, DeletesHeldInit, SameAsReadInit, ProgressInit
           DEF Custody!Init
<1>2. I /\ [Next]_vars /\ [StillAsRead]_vars => I'
  BY InvStep, DeletesHeldStep, SameAsReadStep, ProgressStep
<1>3. I /\ NothingVanishes /\ [Next]_vars => [Custody!Next]_<<live, Copies>>
  BY CustodyStep
<1>4. [StillAsRead]_vars => [NoneJoins]_vars
  BY NoChangeNoneJoins
<1> QED  BY <1>1, <1>2, <1>3, <1>4, CoveredDeletesLoseNothing, PTL
         DEF Spec, KeepsCopies, Custody!Spec

(***************************************************************************)
(* RowVault promises all that Vault does: whatever keeps true copies keeps *)
(* the ids.                                                                *)
(***************************************************************************)
THEOREM CopiesKeepIds == KeepsCopies => KeepsPromise
<1>1. Custody!Init => Promise!Init
  <2>1. Copies = {} => InBin = {}
    BY CopiedIds
  <2>2. RowsOf(live) \subseteq Pks
    BY DEF RowsOf
  <2> QED  BY <2>1, <2>2 DEF Custody!Init, Promise!Init
<1>2. ASSUME [Custody!Next]_<<live, Copies>>
      PROVE  [Promise!Next]_<<RowsOf(live), InBin>>
  <2> DEFINE L == RowsOf(live)
             N == RowsOf(live')
  <2>0. RowsOf(live)' = N /\ L \subseteq Pks /\ N \subseteq Pks
    BY DEF RowsOf
  <2>1. Custody!known = L \cup InBin /\ Promise!known = L \cup InBin
    BY CopiedIds DEF Custody!known, Custody!There, Promise!known, RowsOf
  <2>2. Copies' = Copies => InBin' = InBin
    BY CopiedIds, CopiedIdsNext
  <2>3. CASE UNCHANGED <<live, Copies>>
    BY <2>0, <2>2, <2>3 DEF RowsOf
  <2>4. ASSUME Custody!Enter PROVE Promise!Enter
    <3>1. /\ Copies' = Copies
          /\ \A p \in Pks : live'[p] = live[p] \/ (p \notin L \cup InBin /\ live'[p] \in Row)
      BY <2>1, <2>4 DEF Custody!Enter
    <3>2. N = L \cup (N \ L) /\ N \ L \in SUBSET (Pks \ (L \cup InBin))
      BY <3>1, NoRowAssumption DEF RowsOf
    <3> QED  BY <2>0, <2>1, <2>2, <3>1, <3>2 DEF Promise!Enter
  <2>5. ASSUME Custody!Edit PROVE UNCHANGED <<RowsOf(live), InBin>>
    <3>1. Copies' = Copies /\ N = L
      BY <2>5, NoRowAssumption DEF Custody!Edit, Custody!There, RowsOf
    <3> QED  BY <2>0, <2>2, <3>1
  <2>6. ASSUME Custody!Discard PROVE Promise!Discard
    <3>1. \A p \in L \ N : \E c \in Copies' : c[1] = p
      <4>1. ASSUME NEW p \in L \ N
            PROVE  <<p, [row \in Row |-> Stored(row)][live[p]]>> \in Copies'
        BY <2>6 DEF Custody!Discard, RowsOf
      <4> QED  BY <4>1
    <3>2. L \ N \subseteq InBin' /\ InBin \subseteq InBin' /\ InBin' \subseteq L \cup InBin
      BY <2>1, <2>6, <3>1, CopiedIds, CopiedIdsNext DEF Custody!Discard
    <3>3. N = L \ (L \ N)
      BY <2>6 DEF Custody!Discard, RowsOf
    <3>4. InBin' = InBin \cup InBin'
      BY <3>2
    <3>5. InBin' \in SUBSET Promise!known /\ L \ N \in SUBSET L
      BY <2>1, <3>2
    <3> QED  BY <2>0, <3>2, <3>3, <3>4, <3>5 DEF Promise!Discard
  <2>7. ASSUME Custody!Recover PROVE Promise!Recover
    <3>1. /\ Copies' = Copies
          /\ \A p \in Pks : live'[p] = live[p]
                            \/ (live[p] = NoRow /\ <<p, live'[p]>> \in Copies)
      BY <2>7 DEF Custody!Recover
    <3>2. \A p \in N \ L : \E c \in Copies : c[1] = p
      <4>1. \A p \in N \ L : <<p, live'[p]>> \in Copies
        BY <3>1 DEF RowsOf
      <4> QED  BY <4>1
    <3>3. N = L \cup (N \ L) /\ N \ L \in SUBSET InBin
      BY <3>1, <3>2, CopiedIds DEF RowsOf
    <3> QED  BY <2>0, <2>2, <3>1, <3>3 DEF Promise!Recover
  <2> QED  BY <1>2, <2>3, <2>4, <2>5, <2>6, <2>7 DEF Custody!Next, Promise!Next
<1> QED  BY <1>1, <1>2, PTL DEF KeepsCopies, KeepsPromise, Custody!Spec, Promise!Spec

(***************************************************************************)
(* And with any overlap, where the bin implements neither: a copy that a   *)
(* committed batch holds stays as it is, whatever fails, is deleted again  *)
(* or is restored.                                                         *)
(***************************************************************************)
THEOREM CopiesAreNeverLost == Spec => [][Copies \subseteq Copies']_vars
<1>1. IInv /\ [Next]_vars => [Copies \subseteq Copies']_vars
  <2> SUFFICES ASSUME IInv, Next PROVE Copies \subseteq Copies'
    OBVIOUS
  <2> PICK r \in Reqs : Arrive(r) \/ Delete(r) \/ Restore(r) \/ Rollback(r)
    BY DEF Next
  <2> QED  BY CommitCopies, CopiesStay
<1> QED  BY <1>1, InvInit, InvStep, PTL DEF Spec

-----------------------------------------------------------------------------
(***************************************************************************)
(* The restrictions together: what bin_undisturbed checks, for instances   *)
(* of any size, but for the closing of empty batches.                      *)
(***************************************************************************)
LEMMA UndisturbedMeans ==
  UndisturbedSpec => /\ Spec
                     /\ [][NoneJoins]_vars /\ [][StillAsRead]_vars /\ [][StaysBack]_vars
<1>1. [UndisturbedNext]_vars => /\ [Next]_vars /\ [NoneJoins]_vars
                                /\ [StillAsRead]_vars /\ [StaysBack]_vars
  BY NoChangeNoneJoins DEF UndisturbedNext
<1> QED  BY <1>1, PTL DEF UndisturbedSpec, Spec

THEOREM UndisturbedBinIsExact ==
  UndisturbedSpec => /\ DeletionArchivesContent /\ KeepsPromise /\ KeepsCopies
                     /\ []NothingVanishes
                     /\ RestoredBatchIsComplete /\ UnlistedRowIsBack
BY UndisturbedMeans, DeletionsArchiveContent, CoveredDeletesKeepPromise, TrueCopiesAreKept,
   CoveredDeletesLoseNothing, RestoredBatchesComplete, UnlistedRowsAreBack,
   PTL

(***************************************************************************)
(* The restrictions ask nothing of requests that run one after another,    *)
(* wherever they fail: only steps of others can break them.                *)
(***************************************************************************)
Alone == \A r, q \in Reqs : r = q

LEMMA AloneMoves ==
  ASSUME Alone, IInv, Next, NEW r \in Reqs, tx'[r] = tx[r], tx[r].at # "idle"
  PROVE  FALSE
<1>1. Arrive(r) \/ Delete(r) \/ Restore(r) \/ Rollback(r)
  BY DEF Next, Alone
<1>2. CASE SelectRows(r) \/ NothingToDelete(r) \/ RestoreBatch(r) \/ RestoreRow(r)
           \/ UpdateRow(r) \/ CopyIn(r)
  BY <1>2 DEF SelectRows, NothingToDelete, RestoreBatch, RestoreRow, UpdateRow, CopyIn
<1>3. CASE PutCsv(r) \/ PutSidecar(r) \/ DeleteRows(r)
  <2>1. tx[r] \in Tx
    BY DEF IInv, Typing, TypeOK
  <2>2. tx'[r].at # tx[r].at
    <3>1. CASE PutCsv(r)
      BY <2>1, <3>1 DEF PutCsv, IInv, Typing, TypeOK, Tx
    <3>2. CASE PutSidecar(r)
      BY <2>1, <3>2 DEF PutSidecar, IInv, Typing, TypeOK, Tx
    <3>3. CASE DeleteRows(r)
      BY <2>1, <3>3 DEF DeleteRows, IInv, Typing, TypeOK, Tx
    <3> QED  BY <1>3, <3>1, <3>2, <3>3
  <2> QED  BY <2>2
<1>4. CASE InsertRow(r)
  BY <1>4, RowInserted
<1>5. CASE UnlistAndCount(r)
  BY <1>5, RowUnlisted
<1>6. CASE CommitDelete(r) \/ CommitRestoreBatch(r) \/ CommitRestoreRow(r) \/ Rollback(r)
  BY <1>6 DEF CommitDelete, CommitRestoreBatch, CommitRestoreRow, Rollback, Finish, NoTx,
     IInv, Typing, TypeOK
<1> QED  BY <1>1, <1>2, <1>3, <1>4, <1>5, <1>6 DEF Arrive, Delete, Restore

THEOREM AloneIsUndisturbed == ASSUME Alone PROVE Spec => UndisturbedSpec
<1>1. IInv /\ [Next]_vars => [UndisturbedNext]_vars
  <2> SUFFICES ASSUME IInv, Next PROVE UndisturbedNext
    BY DEF UndisturbedNext
  <2>1. \A r \in Reqs : tx'[r] = tx[r] => tx[r].at = "idle"
    BY AloneMoves
  <2>2. StillAsRead /\ StaysBack
    BY <2>1 DEF StillAsRead, StaysBack, Pending, Restoring
  <2>3. OneCounts'
    BY DEF Alone, OneCounts
  <2> QED  BY <2>2, <2>3 DEF UndisturbedNext
<1> QED  BY <1>1, InvInit, InvStep, PTL DEF Spec, UndisturbedSpec
=============================================================================
