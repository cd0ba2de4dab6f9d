---------------------------- MODULE AuditTrail ----------------------------
(***************************************************************************)
(* Datasets and the audit trail: the record of an upload in admin_uploads  *)
(* with its soft-delete flag (uploads.py, datasets.py), the edit of a row  *)
(* (tables.py), and the entries that these handlers write into             *)
(* admin_audit_log.  An upload and an edit commit their change first and   *)
(* write the entry in a later statement; so does the deletion of a dataset,*)
(* after a read that nothing locks.  A restore does both in a transaction, *)
(* after such a read.  Requests overlap and are cut off anywhere.          *)
(*                                                                         *)
(* An entry names a target, not a dataset: the table for an upload and an  *)
(* edit, the file name for a deletion and a restore.  Datasets share both. *)
(*                                                                         *)
(* No upload ever gets a recycle_batch_id (soft_delete is called without   *)
(* an upload_id), so that the branch of restore_dataset that restores a    *)
(* batch is never taken.                                                   *)
(***************************************************************************)
EXTENDS Integers, FiniteSets

CONSTANTS
  Uploads,      \* files: each is one COPY and, with luck, one admin_uploads row
  FileNames, Tables,
  fileName,     \* file_name and table_name of each; nothing changes them
  tableName,
  Reqs,         \* requests in flight at once (a bound)
  MaxChanges    \* changes of one kind to one target (a bound)

Targets == FileNames \cup Tables
Kinds == {"upload", "delete_file", "restore", "edit_row"}

ASSUME UploadsAssumption == IsFiniteSet(Uploads)
ASSUME NamesAssumption == fileName \in [Uploads -> FileNames] /\ tableName \in [Uploads -> Tables]
ASSUME ReqsAssumption == IsFiniteSet(Reqs)
ASSUME MaxChangesAssumption == MaxChanges \in Nat

VARIABLES
  dataset,   \* of each file: its rows "copied" without a record, or the record
             \* "live", or "deleted" when deleted_at is set
  entries,   \* admin_audit_log: how many entries of each kind with each target
  req,       \* the request each connection is serving
  made, lost \* history: changes committed, and those whose request was cut off
vars == <<dataset, entries, req, made, lost>>

Counts == [Targets -> [Kinds -> Nat]]
Zero == [t \in Targets |-> [k \in Kinds |-> 0]]
Plus(f, t, k) == [f EXCEPT ![t] = [f[t] EXCEPT ![k] = f[t][k] + 1]]

(* A request is about a file, an edit about a table. *)
Req == [at : {"read", "owing"}, id : Uploads \cup Tables, kind : Kinds]
NoReq == [at |-> "idle"]
Serving(r, at, i, k) == req' = [req EXCEPT ![r] = [at |-> at, id |-> i, kind |-> k]]
Finish(r) == req' = [req EXCEPT ![r] = NoReq]

Target(i, k) == CASE k = "edit_row" -> i
                  [] k = "upload"   -> tableName[i]
                  [] OTHER          -> fileName[i]
Room(i, k) == made[Target(i, k)][k] < MaxChanges
Make(i, k) == made' = Plus(made, Target(i, k), k)
Enter(i, k) == entries' = Plus(entries, Target(i, k), k)

(* Requests that have made a change and not yet written its entry. *)
Owing(t, k) == {r \in Reqs : req[r].at = "owing" /\ req[r].kind = k /\ Target(req[r].id, k) = t}

Init == /\ dataset = [u \in Uploads |-> "none"]
        /\ entries = Zero
        /\ req = [r \in Reqs |-> NoReq]
        /\ made = Zero
        /\ lost = Zero

-----------------------------------------------------------------------------
(* uploads.commit: COPY, then one transaction for the record and its entry *)

Copy(r, u) ==
  /\ req[r].at = "idle"
  /\ dataset[u] = "none"
  /\ Room(u, "upload")
  /\ dataset' = [dataset EXCEPT ![u] = "copied"]
  /\ Make(u, "upload")
  /\ Serving(r, "owing", u, "upload")
  /\ UNCHANGED <<entries, lost>>

RecordApart(r) ==        \* mutant
  LET u == req[r].id IN
  /\ req[r].at = "owing" /\ req[r].kind = "upload"
  /\ dataset' = [dataset EXCEPT ![u] = "live"]
  /\ Enter(u, "upload") \/ UNCHANGED entries
  /\ Finish(r)
  /\ UNCHANGED <<made, lost>>
RecordUpload(r) ==
  LET u == req[r].id IN
  /\ req[r].at = "owing" /\ req[r].kind = "upload"
  /\ dataset' = [dataset EXCEPT ![u] = "live"]
  /\ Enter(u, "upload")
  /\ Finish(r)
  /\ UNCHANGED <<made, lost>>

-----------------------------------------------------------------------------
(* datasets.py: _get_owned, then what was asked for.  Both handlers are    *)
(* for super admins, whom _get_owned never refuses a dataset.              *)

ReadDataset(r, u, k) ==
  /\ req[r].at = "idle"
  /\ dataset[u] \in {"live", "deleted"}                \* or 404
  /\ k = "delete_file" => dataset[u] = "live"          \* or 409
  /\ Serving(r, "read", u, k)
  /\ UNCHANGED <<dataset, entries, made, lost>>

(* delete_dataset: the UPDATE does not look at deleted_at again. *)
MarkMisspelt(r) ==        \* mutant
  LET u == req[r].id IN
  /\ req[r].at = "read" /\ req[r].kind = "delete_file"
  /\ Room(u, "delete_file")
  /\ dataset' = [dataset EXCEPT ![u] = "delete_file"]
  /\ Make(u, "delete_file")
  /\ Serving(r, "owing", u, "delete_file")
  /\ UNCHANGED <<entries, lost>>
MarkDeleted(r) ==
  LET u == req[r].id IN
  /\ req[r].at = "read" /\ req[r].kind = "delete_file"
  /\ Room(u, "delete_file")
  /\ dataset' = [dataset EXCEPT ![u] = "deleted"]
  /\ Make(u, "delete_file")
  /\ Serving(r, "owing", u, "delete_file")
  /\ UNCHANGED <<entries, lost>>

RestoreUnlogged(r) ==        \* mutant
  LET u == req[r].id IN
  /\ req[r].at = "read" /\ req[r].kind = "restore"
  /\ Room(u, "restore")
  /\ dataset' = [dataset EXCEPT ![u] = "live"]
  /\ Make(u, "restore")
  /\ Serving(r, "owing", u, "restore")
  /\ UNCHANGED <<entries, lost>>
RestoreDataset(r) ==
  LET u == req[r].id IN
  /\ req[r].at = "read" /\ req[r].kind = "restore"
  /\ Room(u, "restore")
  /\ dataset' = [dataset EXCEPT ![u] = "live"]
  /\ Make(u, "restore")
  /\ Enter(u, "restore")
  /\ Finish(r)
  /\ UNCHANGED lost

-----------------------------------------------------------------------------
(* update_row *)
EditRow(r, t) ==
  /\ req[r].at = "idle"
  /\ Room(t, "edit_row")
  /\ Make(t, "edit_row")
  /\ Serving(r, "owing", t, "edit_row")
  /\ UNCHANGED <<dataset, entries, lost>>

(* audit.record after an UPDATE that has committed. *)
LogChange(r) ==
  /\ req[r].at = "owing" /\ req[r].kind \in {"delete_file", "edit_row"}
  /\ Enter(req[r].id, req[r].kind)
  /\ Finish(r)
  /\ UNCHANGED <<dataset, made, lost>>

(* A lost connection, a command timeout, a killed worker. *)
Fail(r) ==
  LET k == req[r].kind
      t == Target(req[r].id, k)
  IN  /\ req[r].at # "idle"
      /\ lost' = IF req[r].at = "owing" THEN Plus(lost, t, k) ELSE lost
      /\ Finish(r)
      /\ UNCHANGED <<dataset, entries, made>>

Next == \E r \in Reqs :
          \/ RecordUpload(r) \/ MarkDeleted(r) \/ RestoreDataset(r)
          \/ LogChange(r) \/ Fail(r)
          \/ \E u \in Uploads : Copy(r, u)
          \/ \E u \in Uploads, k \in {"delete_file", "restore"} : ReadDataset(r, u, k)
          \/ \E t \in Tables : EditRow(r, t)

Spec == Init /\ [][Next]_vars

-----------------------------------------------------------------------------
(* Properties *)

(* Every variable has its type. *)
TypeOK == /\ dataset \in [Uploads -> {"none", "copied", "live", "deleted"}]
          /\ entries \in Counts /\ made \in Counts /\ lost \in Counts
          /\ req \in [Reqs -> Req \cup {NoReq}]

(* The trail keeps the promise of the module Ledger: audit.py:4, "Every    *)
(* mutating action calls record()", holds of every change whose request    *)
(* lives long enough, and a restore is always entered.                     *)
Owed == [t \in Targets |-> [k \in Kinds |-> Cardinality(Owing(t, k))]]
Trail == INSTANCE Ledger WITH Subjects <- Targets, Atomic <- {"restore"}, owed <- Owed
KeepsLedger == Trail!Spec

(* What a reader can tell of datasets from a log that does not name them:  *)
(* a table has as many uploads on record as upload entries, deleted ones   *)
(* included, whatever was cut off or is in flight; and of the datasets of  *)
(* one file name no more are deleted than deletions were entered, but for  *)
(* those whose request still owes the entry or was cut off.                *)
Recorded(t) == {u \in Uploads : tableName[u] = t /\ dataset[u] \in {"live", "deleted"}}
Deleted(n) == {u \in Uploads : fileName[u] = n /\ dataset[u] = "deleted"}
TrailCountsDatasets ==
  /\ \A t \in Tables : Cardinality(Recorded(t)) = entries[t]["upload"]
  /\ \A n \in FileNames : Cardinality(Deleted(n))
        <= entries[n]["delete_file"] + Owed[n]["delete_file"] + lost[n]["delete_file"]
=============================================================================
