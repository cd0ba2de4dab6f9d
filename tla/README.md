# Formal model of the BIMI admin API

TLA+ modules that model the admin API of this repository, TLC configurations that
check them on small instances, and TLAPS proofs of the theorems that hold for
instances of any size.  File and line references are to `src/`.

## 1. The system

A FastAPI application (gunicorn worker processes, `src/Dockerfile`)
over one PostgreSQL database that also holds the pipeline's production tables.
Every request takes a connection of its own from an asyncpg pool
(`app/db/session.py`); the database runs at READ COMMITTED, and every statement
outside a `conn.transaction()` block commits by itself.

| Component | State it keeps | Operations | Talks to |
|---|---|---|---|
| Recycle bin (`services/recycle_bin.py`) | `admin_recycle_batches`, `admin_recycle_rows`, CSV and sidecar objects | soft delete, batch restore, row restore, period check, recoverable count | production tables, storage |
| Tables router (`api/v1/admin/tables.py`) | none | row edit, row and bulk delete, row restore, browse, deleted list, export, template | recycle bin, query builder, FK labels |
| Recycle router (`api/v1/admin/recycle.py`) | none | list batches, restore a batch | recycle bin |
| Uploads (`api/v1/admin/uploads.py`) | `admin_uploads` | validate, commit | validation, recycle bin, production tables |
| Validation (`services/validation.py`) | none | per-cell checks, cadence, period probes | FK labels, production tables |
| FK labels (`services/fk_labels.py`) | a dictionary per worker process | load, invalidate, resolve | reference tables |
| Query builder (`services/query_builder.py`) | none | builds WHERE clauses | schema registry |
| Datasets (`api/v1/admin/datasets.py`) | `admin_uploads.deleted_at` | list, delete, restore, download | recycle bin |
| Auth, users, security (`auth.py`, `users.py`, `core/security.py`) | `admin_users`, `admin_sessions`, `admin_auth_tokens` | login, logout, password reset and change, invite, role, suspend, reinstate, remove | audit |
| Audit (`services/audit.py`, `audit.py`) | `admin_audit_log` | record, list | every writer |
| Schema registry (`db/schema.py`) | columns, keys and FKs of every table, one copy per worker | build, load | everything that builds SQL |
| Storage (`services/storage.py`) | S3 bucket or local directory | put, get, delete | recycle bin |

**How they interact.**  A handler runs on the event loop of one worker, over the
connection that the dependency `db` acquired for it.  Every `await conn...` gives
the other requests, of this worker and of the others, a chance to run.  Transactions
are opened only around the recycle bin's operations (delete, bulk delete, row
restore, batch restore), the record of an upload and the restore of a dataset;
all other statements commit one by one.  Storage
takes no part in any of it.  In-process state is small and per worker: the schema
registry, built at startup, and the label cache.

**What is hard here.**

- *Two snapshots in one transaction.*  READ COMMITTED gives each statement its own
  snapshot, so a predicate evaluated twice (archive, then delete) can match
  different rows.
- *Two resources, one commit.*  Objects are put before the transaction commits and
  stay when it rolls back.
- *Locks taken row by row.*  Restores insert in the order of a CSV and wait for
  each other on rows and on natural keys.
- *Check, then act, with commits in between.*  Login, change of password, reset by
  link, suspension, validate-then-COPY, load-then-store of the label cache.
- *Text in the middle.*  Archived and uploaded values go through CSV, JSON and
  `str()`, which merge or split values the database tells apart.
- *Guards on one path only.*  The last Super Admin is protected from suspension
  and removal, not from a change of role.

**What makes each part correct.**

| Component | Properties |
|---|---|
| Recycle bin, tables, storage | `ManifestBacked`, `RestoreNeverOverwrites`, `DeletionArchivesContent`, `NothingVanishes`, `EmptyBatchIsRestored`, `RestoredBatchIsComplete`, `UnlistedRowIsBack`, `UnarchivedOnlyIfChanged`, `ReturnsAsArchived`, `RequestsEnd`, the refinements `KeepsPromise` and `KeepsCopies` |
| Row filters, schema registry | `ArchiveMatchesSummary`, `RowsComeBackWhole`, `RefusedRestoresAreExplained`, `TemplateReuploads` |
| Datasets, audit log | `TrailCountsDatasets`, the refinement `KeepsLedger` |
| Accounts and sessions | `OldPasswordKeepsNoSession`, `SuspendedHasNoSession`, `LinkSetsOnePassword`, `TemporaryPasswordIsFlagged`, `ASuperAdminRemains` |
| Reference labels | `CacheFollowsEdits` |
| Uploads and validation | `RefusalsAreExplained`, `StandingPeriodIsWarned`, `CadenceShiftIsWarned`, `CopiedRowsHaveOneCadence`, `BinnedPeriodIsWarned` |

`PROJECT.json` lists the components with what is left out of each, the hazards
with their lines, and the source lines of every definition.  A hazard that the
code does not prevent, and no document of the repository promises to, has a note there
in place of a property.

## 2. The modules

### `RecycleBin`: the bin over one table

The state is the committed table `live`, the two objects of each batch (`csv`,
`sidecar`), the manifest (`status`, `listed` for `admin_recycle_rows`,
`rowCount`), and for each request `tx[r]`: the last call its handler made and
what its open transaction has not committed.  One action stands for one database
or storage call:

| Code | Actions |
|---|---|
| `delete_row`, `bulk_delete_rows` -> `soft_delete` | `SelectRows` (or `NothingToDelete`), `PutCsv`, `PutSidecar`, `DeleteRows`, `CommitDelete` |
| `restore_batch` | `RestoreBatch`, `InsertRow` once per row, `CommitRestoreBatch` |
| `restore_row` | `RestoreRow`, `InsertRow`, `UnlistAndCount`, `CommitRestoreRow` |
| `update_row` | `UpdateRow` |
| `_copy_into_table` (what it does to the table) | `CopyIn` |
| an exception, a lost connection, a killed worker | `Rollback` |

- *Locks are waiting.*  A statement that would meet an uncommitted delete or
  insert of another request is not enabled until that request ends
  (`RowLocked`, `KeyLocked`).  A wait ends by itself only by a timeout or by the
  deadlock detector, which is a `Rollback`.
- *One statement, one snapshot.*  `DeleteRows` evaluates the predicate on `live`
  as it is then, not as `SelectRows` read it.  The inserts into the manifest fall
  before the DELETE in the code and are invisible until COMMIT; they appear in
  `CommitDelete`.
- *The inserts of a restore* run in any order: they follow the CSV, which has the
  order in which a SELECT without ORDER BY happened to return the rows.
- *CSV.*  `Reread` says what each value becomes after `_csv_cell` and `_coerce`;
  the empty string, for one, becomes NULL.  The proofs hold for every `Reread`.
- *Batch ids.*  A uuid4 is never drawn twice; for a bound on their number, an id is
  free again when its request rolled back before anything was put (`Unused`).
- *Null keys.*  A unique index equates no two keys with a NULL column:
  `NullKeys` are exempt everywhere the index is.  That the table keeps its other
  keys apart is the index's doing and no property here; what the handlers make of
  it is (`RestoredBatchIsComplete`, `RestoreNeverOverwrites`).

`Vault` is the abstract specification: rows leave the table only for the bin and
come back only from it.  `RecycleBin` implements it, with `live` and the bin read
off the state (`Promise`), when deletes go row by row, and with bulk deletes as
long as no other step brings a row under the predicate of one between its SELECT
and its DELETE; without that it does not, which is the first finding below.

`RowVault` is the same promise with the contents of the rows: what is removed
has a true copy in the bin (`Copied` says what a CSV makes of a row), what comes
back is as some copy has it, only an edit changes a row in place, and a copy once
in the bin stays.  `RecycleBin` implements it (`Custody`, `KeepsCopies`) as long as no other
step changes a row under the predicate of a delete between its SELECT and its
DELETE, row deletes included; and whatever implements it implements `Vault`.

*What may overlap* is a section of this module and of `Accounts` and `FkLabels`.
The code keeps no two requests apart, and some promises hold only as far as the statements of other requests stay out of one that has read and has
not yet written.  Each restriction there is an action formula that says which
steps of others have to stay out, and nothing more; the specification
restricted by them (`UndisturbedSpec`, in `Accounts` `SessionsSpec` and
`LinksSpec`) is what the runs explore and what the theorems are about.  Section 3
has the table of which property needs which.

### `CellTypes`, `RowFilters`, `RowArchive`: a table column by column

`RecycleBin` treats a row as one value.  `RowArchive` looks inside it: the
columns of a table, their PostgreSQL types, what the schema registry of each
worker calls them, and the text that each value becomes.  Its handlers run one
after another; `RecycleBin` has what happens between their calls.

| Code | Definitions |
|---|---|
| `registry`, `load_from_db`, `_pg_type`, `lifespan` | `registry[w]`, `Known`, `TypeName`, `Restart` |
| `_csv_cell`, `_coerce` (recycle bin); `_coerce_value` (row edits); the cells of the upload template | `BinText`, `Reader`, `Cell`; `Understood`, `EditedCell`; `TemplateText` |
| `build_row_filter`, `Filter`, the guard of `bulk_delete_rows` | `Selects`, `Fails`, `Unfiltered` |
| `soft_delete`, `restore_batch`, `restore_row`, `_insert_rows`, `update_row` | `SoftDelete`, `RestoreBatch`, `RestoreRow`, `Insert`, `EditRow` |
| the pipeline, a migration, the table of sources (not under `src/`) | `Load`, `Migrate`, `AddSource`, `DropSource` |

- *Two registries.*  A worker builds its registry once, when it starts: from
  the live catalog, or from the committed snapshot when introspection fails
  (`main.py:24`).  The two name types differently, and a migration makes them
  differ in columns, so the worker that restores may read a batch otherwise
  than the one that deleted wrote it.
- *Values* are the classes that some conversion tells apart: a number that a
  float holds and one that it does not, an empty text, a timestamp, an array.
- *A filter* is a record of three parameters; `""` is one that is not given.
  A source that is not an integer gives no clause, as in the code.
- *The foreign key.*  A table with an integer `source` refers to `sources`.  A
  source cannot go while a row of the table refers to it; archived rows protect
  nothing, and `Insert` fails as a whole when one row that it inserts, and that
  is not in the table, refers to a source that has gone.

### `AuditTrail` and `Ledger`: datasets and the trail

`AuditTrail` has the record of each upload (`admin_uploads`, with `deleted_at`), the
entries of the log, and the requests in between.  An entry is what
`audit.record` stores: a kind and a target, which is the name of the table for an
upload and an edit and the file name for the deletion and the restore of a dataset.
It names no dataset, and several share both (`Target`).  The actions: `Copy`, `RecordUpload` (`commit`), `ReadDataset`, `MarkDeleted`,
`RestoreDataset` (`datasets.py`), `EditRow` (`update_row`), `LogChange` for an
`audit.record` in a statement of its own, and `Fail`, which can cut a
request off anywhere.  `made` and `lost` are history.

`Ledger` is the abstract specification, for each target and kind: a change is entered, still owed by the
request that made it, or lost with that request, and no entry is without its
change.  `AuditTrail` implements it with what is owed read off the requests
(`Owed`), and with restores of datasets entered in the commit that makes them.
What the log can say of datasets is a matter of counting (`TrailCountsDatasets`):
a table has as many recorded uploads as upload entries, and under a file name no more
datasets are deleted than deletions were made.  Which of two, or whether a
deletion undid a restore, it cannot say.

### `Accounts`: accounts, sessions, links

Nothing here runs in a transaction, so an action is one statement that writes,
with the reads before it folded in only where nothing can be observed in between
(`_find` and the UPDATE it guards).  `login` is `CheckPassword`, `DropExpired`,
`OpenSession`, `Record`; `change_password` is `VerifyCurrent`, `ChangePassword`,
`DropOthers`; `suspend_user` and `reset_password` are `SuspendUser` or
`ResetPassword`, `KillSessions`, `Record`; `confirm_password_reset` is
`CheckLink`, `ConfirmReset`, `UseLink`.  A password is the number of passwords the
account has had.  `temp`, `proof`, `cutoff` and `spent` are history: whether the
server generated the password, which password a session rests on, up to which
password sessions have been purged, and whether a link has set a password.
Sessions of a removed account stay in the model and authenticate nobody, as the
JOIN in `get_current_user` has it.

### `FkLabels`: the label cache

One reference table, a cache per worker, and the two steps of `_load` around its
await.  `EditName` and `Invalidate` are `update_row`; `AddRow` and `RemoveRow` are
the uploads, restores and deletes that leave every cache alone; `Restart` is a
worker that comes back with an empty cache.  `moved` and `missed` are history:
the codes that have changed since a worker's cached map, or the map a request
holds, was read, without `invalidate` being called in that worker.

### `UploadCells` and `Uploads`: from file to table

`UploadCells` holds the pure functions over one cell: what validation says of
it, what the commit path makes of it, what the table's constraints admit.  Texts
are the classes that these functions tell apart, columns the shapes that occur
in the schema snapshot (primary keys, arrays and 64-bit integers among them), with
the names that a registry from the live catalog gives their types.  `Uploads` adds
the table, the bin, the reference codes, the cached codes and the requests.

| Code | Definitions |
|---|---|
| `validate_csv` | `Validate`, `LineOk`, `HeaderOk`, `Shift`; `ReadOf` and `PeriodsOf` for what it returns |
| `_augment_with_period_warnings` | `ProbeLive`, once per distinct period of the file in its order, then `ProbeBin` |
| a dry run, a rejected file | `Report` |
| `_copy_into_table`, `commit` | `Copy` (refused or not), `RecordUpload` |
| an exception, a lost connection | `Abort` |
| `soft_delete`, `restore_batch`, `restore_row`, `update_row` beside it | `Delete`, `RestoreBatch`, `RestoreRow`, `EditRow` |
| edits of the reference table (not of this one), `invalidate` | `MoveCode`, `DropKnown` |

- *A file without a required column* is read no further than its header:
  `validate_csv` returns no periods, so nothing is probed or announced.
- *The header check exempts the primary key* (`Required`), the cell check does
  not (`NotEmpty`).
- *A probe can raise*: an integer that `int()` reads and an int4 does not hold
  ends the request in `ProbeLive`.
- *A batch keeps its `period_values`* from deletion to the restore that closes
  it: `rows` is what it archived, `listed` what is still in it.  Row restores take
  from `listed` only, so a row can be live and still be announced as binned.
- *History.*  `kept[r]` has the rows that have stayed as they were since request
  `r` validated its file, `span[r]` the cadences that the table has had.

The reads of `validate_csv` are one step.  `CodesFor` says which codes the reference table of a
column can hold: a column with a CHECK beside its foreign key takes only some of
them.  Left out: duplicate lines within a file and the vocabulary warnings,
which reject nothing.

### MC modules and proof modules

`MCRecycleBin`, `MCRowArchive`, `MCAuditTrail`, `MCAccounts`, `MCFkLabels` and
`MCUploads` give the small instances; `RecycleBin_proofs`,
`Deletions_proofs`, `RowArchive_proofs`, `AuditTrail_proofs`, `Accounts_proofs`,
`FkLabels_proofs` and `Uploads_proofs` hold the theorems.  Operators marked
`mutant` are the variants of a definition that
`PROJECT.json` names for each property: each breaks that property, so the
property depends on the line of code it varies.

## 3. The runs

| Run | What it asks | Instance | States |
|---|---|---|---|
| `bin_undisturbed` | `TypeOK`, `EmptyBatchIsRestored`, `NothingVanishes`, `DeletionArchivesContent`, `RestoredBatchIsComplete`, `UnlistedRowIsBack`, `KeepsPromise`, `KeepsCopies`: two requests that stay out of each other's way, failures anywhere | 3 rows, a key and a null key, 1 value, 2 batches | 501k |
| `bin_concurrent` | `ManifestBacked`, `RestoreNeverOverwrites`, `UnarchivedOnlyIfChanged`, `ReturnsAsArchived`: two requests, unrestricted | 2 rows, 2 batches, a filter that leaves a key out | 274k |
| `bin_live` | `RequestsEnd`, under fairness | 2 rows, 2 batches, 2 requests | 123k |
| `doc_no_blind_delete` | `NothingVanishes` fails with bulk deletes | as `bin_concurrent` | counterexample |
| `rows_typed` | `TypeOK`, `RowsComeBackWhole`, `RefusedRestoresAreExplained`, `ArchiveMatchesSummary`, `TemplateReuploads` | 5 table shapes, 2 rows, 1 batch, 2 workers, 7 filters, a source that comes and goes, a migration | 240k |
| `trail` | `TypeOK`, `TrailCountsDatasets`, `KeepsLedger`: three requests, failures anywhere | 2 files of one name for one table, 3 changes of a kind to a target | 80k |
| `acct_sessions` | `TypeOK`, `OldPasswordKeepsNoSession`, `SuspendedHasNoSession`, `ASuperAdminRemains`: two requests under `SessionsSpec`, failures anywhere but before a purge | 2 accounts, 2 sessions, 2 passwords | 872k |
| `acct_links` | `TemporaryPasswordIsFlagged`, `LinkSetsOnePassword`: two requests under `LinksSpec`, failures anywhere but before a link is marked | 2 accounts, 1 session, 1 link, 2 passwords | 2.6M |
| `doc_reset_sessions` | `OldPasswordKeepsNoSession` fails with two requests | 2 accounts, 2 sessions | counterexample |
| `labels_edits` | `TypeOK`, `CacheFollowsEdits`: under `UndisturbedSpec`, restarts anywhere | 2 workers, 3 requests, 2 codes, 2 names | 353k |
| `upl_periods` | `TypeOK`, `CadenceShiftIsWarned`, `StandingPeriodIsWarned`, `CopiedRowsHaveOneCadence`, `BinnedPeriodIsWarned`: an upload and a second request that deletes, restores and edits, failures anywhere | a (month, quarter) table, 3 kinds of line, files of two lines, 1 copy, 1 batch | 441k |
| `upl_cells` | `RefusalsAreExplained`, `BinnedPeriodIsWarned`: an upload beside a second request | 33 column shapes, 12 texts, one line, 1 batch, a reference table that changes | 159k |

**Why the bounds are enough.**  The hazards of the bin involve at most two
requests: one that archives, restores or counts, and one whose effect falls in
between.  Two rows give a row that is archived and one that is not; three, in
`bin_undisturbed`, a batch that is restored row by row in two steps beside a row
outside it.  A second key is needed so that an edit can move a row in and out of
a filter, a null key so that the index can be silent.  Two batches give a row
archived twice.  `rows_typed` needs two workers, so that the one that restores
has another registry than the one that deleted; two rows, so that a filter
selects one of them; its shapes are those of the snapshot, and one source is
enough to vanish after the row.  `trail` needs three
requests for two racing deletions and a restore in between, and two datasets that
share name and table, as the log does not tell these apart.  A password counter of 2 allows
one change or reset, which is all that the purge of an older password needs; the
last Super Admin question needs two accounts.  `labels_edits` needs two requests
in one worker, for a fetch that an edit overtakes, and one in another worker,
which is told of nothing.  `upl_periods` has
files of two lines, so that its second request can act between the probes of two
periods and between the restores of two rows of one batch; one upload fills the
table and, once it is recorded, the same request uploads again up to COPY, where
all the properties look.  Its lines spell one number in two ways and leave a cell
empty.  `upl_cells` needs one line, because every cell is judged alone, and one other
request to move rows and codes before COPY.

**Which overlaps are harmless.**  Most promises hold of any overlap (the runs
that explore `Spec`).  The others hold under restrictions, and TLC finds each
property violated when its own restriction is dropped from the specification, and
no other property of the run:

| Property | What has to stay out, and when | Restriction |
|---|---|---|
| `NothingVanishes`, `KeepsPromise`, `DeletionArchivesContent`, `KeepsCopies` | between the SELECT and the DELETE of a delete, rows that come under its predicate or, for the last two, change under it | `NoneJoins`, `StillAsRead` |
| `RestoredBatchIsComplete`, `UnlistedRowIsBack` | until a restore commits, the removal of a row it has been through | `StaysBack` |
| `EmptyBatchIsRestored` | a second row restore of the batch that counts its entries | `OneCounts` |
| `OldPasswordKeepsNoSession` | during a login, a purge for a newer password than it verified | `NoLaterPurge` |
| `SuspendedHasNoSession` | during a login, the purge of a suspension; and a suspension cut off before its purge | `NoKillInLogin`, `PurgesRun` |
| `LinkSetsOnePassword` | a second confirmation of the link, and one cut off before the link is marked | `LinkHeldOnce`, `MarksRun` |
| `ASuperAdminRemains` | a request that takes role or status from the Super Admin whose own request is under way | `CallersStay` |
| `CacheFollowsEdits` | when the last edit of a worker invalidates, a map read before it and not stored yet | `NoFetchOutlivesEdits` |

This is also what a lock or a re-check in the code would have to exclude: a
predicate lock, or a DELETE of the primary keys that the SELECT has read, for the first
line; `FOR UPDATE` on the batch for the next two; a comparison of the password
hash in the INSERT of a session for the logins; an UPDATE of the link that claims
it before the password is set; a version counter in `_load`.  For the warnings of an
upload no restriction is needed: they are stated for what has stood in the table
since the file was validated (`kept`, `span`), and what arrives later is not
announced by anything in the code.  `StillAsRead` implies `NoneJoins`, so that one run serves
both.  One request at a time satisfies all of them (`AloneIsUndisturbed`,
section 4; in `Accounts` also none is cut off, `~CanFail`).

**Deadlock.**  TLC checks it in every run but three, which say
`CHECK_DEADLOCK FALSE`.  In
`acct_sessions` and `acct_links`, with ids, sessions, links and
passwords bounded, a state is reached in which every account is suspended or has
used up its passwords and nobody can sign in.  In `trail` the changes of each
kind are bounded.  The bin never blocks in the model, because a waiting request
can always be rolled back.

**Fairness** (`FairSpec`, used by `bin_live` only).  Each request that was accepted
keeps taking steps: asyncpg calls return, and a wait for a lock ends either
because the other transaction ends or because PostgreSQL's deadlock detector or
`command_timeout=30` (`app/db/session.py:29`) ends it.  `TimedOut` is fair only
while the request is waiting; nothing obliges a request that can go on to fail,
and nothing obliges new requests to arrive.

## 4. The proofs

TLAPS proves, for every number of rows, keys, batches and concurrent requests
and every CSV conversion (`RecycleBin_proofs`):

- `TypeCorrect`: `Spec => []TypeOK`.  `TypeOK` is not inductive: a request past
  `"idle"` must have a batch, or storage would be written at no batch.  `Typing`
  adds that.
- `ManifestAlwaysBacked`: `Spec => []ManifestBacked`.  The induction needs what a
  delete has put in storage at each stage, that two open deletes have different
  batches, that only committed batches list rows, and that an archived row has an
  issued id: `IInv` = `Typing` /\ `RequestsOk` /\ `Apart` /\ `RowsIssued` /\
  `ManifestBacked` /\ `OnlyCommittedListed`.
- `RestoresNeverOverwrite`: a restore inserts only where the table has no row,
  and the lock on an inserted row keeps every upload and restore off it until the
  commit.  Upload ids are new (`RowsIssued`).
- `RowDeletesLoseNothing` and `RowDeletesKeepPromise`: from `BulkFilters = {}`,
  no row id is lost, and every step implements a step of `Vault` or a stutter.
  Both rest on `RemovesOnlyRead`, that a DELETE removes only what its SELECT read.  The
  predicate of a row delete names a primary key, so this holds; bulk deletes are
  the counterexample of `doc_no_blind_delete`.
- `UnarchivedWereChanged` (`Deletions_proofs`): what a delete reads is under its
  predicate (`Scoped`), so a row that leaves unarchived came under it later.
- `RowsReturnAsArchived`: with any overlap and any failure, a row id comes back
  only with contents that a committed batch holds.

The rest of the bin depends on what overlaps.  Each theorem of `Deletions_proofs`
has the one restriction of section 3 that its property needs, for
all requests, failures and bulk deletes:

- `CoveredDeletesLoseNothing` and `CoveredDeletesKeepPromise`, from `NoneJoins`,
  and `DeletionsArchiveContent`, from `StillAsRead`: the invariant `ReadCovers`
  says that the rows under the predicate of an open delete are among those it has
  read, and `SameAsRead` that they have the contents it has read.
- `RestoredBatchesComplete` and `UnlistedRowsAreBack`, from `StaysBack`: of the
  rows that an open restore has been through each is in the table or has its key
  taken there, counting its own inserts (`AllThrough`); it commits with none left
  to go through (`RestoresProgress`).
- `TrueCopiesAreKept`: `Spec /\ [][StillAsRead]_vars => KeepsCopies`, a refinement
  of `RowVault` step by step.  It draws on all of the above: `SameAsRead` for
  the contents of a delete, `RestoresProgress` for those of a restore, and
  `NothingVanishes` for what an upload may call new (`KnownIsIssued`).
  `CopiesKeepIds`: `KeepsCopies => KeepsPromise`, from the two abstract
  specifications alone.  `CopiesAreNeverLost` holds of every overlap: no committed
  copy is changed or removed.
- `UndisturbedBinIsExact` draws these together for `UndisturbedSpec`.

For every set of rows, tables, filters and edits, every number of workers and
batches, and registries of either kind (`RowArchive_proofs`):

- `TypeCorrect`; its invariant says that the rows of the table and of every
  batch fit their columns and that a CSV holds the text of what was deleted
  (`BatchOk`).
- `RowsReturnWhole`, `RefusalsExplained`, `ArchivesMatchSummaries` and
  `TemplatesReupload`: from the invariant and the facts about one cell (what
  `BinText`, `Cell` and `Reader` make of a value that its type holds).  For the
  refusals: a cell that COPY's encoder does not take was misnamed or empty
  (`RefusedCell`), and a source that is missing was there when the row was archived
  (`RefusedSource`).

For every number of uploads, rows, requests and changes (`AuditTrail_proofs`):

- `TypeCorrect`;
- `LedgerKept`: `Spec => KeepsLedger`, step by step: each handler's statement is
  one step of `Ledger`, and what is owed is the number of requests that owe it.
- `ChangesAccountedFor`: `Spec => [](Trail!Balanced /\ Trail!UpToDate)`, by an
  induction over `Ledger` alone (`KeptStep`) that the handlers inherit through
  `LedgerKept`: changes are entries, owed entries and lost entries, once each, and
  of the restores none is ever owed or lost.
- `DatasetsCounted`: `Spec => []TrailCountsDatasets`.  The deleted datasets of a name
  are counted against the deletions made, which the ledger divides into entered,
  owed and lost (`Counted`); the recorded ones against the upload entries, as one request
  at most records a file (`OneUploadEach`).

For every column of the model's shapes, every file of its cells and any number
of lines, copies and requests (`Uploads_proofs`):

- `TypeCorrect`, from what a request holds at each stage (`Serving`);
- `CopiesHaveOneCadence`: what validation found of a file stays true of the file
  (`Passed`), whatever happens to the table meanwhile;
- `StandingPeriodsWarned`: a line whose probe has run has been found if a row that
  has stood since validation has its period (`LookedAt`), however the probes of
  the other periods and the requests of others interleave;
- `BinnedPeriodsWarned`: a number spelt as the table would give it back is equal
  to what was archived exactly if the texts are (`SameDigits`);
- `CadenceShiftsWarned`: while the table has had one cadence, the one that
  validation compared with is that one, or the table was empty then and nothing has stood
  (`ShiftsNoticed`);
- `RefusalsExplained`, for columns whose enum is of texts and excludes the
  default and whose two names are of one type (`Regular`, as all columns of the
  snapshot and the catalog are): a cell that passed is admitted by the table, or is
  one of the kinds of `Overlooked` (`LineAdmitted`).

None of them restricts what overlaps.

For every number of codes, names, workers and requests (`FkLabels_proofs`):
`TypeCorrect`, and `CacheFollows` from `NoFetchOutlivesEdits`.  The map of a
request that is still loading is a cache to be, so the invariant asks the same of it
(`FetchedFollows`), unless an edit of its worker has still to invalidate.

And for every number of accounts, sessions, links and requests, with failures
(`Accounts_proofs`):

- `TypeCorrect`, from what a request holds at each stage (`RequestsHold`);
- `TemporaryPasswordsStayFlagged`: `Spec => []TemporaryPasswordIsFlagged`;
- `OldPasswordsKeepNoSession`, from `NoLaterPurge`, failures included: no purge
  was for a password the account has not had (`Cutoffs`) or will be
  (`Owed`), and what a login has verified is no older than the last purge
  (`LoginsFresh`);
- `SuspendedHaveNoSession`, from `NoKillInLogin` and `PurgesRun`: a login under
  way into a suspended account is inside a suspension that has still to purge
  (`LoginsWatched`);
- `SuperAdminRemains`, from `CallersStay`: a suspension or removal is another's
  work, and whoever was let in as a Super Admin still is one (`CallersAct`).

`UndisturbedSessionsAreRight` and `UndisturbedCacheFollows` say the same of the
specifications that the runs explore.  In `Deletions_proofs`, `Accounts_proofs`
and `FkLabels_proofs`
`AloneIsUndisturbed` shows that one request at a time meets the restrictions
(in `FkLabels`, one per worker), so that none of them is more than what a serial
system gives.

The assumptions are those the modules name: constants have their types, `Pks`
and `Reqs` are finite, the `No...` values are no members of the sets they stand
outside of, `MaxPwd` is positive, a table without a quarter has files without one.
TLC evaluates them in every run.  The theorems about texts and types are for every
value of the constants, but the classes of texts and types are those that the modules
list.

**Model-checked only.**  `RequestsEnd`: liveness and `ENABLED` are beyond the
prover.  `EmptyBatchIsRestored` and `LinkSetsOnePassword`: the restrictions that they need
(`OneCounts`; `LinkHeldOnce` and `MarksRun`) rule out just the overlaps that the
code would have to deal with, so a proof under them would say no more than the
run does, that one request after another counts and checks rightly.  Every other
property of a passing run is a theorem, under the hypotheses given here.

## 5. Findings

1. *A bulk delete can destroy rows that are in no archive* (`doc_no_blind_delete`).
   `soft_delete` evaluates the filter in a SELECT, exports that result, and
   evaluates it again in the DELETE (`recycle_bin.py:163`).  A row that an upload
   or an edit brings under the filter in between is deleted and not archived,
   against `config.py:105`.
2. *A reset does not end every session of the old password*
   (`doc_reset_sessions`).  A login that has verified the old password inserts its
   session after the purge (`auth.py:50-68`, `users.py:187`).

## 6. Noticed while modelling, with no run of its own

Recycle bin:

- The list of deleted rows reads whole CSVs of active batches, so a row restored
  by itself stays on it while its batch has other rows (`tables.py:376`;
  `SETUP.md:186` says "it's gone from the deleted list").
- `restore_row` answers `{"restored": 1}` and removes the entry when ON CONFLICT DO
  NOTHING dropped the row (`recycle_bin.py:221`).
- `restore_row` takes any batch that lists the row, one restored before included
  (`recycle_bin.py:204`): entries stay after a batch restore.
- `recoverable_rows` adds up the row counts at deletion time
  (`recycle_bin.py:301`); `SETUP.md:187` says it reflects what is in the bin.
- Two row restores of one batch at once each see the other's entry, and the empty
  batch stays active (`recycle_bin.py:226`).
- NULL and the empty string are one CSV cell (`recycle_bin.py:51`): a restored row
  has NULL where the deleted one had an empty string, and a restore of an empty
  text in a NOT NULL column fails.
- An amount with more digits than a double holds comes back rounded: the
  archive writes `float(v)` (`schema.py:385`).
- A batch deleted under the live registry records `bigint` and `ARRAY`, which
  `_coerce` does not know (`recycle_bin.py:70`): it cannot be restored, against
  `storage.py:4` and `README.md:46`.  Uploads and edits of a bigint column fail
  under that registry too; arrays are restored by neither.
- A column added by a migration is missing from batches of workers that started
  before it, and such workers restore it as NULL (`recycle_bin.py:242`).
- `get_storage` uses the local disk when only an IAM role provides credentials
  (`storage.py:118`; `storage.py:38` expects S3 to work with one).
- A row whose `source` has been deleted from the table of sources since cannot be
  restored, and its batch with it: foreign keys hold for the table, not for the bin
  (`recycle_bin.py:247`).  Nothing warns before the second delete.
- Two deletions of one row that overlap archive it twice (`recycle_bin.py:115`).
- Rows whose natural key has a NULL can be deleted, uploaded again and restored, and are
  then there twice (`recycle_bin.py:245`).
- A bulk filter that names a `source` by its name, in a table with `source_id`,
  is narrowed to the other parameters (`query_builder.py:79`).  A search for `%`
  is taken for a filter and selects every row.
- A table with several unique indexes gets their columns together as its natural
  key (`schema.py:316`), and a table that the snapshot does not name is skipped
  (`schema.py:331`; `README.md:36` says that a new table appears).
  `schema.py:18` promises that snapshot and catalog are compared; no code does it.
- `int(value)` of an edit drops the fraction of 7.9, where the docstring of
  `_coerce_value` says that it "Raises on genuinely bad input" (`tables.py:538`).

Accounts:

- `suspend_user` has the same window as finding 2: a login verified before the
  suspension leaves a session behind (`users.py:148`).  It is of no use while the
  account is suspended, and valid again once it is reinstated.
- `confirm_password_reset` sets the password and marks the link in two statements
  (`auth.py:150`): a request cut off in between leaves a link that sets another
  password, and so do two confirmations that overlap.
- A Super Admin who is suspended while suspending another goes through with it:
  two who suspend each other leave none (`users.py:124`, `users.py:148`).
- `change_password`, `confirm_password_reset` and `logout` write no audit entry;
  `audit.py:4` says every mutating action does.
- `set_role` may leave no Super Admin (`users.py:124`).

Labels and uploads:

- A label map that was read before an edit and is stored after the edit has
  invalidated hides the edit until the next one (`fk_labels.py:52`).
- `validation.py:13` says lookups are loaded once per validation; codes come
  from the worker's cache, loaded perhaps long before (`fk_labels.py:44`).
- A padded enum cell passes (the check strips it, `validation.py:252`) and is
  copied unstripped (`uploads.py:163` ff.), which the table refuses.
- An empty cell in a NOT NULL column that has a default passes and is copied as
  NULL (`validation.py:282`; `validation.py:10` promises `unexpected_null`).
- The header check exempts the primary key (`validation.py:140`): a file for a
  reference table without its `indicator_code` is accepted and refused by COPY.
- A text for an array column, and under the live registry one for a `bigint`, is
  taken by `_parse_type` and refused by COPY (`validation.py:57`); so is a time with an
  offset for a column without one.
- A probe binds a number that `int()` reads and an int4 does not hold; asyncpg
  raises outside the `try` (`validation.py:415`), and the dry run of such a file ends with
  500 in place of its report.
- A file without a required column is not probed: its report has the missing
  columns and no period warning (`validation.py:156`).
- Restoring one row of a larger batch leaves the batch's `period_values` as they
  are (`recycle_bin.py:221`): the period of a live row is announced as binned until
  the last row is back.
- An edit checks no cadence and can make a row both monthly and quarterly
  (`tables.py:393`), which no upload can.
- `created_at` is copied when the file has it; `uploads.py:157` says it is left
  out.
- The enum check comes after the `continue` of the foreign-key branch
  (`validation.py:244`), so a column with both, `indicator_code`, is not checked:
  COPY refuses what `validation.py:246` says is surfaced in the report.
- A period with an empty cell is never found in the bin: `periods_in_bin`
  compares `str(None)` with `""` (`recycle_bin.py:293`; `uploads.py:13` promises
  the warning).  The periods of a (month, quarter) table, where one of the two
  is empty, are all missed; `BinnedPeriodIsWarned` exempts them.
- `uploads.py:11` counts on the unique index against duplicate periods; the
  index equates no NULLs, so periods with an empty month or quarter can repeat.
- COPY commits before the upload is recorded (`uploads.py:117`): a failure in
  between leaves rows that no dataset accounts for.
- A deleted dataset still appears in the list of datasets, against
  `datasets.py:128`.

Datasets and the audit log:

- Two deletions of one dataset that overlap both succeed and both enter the log
  (`datasets.py:125`).
- A restore between two such deletions is undone by the second, whose caller read
  the dataset as live (`datasets.py:125`); and one that falls between the UPDATE of a
  deletion and its entry leaves a log that ends on the deletion of a live dataset
  (`datasets.py:135`).
- An entry names no dataset: an upload is entered under its table
  (`uploads.py:132`), a deletion and a restore under the file name (`datasets.py:136`), so the
  log cannot tell apart two files of one name.
- `restore_dataset` restores a live dataset and enters that, too
  (`datasets.py:142`).

## 7. Not modelled, and why

- The purge of expired batches: no code does it (`DEPLOY.md:162`, "Still to be
  scheduled").  Batches never leave the model either.
- `upload_id` of a batch: no caller passes it, so `admin_uploads` is never linked
  to a batch and the UPDATE in `restore_batch` matches nothing.
- Browsing, exports, the dashboard, the audit trail's pages, presigned links:
  they read only.
- Mails and the worker thread that sends them; `verify_email`, whose tokens no
  code issues.
- A connection lost after the UPDATE of a reference row has committed and before
  the handler invalidates (`tables.py:440`): the cache stays as if another worker had
  served the edit.
- Introspection of the schema beyond its columns and type names, settings,
  request shapes: read once, or declarations.
- The dashboard: counts over tables of the other components, at one moment each.

## 8. The plan

Done, in the order of importance: the recycle bin with its abstract
specification and proofs; accounts and sessions; the label cache; uploads; row
filters and the CSV round trip with the types of the sidecar; datasets and the
audit trail with its abstract specification.

The theorems cover the properties of the passing runs but for the three that
section 4 names.

Each of them that does not hold of every overlap has the weakest restriction that
was found, with the run that shows that it is needed.

Next, in the model: the manifest's `period_values` in `RecycleBin`, as `Uploads`
has them, and the foreign keys between tables there.  In the proofs: an abstract specification of
the sessions of an account, with login and purge as single steps.  New questions
join the instance of an existing run where they can, as the instances above
already are the smallest that show their hazards.
