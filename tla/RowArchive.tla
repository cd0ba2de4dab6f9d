----------------------------- MODULE RowArchive -----------------------------
(***************************************************************************)
(* The rows of one production table, column by column, through the recycle *)
(* bin: a CSV whose cells are texts, a sidecar with the column types as    *)
(* the deleting worker's schema registry names them, and a restore by a    *)
(* worker whose registry may know other columns.  A registry is built once,*)
(* when its worker starts: from the live catalog, or from the committed    *)
(* snapshot when introspection fails (main.py).  An integer source refers  *)
(* to the table of sources.  Handlers run one after another; what happens  *)
(* between the calls of one is in RecycleBin.                              *)
(***************************************************************************)
EXTENDS RowFilters

CONSTANTS
  Pks,       \* primary keys the sequence hands out (a bound)
  Batches,   \* batch ids (a bound)
  Workers,   \* worker processes
  Shapes,    \* the table's columns, see Shape
  Sources,   \* ids of the table of sources
  Rows,      \* rows that the pipeline loads
  Filters,   \* bulk-delete requests
  Edits,     \* columns and values that row edits send
  NoRow, NoBatch

Fields == {"year", "source", "val", "extra"}
Row == [Fields -> Values]
Shape == [year : BOOLEAN, source : {"none", "int4", "varchar"}, val : Types, nullable : BOOLEAN]

ASSUME ShapesAssumption == Shapes \subseteq Shape
ASSUME SourcesAssumption == Sources \subseteq Integers4
ASSUME RowsAssumption == Rows \subseteq Row
ASSUME FiltersAssumption == Filters \subseteq Filter
ASSUME EditsAssumption == Edits \subseteq Fields \X Sent
ASSUME NoRowAssumption == NoRow \notin Row

VARIABLES
  shape,     \* the columns the table was created with
  extra,     \* whether a migration has added a nullable text column
  sources,   \* the table of sources
  registry,  \* what each worker's schema registry says
  table,     \* the production table
  batch      \* admin_recycle_batches with their two objects
vars == <<shape, extra, sources, registry, table, batch>>

Registry == [live : BOOLEAN, extra : BOOLEAN]
Archived == {p \in Pks : \E b \in Batches : batch[b] # NoBatch /\ p \in DOMAIN batch[b].csv}
RowsIn == {p \in Pks : table[p] # NoRow}

Init == /\ shape \in Shapes
        /\ extra = FALSE
        /\ sources = Sources
        /\ registry = [w \in Workers |-> [live |-> TRUE, extra |-> FALSE]]
        /\ table = [p \in Pks |-> NoRow]
        /\ batch = [b \in Batches |-> NoBatch]

-----------------------------------------------------------------------------
(* Columns *)

Original == {"val"} \cup (IF shape.year THEN {"year"} ELSE {})
                    \cup (IF shape.source = "none" THEN {} ELSE {"source"})
Columns == IF extra THEN Original \cup {"extra"} ELSE Original
Known(w) == IF registry[w].extra THEN Original \cup {"extra"} ELSE Original

SqlType == [year |-> "int4", source |-> shape.source, val |-> shape.val, extra |-> "varchar"]
Nullable(c) == c \in {"source", "extra"} \/ (c = "val" /\ shape.nullable)
NameOf(w, c) == TypeName(SqlType[c], registry[w].live)

(* The row obeys the table's types and NOT NULL constraints, and its       *)
(* foreign key.                                                            *)
Fits(row) == \A c \in Fields :
               IF c \in Columns THEN row[c] \in Holds(SqlType[c]) \/ (row[c] = NULL /\ Nullable(c))
               ELSE row[c] = NULL
Referring == shape.source = "int4"
Refers(row) == Referring => row["source"] \in sources \cup {NULL}

-----------------------------------------------------------------------------
(* What happens outside the API *)

Load(p, row) ==
  /\ p \notin RowsIn \cup Archived
  /\ Fits(row) /\ Refers(row)
  /\ table' = [table EXCEPT ![p] = row]
  /\ UNCHANGED <<shape, extra, sources, registry, batch>>

(* The sources are a table of their own, with handlers and a bin like this *)
(* one's: a source goes only while no row of the table refers to it; that  *)
(* an archived row does is no obstacle.                                    *)
AddSource(s) ==
  /\ Referring
  /\ s \notin sources
  /\ sources' = sources \cup {s}
  /\ UNCHANGED <<shape, extra, registry, table, batch>>

DropSource(s) ==
  /\ Referring
  /\ s \in sources
  /\ \A p \in RowsIn : table[p]["source"] # s
  /\ sources' = sources \ {s}
  /\ UNCHANGED <<shape, extra, registry, table, batch>>

Migrate ==
  /\ ~extra
  /\ extra' = TRUE
  /\ UNCHANGED <<shape, sources, registry, table, batch>>

(* lifespan: introspection succeeds, or the snapshot stays. *)
Restart(w, live) ==
  /\ registry' = [registry EXCEPT ![w] = [live |-> live, extra |-> live /\ extra]]
  /\ UNCHANGED <<shape, extra, sources, table, batch>>

-----------------------------------------------------------------------------
(* soft_delete *)

ExportEditable(w) == {c \in Known(w) : SqlType[c] # "timestamp"}        \* mutant
Exported(w) == Known(w)

SoftDelete(w, gone, f) ==
  /\ gone # {}
  /\ \E b \in Batches :
        /\ batch[b] = NoBatch
        /\ batch' = [batch EXCEPT ![b] =
             [status |-> "active", summary |-> f, listed |-> gone,
              types |-> [c \in Exported(w) |-> NameOf(w, c)],
              csv |-> [p \in gone |-> [c \in Exported(w) |-> BinText(table[p][c])]],
              was |-> [p \in gone |-> table[p]]]]      \* history
  /\ table' = [p \in Pks |-> IF p \in gone THEN NoRow ELSE table[p]]
  /\ UNCHANGED <<shape, extra, sources, registry>>

DeleteRow(w, p) == p \in RowsIn /\ SoftDelete(w, {p}, NoFilter)

BulkDelete(w, f) ==
  /\ ~Fails(f, Known(w), SqlType)
  /\ ~Unfiltered(f, Known(w))
  /\ SoftDelete(w, {p \in RowsIn : Selects(f, Known(w), table[p])}, f)

-----------------------------------------------------------------------------
(* restore_batch, restore_row, _insert_rows *)

Inserted(w, b) == Known(w) \cap DOMAIN batch[b].types

(* Types come from the sidecar, columns from both; a column that is not    *)
(* inserted takes its default, NULL.                                       *)
Insertable(w, b, p) ==
  \A c \in Inserted(w, b) : Takes(SqlType[c], Nullable(c), batch[b].types[c], batch[b].csv[p][c])
Reborn(w, b, p) ==
  [c \in Fields |-> IF c \in Inserted(w, b) THEN Cell(batch[b].csv[p][c]) ELSE NULL]

(* One row that does not fit rolls the whole restore back; the foreign key *)
(* is checked of rows that ON CONFLICT has not skipped.                    *)
Insert(w, b, S) ==
  /\ \A p \in S : Insertable(w, b, p)
  /\ \A p \in S \ RowsIn : Refers(Reborn(w, b, p))
  /\ table' = [p \in Pks |-> IF p \in S \ RowsIn THEN Reborn(w, b, p) ELSE table[p]]

RestoreBatch(w, b) ==
  /\ batch[b] # NoBatch
  /\ batch[b].status = "active"
  /\ Insert(w, b, DOMAIN batch[b].csv)
  /\ batch' = [batch EXCEPT ![b].status = "restored"]
  /\ UNCHANGED <<shape, extra, sources, registry>>

RestoreRow(w, b, p) ==
  /\ batch[b] # NoBatch
  /\ p \in batch[b].listed
  /\ Insert(w, b, {p})
  /\ batch' = [batch EXCEPT ![b].listed = @ \ {p},
                            ![b].status = IF batch[b].listed = {p} THEN "restored"
                                          ELSE batch[b].status]
  /\ UNCHANGED <<shape, extra, sources, registry>>

-----------------------------------------------------------------------------
(* update_row, one column: a value of another kind, an empty one in a NOT  *)
(* NULL column, a type the registry misnames and a source that is not      *)
(* there are refused.                                                      *)
EditRow(w, p, c, t) ==
  LET name == NameOf(w, c)
      edited == [table[p] EXCEPT ![c] = EditedCell(name, t)]
  IN
  /\ p \in RowsIn
  /\ c \in Known(w)
  /\ Understood(name, t)
  /\ Takes(SqlType[c], Nullable(c), name, t)
  /\ Refers(edited)
  /\ table' = [table EXCEPT ![p] = edited]
  /\ UNCHANGED <<shape, extra, sources, registry, batch>>

Next == \/ Migrate
        \/ \E p \in Pks, row \in Rows : Load(p, row)
        \/ \E s \in Sources : AddSource(s) \/ DropSource(s)
        \/ \E w \in Workers :
              \/ \E live \in BOOLEAN : Restart(w, live)
              \/ \E p \in Pks : DeleteRow(w, p)
              \/ \E f \in Filters : BulkDelete(w, f)
              \/ \E b \in Batches : RestoreBatch(w, b)
              \/ \E b \in Batches, p \in Pks : RestoreRow(w, b, p)
              \/ \E p \in Pks, e \in Edits : EditRow(w, p, e[1], e[2])

Spec == Init /\ [][Next]_vars

-----------------------------------------------------------------------------
(* Properties *)

(* Every variable has its type; every row fits the table, archived ones    *)
(* included, and those of the table refer to sources that are there.       *)
Active == {b \in Batches : batch[b] # NoBatch /\ batch[b].status = "active"}
BatchOk(r) ==
  /\ r.status \in {"active", "restored"}
  /\ r.summary \in Filters \cup {NoFilter}
  /\ DOMAIN r.csv \subseteq Pks /\ DOMAIN r.was = DOMAIN r.csv /\ r.listed \subseteq DOMAIN r.csv
  /\ Original \subseteq DOMAIN r.types /\ DOMAIN r.types \subseteq Columns
  /\ \A c \in DOMAIN r.types : r.types[c] \in {SqlType[c], LiveName(SqlType[c])}
  /\ \A p \in DOMAIN r.csv : /\ r.was[p] \in Row /\ Fits(r.was[p])
                             /\ Referring => r.was[p]["source"] \in Sources \cup {NULL}
                             /\ r.csv[p] = [c \in DOMAIN r.types |-> BinText(r.was[p][c])]
TypeOK == /\ shape \in Shapes
          /\ extra \in BOOLEAN
          /\ registry \in [Workers -> Registry]
          /\ \A w \in Workers : registry[w].extra => extra
          /\ sources \subseteq Sources
          /\ \A p \in RowsIn : table[p] \in Row /\ Fits(table[p]) /\ Refers(table[p])
          /\ \A b \in Batches : batch[b] # NoBatch => BatchOk(batch[b])

(* A row that comes back from the bin has in every column what it had when *)
(* it was deleted, except: the empty string has become NULL, an amount     *)
(* beyond the precision of a float is rounded, and a column that the       *)
(* registry of the deleting or of the restoring worker did not know is     *)
(* NULL.                                                                   *)
Altered(b, p, c) == CASE batch[b].was[p][c] = "" -> NULL
                      [] OTHER -> Jsonable(batch[b].was[p][c])
Lost(w, b, c) == c \notin Original /\ (c \notin DOMAIN batch[b].types \/ c \notin Known(w))
RowsComeBackWhole ==
  [][\A p \in Archived : table[p] = NoRow /\ table'[p] # NoRow
       => \E w \in Workers, b \in Batches :
             /\ RestoreBatch(w, b) \/ \E q \in Pks : RestoreRow(w, b, q)
             /\ p \in DOMAIN batch[b].csv
             /\ \A c \in Columns : table'[p][c] = IF Lost(w, b, c) THEN NULL ELSE Altered(b, p, c)]_vars

(* storage.py:4 promises a sidecar with which "a restore can round-trip    *)
(* values back into Postgres with the right types even years later".       *)
(* Whatever the registries of the two workers, a row in the bin can be     *)
(* restored, unless a column was recorded under a name that the restore    *)
(* does not know for an integer (a bigint of the live catalog), the column *)
(* is an array, it is NOT NULL and holds an empty text, or the row is not  *)
(* in the table and the source it refers to has been deleted after it.     *)
Mistyped(type, name) == type = "_text" \/ name = "bigint"
Restorable(w, b, p) == Insertable(w, b, p) /\ (p \in RowsIn \/ Refers(Reborn(w, b, p)))
SourceGone(b, p) == Referring /\ batch[b].was[p]["source"] \in Sources \ sources
CellRefused(b, p) == \E c \in DOMAIN batch[b].types :
                        \/ Mistyped(SqlType[c], batch[b].types[c]) /\ batch[b].csv[p][c] # ""
                        \/ batch[b].was[p][c] = "" /\ ~Nullable(c)
RefusedRestoresAreExplained ==
  \A w \in Workers, b \in Active : \A p \in DOMAIN batch[b].csv :
     Restorable(w, b, p) \/ CellRefused(b, p) \/ (p \notin RowsIn /\ SourceGone(b, p))

(* The rows of a bulk batch are those that its filter_summary, the only    *)
(* account an administrator has of them, names: the year and the source of *)
(* the request, for a table with such a column and a source that is an id. *)
ArchiveMatchesSummary ==
  \A b \in Batches : batch[b] # NoBatch =>
    \A p \in DOMAIN batch[b].was :
      LET f == batch[b].summary IN
      /\ f.year # "" /\ shape.year => batch[b].was[p]["year"] = f.year
      /\ Integer(f.source) /\ shape.source # "none" => batch[b].was[p]["source"] = f.source

(* tables.py:217: "the sample re-uploads cleanly".  A cell of the template,*)
(* uploaded again through any worker, is the value it was written from;    *)
(* where COPY refuses it, the type is one the worker misnames, or the text *)
(* of a NOT NULL column is empty.                                          *)
TemplateReuploads ==
  \A w \in Workers, p \in RowsIn : \A c \in Known(w) :
    LET v == table[p][c]
        t == TemplateText(v)
    IN  IF Takes(SqlType[c], Nullable(c), NameOf(w, c), t)
        THEN Cell(t) = v \/ v = ""
        ELSE Mistyped(SqlType[c], NameOf(w, c)) \/ (v = "" /\ ~Nullable(c))
=============================================================================
