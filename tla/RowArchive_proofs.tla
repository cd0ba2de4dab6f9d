-------------------------- MODULE RowArchive_proofs --------------------------
(***************************************************************************)
(* Proofs about RowArchive, for every shape of the table, any number of    *)
(* rows, batches and workers, and every history of migrations and restarts.*)
(***************************************************************************)
EXTENDS RowArchive, TLAPS

-----------------------------------------------------------------------------
(* One cell *)

LEMMA BinCell ==
  ASSUME NEW type \in Types, NEW v \in Holds(type) \cup {NULL}
  PROVE  /\ Cell(BinText(v)) \in Holds(type) \cup {NULL}
         /\ Cell(BinText(v)) = IF v = "" THEN NULL ELSE Jsonable(v)
         /\ BinText(v) = "" <=> v \in {"", NULL}
         /\ BinText(v) # "" => Cell(BinText(v)) # NULL
  BY DEF Types, Holds, NULL, Cell, BinText, Jsonable, Integers4, Amounts, Words

(* Only a bigint, and an array, are misnamed. *)
LEMMA NamesRead ==
  ASSUME NEW type \in Types, NEW name \in {type, LiveName(type)}
  PROVE  Reader(name) = Encoder(type) \/ type = "_text" \/ name = "bigint"
  BY DEF Types, LiveName, Reader, Encoder

LEMMA EditedFits ==
  ASSUME NEW type \in Types, NEW name \in {type, LiveName(type)}, NEW nullable \in BOOLEAN,
         NEW t \in Sent, Understood(name, t), Takes(type, nullable, name, t)
  PROVE  EditedCell(name, t) \in Holds(type) \/ (EditedCell(name, t) = NULL /\ nullable)
<1>1. CASE t = ""
  BY <1>1 DEF Takes, EditedCell, Cell, Jsonable
<1>2. CASE t # ""
  <2>1. Reader(name) = Encoder(type) /\ Reader(name) \in {"int", "Decimal", "datetime", "str"}
    BY <1>2 DEF Takes, Reader
  <2>2. CASE Reader(name) = "int"
    BY <1>2, <2>1, <2>2 DEF Types, Encoder, Understood, EditedCell, Cell, Jsonable, Holds, Integers4
  <2>3. CASE Reader(name) = "Decimal"
    BY <1>2, <2>1, <2>3 DEF Types, Encoder, Understood, EditedCell, Cell, Jsonable, Holds, Amounts
  <2>4. CASE Reader(name) = "datetime"
    BY <1>2, <2>1, <2>4 DEF Understood
  <2>5. CASE Reader(name) = "str"
    BY <1>2, <2>1, <2>5 DEF Types, Encoder, Understood, EditedCell, Cell, Jsonable, Holds, Words
  <2> QED  BY <2>1, <2>2, <2>3, <2>4, <2>5
<1> QED  BY <1>1, <1>2

-----------------------------------------------------------------------------
(* Types *)

Batch(r) == r = [status |-> r.status, summary |-> r.summary, listed |-> r.listed,
                 types |-> r.types, csv |-> r.csv, was |-> r.was]
Typing == /\ TypeOK
          /\ table \in [Pks -> Row \cup {NoRow}]
          /\ batch = [b \in Batches |-> batch[b]]
          /\ \A b \in Batches : batch[b] # NoBatch => Batch(batch[b])

LEMMA ColumnTypes ==
  ASSUME shape \in Shapes
  PROVE  /\ \A c \in Columns : SqlType[c] \in Types /\ c \in Fields
         /\ Original \subseteq Columns
         /\ \A c \in Columns \ Original : c = "extra" /\ Nullable(c)
         /\ \A c \in Fields : Nullable(c) \in BOOLEAN
<1>1. shape \in Shape
  BY ShapesAssumption
<1> QED  BY <1>1 DEF Shape, Columns, Original, SqlType, Types, Fields, Nullable

LEMMA KnownColumns ==
  ASSUME TypeOK, NEW w \in Workers
  PROVE  /\ Original \subseteq Known(w) /\ Known(w) \subseteq Columns
         /\ Exported(w) = Known(w)
         /\ \A c \in Known(w) : NameOf(w, c) \in {SqlType[c], LiveName(SqlType[c])}
  BY DEF TypeOK, Known, Columns, Exported, NameOf, TypeName, Registry

LEMMA TypeInit == Init => Typing
<1> SUFFICES ASSUME Init PROVE Typing
  OBVIOUS
<1>1. table \in [Pks -> Row \cup {NoRow}] /\ RowsIn = {}
  BY DEF Init, RowsIn
<1>2. \A b \in Batches : batch[b] = NoBatch
  BY DEF Init
<1>3. batch = [b \in Batches |-> batch[b]]
  BY DEF Init
<1>4. registry \in [Workers -> Registry] /\ \A w \in Workers : ~registry[w].extra
  BY DEF Init, Registry
<1>5. shape \in Shapes /\ extra \in BOOLEAN /\ sources \subseteq Sources
  BY DEF Init
<1> QED  BY <1>1, <1>2, <1>3, <1>4, <1>5 DEF Typing, TypeOK

(* What a delete writes is a good batch, and a row comes back as it fits. *)
LEMMA DeleteTypes ==
  ASSUME Typing, NEW w \in Workers, NEW gone \in SUBSET RowsIn, NEW f \in Filters \cup {NoFilter},
         SoftDelete(w, gone, f)
  PROVE  Typing'
<1> USE DEF Typing
<1>0. \A c \in Columns : SqlType[c] \in Types /\ c \in Fields
  BY ColumnTypes DEF TypeOK
<1>1. /\ UNCHANGED <<shape, extra, sources, registry>>
      /\ Columns' = Columns /\ Original' = Original /\ SqlType' = SqlType /\ Referring' = Referring
  BY DEF SoftDelete, Columns, Original, SqlType, Referring
<1>2. \A c : Nullable(c)' = Nullable(c)
  BY <1>1 DEF Nullable
<1>3. \A row : Fits(row)' = Fits(row) /\ Refers(row)' = Refers(row)
  BY <1>1, <1>2 DEF Fits, Refers
<1> DEFINE new == [status |-> "active", summary |-> f, listed |-> gone,
                   types |-> [c \in Exported(w) |-> NameOf(w, c)],
                   csv |-> [p \in gone |-> [c \in Exported(w) |-> BinText(table[p][c])]],
                   was |-> [p \in gone |-> table[p]]]
<1>4. PICK b \in Batches : batch' = [batch EXCEPT ![b] = new]
  BY DEF SoftDelete
<1>5. Batch(new) /\ BatchOk(new)
  BY KnownColumns DEF Batch, BatchOk, RowsIn, TypeOK, Refers
<1>6. table' = [p \in Pks |-> IF p \in gone THEN NoRow ELSE table[p]]
  BY DEF SoftDelete
<1> HIDE DEF new
<1>7. /\ table' \in [Pks -> Row \cup {NoRow}]
      /\ \A p \in RowsIn' : table'[p] \in Row /\ Fits(table'[p]) /\ Refers(table'[p])
  BY <1>6 DEF RowsIn, TypeOK
<1>8. batch' = [c \in Batches |-> batch'[c]] /\ \A c \in Batches : batch'[c] # NoBatch =>
          Batch(batch'[c]) /\ BatchOk(batch'[c])
  BY <1>4, <1>5 DEF TypeOK
<1>9. \A r : BatchOk(r)' = BatchOk(r)
  BY <1>1, <1>3 DEF BatchOk
<1> QED  BY <1>1, <1>3, <1>7, <1>8, <1>9 DEF TypeOK, Batch

LEMMA Archived1 ==
  ASSUME Typing, NEW b \in Batches, batch[b] # NoBatch, NEW p, p \in DOMAIN batch[b].csv
  PROVE  /\ p \in Pks
         /\ Original \subseteq DOMAIN batch[b].types /\ DOMAIN batch[b].types \subseteq Columns
         /\ \A c \in DOMAIN batch[b].types :
              /\ SqlType[c] \in Types /\ c \in Fields
              /\ batch[b].types[c] \in {SqlType[c], LiveName(SqlType[c])}
              /\ batch[b].csv[p][c] = BinText(batch[b].was[p][c])
              /\ batch[b].was[p][c] \in Holds(SqlType[c]) \cup {NULL}
              /\ batch[b].was[p][c] = NULL => Nullable(c) \/ NULL \in Holds(SqlType[c])
<1>1. BatchOk(batch[b])
  BY DEF Typing, TypeOK
<1>2. \A c \in Columns : SqlType[c] \in Types /\ c \in Fields
  BY ColumnTypes DEF Typing, TypeOK
<1>3. Fits(batch[b].was[p])
  BY <1>1 DEF BatchOk
<1>4. batch[b].csv[p] = [c \in DOMAIN batch[b].types |-> BinText(batch[b].was[p][c])]
  BY <1>1 DEF BatchOk
<1> QED  BY <1>1, <1>2, <1>3, <1>4 DEF BatchOk, Fits

LEMMA HeldValues ==
  ASSUME NEW type \in Types
  PROVE  Holds(type) \subseteq Values /\ NULL \in Values /\ NULL \notin Holds(type)
  BY DEF Types, Holds, Values, NULL, Integers4, Amounts, Words

LEMMA RebornFits ==
  ASSUME Typing, NEW w \in Workers, NEW b \in Batches, batch[b] # NoBatch,
         NEW p, p \in DOMAIN batch[b].csv, Insertable(w, b, p)
  PROVE  Reborn(w, b, p) \in Row /\ Fits(Reborn(w, b, p))
<1>1. /\ Original \subseteq Inserted(w, b) /\ Inserted(w, b) \subseteq Columns
      /\ Inserted(w, b) \subseteq DOMAIN batch[b].types
  BY Archived1, KnownColumns DEF Inserted, Typing
<1>2. \A c \in Columns \ Original : c = "extra" /\ Nullable(c)
  BY ColumnTypes DEF Typing, TypeOK
<1>c. \A c \in Columns : c \in Fields /\ SqlType[c] \in Types
  BY ColumnTypes DEF Typing, TypeOK
<1>3. ASSUME NEW c \in Inserted(w, b)
      PROVE  /\ Reborn(w, b, p)[c] \in Holds(SqlType[c]) \cup {NULL}
             /\ Reborn(w, b, p)[c] = NULL => Nullable(c)
  <2>1. /\ batch[b].csv[p][c] = BinText(batch[b].was[p][c]) /\ SqlType[c] \in Types /\ c \in Fields
        /\ batch[b].was[p][c] \in Holds(SqlType[c]) \cup {NULL}
    BY <1>1, Archived1
  <2>2. Reborn(w, b, p)[c] = Cell(BinText(batch[b].was[p][c]))
    BY <2>1 DEF Reborn
  <2>3. Takes(SqlType[c], Nullable(c), batch[b].types[c], BinText(batch[b].was[p][c]))
    BY <2>1 DEF Insertable
  <2>4. BinText(batch[b].was[p][c]) = "" => Nullable(c)
    BY <2>3 DEF Takes
  <2>5. \A type \in Types : \A v \in Holds(type) \cup {NULL} :
           /\ Cell(BinText(v)) \in Holds(type) \cup {NULL}
           /\ Cell(BinText(v)) = NULL => BinText(v) = ""
    BY BinCell
  <2> QED  BY <2>1, <2>2, <2>4, <2>5
<1>4. \A c \in Fields \ Inserted(w, b) : Reborn(w, b, p)[c] = NULL
  BY DEF Reborn
<1>5. \A c \in Fields : Reborn(w, b, p)[c] \in Values
  <2>1. \A c \in Inserted(w, b) : Holds(SqlType[c]) \cup {NULL} \subseteq Values
    BY <1>1, <1>c, HeldValues
  <2>2. NULL \in Values
    BY DEF Values
  <2> QED  BY <1>3, <1>4, <2>1, <2>2
<1>6. Reborn(w, b, p) \in Row
  BY <1>5 DEF Reborn, Row
<1>7. ASSUME NEW c \in Fields
      PROVE  IF c \in Columns
             THEN \/ Reborn(w, b, p)[c] \in Holds(SqlType[c])
                  \/ Reborn(w, b, p)[c] = NULL /\ Nullable(c)
             ELSE Reborn(w, b, p)[c] = NULL
  <2>1. CASE c \in Inserted(w, b)
    BY <1>1, <1>3, <2>1
  <2>2. CASE c \notin Inserted(w, b)
    BY <1>1, <1>2, <1>4, <2>2
  <2> QED  BY <2>1, <2>2
<1> QED  BY <1>6, <1>7 DEF Fits

Marked(r, s, l) == [status |-> s, summary |-> r.summary, listed |-> l,
                    types |-> r.types, csv |-> r.csv, was |-> r.was]

LEMMA MarkedStatus ==
  ASSUME NEW r, Batch(r), NEW s
  PROVE  [r EXCEPT !.status = s] = Marked(r, s, r.listed)
<1>1. DOMAIN r = {"status", "summary", "listed", "types", "csv", "was"}
  BY DEF Batch
<1> QED  BY <1>1 DEF Batch, Marked

LEMMA MarkedListed ==
  ASSUME Typing, NEW b \in Batches, batch[b] # NoBatch, NEW s, NEW l
  PROVE  [batch EXCEPT ![b].listed = l, ![b].status = s] = [batch EXCEPT ![b] = Marked(batch[b], s, l)]
<1>1. Batch(batch[b])
  BY DEF Typing
<1>2. DOMAIN batch[b] = {"status", "summary", "listed", "types", "csv", "was"}
  BY <1>1 DEF Batch
<1> DEFINE one == [batch EXCEPT ![b].listed = l]
           two == [batch EXCEPT ![b].listed = l, ![b].status = s]
<1>3. \A c \in Batches : two[c] = IF c = b THEN [one[b] EXCEPT !.status = s] ELSE batch[c]
  BY DEF Typing
<1>4. one[b] = [batch[b] EXCEPT !.listed = l]
  BY DEF Typing
<1>5. one[b] = Marked(batch[b], batch[b].status, l)
  BY <1>1, <1>2, <1>4 DEF Batch, Marked
<1>6. [one[b] EXCEPT !.status = s] = Marked(batch[b], s, l)
  BY <1>5 DEF Marked
<1>7. DOMAIN two = Batches /\ DOMAIN batch = Batches
  BY DEF Typing
<1> QED  BY <1>3, <1>6, <1>7 DEF Typing

(* A restore marks one batch and inserts rows that fit. *)
LEMMA RestoreTypes ==
  ASSUME Typing, NEW w \in Workers, NEW b \in Batches, batch[b] # NoBatch,
         NEW S, S \subseteq DOMAIN batch[b].csv, Insert(w, b, S),
         NEW s \in {"active", "restored"}, NEW l, l \subseteq DOMAIN batch[b].csv,
         batch' = [batch EXCEPT ![b] = Marked(batch[b], s, l)],
         UNCHANGED <<shape, extra, sources, registry>>
  PROVE  Typing'
<1>1. /\ Columns' = Columns /\ Original' = Original /\ SqlType' = SqlType /\ Referring' = Referring
  BY DEF Columns, Original, SqlType, Referring
<1>n. \A c : Nullable(c)' = Nullable(c)
  BY DEF Nullable
<1>f. \A row : Fits(row)' = Fits(row) /\ Refers(row)' = Refers(row)
  BY <1>1, <1>n DEF Fits, Refers
<1>2. \A r : BatchOk(r)' = BatchOk(r)
  BY <1>1, <1>f DEF BatchOk
<1>3. S \subseteq Pks
  BY Archived1
<1>4. \A p \in Pks : table'[p] = IF p \in S \ RowsIn THEN Reborn(w, b, p) ELSE table[p]
  BY DEF Insert
<1>5. /\ \A p \in S : Reborn(w, b, p) \in Row /\ Fits(Reborn(w, b, p))
      /\ \A p \in S \ RowsIn : Refers(Reborn(w, b, p))
  BY RebornFits DEF Insert
<1>6. /\ table' \in [Pks -> Row \cup {NoRow}]
      /\ \A p \in RowsIn' : table'[p] \in Row /\ Fits(table'[p]) /\ Refers(table'[p])
  BY <1>4, <1>5 DEF Insert, Typing, TypeOK, RowsIn
<1> DEFINE old == batch[b]
           new == Marked(old, s, l)
<1>7. BatchOk(old)
  BY DEF Typing, TypeOK
<1>8. /\ new.status = s /\ new.listed = l
      /\ new.summary = old.summary /\ new.types = old.types /\ new.csv = old.csv /\ new.was = old.was
      /\ Batch(new)
  BY DEF Marked, Batch
<1>9. BatchOk(new)
  BY <1>7, <1>8 DEF BatchOk
<1>10. batch' = [batch EXCEPT ![b] = new]
  OBVIOUS
<1> HIDE DEF new
<1>11. batch' = [c \in Batches |-> batch'[c]] /\ \A c \in Batches : batch'[c] # NoBatch =>
          Batch(batch'[c]) /\ BatchOk(batch'[c])
  BY <1>8, <1>9, <1>10 DEF Typing, TypeOK
<1> QED  BY <1>2, <1>f, <1>6, <1>11 DEF Typing, TypeOK, Batch

(* Steps that leave columns and batches alone. *)
LEMMA TableTypes ==
  ASSUME Typing, UNCHANGED <<shape, extra, sources, registry, batch>>,
         NEW p \in Pks, NEW row \in Row, Fits(row), Refers(row), table' = [table EXCEPT ![p] = row]
  PROVE  Typing'
<1>1. /\ Columns' = Columns /\ Original' = Original /\ SqlType' = SqlType /\ Referring' = Referring
  BY DEF Columns, Original, SqlType, Referring
<1>2. \A c : Nullable(c)' = Nullable(c)
  BY DEF Nullable
<1>3. \A r : Fits(r)' = Fits(r) /\ Refers(r)' = Refers(r)
  BY <1>1, <1>2 DEF Fits, Refers
<1>4. \A r : BatchOk(r)' = BatchOk(r)
  BY <1>1, <1>3 DEF BatchOk
<1>5. /\ table' \in [Pks -> Row \cup {NoRow}]
      /\ \A q \in RowsIn' : table'[q] \in Row /\ Fits(table'[q]) /\ Refers(table'[q])
  BY <1>3 DEF Typing, TypeOK, RowsIn
<1> QED  BY <1>3, <1>4, <1>5 DEF Typing, TypeOK, Batch

LEMMA EditTypes ==
  ASSUME Typing, NEW w \in Workers, NEW p \in Pks, NEW e \in Edits, EditRow(w, p, e[1], e[2])
  PROVE  Typing'
<1> DEFINE c == e[1]
           t == e[2]
           cell == EditedCell(NameOf(w, c), t)
           row == [table[p] EXCEPT ![c] = cell]
<1>1. c \in Fields /\ t \in Sent
  BY EditsAssumption
<1>2. c \in Columns /\ NameOf(w, c) \in {SqlType[c], LiveName(SqlType[c])}
  BY KnownColumns DEF EditRow, Typing
<1>3. SqlType[c] \in Types /\ Nullable(c) \in BOOLEAN
  BY <1>1, <1>2, ColumnTypes DEF Typing, TypeOK
<1>4. table[p] \in Row /\ Fits(table[p])
  BY DEF EditRow, Typing, TypeOK
<1>5. Understood(NameOf(w, c), t) /\ Takes(SqlType[c], Nullable(c), NameOf(w, c), t)
  BY DEF EditRow
<1>6. /\ table' = [table EXCEPT ![p] = row] /\ Refers(row)
      /\ UNCHANGED <<shape, extra, sources, registry, batch>>
  BY DEF EditRow, Typing
<1> HIDE DEF c, t
<1>7. cell \in Holds(SqlType[c]) \/ (cell = NULL /\ Nullable(c))
  BY <1>1, <1>2, <1>3, <1>5, EditedFits
<1>8. cell \in Values
  BY <1>3, <1>7, HeldValues
<1> HIDE DEF cell
<1>9. row \in Row /\ \A d \in Fields : row[d] = IF d = c THEN cell ELSE table[p][d]
  BY <1>1, <1>4, <1>8 DEF Row
<1> HIDE DEF row
<1>10. Fits(row)
  BY <1>2, <1>4, <1>7, <1>9 DEF Fits
<1> QED  BY <1>6, <1>9, <1>10, TableTypes

LEMMA MigrateTypes == Typing /\ Migrate => Typing'
<1> SUFFICES ASSUME Typing, Migrate PROVE Typing'
  OBVIOUS
<1>1. /\ ~extra /\ extra' /\ extra' \in BOOLEAN
      /\ UNCHANGED <<shape, sources, registry, table, batch>>
  BY DEF Migrate
<1>2. /\ Referring' = Referring /\ Original' = Original /\ SqlType' = SqlType /\ Columns = Original /\ Columns' = Original \cup {"extra"}
  BY <1>1 DEF Columns, Original, SqlType, Referring
<1>3. \A c : Nullable(c)' = Nullable(c)
  BY <1>1 DEF Nullable
<1>4. Nullable("extra") /\ "extra" \notin Original
  BY DEF Nullable, Original
<1>5. \A r : (Fits(r) => Fits(r)') /\ Refers(r)' = Refers(r)
  BY <1>1, <1>2, <1>3, <1>4 DEF Fits, Refers
<1>6. \A r : BatchOk(r) => BatchOk(r)'
  BY <1>2, <1>5 DEF BatchOk
<1> QED  BY <1>1, <1>5, <1>6 DEF Typing, TypeOK, RowsIn, Batch

LEMMA RestartTypes ==
  ASSUME Typing, NEW w \in Workers, NEW live \in BOOLEAN, Restart(w, live)
  PROVE  Typing'
<1>1. UNCHANGED <<shape, extra, sources, table, batch>>
  BY DEF Restart
<1>2. /\ Columns' = Columns /\ Original' = Original /\ SqlType' = SqlType /\ Referring' = Referring
  BY <1>1 DEF Columns, Original, SqlType, Referring
<1>3. \A c : Nullable(c)' = Nullable(c)
  BY <1>1 DEF Nullable
<1>4. \A r : Fits(r)' = Fits(r) /\ Refers(r)' = Refers(r)
  BY <1>1, <1>2, <1>3 DEF Fits, Refers
<1>5. \A r : BatchOk(r)' = BatchOk(r)
  BY <1>2, <1>4 DEF BatchOk
<1>6. registry' \in [Workers -> Registry] /\ \A v \in Workers : registry'[v].extra => extra
  BY DEF Restart, Typing, TypeOK, Registry
<1> QED  BY <1>1, <1>4, <1>5, <1>6 DEF Typing, TypeOK, RowsIn, Batch

LEMMA SourceTypes ==
  ASSUME Typing, NEW s \in Sources, AddSource(s) \/ DropSource(s)
  PROVE  Typing'
<1>1. UNCHANGED <<shape, extra, registry, table, batch>> /\ sources' \subseteq Sources
  BY DEF AddSource, DropSource, Typing, TypeOK
<1>2. /\ Columns' = Columns /\ Original' = Original /\ SqlType' = SqlType /\ Referring' = Referring
      /\ RowsIn' = RowsIn
  BY <1>1 DEF Columns, Original, SqlType, Referring, RowsIn
<1>3. \A c : Nullable(c)' = Nullable(c)
  BY <1>1 DEF Nullable
<1>4. \A r : Fits(r)' = Fits(r)
  BY <1>2, <1>3 DEF Fits
<1>5. \A r : BatchOk(r)' = BatchOk(r)
  BY <1>2, <1>4 DEF BatchOk
<1>6. ASSUME NEW p \in RowsIn PROVE Refers(table[p])'
  <2>1. CASE AddSource(s)
    BY <1>1, <1>2, <2>1 DEF AddSource, Refers, Typing, TypeOK
  <2>2. CASE DropSource(s)
    BY <1>1, <1>2, <2>2 DEF DropSource, Refers, Typing, TypeOK
  <2> QED  BY <2>1, <2>2
<1> QED  BY <1>1, <1>2, <1>4, <1>5, <1>6 DEF Typing, TypeOK, Batch

LEMMA TypeStep == Typing /\ [Next]_vars => Typing'
<1> SUFFICES ASSUME Typing, [Next]_vars PROVE Typing'
  OBVIOUS
<1>1. CASE Migrate
  BY <1>1, MigrateTypes
<1>2. ASSUME NEW p \in Pks, NEW row \in Rows, Load(p, row) PROVE Typing'
  BY <1>2, RowsAssumption, TableTypes DEF Load
<1>3. ASSUME NEW w \in Workers, NEW live \in BOOLEAN, Restart(w, live) PROVE Typing'
  BY <1>3, RestartTypes
<1>4. ASSUME NEW w \in Workers, NEW p \in Pks, DeleteRow(w, p) PROVE Typing'
  BY <1>4, DeleteTypes DEF DeleteRow
<1>5. ASSUME NEW w \in Workers, NEW f \in Filters, BulkDelete(w, f) PROVE Typing'
  BY <1>5, DeleteTypes DEF BulkDelete
<1>6. ASSUME NEW w \in Workers, NEW b \in Batches, RestoreBatch(w, b) PROVE Typing'
  <2>1. Batch(batch[b]) /\ BatchOk(batch[b])
    BY <1>6 DEF RestoreBatch, Typing, TypeOK
  <2>2. batch' = [batch EXCEPT ![b] = Marked(batch[b], "restored", batch[b].listed)]
    BY <1>6, <2>1, MarkedStatus DEF RestoreBatch
  <2>3. batch[b].listed \subseteq DOMAIN batch[b].csv
    BY <2>1 DEF BatchOk
  <2> QED  BY <1>6, <2>2, <2>3, RestoreTypes DEF RestoreBatch
<1>7. ASSUME NEW w \in Workers, NEW b \in Batches, NEW p \in Pks, RestoreRow(w, b, p) PROVE Typing'
  <2> DEFINE s == IF batch[b].listed = {p} THEN "restored" ELSE batch[b].status
             l == batch[b].listed \ {p}
  <2>1. BatchOk(batch[b]) /\ batch[b] # NoBatch
    BY <1>7 DEF RestoreRow, Typing, TypeOK
  <2>2. s \in {"active", "restored"} /\ l \subseteq DOMAIN batch[b].csv /\ p \in DOMAIN batch[b].csv
    BY <1>7, <2>1 DEF BatchOk, RestoreRow
  <2>3. batch' = [batch EXCEPT ![b].listed = l, ![b].status = s]
    BY <1>7 DEF RestoreRow, Typing
  <2> HIDE DEF s, l
  <2>4. batch' = [batch EXCEPT ![b] = Marked(batch[b], s, l)]
    BY <2>1, <2>3, MarkedListed
  <2>5. Insert(w, b, {p}) /\ UNCHANGED <<shape, extra, sources, registry>>
    BY <1>7 DEF RestoreRow
  <2> QED  BY <2>1, <2>2, <2>4, <2>5, RestoreTypes
<1>8. ASSUME NEW w \in Workers, NEW p \in Pks, NEW e \in Edits, EditRow(w, p, e[1], e[2]) PROVE Typing'
  BY <1>8, EditTypes
<1>9. ASSUME NEW s \in Sources, AddSource(s) \/ DropSource(s) PROVE Typing'
  BY <1>9, SourceTypes
<1>10. CASE UNCHANGED vars
  <2>1. /\ Columns' = Columns /\ Original' = Original /\ SqlType' = SqlType /\ Referring' = Referring
        /\ UNCHANGED <<shape, extra, sources, registry, table, batch>> /\ RowsIn' = RowsIn
    BY <1>10 DEF vars, Columns, Original, SqlType, Referring, RowsIn
  <2>2. \A c : Nullable(c)' = Nullable(c)
    BY <2>1 DEF Nullable
  <2>3. \A r : Fits(r)' = Fits(r) /\ Refers(r)' = Refers(r)
    BY <2>1, <2>2 DEF Fits, Refers
  <2>4. \A r : BatchOk(r)' = BatchOk(r)
    BY <2>1, <2>3 DEF BatchOk
  <2> QED  BY <2>1, <2>3, <2>4 DEF Typing, TypeOK, Batch
<1> QED  BY <1>1, <1>2, <1>3, <1>4, <1>5, <1>6, <1>7, <1>8, <1>9, <1>10 DEF Next

(* Whatever is migrated, loaded, edited, deleted, restored and restarted,  *)
(* rows fit the table and refer to sources that are there, and a batch     *)
(* describes its CSV.                                                      *)
THEOREM TypeCorrect == Spec => []TypeOK
<1>1. Typing => TypeOK
  BY DEF Typing
<1> QED  BY TypeInit, TypeStep, <1>1, PTL DEF Spec

-----------------------------------------------------------------------------
(* What the bin keeps of a row *)

LEMMA BinCellAll ==
  \A type \in Types : \A v \in Holds(type) \cup {NULL} :
     Cell(BinText(v)) = IF v = "" THEN NULL ELSE Jsonable(v)
  BY BinCell

(* A cell that the restore refuses. *)
LEMMA RefusedCell ==
  ASSUME Typing, NEW w \in Workers, NEW b \in Active, NEW p \in DOMAIN batch[b].csv,
         NEW c \in Inserted(w, b),
         ~Takes(SqlType[c], Nullable(c), batch[b].types[c], batch[b].csv[p][c])
  PROVE  \/ Mistyped(SqlType[c], batch[b].types[c]) /\ batch[b].csv[p][c] # ""
         \/ batch[b].was[p][c] = "" /\ ~Nullable(c)
<1>1. b \in Batches /\ batch[b] # NoBatch /\ c \in DOMAIN batch[b].types
  BY DEF Active, Inserted
<1>2. /\ SqlType[c] \in Types
      /\ batch[b].types[c] \in {SqlType[c], LiveName(SqlType[c])}
      /\ batch[b].csv[p][c] = BinText(batch[b].was[p][c])
      /\ batch[b].was[p][c] \in Holds(SqlType[c]) \cup {NULL}
      /\ batch[b].was[p][c] = NULL => Nullable(c) \/ NULL \in Holds(SqlType[c])
  BY <1>1, Archived1
<1>3. NULL \notin Holds(SqlType[c])
  BY <1>2, HeldValues
<1>4. CASE batch[b].csv[p][c] = ""
  <2>1. batch[b].was[p][c] \in {"", NULL}
    BY <1>2, <1>4, BinCell
  <2>2. ~Nullable(c)
    BY <1>4 DEF Takes
  <2> QED  BY <1>2, <1>3, <2>1, <2>2
<1>5. CASE batch[b].csv[p][c] # ""
  <2>1. Reader(batch[b].types[c]) # Encoder(SqlType[c])
    BY <1>5 DEF Takes
  <2> QED  BY <1>2, <1>5, <2>1, NamesRead DEF Mistyped
<1> QED  BY <1>4, <1>5

(* A source that the restore does not find: it was there when the row was  *)
(* deleted.                                                                *)
LEMMA RefusedSource ==
  ASSUME Typing, NEW w \in Workers, NEW b \in Active, NEW p \in DOMAIN batch[b].csv,
         ~Refers(Reborn(w, b, p))
  PROVE  SourceGone(b, p)
<1>1. b \in Batches /\ batch[b] # NoBatch /\ Referring
  BY DEF Active, Refers
<1>2. /\ Original \subseteq DOMAIN batch[b].types
      /\ \A c \in DOMAIN batch[b].types :
           /\ SqlType[c] \in Types
           /\ batch[b].csv[p][c] = BinText(batch[b].was[p][c])
           /\ batch[b].was[p][c] \in Holds(SqlType[c]) \cup {NULL}
  BY <1>1, Archived1
<1>3. "source" \in Original
  BY <1>1 DEF Referring, Original
<1>4. "source" \in Inserted(w, b) /\ "source" \in DOMAIN batch[b].types
  BY <1>2, <1>3, KnownColumns DEF Inserted, Typing
<1>5. SqlType["source"] = "int4"
  BY <1>1 DEF SqlType, Referring
<1> DEFINE v == batch[b].was[p]["source"]
<1>6. v \in Holds("int4") \cup {NULL} /\ "int4" \in Types /\ batch[b].csv[p]["source"] = BinText(v)
  BY <1>2, <1>4, <1>5
<1>7. Reborn(w, b, p)["source"] = Cell(BinText(v))
  BY <1>4, <1>6 DEF Reborn, Fields
<1>8. Cell(BinText(v)) = v
  BY <1>6 DEF Holds, NULL, Cell, BinText, Jsonable, Integers4
<1>9. v \notin sources /\ v # NULL
  BY <1>7, <1>8 DEF Refers
<1>10. v \in Sources \cup {NULL}
  <2>1. BatchOk(batch[b])
    BY <1>1 DEF Typing, TypeOK
  <2> QED  BY <1>1, <2>1 DEF BatchOk
<1> QED  BY <1>1, <1>9, <1>10 DEF SourceGone

(* A row in the bin can be restored by any worker, unless a column is      *)
(* misnamed in the sidecar, is an array, or is NOT NULL and was empty, or  *)
(* the row is absent and its source has been deleted since.                *)
THEOREM RefusalsExplained == Spec => []RefusedRestoresAreExplained
<1>1. ASSUME Typing, NEW w \in Workers, NEW b \in Active, NEW p \in DOMAIN batch[b].csv,
             ~Restorable(w, b, p)
      PROVE  CellRefused(b, p) \/ (p \notin RowsIn /\ SourceGone(b, p))
  <2>1. CASE ~Insertable(w, b, p)
    <3>1. PICK c \in Inserted(w, b) :
             ~Takes(SqlType[c], Nullable(c), batch[b].types[c], batch[b].csv[p][c])
      BY <2>1 DEF Insertable
    <3>2. c \in DOMAIN batch[b].types
      BY DEF Inserted
    <3> QED  BY <1>1, <3>1, <3>2, RefusedCell DEF CellRefused
  <2>2. CASE p \notin RowsIn /\ ~Refers(Reborn(w, b, p))
    BY <1>1, <2>2, RefusedSource
  <2> QED  BY <1>1, <2>1, <2>2 DEF Restorable
<1>2. Typing => RefusedRestoresAreExplained
  BY <1>1 DEF RefusedRestoresAreExplained
<1> QED  BY TypeInit, TypeStep, <1>2, PTL DEF Spec

(* A row that comes back has what it had, but for the losses it names. *)
THEOREM RowsReturnWhole == Spec => RowsComeBackWhole
<1> DEFINE Comes(w, b, p) ==
             /\ p \in DOMAIN batch[b].csv
             /\ \A c \in Columns : table'[p][c] = IF Lost(w, b, c) THEN NULL ELSE Altered(b, p, c)
           Whole(p) ==
             p \in Archived /\ table[p] = NoRow /\ table'[p] # NoRow
               => \E w \in Workers, b \in Batches :
                     /\ RestoreBatch(w, b) \/ \E q \in Pks : RestoreRow(w, b, q)
                     /\ Comes(w, b, p)
<1>1. ASSUME Typing, NEW w \in Workers, NEW b \in Batches, batch[b] # NoBatch,
             NEW S, S \subseteq DOMAIN batch[b].csv, Insert(w, b, S), NEW p \in Pks,
             table[p] = NoRow, table'[p] # NoRow
      PROVE  Comes(w, b, p)
  <2>1. p \in S /\ table'[p] = Reborn(w, b, p)
    BY <1>1 DEF Insert
  <2>2. p \in DOMAIN batch[b].csv
    BY <1>1, <2>1
  <2>3. ASSUME NEW c \in Columns
        PROVE  table'[p][c] = IF Lost(w, b, c) THEN NULL ELSE Altered(b, p, c)
    <3>1. c \in Fields
      BY <1>1, ColumnTypes DEF Typing, TypeOK
    <3>2. Original \subseteq Inserted(w, b)
      BY <1>1, <2>2, Archived1, KnownColumns DEF Inserted, Typing
    <3>3. CASE c \in Inserted(w, b)
      <4>1. c \in DOMAIN batch[b].types /\ ~Lost(w, b, c)
        BY <3>3 DEF Inserted, Lost
      <4>2. /\ SqlType[c] \in Types
            /\ batch[b].csv[p][c] = BinText(batch[b].was[p][c])
            /\ batch[b].was[p][c] \in Holds(SqlType[c]) \cup {NULL}
        BY <1>1, <2>2, <4>1, Archived1
      <4>3. table'[p][c] = Cell(BinText(batch[b].was[p][c]))
        BY <2>1, <3>1, <3>3, <4>2 DEF Reborn
      <4> QED  BY <4>1, <4>2, <4>3, BinCellAll DEF Altered
    <3>4. CASE c \notin Inserted(w, b)
      <4>1. table'[p][c] = NULL
        BY <2>1, <3>1, <3>4 DEF Reborn
      <4>2. Lost(w, b, c)
        BY <3>2, <3>4 DEF Lost, Inserted
      <4> QED  BY <4>1, <4>2
    <3> QED  BY <3>3, <3>4
  <2> QED  BY <2>2, <2>3
<1>2. Typing /\ [Next]_vars => \A p \in Archived : table[p] = NoRow /\ table'[p] # NoRow
        => \E w \in Workers, b \in Batches :
              /\ RestoreBatch(w, b) \/ \E q \in Pks : RestoreRow(w, b, q)
              /\ p \in DOMAIN batch[b].csv
              /\ \A c \in Columns : table'[p][c] = IF Lost(w, b, c) THEN NULL ELSE Altered(b, p, c)
  <2> SUFFICES ASSUME Typing, [Next]_vars, NEW p \in Archived PROVE Whole(p)
    OBVIOUS
  <2>0. p \in Pks /\ table \in [Pks -> Row \cup {NoRow}]
    BY DEF Archived, Typing
  <2>1. CASE UNCHANGED table
    BY <2>1
  <2>2. CASE \/ Migrate \/ \E s \in Sources : AddSource(s) \/ DropSource(s)
             \/ \E w \in Workers, live \in BOOLEAN : Restart(w, live)
    BY <2>1, <2>2 DEF Migrate, AddSource, DropSource, Restart
  <2>3. ASSUME NEW q \in Pks, NEW row \in Rows, Load(q, row) PROVE Whole(p)
    BY <2>0, <2>3 DEF Load
  <2>4. ASSUME NEW w \in Workers, NEW gone \in SUBSET RowsIn, NEW f, SoftDelete(w, gone, f) PROVE Whole(p)
    BY <2>0, <2>4 DEF SoftDelete
  <2>5. ASSUME NEW w \in Workers, NEW q \in Pks, DeleteRow(w, q) PROVE Whole(p)
    BY <2>4, <2>5 DEF DeleteRow
  <2>6. ASSUME NEW w \in Workers, NEW f \in Filters, BulkDelete(w, f) PROVE Whole(p)
    BY <2>4, <2>6 DEF BulkDelete
  <2>7. ASSUME NEW w \in Workers, NEW b \in Batches, RestoreBatch(w, b) PROVE Whole(p)
    <3>1. batch[b] # NoBatch /\ Insert(w, b, DOMAIN batch[b].csv)
      BY <2>7 DEF RestoreBatch
    <3>2. table[p] = NoRow /\ table'[p] # NoRow => Comes(w, b, p)
      BY <1>1, <2>0, <3>1
    <3> QED  BY <2>7, <3>2
  <2>8. ASSUME NEW w \in Workers, NEW b \in Batches, NEW q \in Pks, RestoreRow(w, b, q) PROVE Whole(p)
    <3>1. BatchOk(batch[b]) /\ batch[b] # NoBatch /\ {q} \subseteq DOMAIN batch[b].csv /\ Insert(w, b, {q})
      BY <2>8 DEF RestoreRow, BatchOk, Typing, TypeOK
    <3>2. table[p] = NoRow /\ table'[p] # NoRow => Comes(w, b, p)
      BY <1>1, <2>0, <3>1
    <3> QED  BY <2>8, <3>2
  <2>9. ASSUME NEW w \in Workers, NEW q \in Pks, NEW e \in Edits, EditRow(w, q, e[1], e[2]) PROVE Whole(p)
    BY <2>0, <2>9 DEF EditRow, RowsIn
  <2> QED  BY <2>1, <2>2, <2>3, <2>5, <2>6, <2>7, <2>8, <2>9 DEF Next, vars
<1> QED  BY TypeInit, TypeStep, <1>2, PTL DEF Spec, RowsComeBackWhole

(* The rows of a batch, and what its summary says they are. *)
Summed(sh, was, f) ==
  \A p \in DOMAIN was :
     /\ f.year # "" /\ sh.year => was[p]["year"] = f.year
     /\ Integer(f.source) /\ sh.source # "none" => was[p]["source"] = f.source

LEMMA SummaryIsSummed ==
  /\ ArchiveMatchesSummary <=> \A b \in Batches :
        batch[b] # NoBatch => Summed(shape, batch[b].was, batch[b].summary)
  /\ ArchiveMatchesSummary' <=> \A b \in Batches :
        batch'[b] # NoBatch => Summed(shape', batch'[b].was, batch'[b].summary)
<1>1. ArchiveMatchesSummary <=> \A b \in Batches :
        batch[b] # NoBatch => Summed(shape, batch[b].was, batch[b].summary)
  BY Zenon DEF ArchiveMatchesSummary, Summed
<1>2. ArchiveMatchesSummary' <=> \A b \in Batches :
        batch'[b] # NoBatch => Summed(shape', batch'[b].was, batch'[b].summary)
  BY Zenon DEF ArchiveMatchesSummary, Summed
<1> QED  BY <1>1, <1>2

LEMMA SummaryKept ==
  ASSUME ArchiveMatchesSummary, shape' = shape,
         \A b \in Batches : batch'[b] # NoBatch =>
            /\ batch[b] # NoBatch
            /\ batch'[b].was = batch[b].was /\ batch'[b].summary = batch[b].summary
  PROVE  ArchiveMatchesSummary'
  BY SummaryIsSummed

LEMMA SummaryOfDelete ==
  ASSUME Typing, ArchiveMatchesSummary, NEW w \in Workers, NEW gone, NEW f, SoftDelete(w, gone, f),
         Summed(shape, [p \in gone |-> table[p]], f)
  PROVE  ArchiveMatchesSummary'
<1> DEFINE new == [status |-> "active", summary |-> f, listed |-> gone,
                   types |-> [c \in Exported(w) |-> NameOf(w, c)],
                   csv |-> [p \in gone |-> [c \in Exported(w) |-> BinText(table[p][c])]],
                   was |-> [p \in gone |-> table[p]]]
<1>1. PICK b \in Batches : batch' = [batch EXCEPT ![b] = new]
  BY DEF SoftDelete
<1>2. shape' = shape
  BY DEF SoftDelete
<1>3. new.was = [p \in gone |-> table[p]] /\ new.summary = f
  OBVIOUS
<1> HIDE DEF new
<1>4. \A c \in Batches : batch'[c] = IF c = b THEN new ELSE batch[c]
  BY <1>1 DEF Typing
<1>5. Summed(shape, new.was, new.summary)
  BY <1>3
<1> QED  BY <1>2, <1>4, <1>5, SummaryIsSummed

(* The year and the source of its request name the rows of a bulk batch.   *)
THEOREM ArchivesMatchSummaries == Spec => []ArchiveMatchesSummary
<1>1. Init => ArchiveMatchesSummary
  BY DEF Init, ArchiveMatchesSummary
<1>2. Typing /\ ArchiveMatchesSummary /\ [Next]_vars => ArchiveMatchesSummary'
  <2> SUFFICES ASSUME Typing, ArchiveMatchesSummary, [Next]_vars PROVE ArchiveMatchesSummary'
    OBVIOUS
  <2>1. CASE UNCHANGED vars
    BY <2>1, SummaryKept DEF vars
  <2>2. CASE \/ Migrate \/ \E s \in Sources : AddSource(s) \/ DropSource(s)
             \/ \E w \in Workers, live \in BOOLEAN : Restart(w, live)
    BY <2>2, SummaryKept DEF Migrate, AddSource, DropSource, Restart
  <2>3. ASSUME NEW q \in Pks, NEW row \in Rows, Load(q, row) PROVE ArchiveMatchesSummary'
    BY <2>3, SummaryKept DEF Load
  <2>4. ASSUME NEW w \in Workers, NEW q \in Pks, DeleteRow(w, q) PROVE ArchiveMatchesSummary'
    <3>1. Summed(shape, [p \in {q} |-> table[p]], NoFilter)
      BY DEF Summed, NoFilter, Integer, Integers4
    <3> QED  BY <2>4, <3>1, SummaryOfDelete DEF DeleteRow
  <2>5. ASSUME NEW w \in Workers, NEW f \in Filters, BulkDelete(w, f) PROVE ArchiveMatchesSummary'
    <3> DEFINE gone == {p \in RowsIn : Selects(f, Known(w), table[p])}
    <3>1. Original \subseteq Known(w)
      BY KnownColumns DEF Typing
    <3>2. shape.year => "year" \in Known(w)
      BY <3>1 DEF Original
    <3>3. shape.source # "none" => "source" \in Known(w)
      BY <3>1 DEF Original
    <3>4. Integer(f.source) => f.source # ""
      BY DEF Integer, Integers4
    <3>5. Summed(shape, [p \in gone |-> table[p]], f)
      BY <3>2, <3>3, <3>4 DEF Summed, Selects, YearClause, SourceClause
    <3> QED  BY <2>5, <3>5, SummaryOfDelete DEF BulkDelete
  <2>6. ASSUME NEW w \in Workers, NEW b \in Batches, RestoreBatch(w, b) PROVE ArchiveMatchesSummary'
    <3>1. Batch(batch[b]) /\ shape' = shape
      BY <2>6 DEF RestoreBatch, Typing
    <3>2. batch' = [batch EXCEPT ![b] = Marked(batch[b], "restored", batch[b].listed)]
      BY <2>6, <3>1, MarkedStatus DEF RestoreBatch
    <3>3. \A c \in Batches : batch'[c] = IF c = b THEN Marked(batch[b], "restored", batch[b].listed) ELSE batch[c]
      BY <3>2 DEF Typing
    <3>4. batch[b] # NoBatch
      BY <2>6 DEF RestoreBatch
    <3> QED  BY <3>1, <3>3, <3>4, SummaryKept DEF Marked
  <2>7. ASSUME NEW w \in Workers, NEW b \in Batches, NEW p \in Pks, RestoreRow(w, b, p)
        PROVE ArchiveMatchesSummary'
    <3> DEFINE s == IF batch[b].listed = {p} THEN "restored" ELSE batch[b].status
               l == batch[b].listed \ {p}
    <3>1. batch[b] # NoBatch /\ shape' = shape
      BY <2>7 DEF RestoreRow
    <3>2. batch' = [batch EXCEPT ![b].listed = l, ![b].status = s]
      BY <2>7 DEF RestoreRow, Typing
    <3> HIDE DEF s, l
    <3>3. batch' = [batch EXCEPT ![b] = Marked(batch[b], s, l)]
      BY <3>1, <3>2, MarkedListed
    <3>4. \A c \in Batches : batch'[c] = IF c = b THEN Marked(batch[b], s, l) ELSE batch[c]
      BY <3>3 DEF Typing
    <3> QED  BY <3>1, <3>4, SummaryKept DEF Marked
  <2>8. ASSUME NEW w \in Workers, NEW q \in Pks, NEW e \in Edits, EditRow(w, q, e[1], e[2])
        PROVE ArchiveMatchesSummary'
    BY <2>8, SummaryKept DEF EditRow
  <2> QED  BY <2>1, <2>2, <2>3, <2>4, <2>5, <2>6, <2>7, <2>8 DEF Next
<1> QED  BY TypeInit, TypeStep, <1>1, <1>2, PTL DEF Spec

LEMMA TemplateCell ==
  \A type \in Types : \A v \in Holds(type) \cup {NULL} :
     /\ Cell(TemplateText(v)) = v \/ v = ""
     /\ TemplateText(v) = "" => v \in {"", NULL}
  BY DEF Types, Holds, NULL, Cell, TemplateText, Integers4, Amounts, Words

(* A cell of the template, uploaded again, is what it was, or its refusal  *)
(* is explained.                                                           *)
THEOREM TemplatesReupload == Spec => []TemplateReuploads
<1>1. Typing => TemplateReuploads
  <2> SUFFICES ASSUME Typing, NEW w \in Workers, NEW p \in RowsIn, NEW c \in Known(w)
               PROVE  LET v == table[p][c]
                          t == TemplateText(v)
                      IN  IF Takes(SqlType[c], Nullable(c), NameOf(w, c), t)
                          THEN Cell(t) = v \/ v = ""
                          ELSE Mistyped(SqlType[c], NameOf(w, c)) \/ (v = "" /\ ~Nullable(c))
    BY DEF TemplateReuploads
  <2> DEFINE v == table[p][c]
  <2>1. c \in Columns /\ NameOf(w, c) \in {SqlType[c], LiveName(SqlType[c])}
    BY KnownColumns DEF Typing
  <2>2. SqlType[c] \in Types /\ c \in Fields
    BY <2>1, ColumnTypes DEF Typing, TypeOK
  <2>3. v \in Holds(SqlType[c]) \/ (v = NULL /\ Nullable(c))
    BY <2>1, <2>2 DEF Typing, TypeOK, Fits
  <2>4. /\ Cell(TemplateText(v)) = v \/ v = ""
        /\ TemplateText(v) = "" => v \in {"", NULL}
    BY <2>2, <2>3, TemplateCell
  <2>5. Reader(NameOf(w, c)) = Encoder(SqlType[c]) \/ Mistyped(SqlType[c], NameOf(w, c))
    BY <2>1, <2>2, NamesRead DEF Mistyped
  <2>6. NULL \notin Holds(SqlType[c])
    BY <2>2, HeldValues
  <2> QED  BY <2>3, <2>4, <2>5, <2>6 DEF Takes
<1> QED  BY TypeInit, TypeStep, <1>1, PTL DEF Spec
=============================================================================
