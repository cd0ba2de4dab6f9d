------------------------------- MODULE Uploads -------------------------------
(***************************************************************************)
(* POST /uploads (uploads.py, validation.py): a file is validated, probed  *)
(* for periods already live or in the recycle bin, copied and recorded.    *)
(* Each of these reads or writes the database in statements of its own;    *)
(* nothing is locked in between, and COPY commits before the upload is     *)
(* recorded.  The table has a period, month and perhaps quarter, which is  *)
(* its unique index, and one more column; a reference table has no period. *)
(***************************************************************************)
EXTENDS UploadCells, Sequences, FiniteSets

CONSTANTS
  Columns,      \* the shapes the column may have
  HasQuarter,   \* a table of (month, quarter), both nullable; else month NOT NULL
  FileRows,     \* rows a file is made of
  MaxRows,      \* rows in a file (a bound)
  Reqs,         \* requests in flight at once (a bound)
  Uploaders,    \* those of them that may be uploads (a bound)
  MaxCopies,    \* uploads that reach the table (a bound)
  MaxBatches,   \* batches of the recycle bin (a bound)
  CanFail,      \* whether a request may be cut off between two statements
  NoCodes

ASSUME ColumnsAssumption == Columns \subseteq Column
ASSUME FileRowsAssumption == FileRows \subseteq [month : Texts, quarter : Texts, cell : Texts]
ASSUME QuarterAssumption == ~HasQuarter => \A line \in FileRows : line.quarter = ""
ASSUME BoundsAssumption == MaxRows \in Nat /\ MaxCopies \in Nat /\ MaxBatches \in Nat
ASSUME FlagsAssumption == HasQuarter \in BOOLEAN /\ CanFail \in BOOLEAN
ASSUME UploadersAssumption == Uploaders \subseteq Reqs

(* The codes that the reference table of an FK column may hold; a column   *)
(* with an enum as well takes some of them only.                           *)
Codes == {"NG", "actual", "7"}
CodesFor(c) == CASE ~c.fk -> {}
                 [] c.fk /\ c.type = "int4" -> {"7"}
                 [] c.fk /\ c.enum -> {"NG", "actual"}
                 [] OTHER -> {"NG"}
ASSUME NoCodesAssumption == \A S \in SUBSET Codes : NoCodes # S
PeriodColumn(nullable) ==
  [type |-> "int4", name |-> "int4", bounded |-> TRUE, nullable |-> nullable,
   default |-> "none", enum |-> FALSE, fk |-> FALSE, pk |-> FALSE, ref |-> FALSE]
MonthColumn == PeriodColumn(HasQuarter)
QuarterColumn == PeriodColumn(TRUE)
File == [has : BOOLEAN, rows : UNION {[1..n -> FileRows] : n \in 0..MaxRows}]

VARIABLES
  col,       \* the column of the table beside its period
  live,      \* rows of the table; by is the upload and the line they came from
  bin,       \* the batches of the recycle bin, oldest first
  codes,     \* the reference table
  known,     \* the worker's cached codes, NoCodes when not loaded
  copies,    \* uploads copied so far
  recorded,  \* uploads with a row in admin_uploads
  req,       \* the upload each connection is serving
  kept,      \* history: rows that stayed as they are since an upload was validated
  span       \* history: the cadences the table has had since then

vars == <<col, live, bin, codes, known, copies, recorded, req, kept, span>>

Stages == {"idle", "validated", "checked", "copied", "refused"}
NoFile == [has |-> FALSE, rows |-> <<>>]
NoReq == [at |-> "idle", file |-> NoFile, valid |-> FALSE, shift |-> FALSE,
          codes |-> {}, todo |-> {}, live |-> {}, bin |-> {}, copy |-> 0]
Waiting(q) == q.at \in {"validated", "checked"}

Init == /\ col \in Columns
        /\ live = {}
        /\ bin = <<>>
        /\ codes \in SUBSET CodesFor(col)
        /\ known = NoCodes
        /\ copies = 0
        /\ recorded = {}
        /\ req = [r \in Reqs |-> NoReq]
        /\ kept = [r \in Reqs |-> {}]
        /\ span = [r \in Reqs |-> {}]

-----------------------------------------------------------------------------
(* Rows and periods *)

Dated == ~col.ref
Lines(f) == DOMAIN f.rows
Stored(row, month, quarter) == row.month = month /\ row.quarter = quarter

(* The raw period of a line, and the period its cells stand for. *)
Raw(line) == <<line.month, line.quarter>>
Month(line) == IF Dated THEN Coerce(line.month, "int4") ELSE NULL
Quarter(line) == IF Dated /\ HasQuarter THEN Coerce(line.quarter, "int4") ELSE NULL

(* The rows that copying file f as upload n adds to the table. *)
NewRows(f, n, known_) ==
  {[by |-> <<n, i>>, month |-> Month(f.rows[i]), quarter |-> Quarter(f.rows[i]),
    val |-> Value(col, f.has, f.rows[i].cell, known_)] : i \in Lines(f)}

(* The unique indexes, on the period and the primary key, equate no NULL.  *)
Collide(a, b) == /\ a.by # b.by
                 /\ \/ /\ Stored(a, b.month, b.quarter)
                       /\ a.month # NULL /\ (HasQuarter => a.quarter # NULL)
                    \/ col.pk /\ Copied(col) /\ a.val = b.val /\ a.val # NULL

Accepts(rows) == /\ \A a \in rows : /\ Admits(col, a.val, codes)
                                    /\ Dated => /\ Admits(MonthColumn, a.month, codes)
                                                /\ Admits(QuarterColumn, a.quarter, codes)
                 /\ \A a \in rows, b \in live \cup rows : ~Collide(a, b)

CadencesOf(rows) == {StoredCadence(a.month, a.quarter) : a \in rows} \ {"invalid"}
Cadences(rows) == IF Dated THEN CadencesOf(rows) ELSE {}
FileCadences(f) ==
  IF Dated THEN {Cadence(f.rows[i].month, f.rows[i].quarter) : i \in Lines(f)} \ {"invalid"} ELSE {}

(* History of a step, for the properties. *)
Watch ==
  /\ kept' = [r \in Reqs |-> IF Waiting(req[r]) /\ Waiting(req'[r]) THEN kept[r] \cap live'
                             ELSE live']
  /\ span' = [r \in Reqs |-> IF Waiting(req[r]) /\ Waiting(req'[r])
                             THEN span[r] \cup Cadences(live') ELSE Cadences(live')]

-----------------------------------------------------------------------------
(* validate_csv *)

LineCadenceUnchecked(line) == line \in FileRows        \* mutant
LineCadenceOk(line) == Dated /\ HasQuarter => Cadence(line.month, line.quarter) # "invalid"

LineOk(f, i, known_) ==
  LET line == f.rows[i] IN
  /\ Dated => CellOk(MonthColumn, line.month, known_)
  /\ Dated /\ HasQuarter => CellOk(QuarterColumn, line.quarter, known_)
  /\ f.has => CellOk(col, line.cell, known_)
  /\ LineCadenceOk(line)

HeaderOk(f) == Required(col) => f.has
Valid(f, known_) == /\ HeaderOk(f)
                    /\ \A i \in Lines(f) : LineOk(f, i, known_)

(* The table has a single cadence and the file brings another. *)
ShiftOfMixed(f) ==        \* mutant
  Cardinality(Cadences(live)) > 1 /\ FileCadences(f) \ Cadences(live) # {}
Shift(f) == Cardinality(Cadences(live)) = 1 /\ FileCadences(f) \ Cadences(live) # {}

Known == IF known = NoCodes THEN codes ELSE known

(* Of a file without a required column only the header is read, and no     *)
(* period is returned.                                                     *)
ReadOf(f) == IF HeaderOk(f) THEN f ELSE [f EXCEPT !.rows = <<>>]
Returned(f) == IF Dated THEN Lines(f) ELSE {}
PeriodsOf(f) == {Raw(f.rows[i]) : i \in Returned(f)}

Validate(r, f) ==
  LET loaded == IF col.fk /\ HeaderOk(f) THEN Known ELSE {} IN
  /\ req[r].at = "idle"
  /\ known' = IF col.fk /\ HeaderOk(f) THEN Known ELSE known
  /\ req' = [req EXCEPT ![r] = [NoReq EXCEPT !.at = "validated", !.file = ReadOf(f),
                                             !.valid = Valid(f, Known),
                                             !.codes = loaded,
                                             !.shift = HeaderOk(f) /\ Shift(f),
                                             !.todo = PeriodsOf(ReadOf(f))]]
  /\ UNCHANGED <<col, live, bin, codes, copies, recorded>>

-----------------------------------------------------------------------------
(* _augment_with_period_warnings *)

(* periods_present_in_live_table: _coerce_scalar, then IS NOT DISTINCT     *)
(* FROM; a period with a cell that is no number is passed over.            *)
Probeable(line) == /\ Parses(line.month, "int4")
                   /\ HasQuarter => Parses(line.quarter, "int4")
Scalar(t) == IF t = "" THEN NULL ELSE Number(t)
LiveByEquality(line) ==        \* mutant
  \E a \in live : /\ Stored(a, Scalar(line.month), Scalar(line.quarter))
                  /\ a.month # NULL /\ a.quarter # NULL
Live(line) == \E a \in live : Stored(a, Scalar(line.month), Scalar(line.quarter))

(* One await per period, in the order of the file.  A number that its      *)
(* column does not hold raises in asyncpg, and the request ends with 500.  *)
ProbeLive(r, i) ==
  LET f == req[r].file
      line == f.rows[i]
  IN  /\ req[r].at = "validated"
      /\ i \in Lines(f) /\ Raw(line) \in req[r].todo
      /\ \A j \in Lines(f) : Raw(f.rows[j]) \in req[r].todo => i <= j
      /\ \/ /\ Probeable(line) /\ "huge" \in {line.month, line.quarter}
            /\ req' = [req EXCEPT ![r] = [NoReq EXCEPT !.at = "refused"]]
         \/ /\ ~(Probeable(line) /\ "huge" \in {line.month, line.quarter})
            /\ req' = [req EXCEPT ![r].todo = @ \ {Raw(line)},
                                  ![r].live = IF Probeable(line) /\ Live(line)
                                              THEN @ \cup {Raw(line)} ELSE @]
      /\ UNCHANGED <<col, live, bin, codes, known, copies, recorded>>

(* periods_in_bin: the periods of all rows that an active batch archived,  *)
(* each str() of the archived value against the text of the cell.          *)
Str(v) == IF v = NULL THEN "None" ELSE v
AnnouncedListed == UNION {bin[b].listed : b \in {c \in DOMAIN bin : bin[c].active}}        \* mutant
Announced == UNION {bin[b].rows : b \in {c \in DOMAIN bin : bin[c].active}}
BinnedOfAllCells(line) ==        \* mutant
  \E a \in Announced : Str(a.month) = line.month /\ Str(a.quarter) = line.quarter
Binned(line) == \E a \in Announced : /\ Str(a.month) = line.month
                                     /\ HasQuarter => Str(a.quarter) = line.quarter

ProbeBin(r) ==
  LET f == req[r].file IN
  /\ req[r].at = "validated" /\ req[r].todo = {}
  /\ req' = [req EXCEPT ![r].at = "checked",
                        ![r].bin = {Raw(f.rows[i]) : i \in {j \in Returned(f) : Binned(f.rows[j])}}]
  /\ UNCHANGED <<col, live, bin, codes, known, copies, recorded>>

(* A rejected file, or the dry run of POST /uploads/validate. *)
Report(r) ==
  /\ req[r].at = "checked"
  /\ req' = [req EXCEPT ![r] = NoReq]
  /\ UNCHANGED <<col, live, bin, codes, known, copies, recorded>>

-----------------------------------------------------------------------------
(* _copy_into_table, then the record of the upload *)

Copy(r) ==
  LET f == req[r].file
      rows == NewRows(f, copies + 1, Known)
  IN  /\ req[r].at = "checked"
      /\ req[r].valid
      /\ copies < MaxCopies
      /\ known' = IF col.fk THEN Known ELSE known
      /\ \/ /\ Accepts(rows)
            /\ live' = live \cup rows
            /\ copies' = copies + 1
            /\ req' = [req EXCEPT ![r] = [NoReq EXCEPT !.at = "copied", !.copy = copies + 1]]
         \/ /\ ~Accepts(rows)
            /\ req' = [req EXCEPT ![r] = [NoReq EXCEPT !.at = "refused"]]
            /\ UNCHANGED <<live, copies>>
      /\ UNCHANGED <<col, bin, codes, recorded>>

RecordUncopied(r) ==        \* mutant
  /\ req[r].at \in {"checked", "copied"}
  /\ recorded' = recorded \cup {req[r].copy}
  /\ req' = [req EXCEPT ![r] = NoReq]
  /\ UNCHANGED <<col, live, bin, codes, known, copies>>
RecordUpload(r) ==
  /\ req[r].at = "copied"
  /\ recorded' = recorded \cup {req[r].copy}
  /\ req' = [req EXCEPT ![r] = NoReq]
  /\ UNCHANGED <<col, live, bin, codes, known, copies>>

(* A refused COPY or a probe that raised answers 500; a lost connection    *)
(* ends the request anywhere.                                              *)
Abort(r) ==
  /\ req[r].at = "refused" \/ (CanFail /\ req[r].at # "idle")
  /\ req' = [req EXCEPT ![r] = NoReq]
  /\ UNCHANGED <<col, live, bin, codes, known, copies, recorded>>

-----------------------------------------------------------------------------
(* What the other handlers do meanwhile, each in one step and in the slot  *)
(* of a request; what happens between their calls is in RecycleBin.        *)

(* soft_delete: the manifest keeps the periods of the archived rows. *)
Delete(r, S) ==
  /\ req[r].at = "idle"
  /\ S # {} /\ Len(bin) < MaxBatches
  /\ live' = live \ S
  /\ bin' = Append(bin, [rows |-> S, listed |-> S, active |-> TRUE])
  /\ UNCHANGED <<col, codes, known, copies, recorded, req>>

(* INSERT ... ON CONFLICT DO NOTHING: what is back already, or has its key *)
(* taken, is skipped; a vanished code fails the whole restore.             *)
Missing(S) == {a \in S : \A x \in live : x.by # a.by /\ ~Collide(a, x)}
Insert(S) == /\ \A a \in Missing(S) : Admits(col, a.val, codes)
             /\ live' = live \cup Missing(S)

(* restore_batch closes the batch and leaves its entries.                  *)
RestoreBatch(r, b) ==
  /\ req[r].at = "idle"
  /\ bin[b].active
  /\ Insert(bin[b].rows)
  /\ bin' = [bin EXCEPT ![b].active = FALSE]
  /\ UNCHANGED <<col, codes, known, copies, recorded, req>>

(* restore_row takes any batch that lists the row; status and periods of   *)
(* the batch stay until its last entry goes.                               *)
RestoreRow(r, b, row) ==
  /\ req[r].at = "idle"
  /\ row \in bin[b].listed
  /\ Insert({row})
  /\ bin' = [bin EXCEPT ![b].listed = @ \ {row},
                        ![b].active = bin[b].active /\ bin[b].listed # {row}]
  /\ UNCHANGED <<col, codes, known, copies, recorded, req>>

(* update_row, of a period cell. *)
EditRow(r, row, month) ==
  LET edited == [row EXCEPT !.month = month] IN
  /\ req[r].at = "idle"
  /\ Dated
  /\ Admits(MonthColumn, month, codes)
  /\ \A x \in live \ {row} : ~Collide(edited, x)
  /\ live' = (live \ {row}) \cup {edited}
  /\ UNCHANGED <<col, bin, codes, known, copies, recorded, req>>

(* A row of the reference table is added, or removed while nothing refers  *)
(* to it; an edit or a restart drops the cached codes.                     *)
MoveCode(r, c) ==
  /\ req[r].at = "idle"
  /\ \/ c \notin codes /\ codes' = codes \cup {c}
     \/ c \in codes /\ codes' = codes \ {c} /\ \A a \in live : a.val # c
  /\ UNCHANGED <<col, live, bin, known, copies, recorded, req>>

DropKnown(r) ==
  /\ req[r].at = "idle"
  /\ known # NoCodes
  /\ known' = NoCodes
  /\ UNCHANGED <<col, live, bin, codes, copies, recorded, req>>

Upload(r) == \/ \E f \in File : Validate(r, f)
             \/ \E i \in 1..MaxRows : ProbeLive(r, i)
             \/ ProbeBin(r) \/ Report(r) \/ Copy(r) \/ RecordUpload(r) \/ Abort(r)
Aside(r) == \/ DropKnown(r)
            \/ \E S \in SUBSET live : Delete(r, S)
            \/ \E b \in DOMAIN bin : RestoreBatch(r, b)
            \/ \E b \in DOMAIN bin : \E row \in bin[b].listed : RestoreRow(r, b, row)
            \/ \E row \in live, line \in FileRows : EditRow(r, row, Month(line))
            \/ \E c \in CodesFor(col) : MoveCode(r, c)

Next == /\ \/ \E r \in Uploaders : Upload(r)
           \/ \E r \in Reqs : Aside(r)
        /\ Watch

Spec == Init /\ [][Next]_vars

-----------------------------------------------------------------------------
(* Properties *)

(***************************************************************************)
(* Every variable stays within its type; rows come from uploads that were  *)
(* copied, and only those are recorded.                                    *)
(***************************************************************************)
Values == Texts \cup {NULL, "next", "clock"}
Rows == [by : (1..MaxCopies) \X (1..MaxRows), month : Values, quarter : Values, val : Values]
Archived == UNION {bin[b].rows : b \in DOMAIN bin}
Batches == [rows : SUBSET Rows, listed : SUBSET Rows, active : BOOLEAN]
TypeOK == /\ col \in Columns
          /\ live \subseteq Rows
          /\ bin \in Seq(Batches) /\ Len(bin) <= MaxBatches
          /\ \A b \in DOMAIN bin : bin[b].listed \subseteq bin[b].rows
          /\ codes \subseteq CodesFor(col)
          /\ known = NoCodes \/ known \subseteq CodesFor(col)
          /\ copies \in 0..MaxCopies
          /\ recorded \subseteq 1..copies
          /\ \A r \in Reqs : /\ req[r].at \in Stages
                             /\ req[r].file = NoFile \/ req[r].file \in File
                             /\ req[r].copy \in 0..copies
          /\ \A a \in live \cup Archived : a.by[1] <= copies

(***************************************************************************)
(* validation.py:320, the cadence check: a file ready for COPY that would  *)
(* bring rows of another cadence has been warned of, if the table has had  *)
(* rows of one cadence, and of that one only, ever since the check.        *)
(***************************************************************************)
CadenceShiftIsWarned ==
  \A r \in Reqs : req[r].at = "checked" /\ req[r].valid
                  /\ Cardinality(span[r]) = 1 /\ Cadences(kept[r]) # {}
    => \/ Cadences(NewRows(req[r].file, copies + 1, Known)) \subseteq span[r]
       \/ req[r].shift

(***************************************************************************)
(* uploads.py:13: "If a period already exists live [...], the report       *)
(* carries a warning".  Whatever else has changed the table between the    *)
(* probes, of which each is a query of its own: a row that has stayed in   *)
(* it since validation and has the period of a line of the file, empty     *)
(* cells and other spellings of a number included, has been warned of.     *)
(***************************************************************************)
StandingPeriodIsWarned ==
  \A r \in Reqs : req[r].at = "checked" =>
    \A i \in Returned(req[r].file) :
      LET line == req[r].file.rows[i]
      IN  Probeable(line) /\ (\E a \in kept[r] : Stored(a, Month(line), Quarter(line)))
            => Raw(line) \in req[r].live

(***************************************************************************)
(* validation.py:289, cadence_conflict: COPY never adds a row that is both *)
(* monthly and quarterly.                                                  *)
(***************************************************************************)
CopiedRowsHaveOneCadence ==
  [][copies' # copies => \A a \in live' \ live :
       HasQuarter => StoredCadence(a.month, a.quarter) # "invalid"]_vars

(***************************************************************************)
(* uploads.py:163: "a file that passed validation commits identically".    *)
(* Where it does not, COPY met a duplicate key, a code that has left the   *)
(* reference table since it was loaded, or something validation does not   *)
(* look at: a padded enum member, a code outside the enum of an FK column  *)
(* that also has one (validation.py:248 is not reached for it), a number   *)
(* or a text too large, a time with an offset, a text for an array or a    *)
(* bigint of the live registry, an empty cell in a NOT NULL column that    *)
(* has a default, a file without the primary key (validation.py:140).      *)
(***************************************************************************)
Overlooked(f, i, resolved) ==
  LET t == f.rows[i].cell IN
  \/ ~f.has /\ NotEmpty(col) /\ col.pk
  \/ f.has /\ Copied(col) /\ \/ col.enum /\ t # Strip(t)
                             \/ col.enum /\ col.fk /\ t \notin Enum
                             \/ TooLarge(col, t)
                             \/ col.type = "timestamp" /\ t = "zoned"
                             \/ t # "" /\ Misread(col)
                             \/ t = "" /\ ~col.nullable /\ col.default # "none"
                             \/ col.fk /\ Strip(t) \in resolved \ codes
RefusalsAreExplained ==
  \A r \in Reqs : req[r].at = "checked" /\ req[r].valid =>
    LET f == req[r].file
        rows == NewRows(f, copies + 1, Known)
    IN  \/ Accepts(rows)
        \/ \E i \in Lines(f) : Overlooked(f, i, req[r].codes)
        \/ col.fk /\ ~f.has /\ col.default = "literal" /\ Literal(col) \notin codes
        \/ \E a \in rows, b \in live \cup rows : Collide(a, b)

(***************************************************************************)
(* uploads.py:13: "If a period already exists live or in the recycle bin,  *)
(* the report carries a warning".  Whatever rows of a batch have been      *)
(* restored since, the periods that it archived are announced while it is  *)
(* active to a file that has them digit for digit: an empty cell is not    *)
(* found, and every period of a (month, quarter) table has one until a row *)
(* is edited; nor is a number spelt in another way.                        *)
(***************************************************************************)
Verbatim(line) == /\ Coerce(line.month, "int4") = line.month
                  /\ HasQuarter => Coerce(line.quarter, "int4") = line.quarter
BinnedPeriodIsWarned ==
  [][\A r \in Reqs : req[r].at = "validated" /\ req'[r].at = "checked" /\ Dated
       => \A i \in Lines(req[r].file) :
            LET line == req[r].file.rows[i]
                archived == \E b \in DOMAIN bin : /\ bin[b].active
                                                /\ \E a \in bin[b].rows : Stored(a, Month(line), Quarter(line))
            IN  archived /\ Verbatim(line) => Raw(line) \in req'[r].bin]_vars
=============================================================================
