----------------------------- MODULE UploadCells -----------------------------
(***************************************************************************)
(* One cell of an uploaded CSV: what validate_csv says of it, what         *)
(* _copy_into_table makes of it, and what COPY and the table accept.       *)
(* Cells are a few texts that the code tells apart:                        *)
(*   ""          an empty cell                                             *)
(*   "7" "07"    two ways to write an integer; "8" another; "huge" one     *)
(*               that int() reads and its column does not hold             *)
(*   "actual"    a member of the column's enum; " actual" padded           *)
(*   "NG"        a code of the reference table; "Nigeria" its name         *)
(*   "day"       an ISO date; "zoned" an ISO time with its offset from UTC *)
(*   "words"     any other text, too long for a varchar                    *)
(***************************************************************************)
EXTENDS Naturals

Integers4 == {"7", "07", "8"}
Texts == {"", "huge", "actual", " actual", "NG", "Nigeria", "day", "zoned", "words"} \cup Integers4
NULL == "NULL"

Enum == {"actual", "approved"}

(* What int(), Decimal() and strip() give back, as canonical text. *)
Number(t) == IF t = "07" THEN "7" ELSE t
Strip(t) == IF t = " actual" THEN "actual" ELSE t

(* type is PostgreSQL's, name the sql_type of the worker's registry, which *)
(* the live catalog spells in another way for int8 and arrays.  A text has *)
(* no bound, a varchar or a numeric(p, s) has.  ref: the column is one of  *)
(* a reference table, which has no period; pk: its primary key.            *)
Types == {"int4", "int8", "numeric", "varchar", "timestamp", "date", "_text", "tsvector"}
Column == [type : Types, name : Types \cup {"bigint", "ARRAY"}, bounded : BOOLEAN,
           nullable : BOOLEAN, default : {"none", "SEQUENCE", "now", "literal"},
           enum : BOOLEAN, fk : BOOLEAN, pk : BOOLEAN, ref : BOOLEAN]

Numeric == {"int4", "int8", "numeric"}
Temporal == {"timestamp", "date"}

(* validation._parse_type: a name it does not know takes any text. *)
Parses(t, name) ==
  \/ t = ""
  \/ name \in Numeric /\ t \in Integers4 \cup {"huge"}
  \/ name \in Temporal /\ t \in {"day", "zoned"}
  \/ name \notin Numeric \cup Temporal

(* uploads._coerce *)
Coerce(t, name) ==
  IF t = "" \/ ~Parses(t, name) THEN NULL
  ELSE IF name \in Numeric THEN Number(t) ELSE t

(* FKResolver.resolve: codes only, names are refused. *)
Resolves(t, codes) == Strip(t) \in codes

(* What the header must have, and which cells must not be empty: only the  *)
(* header check exempts the primary key.                                   *)
NotEmpty(col) == ~col.nullable /\ col.default = "none"
Required(col) == NotEmpty(col) /\ ~col.pk

(* The checks of validate_csv on one cell; an FK or enum cell stops there. *)
CellOkUnresolved(col, t, codes) ==        \* mutant
  IF col.enum /\ t # "" THEN Strip(t) \in Enum
  ELSE Parses(t, col.name) /\ (t = "" => ~NotEmpty(col))

CellOk(col, t, codes) ==
  IF col.fk /\ t # "" THEN Resolves(t, codes)
  ELSE IF col.enum /\ t # "" THEN Strip(t) \in Enum
  ELSE Parses(t, col.name) /\ (t = "" => ~NotEmpty(col))

Copied(col) == col.default # "SEQUENCE" /\ col.name # "tsvector"

(* What the column of a new row holds: has tells whether the file has it.  *)
Literal(col) == IF col.type = "int4" THEN "7" ELSE "NG"
Default(col) == CASE col.default = "none" -> NULL
                  [] col.default = "SEQUENCE" -> "next"
                  [] col.default = "now" -> "clock"
                  [] OTHER -> Literal(col)
Value(col, has, t, codes) ==
  IF ~has \/ ~Copied(col) THEN Default(col)
  ELSE IF col.fk /\ t # "" /\ Resolves(t, codes) THEN Coerce(Strip(t), col.name)
  ELSE Coerce(t, col.name)

(* What asyncpg encodes and the constraints of the table take; codes is    *)
(* the reference table's now.  A text is encoded neither as a bigint nor   *)
(* as an array, nor a time with an offset as one without.                  *)
Misread(col) == col.type = "_text" \/ col.name = "bigint"
TooLarge(col, v) == col.bounded /\ v = IF col.type = "varchar" THEN "words" ELSE "huge"
Admits(col, v, codes) ==
  /\ v = NULL => col.nullable
  /\ v \notin {NULL, "next", "clock"} =>
        /\ ~Misread(col) /\ ~TooLarge(col, v)
        /\ col.type = "timestamp" => v # "zoned"
        /\ col.enum => v \in Enum
        /\ col.fk => v \in codes

(* _cadence_of: which of month and quarter are filled. *)
Cadence(month, quarter) ==
  CASE month # "" /\ quarter # "" -> "invalid"
    [] month # "" /\ quarter = "" -> "monthly"
    [] month = "" /\ quarter # "" -> "quarterly"
    [] OTHER -> "annual"

(* The same of a stored row, as validate_csv reads the table's cadences. *)
Text(v) == IF v = NULL THEN "" ELSE v
StoredCadence(month, quarter) == Cadence(Text(month), Text(quarter))

=============================================================================
