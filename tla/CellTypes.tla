----------------------------- MODULE CellTypes -----------------------------
(***************************************************************************)
(* One cell of a production table on its way through the API: how the      *)
(* schema registry names its type, how it is written as text (the CSV of a *)
(* recycle batch, the upload template), and how a text is read back.       *)
(* Values are the few that the code tells apart:                           *)
(*   "7" "2023" "2024"  integers        "1" "2"   source ids               *)
(*   "1.5"              a number that a float holds exactly                *)
(*   "wide"             one that it does not; float() makes it "rounded"   *)
(*   "" "words" "NBS"   texts                                              *)
(*   "moment" "list"    a timestamp, a text[]                              *)
(***************************************************************************)
NULL == "NULL"
Integers4 == {"7", "2023", "2024", "1", "2"}
Amounts == {"1.5", "wide", "rounded"}
Words == {"", "words", "NBS"}
Values == {NULL, "moment", "list"} \cup Integers4 \cup Amounts \cup Words

(* Column types, as PostgreSQL calls them (udt_name). *)
Types == {"int4", "int8", "numeric", "varchar", "timestamp", "_text"}

(* What a column of the type can hold, NULL aside. *)
Holds(type) == CASE type \in {"int4", "int8"} -> Integers4
                 [] type = "numeric" -> Amounts
                 [] type = "varchar" -> Words
                 [] type = "timestamp" -> {"moment"}
                 [] OTHER -> {"list"}

(* The sql_type of the registry: the snapshot has the type of the DDL, the *)
(* live catalog data_type, of which _pg_type translates three names only.  *)
LiveName(type) == CASE type = "int8" -> "bigint"
                    [] type = "_text" -> "ARRAY"
                    [] OTHER -> type
TypeName(type, live) == IF live THEN LiveName(type) ELSE type
TypeNames == Types \cup {"bigint", "ARRAY"}

-----------------------------------------------------------------------------
(* Writing *)

Jsonable(v) == IF v = "wide" THEN "rounded" ELSE v
BinText(v) == IF v = NULL THEN "" ELSE Jsonable(v)

TemplateOfJson(v) == IF v = NULL THEN "" ELSE Jsonable(v)        \* mutant
TemplateText(v) == IF v = NULL THEN "" ELSE v

-----------------------------------------------------------------------------
(* Reading.  The three _coerce functions agree on the Python type that a   *)
(* sql_type calls for, and all take an empty text for NULL.                *)

ReaderOfDates(name) == CASE name \in {"int4", "int8"} -> "int"        \* mutant
                         [] name = "numeric" -> "Decimal"
                         [] name = "date" -> "datetime"
                         [] OTHER -> "str"
Reader(name) == CASE name \in {"int4", "int8"} -> "int"
                  [] name = "numeric" -> "Decimal"
                  [] name = "timestamp" -> "datetime"
                  [] OTHER -> "str"

(* The Python type that asyncpg encodes for a column; another one raises.  *)
Encoder(type) == CASE type \in {"int4", "int8"} -> "int"
                   [] type = "numeric" -> "Decimal"
                   [] type = "timestamp" -> "datetime"
                   [] type = "varchar" -> "str"
                   [] OTHER -> "list"

CellOfEmpty(t) == t        \* mutant
Cell(t) == IF t = "" THEN NULL ELSE t
Takes(type, nullable, name, t) ==
  IF t = "" THEN nullable ELSE Reader(name) = Encoder(type)

(* What update_row makes of a value of the column's kind, numbers sent as  *)
(* JSON numbers: int() drops a fraction, and json has made the amount a    *)
(* float.  Other values are refused (422) or, of a text, just texts.       *)
Sent == {"", "7", "7.9", "1.5", "wide", "words"}
Understood(name, t) == \/ t = ""
                       \/ Reader(name) = "int" /\ t \in {"7", "7.9"}
                       \/ Reader(name) = "Decimal" /\ t \in {"1.5", "wide"}
                       \/ Reader(name) = "str" /\ t = "words"
EditedCell(name, t) == IF Reader(name) = "int" /\ t = "7.9" THEN "7" ELSE Cell(Jsonable(t))
=============================================================================
