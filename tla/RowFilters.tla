----------------------------- MODULE RowFilters -----------------------------
(***************************************************************************)
(* build_row_filter (query_builder.py): from the year, source and search   *)
(* text of a request to a WHERE clause, for the columns a worker's schema  *)
(* registry knows.  "" is a parameter that is not given.  The column       *)
(* "source" stands for source_id, or for source in a table without one.    *)
(***************************************************************************)
EXTENDS CellTypes

Filter == [year : {"", "2023", "words"}, source : {"", "1", "NBS"},
           search : {"", "words", "%"}]
NoFilter == [year |-> "", source |-> "", search |-> ""]

Integer(t) == t \in Integers4

(* A year or source for which there is no column, and a source that is not *)
(* an integer, give no clause.                                             *)
YearClause(f, known) == f.year # "" /\ "year" \in known
SourceClause(f, known) == f.source # "" /\ "source" \in known /\ Integer(f.source)
SearchClause(f) == f.search # ""

(* int(year) raises; asyncpg refuses an integer for a varchar source. *)
Fails(f, known, type) == \/ YearClause(f, known) /\ ~Integer(f.year)
                         \/ SourceClause(f, known) /\ type["source"] = "varchar"

(* The guard of bulk_delete_rows. *)
Unfiltered(f, known) == ~YearClause(f, known) /\ ~SourceClause(f, known) /\ ~SearchClause(f)

(* ILIKE over every known column, the primary key included. *)
Mentions(row, known, term) == term = "%" \/ \E c \in known : row[c] = term

SelectsAny(f, known, row) == \/ YearClause(f, known) /\ row["year"] = f.year        \* mutant
                             \/ SourceClause(f, known) /\ row["source"] = f.source
                             \/ SearchClause(f) /\ Mentions(row, known, f.search)
Selects(f, known, row) == /\ YearClause(f, known) => row["year"] = f.year
                          /\ SourceClause(f, known) => row["source"] = f.source
                          /\ SearchClause(f) => Mentions(row, known, f.search)
=============================================================================
