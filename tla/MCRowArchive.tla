---------------------------- MODULE MCRowArchive ----------------------------
(* Small instances of RowArchive.  The shapes are those of the schema      *)
(* snapshot: which source column a table has, and the type of another one. *)
EXTENDS RowArchive, TLC

CONSTANTS p1, p2, w1, w2

Symmetry == Permutations(Pks) \cup Permutations(Workers) \cup Permutations(Batches)

S(year, source, val, nullable) ==
  [year |-> year, source |-> source, val |-> val, nullable |-> nullable]
MCShapes == {S(TRUE, "int4", "int8", FALSE),             \* population
             S(TRUE, "varchar", "numeric", TRUE),        \* federal_capital_budget_utilization
             S(TRUE, "int4", "timestamp", TRUE),         \* created_at of any table
             S(TRUE, "none", "varchar", FALSE),          \* federal_budget_insertions
             S(FALSE, "none", "_text", TRUE)}            \* indicators

R(y, s, v, e) == [year |-> y, source |-> s, val |-> v, extra |-> e]
MCSources == {"1"}
MCRows == {R("2023", "1", v, NULL) : v \in {"7", NULL, "moment"}}
            \cup {R("2024", "1", "7", "")}
            \cup {R("2023", "NBS", v, NULL) : v \in {"1.5", "wide"}}
            \cup {R("2023", NULL, v, NULL) : v \in {"", "words"}}
            \cup {R("2023", NULL, "moment", NULL), R(NULL, NULL, "list", NULL)}

F(y, s, t) == [year |-> y, source |-> s, search |-> t]
MCFilters == {F("2023", "", ""), F("2023", "1", ""), F("2023", "NBS", ""),
              F("", "NBS", ""), F("words", "", ""), F("2023", "", "words"), F("", "", "%")}

MCEdits == {<<"val", "7.9">>, <<"val", "wide">>, <<"val", "">>, <<"extra", "words">>, <<"source", "7">>}
=============================================================================
