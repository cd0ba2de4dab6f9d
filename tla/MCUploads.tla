------------------------------ MODULE MCUploads ------------------------------
(* Small instances of Uploads.  AllShapes are the shapes of the columns of *)
(* the schema snapshot, and the names of the live catalog.                 *)
EXTENDS Uploads, TLC

CONSTANTS r1, r2
Symmetry == Permutations(Reqs)

Plain(type) == [type |-> type, name |-> type, bounded |-> TRUE, nullable |-> TRUE,
                default |-> "none", enum |-> FALSE, fk |-> FALSE, pk |-> FALSE, ref |-> FALSE]
NotNull(c) == [c EXCEPT !.nullable = FALSE]
Enumerated(c) == [c EXCEPT !.enum = TRUE]
Foreign(c) == [c EXCEPT !.fk = TRUE]
Else(c, default) == [c EXCEPT !.default = default]
Unbounded(c) == [c EXCEPT !.bounded = FALSE]
Spelt(c, name) == [c EXCEPT !.name = name]
OfReference(c) == [c EXCEPT !.ref = TRUE]
Key(c) == [c EXCEPT !.pk = TRUE, !.nullable = FALSE]

Year == NotNull(Plain("int4"))
OnlyYear == {Year}
Numbers == {Plain("int4"), Year, Foreign(Plain("int4")), Else(Foreign(Plain("int4")), "literal"),
            Else(Key(Plain("int4")), "SEQUENCE"),
            Plain("int8"), NotNull(Plain("int8")), Spelt(Plain("int8"), "bigint"),
            Spelt(NotNull(Plain("int8")), "bigint"),
            Plain("numeric"), NotNull(Plain("numeric")), Unbounded(Plain("numeric"))}
Wordings == {Plain("varchar"), NotNull(Plain("varchar")), Enumerated(NotNull(Plain("varchar"))),
             Foreign(NotNull(Plain("varchar"))), Foreign(Plain("varchar")),
             Else(Foreign(Plain("varchar")), "literal"), Enumerated(Foreign(NotNull(Plain("varchar")))),
             Unbounded(Plain("varchar")), Unbounded(NotNull(Plain("varchar"))),
             Else(Unbounded(Plain("varchar")), "literal")}
Times == {Else(Plain("timestamp"), "now"), Plain("date"), Plain("tsvector")}
References == {OfReference(c) : c \in
                 {Key(Plain("varchar")), Plain("varchar"), NotNull(Plain("varchar")),
                  Enumerated(Plain("varchar")), Foreign(NotNull(Plain("varchar"))),
                  Unbounded(Plain("_text")), Spelt(Unbounded(Plain("_text")), "ARRAY"),
                  Else(NotNull(Plain("timestamp")), "now")}}
AllShapes == Numbers \cup Wordings \cup Times \cup References

Line(m, q, c) == [month |-> m, quarter |-> q, cell |-> c]
PeriodLines == {Line("07", "", "7"), Line("", "7", "7"), Line("7", "7", "7")}
CellLines == {Line("7", "", c) : c \in Texts} \cup {Line("huge", "", "7"), Line("07", "", "7")}
=============================================================================
