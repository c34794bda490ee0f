----------------------------- MODULE MCOutcomes -----------------------------
(* Reports for the runs of Outcomes: one table of two columns, either of   *)
(* which may go, each with a finding that comes, goes, grows and changes.  *)
EXTENDS Outcomes

Finding(c) == <<"rule", "t", c>>

Report(columns, f) == [tables |-> [t \in {"t"} |-> [rows |-> 1, columns |-> columns]],
                       findings |-> f]

Grades == { [severity |-> 1, count |-> 1], [severity |-> 1, count |-> 2],
            [severity |-> 2, count |-> 1] }

Alone(c, grade) == [id \in {Finding(c)} |-> grade]

SomeReports ==
    LET two == {"a", "b"}
        faint == [severity |-> 1, count |-> 1]
    IN  {NoReport, Report({"a"}, <<>>), Report({"a"}, Alone("a", faint)), Report(two, <<>>)}
        \union {Report(two, Alone("b", g)) : g \in Grades}
        \union {Report(two, [id \in {Finding("a"), Finding("b")} |-> faint])}
=============================================================================
