----------------------------- MODULE Comparison -----------------------------
(***************************************************************************)
(* report.Compare: what moved between two reports of one dataset, and what *)
(* of it counts as a regression.                                           *)
(*                                                                         *)
(* A report is [tables, findings]: table |-> [rows, columns], and finding  *)
(* |-> [severity, count].  A finding is named by what it is about, so it   *)
(* keeps its id from one report to the next: <<rule, table, column>>.      *)
(***************************************************************************)
EXTENDS Integers, FiniteSets, Sequences

\* What a report says of its findings.
IsReport(report) ==
    /\ IsFiniteSet(DOMAIN report.findings)
    /\ \A id \in DOMAIN report.findings :
          report.findings[id] \in [severity : 0..2, count : Nat]

Statuses == {"new", "worsened", "resolved", "improved", "unchanged"}

\* compareFindings, for one finding that is in one report or the other.
Status(before, after, id) ==
    CASE id \notin DOMAIN before.findings -> "new"
      [] id \notin DOMAIN after.findings -> "resolved"
      [] id \in DOMAIN before.findings \intersect DOMAIN after.findings ->
            LET was == before.findings[id].count
                is == after.findings[id].count
            IN  IF is > was THEN "worsened" ELSE IF is < was THEN "improved" ELSE "unchanged"

SeverityMoved(before, after, id) ==
    /\ id \in DOMAIN before.findings \intersect DOMAIN after.findings
    /\ before.findings[id].severity # after.findings[id].severity

\* The findings the comparison lists: those that moved, in number or in severity.
Listed(before, after) ==
    {id \in DOMAIN before.findings \union DOMAIN after.findings :
        Status(before, after, id) # "unchanged" \/ SeverityMoved(before, after, id)}

Summary(before, after) ==
    [s \in Statuses |->
        Cardinality({id \in DOMAIN before.findings \union DOMAIN after.findings :
                        Status(before, after, id) = s})]

\* compareTables and columnDiff: the tables that came, went, or changed.
ColumnsRemoved(before, after, t) == before.tables[t].columns \ after.tables[t].columns

TableChange(before, after, t) ==
    CASE t \notin DOMAIN before.tables -> "added"
      [] t \notin DOMAIN after.tables -> "removed"
      [] t \in DOMAIN before.tables \intersect DOMAIN after.tables ->
            IF before.tables[t] = after.tables[t] THEN "none" ELSE "changed"

\* A plausible bug: only a whole table that went is worth a note.
GoneIfTable(before, after) ==
    \E t \in DOMAIN before.tables : TableChange(before, after, t) = "removed"

\* Compare's note that what is resolved may only be gone.
Gone(before, after) ==
    \E t \in DOMAIN before.tables :
        \/ TableChange(before, after, t) = "removed"
        \/ /\ TableChange(before, after, t) = "changed"
           /\ ColumnsRemoved(before, after, t) # {}

\* Compare.
Compare(before, after) ==
    [listed  |-> Listed(before, after),
     summary |-> Summary(before, after),
     noted   |-> Gone(before, after)]

\* Delta.Regressed, of a comparison that was made.
Regressed(before, after, minSeverity) ==
    {id \in Compare(before, after).listed :
        /\ Status(before, after, id) \in {"new", "worsened"}
        /\ after.findings[id].severity >= minSeverity}
=============================================================================
