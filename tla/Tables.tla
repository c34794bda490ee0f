------------------------------- MODULE Tables -------------------------------
(***************************************************************************)
(* The tables of the engine, and the SQL that is asked of them.            *)
(*                                                                         *)
(* Every column is loaded as text.  What the engine reads in a text is     *)
(* outside this repository and is given by constants: its padding, the     *)
(* number, the kinds and the dates it can be cast to, its shape.  A        *)
(* predicate over one column is then the set of the cells it holds for,    *)
(* and the three values of SQL's logic are in how that set is made.        *)
(*                                                                         *)
(* A table is [name, display, columns, rows]: columns is a sequence of     *)
(* [name, original], and rows has the cells of each line that was loaded,  *)
(* in the order of the columns.  A statement names the column it is about. *)
(***************************************************************************)
EXTENDS Integers, Sequences, FiniteSets, FiniteSetsExt, Functions

CONSTANTS
    Cells,          \* what a cell can hold
    Null,           \* the one that is no value
    Trimmed,        \* cell |-> its text without the spaces around it
    Folded,         \* cell |-> that, in lower case
    Empty,          \* what is left of a blank cell
    Leading,        \* the cells that begin with a space
    Trailing,       \* the cells that end with one
    Castable,       \* kind |-> the cells that read as it
    Number,         \* cell that casts to DOUBLE |-> that number, in halves
    DayIn,          \* date format |-> (cell that parses with it |-> the day it names)
    Shape           \* cell |-> its digits as 9 and its letters as X

\* What has a place for each number from 1 on.
IsSeq(s) == Len(s) \in Nat /\ s = [k \in 1..Len(s) |-> s[k]]

\* sentinelValues and numericSentinels, those of them the model's cells can be.
TextPlaceholders == {"n/a", "unknown"}
NumberPlaceholders == {"-1", "999999"}

\* nonBlank: a value that carries content.
NonBlank == {v \in Cells \ {Null} : Trimmed[v] # Empty}

\* SQLIsSentinel and SQLIsNumericSentinel.
IsTextPlaceholder == {v \in Cells \ {Null} : Folded[v] \in TextPlaceholders}
IsNumberPlaceholder == {v \in Cells \ {Null} : Folded[v] \in NumberPlaceholders}

\* dateFormats, in the order they are tried, and the ones tried to infer a kind.
DateFormats == <<"iso", "dmy", "mdy", "named">>
InferenceFormats == {"dmy", "mdy"}

Parses(format) == DOMAIN DayIn[format]

\* anyDateExpr: a cast to DATE, which reads ISO 8601, or a common format.
AnyDate == Castable["date"] \union UNION {Parses(format) : format \in InferenceFormats}

\* SQLMatchesKind; a kind with no test of its own is not asked for.
TestedKinds == <<"integer", "decimal", "date", "timestamp", "boolean">>
Matches(kind) == IF kind = "date" THEN AnyDate ELSE Castable[kind]

\* SQLAmbiguousDate: one day to a reader who puts the day first, another to one who
\* puts the month first.
Ambiguous == {v \in Parses("dmy") \intersect Parses("mdy") : DayIn["dmy"][v] # DayIn["mdy"][v]}

\* What the engine and the placeholders have in common: nothing without content reads as
\* anything, and no word for "no value" reads as a value of some kind.
ASSUME CellFacts ==
    /\ Null \in Cells
    /\ Leading \union Trailing \subseteq Cells \ {Null}
    /\ Range(TestedKinds) \subseteq DOMAIN Castable
    /\ \A kind \in DOMAIN Castable : Castable[kind] \subseteq NonBlank
    /\ DOMAIN Number = Castable["decimal"]
    /\ Castable["integer"] \subseteq Castable["decimal"]
    /\ \A format \in DOMAIN DayIn : DOMAIN DayIn[format] \subseteq NonBlank
    /\ IsTextPlaceholder \union IsNumberPlaceholder \subseteq NonBlank
    /\ \A n \in DOMAIN TestedKinds : Matches(TestedKinds[n]) \intersect IsTextPlaceholder = {}
    /\ \A u, v \in NonBlank : Trimmed[u] = Trimmed[v] => Folded[u] = Folded[v]

-----------------------------------------------------------------------------
\* The column a statement names, by its position.
Position(t, name) == CHOOSE i \in DOMAIN t.columns : t.columns[i].name = name

\* One column of a table: the cell each line has in it.
Column(t, name) ==
    LET i == Position(t, name) IN [line \in DOMAIN t.rows |-> t.rows[line][i]]

\* count(*) of a table, and of the lines whose cell is in "where".
Size(t) == Cardinality(DOMAIN t.rows)
Lines(column, where) == {line \in DOMAIN column : column[line] \in where}
CountIn(column, where) == Cardinality(Lines(column, where))

\* GROUP BY the folded value: how many lines each group has.
Groups(column, fold, where) ==
    [key \in {fold[v] : v \in where \intersect Range(column)} |->
        CountIn(column, {v \in where : fold[v] = key})]

\* The sum of numbers: as many as there are when each is counted out.
Total(counts) == Cardinality(UNION {{key} \X (1..counts[key]) : key \in DOMAIN counts})

\* sum(n - 1) over the values in "where", each of them in n lines.
Surplus(column, where) == CountIn(column, where) - Cardinality(Range(column) \intersect where)

-----------------------------------------------------------------------------
(* A count query: what it asks, of which column and, for a question about two *)
(* columns, against which other.                                             *)
Query(asks, t, column, where) ==
    [asks |-> asks, table |-> t, column |-> column, where |-> where,
     table2 |-> t, column2 |-> column]

Against(query, t, column) == [query EXCEPT !.table2 = t, !.column2 = column]

\* What the engine answers: "engine" is table name |-> table.
Answer(engine, q) ==
    LET t == engine[q.table]
        column == Column(t, q.column)
        other == Column(engine[q.table2], q.column2)
        keys(of) == {Folded[v] : v \in NonBlank \intersect Range(of)}
    IN  CASE q.asks = "all" -> Size(t)
          [] q.asks = "where" -> CountIn(column, q.where)
          [] q.asks = "rows" -> CountIn(t.rows, q.where)
          [] q.asks = "surplus rows" -> Surplus(t.rows, Range(t.rows))
          [] q.asks = "surplus" -> Surplus(column, NonBlank)
          [] q.asks = "variants" ->
                Cardinality({key \in keys(column) :
                    Cardinality({v \in NonBlank \intersect Range(column) : Folded[v] = key}) > 1})
          [] q.asks = "orphans" ->
                CountIn(column, {v \in NonBlank : Folded[v] \notin keys(other)})
          [] q.asks = "missing from" -> Cardinality(keys(column) \ keys(other))
=============================================================================
