------------------------------ MODULE Profiles ------------------------------
(***************************************************************************)
(* Package profile: what is measured of a column.  The measurements are    *)
(* all counts of the lines of one column; shares are compared without      *)
(* division.                                                               *)
(***************************************************************************)
EXTENDS Tables

CONSTANTS
    Today,          \* the day the audit runs
    Oldest,         \* implausibleBefore
    Century         \* and how far ahead a date is no more believed

\* OutlierSigma, and the share of exceptions conformanceThreshold leaves a kind: 5%.
OutlierSigma == 6
Tolerance == 20

-----------------------------------------------------------------------------
(* infer: the first kind all but a twentieth of the data values have, and one at *)
(* least, text if none; and the kind most of them have.                         *)
NoKind == ""

Infer(data, matched) ==
    LET allowed == Max({1, data \div Tolerance})
        fits == {n \in DOMAIN TestedKinds : data - matched[TestedKinds[n]] <= allowed}
        kind == IF fits = {} THEN "text" ELSE TestedKinds[Min(fits)]
        most == Max({matched[k] : k \in Range(TestedKinds)})
        near == Min({n \in DOMAIN TestedKinds : matched[TestedKinds[n]] = most})
    IN  IF data = 0 THEN [kind |-> "empty", off |-> 0, near |-> NoKind, nearly |-> 0, data |-> 0]
        ELSE [kind |-> kind,
              off |-> IF kind = "text" THEN 0 ELSE data - matched[kind],
              near |-> IF most = 0 THEN NoKind ELSE TestedKinds[near],
              nearly |-> most,
              data |-> data]

-----------------------------------------------------------------------------
(* readNumericDetail.  A value is an outlier when it is further from the mean than *)
(* OutlierSigma deviations of the sample, of n values of sum s and squares q:      *)
(*     (x - s/n)^2  >  OutlierSigma^2 * (n*q - s^2) / (n*(n - 1))                  *)
Far(column) ==
    LET numbers == Lines(column, Castable["decimal"])
        n == Cardinality(numbers)
        s == MapThenSumSet(LAMBDA line : Number[column[line]], numbers)
        q == MapThenSumSet(LAMBDA line : Number[column[line]] * Number[column[line]], numbers)
        isFar(v) == (n * Number[v] - s) * (n * Number[v] - s) * (n - 1)
                      > OutlierSigma * OutlierSigma * n * (n * q - s * s)
    IN  IF n > 2 /\ n * q > s * s THEN {v \in DOMAIN Number : isFar(v)} ELSE {}

NumericDetail(column) ==
    LET real == {Number[v] : v \in (DOMAIN Number \ IsNumberPlaceholder) \intersect Range(column)}
        far == Far(column)
    IN  [count |-> CountIn(column, NonBlank \intersect Castable["decimal"]),
         negative |-> CountIn(column, {v \in NonBlank \intersect DOMAIN Number : Number[v] < 0}),
         minReal |-> IF real = {} THEN 0 ELSE Min(real),
         far |-> far,
         outliers |-> CountIn(column, far)]

(* readTemporalDetail and readExclusiveFormats: how many values each format reads, *)
(* and how many of those the leading one, the first of the most, does not.        *)
TemporalDetail(column) ==
    LET read(n) == CountIn(column, NonBlank \intersect Parses(DateFormats[n]))
        used == {n \in DOMAIN DateFormats : read(n) > 0}
        lead == DateFormats[Min({n \in used : \A m \in used : read(m) <= read(n)})]
        days == NonBlank \intersect Parses(lead)
    IN  [count |-> Max({CountIn(column, NonBlank \intersect AnyDate),
                        CountIn(column, NonBlank \intersect Castable["timestamp"])}),
         exclusive |-> [format \in {DateFormats[n] : n \in used} |->
                          CountIn(column, NonBlank \intersect (Parses(format) \ Parses(lead)))],
         ambiguous |-> CountIn(column, NonBlank \intersect Ambiguous),
         future |-> IF used = {} THEN 0 ELSE CountIn(column, {v \in days : DayIn[lead][v] > Today}),
         implausible |->
            IF used = {} THEN 0
            ELSE CountIn(column, {v \in days : \/ DayIn[lead][v] < Oldest
                                               \/ DayIn[lead][v] > Today + Century})]

\* readTopValues: how often each value appears.
TopValues(column) == [v \in NonBlank \intersect Range(column) |-> CountIn(column, {v})]

\* readShapes.  A shape that does not have four fifths of the column is never looked at,
\* so only the one that does is kept.
CommonShapes(column) ==
    LET shaped(shape) == CountIn(column, {v \in NonBlank : Shape[v] = shape}) IN
    {shape \in {Shape[v] : v \in NonBlank \intersect Range(column)} :
        5 * shaped(shape) >= 4 * CountIn(column, Cells \ {Null})}

-----------------------------------------------------------------------------
(* profileColumn: readBasics, readSentinels and what follows of them.        *)
Measured(t, name) ==
    LET column == Column(t, name)
        texts == Range(column) \ {Null}
        count(where) == CountIn(column, where)
    IN  [measured |-> TRUE,
         total |-> Size(t),
         nulls |-> count({Null}),
         blanks |-> count(Cells \ ({Null} \union NonBlank)),
         distinct |-> Cardinality(texts),
         distinctFolded |-> Cardinality({Folded[v] : v \in texts}),
         leading |-> count(Leading),
         trailing |-> count(Trailing),
         inferred |-> Infer(count(NonBlank) - count(NonBlank \intersect IsTextPlaceholder),
                            [k \in Range(TestedKinds) |-> count(NonBlank \intersect Matches(k))]),
         placeholders |-> Groups(column, Folded, IsTextPlaceholder \union IsNumberPlaceholder),
         top |-> TopValues(column),
         shape |-> CommonShapes(column),
         numeric |-> NumericDetail(column),
         temporal |-> TemporalDetail(column)]

\* The same of a column of a table without rows, and of one whose measurements did not
\* run: zeros, which read exactly like a clean column.
Blank(kind, total, measured) ==
    [measured |-> measured, total |-> total, nulls |-> 0, blanks |-> 0, distinct |-> 0,
     distinctFolded |-> 0, leading |-> 0, trailing |-> 0,
     inferred |-> [kind |-> kind, off |-> 0, near |-> NoKind, nearly |-> 0, data |-> 0],
     placeholders |-> <<>>, top |-> <<>>, shape |-> {},
     numeric |-> [count |-> 0, negative |-> 0, minReal |-> 0, far |-> {},
                  outliers |-> 0],
     temporal |-> [count |-> 0, exclusive |-> <<>>, ambiguous |-> 0, future |-> 0,
                   implausible |-> 0]]

Unprofiled(total) == Blank(NoKind, total, FALSE)

\* profileColumn.  The load has counted the rows, the statements read what is there: their
\* sums over no rows are no numbers.
ProfileColumn(t, name, rowCount) ==
    IF rowCount = 0 THEN Blank("empty", 0, TRUE)
    ELSE IF Size(t) = 0 \/ name \notin {c.name : c \in Range(t.columns)} THEN Unprofiled(rowCount)
    ELSE Measured(t, name)

\* Run: the profile of every table the load reports.  "failed" is the columns whose
\* measurements do not run, as <<table, position>>; one of them does not lose the others.
Profile(engine, tables, failed) ==
    [n \in DOMAIN tables |->
        [i \in DOMAIN tables[n].columns |->
            IF <<n, i>> \in failed THEN Unprofiled(tables[n].rowCount)
            ELSE ProfileColumn(engine[tables[n].name], tables[n].columns[i].name,
                               tables[n].rowCount)]]

-----------------------------------------------------------------------------
\* Missing, Populated, Unique.
Missing(c) == c.nulls + c.blanks + Total(c.placeholders)
Populated(c) == c.total - Missing(c)
Unique(c) == c.total > 0 /\ c.nulls = 0 /\ c.distinct = c.total
=============================================================================
