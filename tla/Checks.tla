------------------------------- MODULE Checks -------------------------------
(***************************************************************************)
(* Package checks: the findings a profile gives.  A finding is written from *)
(* the profile, with the number its title claims, and carries the query    *)
(* that is to give that number when the audit runs it again.               *)
(*                                                                         *)
(* "env" is what a check sees: the tables the load reports, the engine's   *)
(* tables by name, and the profile.  A check of a column is given it as    *)
(* <<n, i>>, the i-th column of the n-th table.                            *)
(***************************************************************************)
EXTENDS Profiles, Findings

CONSTANTS
    Plurals,        \* word |-> that word with an "s" or an "es"
    NoteSeverity    \* structuralSeverity: code of a note |-> severity

(* A name is the sequence of its words, in lower case.                       *)

\* A name of a table that begins with these words, the last in the singular or the plural.
BeginsWith(table, words) ==
    /\ words # <<>>
    /\ \E last \in {Last(words)} \union Plurals[Last(words)] :
           IsPrefix(Append(Front(words), last), table)

\* namesOwnTable: the column is named for the table it is in.
OwnsTable(table, column) ==
    Last(column) = "id" /\ (Len(column) = 1 \/ BeginsWith(table, Front(column)))

\* namesSuggestReference: two columns of one name, or one named for the other's table.
NamedFor(column, table, key) ==
    LET base == IF Last(column) = "id" THEN Front(column) ELSE column IN
    \/ column = key
    \/ BeginsWith(table, base) /\ key \in {<<"id">>, Append(base, "id")}

\* looksLikeIdentifier, nonNegativeNames and the names that allow a negative, looksScheduled.
Identifies(name) == Last(name) \in {"id", "code", "key", "ref", "number", "no", "sku", "uuid"}

Unsigned(name) ==
    /\ Range(name) \intersect {"quantity", "count", "price", "amount", "total", "stock"} # {}
    /\ Range(name) \intersect {"balance", "change", "net", "margin", "profit"} = {}

Scheduled(name) == Range(name) \intersect {"due", "expiry", "planned", "deadline"} # {}

-----------------------------------------------------------------------------
At(env, n) == <<env.tables[n].name>>
Where(env, c) == <<env.tables[c[1]].name, env.tables[c[1]].columns[c[2]].name>>
Of(env, c) == env.profile[c[1]][c[2]]
ColumnsOf(env) == UNION {{<<n, i>> : i \in DOMAIN env.profile[n]} : n \in DOMAIN env.tables}

Raise(rule, severity, at, count, query) ==
    [rule |-> rule, at |-> at, severity |-> severity, count |-> count, query |-> query,
     claimed |-> count, verified |-> FALSE]

\* The columns in the order they are examined.
Precedes(a, b) == a[1] < b[1] \/ (a[1] = b[1] /\ a[2] < b[2])

\* countWhere, of one column.
CountWhere(env, c, where) ==
    Query("where", env.tables[c[1]].name, env.tables[c[1]].columns[c[2]].name, where)

\* Set.AddAll of a check that reports one thing or none.
When(condition, f) == IF condition THEN <<f>> ELSE <<>>

-----------------------------------------------------------------------------
(* The checks of one column.                                                 *)

CheckEmptyColumn(env, c) ==
    LET p == Of(env, c) IN
    When(p.total > 0 /\ Populated(p) <= 0,
         Raise("column.empty", Warning, Where(env, c), p.total,
               CountWhere(env, c, Cells \ NonBlank)))

\* standsOut: no real value is as frequent as the magic number.
StandsOut(p, placeholder) ==
    \A v \in DOMAIN p.top \ IsNumberPlaceholder : p.top[v] < p.placeholders[placeholder]

\* wrongSideOfZero: it is negative, and nothing real is.
WrongSideOfZero(p, placeholder) ==
    /\ p.numeric.count > 0
    /\ p.numeric.minReal >= 0
    /\ \E v \in DOMAIN Number : Folded[v] = placeholder /\ Number[v] < 0

\* A plausible bug: a word for "no value" has to stand out as well.
CountedIfItStandsOut(p) == {s \in DOMAIN p.placeholders : StandsOut(p, s)}

\* The placeholders a column's gaps are counted with.  Every text counts, a magic
\* number only where it is no measurement.
Counted(p) ==
    {s \in DOMAIN p.placeholders :
        \/ s \notin NumberPlaceholders
        \/ StandsOut(p, s)
        \/ WrongSideOfZero(p, s)}

CheckMissingValues(env, c) ==
    LET p == Of(env, c)
        counted == Counted(p)
        placeholders == Total([s \in counted |-> p.placeholders[s]])
        missing == p.nulls + p.blanks + placeholders
        half == 2 * missing >= p.total
    IN  When(/\ missing > 0
             /\ missing # p.total
             /\ half \/ placeholders > 0 \/ 20 * missing >= p.total,
             Raise("column.missing_values", IF half THEN Warning ELSE Info, Where(env, c), missing,
                   CountWhere(env, c, (Cells \ NonBlank) \union
                                      {v \in Cells \ {Null} : Folded[v] \in counted})))

\* A plausible bug: the evidence forgets that the profile set placeholders aside.
MisfitsToo(kind) == NonBlank \ Matches(kind)

\* The cells a type violation shows: neither of the kind nor a word for "no value".
Misfits(kind) == NonBlank \ (Matches(kind) \union IsTextPlaceholder)

CheckTypeViolations(env, c) ==
    LET p == Of(env, c).inferred IN
    When(p.off > 0 /\ p.kind \in Range(TestedKinds),
         Raise("column.type_violation", Error, Where(env, c), p.off,
               CountWhere(env, c, Misfits(p.kind))))

\* The count is an estimate, and the title gives no number.
CheckNearMissType(env, c) ==
    LET p == Of(env, c)
        q == p.inferred
    IN  When(q.kind = "text" /\ q.near # NoKind /\ 10 * q.nearly >= 6 * q.data,
             Raise("column.mostly_typed", Warning, Where(env, c),
                   (Populated(p) * (q.data - q.nearly)) \div q.data,
                   CountWhere(env, c, Misfits(q.near))))

\* A second format is one that reads what the leading one cannot.
CheckMixedDateFormats(env, c) ==
    LET d == Of(env, c).temporal
        second == {format \in DOMAIN d.exclusive : d.exclusive[format] > 0}
    IN  When(d.count > 0 /\ second # {},
             Raise("column.mixed_date_formats", Error, Where(env, c),
                   Total([format \in second |-> d.exclusive[format]]),
                   CountWhere(env, c, (NonBlank \intersect AnyDate) \ Castable["date"])))

CheckAmbiguousDates(env, c) ==
    LET d == Of(env, c).temporal IN
    When(d.count > 0 /\ d.ambiguous > 0,
         Raise("column.ambiguous_dates", Error, Where(env, c), d.ambiguous,
               CountWhere(env, c, NonBlank \intersect Ambiguous)))

CheckImplausibleDates(env, c) ==
    LET d == Of(env, c).temporal IN
    When(d.count > 0 /\ d.implausible > 0,
         Raise("column.implausible_dates", Warning, Where(env, c), d.implausible, NoQuery))

CheckFutureDates(env, c) ==
    LET d == Of(env, c).temporal IN
    When(d.count > 0 /\ d.future > 0 /\ ~Scheduled(Where(env, c)[2]),
         Raise("column.future_dates", Warning, Where(env, c), d.future, NoQuery))

\* A value with spaces on both sides counts twice.
CheckWhitespacePadding(env, c) ==
    LET p == Of(env, c) IN
    When(p.leading + p.trailing > 0,
         Raise("column.whitespace_padding", Warning, Where(env, c), p.leading + p.trailing,
               CountWhere(env, c, Leading \union Trailing)))

CheckCaseVariants(env, c) ==
    LET p == Of(env, c) IN
    When(/\ p.distinct > p.distinctFolded
         /\ p.distinctFolded <= 100
         /\ 2 * p.distinctFolded <= Populated(p),
         Raise("column.case_variants", Warning, Where(env, c), p.distinct - p.distinctFolded,
               Query("variants", Where(env, c)[1], Where(env, c)[2], {})))

CheckNumericOutliers(env, c) ==
    LET n == Of(env, c).numeric IN
    When(n.count > 0 /\ n.outliers > 0,
         Raise("column.numeric_outliers", Info, Where(env, c), n.outliers,
               CountWhere(env, c, n.far)))

CheckUnexpectedNegatives(env, c) ==
    LET n == Of(env, c).numeric IN
    When(n.count > 0 /\ n.negative > 0 /\ Unsigned(Where(env, c)[2]),
         Raise("column.unexpected_negative", Warning, Where(env, c), n.negative,
               CountWhere(env, c, {v \in DOMAIN Number : Number[v] < 0})))

CheckConstantColumn(env, c) ==
    LET p == Of(env, c) IN
    When(p.distinct = 1 /\ p.total >= 5 /\ Populated(p) # 0,
         Raise("column.constant", Info, Where(env, c), p.total, NoQuery))

CheckRenamedHeader(env, c) ==
    LET column == env.tables[c[1]].columns[c[2]] IN
    When(column.original \notin {<<>>, column.name},
         Raise("column.duplicate_header", Warning, Where(env, c), 1, NoQuery))

\* checkUnprofiled, and nothing else of a column that was not measured.
CheckColumn(env, c) ==
    IF ~Of(env, c).measured
    THEN <<Raise("column.not_profiled", Warning, Where(env, c), 0, NoQuery)>>
    ELSE FlattenSeq(<<CheckEmptyColumn(env, c), CheckMissingValues(env, c),
                      CheckTypeViolations(env, c), CheckNearMissType(env, c),
                      CheckMixedDateFormats(env, c), CheckAmbiguousDates(env, c),
                      CheckImplausibleDates(env, c), CheckFutureDates(env, c),
                      CheckWhitespacePadding(env, c), CheckCaseVariants(env, c),
                      CheckNumericOutliers(env, c), CheckUnexpectedNegatives(env, c),
                      CheckConstantColumn(env, c), CheckRenamedHeader(env, c)>>)

-----------------------------------------------------------------------------
(* The checks of a table.                                                    *)

AllRows(env, n, asks) ==
    LET t == env.tables[n] IN Query(asks, t.name, t.columns[1].name, {})

\* What packages source and ingest note of a file, but for the rejected rows.
NoteCodes ==
    <<"csv.bom", "csv.delimiter_ambiguous", "csv.delimiter_disagreement",
      "csv.dialect_undetectable", "csv.encoding_not_utf8", "csv.header_blank",
      "csv.header_duplicate", "csv.header_whitespace", "csv.inconsistent_width",
      "csv.no_header", "csv.width_disagreement", "excel.formula_errors", "excel.header_blank",
      "excel.header_offset", "excel.hidden_rows", "excel.hidden_sheet", "excel.merged_cells",
      "excel.ragged_rows", "excel.sheet_unreadable", "excel.stacked_tables", "excel.title_row",
      "ingest.no_rows">>

\* checkStructure: what was noted while the file was read; the rejected rows have their own.
CheckStructure(env, n) ==
    FlattenSeq([k \in DOMAIN NoteCodes |->
        LET code == NoteCodes[k] IN
        When(code \in env.tables[n].notes,
             Raise(code, IF code \in DOMAIN NoteSeverity THEN NoteSeverity[code] ELSE Info,
                   At(env, n), 0, NoQuery))])

CheckEmptyTable(env, n) ==
    When(env.tables[n].rowCount = 0,
         Raise("table.empty", Warning, At(env, n), 0, AllRows(env, n, "all")))

CheckUnreadableRows(env, n) ==
    When(env.tables[n].rejects > 0,
         Raise("table.unreadable_rows", Error, At(env, n), env.tables[n].rejects, NoQuery))

\* No claim is made of a table with a column that was not measured.
CheckNoCandidateKey(env, n) ==
    When(/\ env.tables[n].rowCount >= 2
         /\ \A i \in DOMAIN env.profile[n] :
                env.profile[n][i].measured /\ ~Unique(env.profile[n][i]),
         Raise("table.no_candidate_key", Info, At(env, n), 0, NoQuery))

CheckDuplicateRows(env, n) ==
    LET q == AllRows(env, n, "surplus rows")
        surplus == Answer(env.engine, q)
    IN  When(env.tables[n].rowCount >= 2 /\ surplus > 0,
             Raise("table.duplicate_rows", Error, At(env, n), surplus, q))

CheckTable(env, n) ==
    FlattenSeq(<<CheckStructure(env, n), CheckEmptyTable(env, n), CheckUnreadableRows(env, n),
                 CheckNoCandidateKey(env, n), CheckDuplicateRows(env, n),
                 FlattenSeq([i \in DOMAIN env.profile[n] |-> CheckColumn(env, <<n, i>>)])>>)

-----------------------------------------------------------------------------
(* relate: what the tables say of each other.                                *)

Filled(p) == p.total - p.nulls - p.blanks

\* candidateKeys: nine tenths of the values differ, or half of them do in the column
\* named for its table.
CandidateKeys(env) ==
    {c \in ColumnsOf(env) :
        LET p == Of(env, c)
            name == Where(env, c)[2]
        IN  /\ env.tables[c[1]].rowCount >= 2
            /\ Filled(p) > 0
            /\ p.inferred.kind # "empty"
            /\ \/ 10 * p.distinct >= 9 * Filled(p)
               \/ OwnsTable(env.tables[c[1]].name, name) /\ 2 * p.distinct >= Filled(p)
            /\ p.inferred.kind = "decimal" => Identifies(name)}

DuplicateKey(env, c) ==
    LET p == Of(env, c) IN
    When(p.distinct < Filled(p) /\ Identifies(Where(env, c)[2]),
         Raise("key.duplicate_values", Error, Where(env, c), Filled(p) - p.distinct,
               Query("surplus", Where(env, c)[1], Where(env, c)[2], {})))

Compatible(p, q) ==
    p.inferred.kind = q.inferred.kind /\ p.inferred.kind \notin {"empty", "boolean"}

ShapesMatch(p, q) == p.shape \intersect q.shape # {}

Named(env, child, parent) ==
    NamedFor(Where(env, child)[2], Where(env, parent)[1], Where(env, parent)[2])

\* proposeReferences: the keys a column may refer to, of other tables than its own.
Referable(env, child) ==
    {parent \in CandidateKeys(env) :
        /\ Populated(Of(env, child)) # 0
        /\ ~OwnsTable(Where(env, child)[1], Where(env, child)[2])
        /\ Where(env, parent)[1] # Where(env, child)[1]
        /\ Compatible(Of(env, child), Of(env, parent))
        /\ Named(env, child, parent) \/ ShapesMatch(Of(env, child), Of(env, parent))}

\* The best of them: one that is named for it first, then the one that repeats least,
\* then the first.
Better(env, child, a, b) ==
    LET p == Of(env, a)
        q == Of(env, b)
    IN  IF Named(env, child, a) # Named(env, child, b) THEN Named(env, child, a)
        ELSE IF p.distinct * Filled(q) # q.distinct * Filled(p)
             THEN p.distinct * Filled(q) > q.distinct * Filled(p)
             ELSE Precedes(a, b)

\* evaluateReference.  Containment is 1 - orphans / populated.
Reference(env, child) ==
    LET keys == Referable(env, child)
        parent == CHOOSE a \in keys : \A b \in keys \ {a} : Better(env, child, a, b)
        q == Against(Query("orphans", Where(env, child)[1], Where(env, child)[2], {}),
                     Where(env, parent)[1], Where(env, parent)[2])
        orphans == Answer(env.engine, q)
        populated == Populated(Of(env, child))
    IN  IF keys = {} THEN <<>>
        ELSE When(/\ Named(env, child, parent) \/ 100 * (populated - orphans) >= 85 * populated
                  /\ orphans > 0
                  /\ 10 * (populated - orphans) >= 2 * populated,
                  Raise("reference.orphan_values", Error, Where(env, child), orphans, q))

\* sharedDomainFindings: a category kept in two tables, of one name but for its case,
\* against the first of them.
IsCategory(env, c) ==
    LET p == Of(env, c) IN
    /\ Populated(p) # 0
    /\ p.distinctFolded <= 50
    /\ ~Identifies(Where(env, c)[2])
    /\ p.distinctFolded < Populated(p)

SharedDomain(env, c) ==
    LET same == {b \in ColumnsOf(env) : IsCategory(env, b) /\ Where(env, b)[2] = Where(env, c)[2]}
        base == CHOOSE a \in same : \A b \in same : a[1] <= b[1]
        q == Against(Query("missing from", Where(env, c)[1], Where(env, c)[2], {}),
                     Where(env, base)[1], Where(env, base)[2])
        extra == Answer(env.engine, q)
    IN  IF c \notin same \/ c = base THEN <<>>
        ELSE When(extra > 0, Raise("domain.inconsistent_values", Warning, Where(env, c), extra, q))

\* What a comparison reports of each column, one table after the other.
OfKeys(env) ==
    FlattenSeq([n \in DOMAIN env.tables |-> FlattenSeq([i \in DOMAIN env.profile[n] |->
        IF <<n, i>> \in CandidateKeys(env) THEN DuplicateKey(env, <<n, i>>) ELSE <<>>])])

OfReferences(env) ==
    FlattenSeq([n \in DOMAIN env.tables |-> FlattenSeq([i \in DOMAIN env.profile[n] |->
        Reference(env, <<n, i>>)])])

OfDomains(env) ==
    FlattenSeq([n \in DOMAIN env.tables |-> FlattenSeq([i \in DOMAIN env.profile[n] |->
        SharedDomain(env, <<n, i>>)])])

Relate(env) ==
    IF CandidateKeys(env) = {} THEN <<>>
    ELSE FlattenSeq(<<OfKeys(env), OfReferences(env), OfDomains(env)>>)

\* Run: every check, into one set.
RunChecks(env) ==
    LET ofTables == FlattenSeq([n \in DOMAIN env.tables |-> CheckTable(env, n)]) IN
    AddAll(<<>>, FlattenSeq(<<ofTables, Relate(env)>>))
=============================================================================
