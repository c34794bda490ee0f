------------------------------- MODULE Ingest -------------------------------
(***************************************************************************)
(* Packages ingest and source: from the files of a dataset to the tables   *)
(* of the engine.  Workbooks are decoded in parallel while the files are   *)
(* walked; then the tables are named and loaded one after another, and the *)
(* rows the engine rejected are brought back to the tables they are of.    *)
(*                                                                         *)
(* A file is [kind, rel, header, sniffed, rows, bad, noted] when it is     *)
(* delimited, and [kind, rel, readable, sheets] when it is a workbook; a   *)
(* sheet is [name, readable, visible, merged, rows], a row of it           *)
(* [cells, hidden].  A name is a sequence of words.                        *)
(***************************************************************************)
EXTENDS Tables, SequencesExt, TLC

CONSTANTS
    Words,               \* the words of names, in the order of text
    Punctuation,         \* those of them an identifier cannot have
    Unpadded,            \* a name with spaces around it |-> that name without them
    NameOf,              \* cell of a header |-> the name it gives
    FormulaErrors,       \* excelErrorValues
    HeaderScanRows,      \* headerScanRows
    ParallelWorkbooks    \* maxParallelWorkbooks

VARIABLES
    files,      \* source.Dataset.Files, in the order of their names
    stage,      \* "planning", "loading", "attaching", then what follows or "failed"
    walked,     \* how many files the walk of planTables is through
    worker,     \* workbook |-> where its goroutine is
    sheet,      \* workbook |-> the sheet it adds next
    mu,         \* who holds the mutex of planTables; 0 is nobody
    seen,       \* who appends to the plan |-> the plan as it read it
    plan,       \* the tables to be loaded
    scratch,    \* path |-> the delimited file written for a sheet
    skipped,    \* Dataset.Skipped: the workbooks that were passed over
    rejected,   \* path |-> how many lines of it the engine did not read
    engine,     \* the tables of the engine, by name
    tables      \* Result.Tables

ingestVars == <<files, stage, walked, worker, sheet, mu, seen, plan, scratch, skipped,
                rejected, engine, tables>>

Before(a, b) ==
    LET rank(w) == CHOOSE i \in DOMAIN Words : Words[i] = w IN
    \/ IsStrictPrefix(a, b)
    \/ \E i \in DOMAIN a \intersect DOMAIN b :
          /\ SubSeq(a, 1, i - 1) = SubSeq(b, 1, i - 1)
          /\ rank(a[i]) < rank(b[i])

\* SafeName.
SafeName(name) == SelectSeq(name, LAMBDA w : w \notin Punctuation)

\* A map with these entries put into it.
Over(entries, map) ==
    [k \in DOMAIN entries \union DOMAIN map |-> IF k \in DOMAIN entries THEN entries[k] ELSE map[k]]

Trim(name) == IF name \in DOMAIN Unpadded THEN Unpadded[name] ELSE name

-----------------------------------------------------------------------------
(* A worksheet, written out as a delimited file.                             *)

IsBlankRow(row) == \A i \in DOMAIN row.cells : row.cells[i] \notin NonBlank

\* findHeader, in the rows that were buffered: the first wide enough not to be a title.
Buffered(s) == {i \in DOMAIN s.rows : i <= HeaderScanRows}
Width(s) == Max({0} \union {Len(s.rows[i].cells) : i \in Buffered(s)})

HeaderRows(s) ==
    LET threshold == IF Width(s) >= 3 THEN (Width(s) * 3) \div 5 ELSE 1 IN
    {i \in Buffered(s) : ~IsBlankRow(s.rows[i]) /\ Len(s.rows[i].cells) >= threshold}

\* An empty field is read back as no value.
Padded(row, width) ==
    [i \in 1..width |->
        IF i \in DOMAIN row.cells /\ row.cells[i] # Empty THEN row.cells[i] ELSE Null]

\* writeSheetCSV and summarizeSheet.  The row that ends the search for the header was
\* read already and is in neither loop.
NoTable == [header |-> <<>>, body |-> <<>>, bad |-> 0, notes |-> {}]

Written(s) ==
    LET at == Min(HeaderRows(s))
        width == Width(s)
        looked == DOMAIN s.rows \ {HeaderScanRows + 1}
        below == {i \in looked : i > at}
        blank(i) == IsBlankRow(s.rows[i])
        body == {i \in below : ~blank(i)}
        fits == {i \in body : Len(s.rows[i].cells) <= width}
        header == [i \in 1..width |->
                      IF i \in DOMAIN s.rows[at].cells THEN NameOf[s.rows[at].cells[i]] ELSE <<>>]
        note(code, condition) == IF condition THEN {code} ELSE {}
    IN  IF HeaderRows(s) = {} THEN NoTable
        ELSE [header |-> header,
              body |-> [i \in fits |-> Padded(s.rows[i], width)],
              bad |-> Cardinality(body \ fits),
              notes |->
                note("excel.title_row", \E i \in DOMAIN s.rows : i < at /\ ~blank(i))
                  \union note("excel.header_offset", at > 1)
                  \union note("excel.hidden_rows", \E i \in body : s.rows[i].hidden)
                  \union note("excel.ragged_rows", \E i \in body : Len(s.rows[i].cells) # width)
                  \union note("excel.stacked_tables", \E i \in below, j \in body : i < j /\ blank(i))
                  \union note("excel.formula_errors",
                              \E i \in looked : Range(s.rows[i].cells) \intersect FormulaErrors # {})
                  \union note("excel.header_blank", <<>> \in Range(header))
                  \union note("excel.hidden_sheet", ~s.visible)
                  \union note("excel.merged_cells", s.merged)]

\* InspectWorkbook: the sheets it can read, and those of them that are tables.
Path(f, i) == <<SafeName(files[f].rel), i>>

DataRows(s) == Cardinality(DOMAIN Written(s).body) + Written(s).bad
SheetsOf(f) == {i \in DOMAIN files[f].sheets : files[f].sheets[i].readable}
TablesIn(f) == {i \in SheetsOf(f) : DataRows(files[f].sheets[i]) > 0}

\* What a workbook's sheets are written to; none of it when it does not open.
Inspected(f) ==
    [path \in {Path(f, i) : i \in SheetsOf(f)} |-> Written(files[f].sheets[path[2]])]

-----------------------------------------------------------------------------
(* planTables.                                                               *)

Walk == 0
NotReading == <<>>
Workbooks == {f \in DOMAIN files : files[f].kind = "excel"}

InitIngest ==
    /\ stage = "planning"
    /\ walked = 0
    /\ worker = [f \in Workbooks |-> "idle"]
    /\ sheet = [f \in Workbooks |-> 1]
    /\ mu = 0
    /\ seen = [p \in Workbooks \union {Walk} |-> NotReading]
    /\ plan = <<>> /\ tables = <<>>
    /\ scratch = <<>> /\ rejected = <<>> /\ engine = <<>>
    /\ skipped = {}

loadVars == <<rejected, engine, tables>>

\* append reads the slice, and what it returns is stored: two steps, and those of the
\* walk are under no mutex.
ReadPlan(p) == seen[p] = NotReading /\ seen' = [seen EXCEPT ![p] = <<plan>>]

StorePlan(p, table) ==
    /\ seen[p] # NotReading
    /\ plan' = Append(seen[p][1], table)
    /\ seen' = [seen EXCEPT ![p] = NotReading]

WalkCSVRead ==
    /\ stage = "planning" /\ walked < Len(files) /\ files[walked + 1].kind = "csv"
    /\ ReadPlan(Walk)
    /\ UNCHANGED <<files, stage, walked, worker, sheet, mu, plan, scratch, skipped, loadVars>>

WalkCSVStore ==
    /\ StorePlan(Walk, [file |-> walked + 1, sheet |-> 0, path |-> <<files[walked + 1].rel, 0>>,
                        display |-> files[walked + 1].rel])
    /\ walked' = walked + 1
    /\ UNCHANGED <<files, stage, worker, sheet, mu, scratch, skipped, loadVars>>

\* group.Go, which waits while as many workbooks as it may are being decoded.
WalkWorkbook ==
    /\ stage = "planning" /\ walked < Len(files) /\ files[walked + 1].kind = "excel"
    /\ Cardinality({f \in Workbooks : worker[f] \notin {"idle", "done"}}) < ParallelWorkbooks
    /\ worker' = [worker EXCEPT ![walked + 1] = "decoding"]
    /\ walked' = walked + 1
    /\ UNCHANGED <<files, stage, sheet, mu, seen, plan, scratch, skipped, loadVars>>

Decode(f) ==
    /\ worker[f] = "decoding"
    /\ IF files[f].readable /\ SheetsOf(f) # {}
       THEN /\ scratch' = Over(Inspected(f), scratch)
            /\ worker' = [worker EXCEPT ![f] = "waiting"]
            /\ UNCHANGED skipped
       ELSE /\ skipped' = skipped \union {f}
            /\ worker' = [worker EXCEPT ![f] = "done"]
            /\ UNCHANGED scratch
    /\ UNCHANGED <<files, stage, walked, sheet, mu, seen, plan, loadVars>>

Lock(f) ==
    /\ worker[f] = "waiting" /\ mu = 0
    /\ mu' = f
    /\ worker' = [worker EXCEPT ![f] = "adding"]
    /\ UNCHANGED <<files, stage, walked, sheet, seen, plan, scratch, skipped, loadVars>>

\* The sheets without rows are passed over.
AddRead(f) ==
    /\ worker[f] = "adding" /\ sheet[f] <= Len(files[f].sheets)
    /\ IF sheet[f] \in TablesIn(f)
       THEN ReadPlan(f) /\ UNCHANGED sheet
       ELSE sheet' = [sheet EXCEPT ![f] = @ + 1] /\ UNCHANGED seen
    /\ UNCHANGED <<files, stage, walked, worker, mu, plan, scratch, skipped, loadVars>>

AddStore(f) ==
    /\ StorePlan(f, [file |-> f, sheet |-> sheet[f], path |-> Path(f, sheet[f]),
                     display |-> files[f].rel \o files[f].sheets[sheet[f]].name])
    /\ sheet' = [sheet EXCEPT ![f] = @ + 1]
    /\ UNCHANGED <<files, stage, walked, worker, mu, scratch, skipped, loadVars>>

Unlock(f) ==
    /\ worker[f] = "adding" /\ sheet[f] > Len(files[f].sheets)
    /\ mu' = 0
    /\ worker' = [worker EXCEPT ![f] = "done"]
    /\ UNCHANGED <<files, stage, walked, sheet, seen, plan, scratch, skipped, loadVars>>

\* AssignNames, in the order of the plan: what a table is called when these names are
\* taken.  The name it would fall back to is the same one, made of the whole path.
Named1(taken, display) ==
    LET base == SafeName(display) IN
    IF base \notin DOMAIN taken
    THEN [name |-> base, taken |-> (base :> 1) @@ taken]
    ELSE LET n == taken[base] + 1
             name == Append(base, ToString(n))
         IN  [name |-> name, taken |-> (name :> 1) @@ (base :> n) @@ taken]

NamesOf(planned) ==
    LET each(state, p) ==
            LET next == Named1(state.taken, p.display) IN
            [taken |-> next.taken, names |-> Append(state.names, next.name)]
    IN  FoldLeft(each, [taken |-> <<>>, names |-> <<>>], planned).names

AssignNames(planned) ==
    LET names == NamesOf(planned) IN
    [k \in DOMAIN planned |->
        [name |-> names[k], file |-> planned[k].file, sheet |-> planned[k].sheet,
         path |-> planned[k].path, display |-> planned[k].display]]

\* sort.Slice by these names: the places to take one after the other; what has the same
\* name comes in any order.
Orders(names) ==
    {p \in Bijection(DOMAIN names, DOMAIN names) :
        \A i, j \in DOMAIN names : i < j => ~Before(names[p[j]], names[p[i]])}

\* group.Wait, the sort, and assignRefs.
PlanDone ==
    /\ stage = "planning" /\ walked = Len(files) /\ seen[Walk] = NotReading
    /\ \A f \in Workbooks : worker[f] = "done"
    /\ \E p \in Orders([k \in DOMAIN plan |-> plan[k].display]) :
          plan' = AssignNames([k \in DOMAIN plan |-> plan[p[k]]])
    /\ stage' = "loading"
    /\ UNCHANGED <<files, walked, worker, sheet, mu, seen, scratch, skipped, loadVars>>

-----------------------------------------------------------------------------
(* Load: one table after another.                                            *)

\* The names the engine gives to the columns of a file it reads; outside this code.
EngineNames(header) ==
    LET plain(i) == IF header[i] = <<>> THEN <<"column", ToString(i - 1)>> ELSE header[i]
        earlier(i) == Cardinality({j \in 1..i - 1 : plain(j) = plain(i)})
    IN  [i \in DOMAIN header |->
            IF earlier(i) = 0 THEN plain(i) ELSE Append(plain(i), ToString(earlier(i)))]

\* columnsFromHeader.
FromHeader(header) ==
    LET plain(i) == IF Trim(header[i]) = <<>> THEN <<"column", ToString(i)>> ELSE Trim(header[i])
        earlier(i) == Cardinality({j \in 1..i - 1 : plain(j) = plain(i)})
    IN  [i \in DOMAIN header |->
            IF earlier(i) = 0 THEN plain(i) ELSE Append(plain(i), ToString(earlier(i)))]

\* SniffCSV: the engine's names, unless it has none or another number of them than the
\* header line.
SniffedNames(file) ==
    IF Len(file.sniffed) # Len(file.header) THEN FromHeader(file.header) ELSE file.sniffed

\* inspectHeader.
HeaderNotes(file) ==
    LET names == file.header
        note(code, condition) == IF condition THEN {code} ELSE {}
    IN  note("csv.header_blank", \E n \in Range(names) : Trim(n) = <<>>)
          \union note("csv.header_whitespace", \E n \in Range(names) : Trim(n) # n)
          \union note("csv.header_duplicate",
                      \E i, j \in DOMAIN names : /\ i # j /\ Trim(names[i]) # <<>>
                                                 /\ Trim(names[i]) = Trim(names[j]))
          \union note("csv.width_disagreement",
                      file.sniffed # <<>> /\ Len(file.sniffed) # Len(names))

\* columnsFor: what the engine is to call each column, and what the file does.
ColumnsFor(names, header) ==
    [i \in DOMAIN names |->
        [name |-> IF Trim(names[i]) = <<>> THEN <<"column", ToString(i)>> ELSE names[i],
         original |-> header[i]]]

\* loadOne's reading of a planned table.
Source(p) ==
    IF p.sheet = 0
    THEN LET file == files[p.file] IN
         [columns |-> ColumnsFor(SniffedNames(file), file.header), rows |-> file.rows,
          bad |-> file.bad, notes |-> file.noted \union HeaderNotes(file)]
    ELSE LET s == scratch[p.path] IN
         [columns |-> ColumnsFor(EngineNames(s.header),
                                 Written(files[p.file].sheets[p.sheet]).header),
          rows |-> s.body, bad |-> s.bad,
          notes |-> Written(files[p.file].sheets[p.sheet]).notes \union
                      (IF SheetsOf(p.file) = DOMAIN files[p.file].sheets THEN {}
                       ELSE {"excel.sheet_unreadable"})]

\* CREATE OR REPLACE TABLE: it takes the place of a table of the same name, and two
\* columns of one name fail it, and the load with it.
Distinct(columns) == \A i, j \in DOMAIN columns : columns[i].name = columns[j].name => i = j

LoadOne ==
    /\ stage = "loading" /\ Len(tables) < Len(plan)
    /\ LET p == plan[Len(tables) + 1]
           s == Source(p)
           t == [name |-> p.name, display |-> p.display, columns |-> s.columns, rows |-> s.rows]
       IN  IF s.columns # <<>> /\ Distinct(s.columns)
           THEN /\ engine' = Over([name \in {p.name} |-> t], engine)
                /\ tables' = Append(tables,
                      [name |-> p.name, display |-> p.display, columns |-> s.columns,
                       rowCount |-> Size(t), rejects |-> 0, path |-> p.path,
                       notes |-> s.notes \union
                                   (IF Size(t) = 0 THEN {"ingest.no_rows"} ELSE {})])
                /\ rejected' = IF s.bad = 0 THEN rejected ELSE Over([path \in {p.path} |-> s.bad], rejected)
                /\ UNCHANGED stage
           ELSE stage' = "failed" /\ UNCHANGED loadVars
    /\ UNCHANGED <<files, walked, worker, sheet, mu, seen, plan, scratch, skipped>>

\* attachRejects, by the path a table was read from, and the sort by name.
Attach ==
    /\ stage = "loading" /\ Len(tables) = Len(plan)
    /\ LET last(n) == \A m \in DOMAIN tables : tables[m].path = tables[n].path => m <= n
           of(n) == IF tables[n].path \in DOMAIN rejected /\ last(n) THEN rejected[tables[n].path] ELSE 0
           each == [n \in DOMAIN tables |->
                      [tables[n] EXCEPT !.rejects = of(n),
                                        !.notes = IF of(n) = 0 THEN @
                                                  ELSE @ \union {"ingest.rejected_rows"}]]
       IN  \E p \in Orders([n \in DOMAIN tables |-> tables[n].name]) :
              tables' = [n \in DOMAIN tables |-> each[p[n]]]
    /\ stage' = "profile"
    /\ UNCHANGED <<files, walked, worker, sheet, mu, seen, plan, scratch, skipped, rejected, engine>>

IngestStep ==
    \/ WalkCSVRead \/ WalkCSVStore \/ WalkWorkbook
    \/ \E f \in Workbooks : Decode(f) \/ Lock(f) \/ AddRead(f) \/ AddStore(f) \/ Unlock(f)
    \/ PlanDone \/ LoadOne \/ Attach

-----------------------------------------------------------------------------
\* ingest.go says of Load that it reads every file in the dataset into the engine: each
\* delimited file, and each worksheet with rows, is a table when the load returns.
EverySourceIsLoaded ==
    stage \notin {"planning", "loading", "failed"} =>
       \A f \in DOMAIN files :
          IF files[f].kind = "csv"
          THEN \E n \in DOMAIN tables : tables[n].display = files[f].rel
          ELSE files[f].readable =>
                  \A i \in TablesIn(f) : \E n \in DOMAIN tables :
                     tables[n].display = files[f].rel \o files[f].sheets[i].name
=============================================================================
