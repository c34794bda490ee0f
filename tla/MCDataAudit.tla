---------------------------- MODULE MCDataAudit ----------------------------
(***************************************************************************)
(* Small datasets to audit: every column of up to three cells, long        *)
(* columns of one value with one or two others, a table that refers to     *)
(* another, and files that are read while workbooks are.                   *)
(***************************************************************************)
EXTENDS DataAudit

Texts == {"", "  ", "n/a", "-1", "2", "2.5", "30", "x", "X ", "2024-05-06", "1900-01-01",
          "2030-01-01", "03/04/2024", "25/12/2024", "5 Mar 2024", "#REF!", "amount", "status",
          "x\t"}
AllCells == Texts \union {Null}

TrimmedTexts == [v \in AllCells |-> CASE v = "  " -> "" [] v = "X " -> "X" [] OTHER -> v]
FoldedTexts == [v \in AllCells |-> CASE v = "  " -> "" [] v = "X " -> "x" [] OTHER -> v]
GoFoldedTexts == [FoldedTexts EXCEPT !["x\t"] = "x"]
NoText == ""
LongAgo == -36500
LeadingTexts == {"  "}
TrailingTexts == {"  ", "X "}
DateTexts == {"2024-05-06", "1900-01-01", "2030-01-01"}

Casts == [integer |-> {"-1", "2", "30"}, decimal |-> {"-1", "2", "2.5", "30"},
          date |-> DateTexts, timestamp |-> DateTexts, boolean |-> {}]
Halves == [v \in Casts.decimal |->
              CASE v = "-1" -> -2 [] v = "2" -> 4 [] v = "2.5" -> 5 [] v = "30" -> 60]
Days ==
    [iso |-> [v \in DateTexts |-> CASE v = "2024-05-06" -> 127 [] v = "1900-01-01" -> -45000
                                    [] v = "2030-01-01" -> 2192],
     dmy |-> [v \in {"03/04/2024", "25/12/2024"} |-> IF v = "03/04/2024" THEN 94 ELSE 360],
     mdy |-> [v \in {"03/04/2024"} |-> 64],
     named |-> [v \in {"5 Mar 2024"} |-> 65]]
Shapes ==
    [v \in AllCells |->
        CASE v \in {"x", "X ", "x\t"} -> "X" [] v \in {"2"} -> "9" [] v \in {"30"} -> "99"
          [] v = "2.5" -> "9.9" [] v = "-1" -> "-9" [] v \in DateTexts -> "9999-99-99"
          [] v \in {"03/04/2024", "25/12/2024"} -> "99/99/9999" [] v = "5 Mar 2024" -> "9 XXX 9999"
          [] v = "n/a" -> "X/X" [] OTHER -> "XXXXXX"]

Severity ==
    [code \in {"csv.header_duplicate", "excel.formula_errors", "excel.stacked_tables"} |-> Warning]

WordsInOrder == <<"!", "0", "1", "2", "3", "amount", "book", "column", "csv", "customer", "customers",
                  "id", "order", "orders", "sales", "sheet", "status", "xlsx">>
PluralsOf ==
    [w \in Range(WordsInOrder) |->
        CASE w = "customer" -> {"customers"} [] w = "order" -> {"orders"} [] OTHER -> {}]
Marks == {"!"}
Spaced == (<<"amount", " ">> :> <<"amount">>)
Headings == ("" :> <<>>) @@ ("amount" :> <<"amount">>) @@ ("status" :> <<"status">>)
Errors == {"#REF!"}

-----------------------------------------------------------------------------
CSV(rel, header, rows, bad) ==
    [kind |-> "csv", rel |-> rel, header |-> header, sniffed |-> header, rows |-> rows,
     bad |-> bad, noted |-> {}]

\* The rows of one cell each that hold what is in a bag.
InRows(b) == LET each == SetToSeq(DOMAIN b) IN
             FlattenSeq([k \in DOMAIN each |-> [n \in 1..b[each[k]] |-> <<each[k]>>]])

\* The bags of these many cells at most.
Bags(cells, n) ==
    UNION {{b \in [s -> 1..n] : MapThenSumSet(LAMBDA v : b[v], s) <= n} : s \in {s \in SUBSET cells : Cardinality(s) <= n}}
More(v, n, b) ==
    [u \in DOMAIN b \union {v} |-> (IF u = v THEN n ELSE 0) + (IF u \in DOMAIN b THEN b[u] ELSE 0)]

Plain == AllCells \ {"#REF!", "amount", "status", "x\t"}
Sales(b) == <<CSV(<<"sales", "csv">>, <<<<"amount">>>>, InRows(b), 0)>>

OneColumn == {Sales(b) : b \in Bags(Plain, 3)}
LongColumn == {Sales(More(v, n, b)) : v \in {"2", "x", "2024-05-06"}, n \in {20, 40},
                                      b \in Bags(Plain, 2)}
TwoTables ==
    {<<CSV(<<"customers", "csv">>, <<<<"id">>>>, InRows(b), 0),
       CSV(<<"orders", "csv">>, <<<<"customer", "id">>>>, InRows(c), 0)>> :
         b \in {b \in Bags({"2", "30", "x", Null}, 3) : DOMAIN b # {}},
         c \in Bags({"2", "30", "x", "X ", "x\t", "n/a", Null}, 2)}

Line(cells) == [cells |-> cells, hidden |-> FALSE]
Sheet(name, rows) ==
    [name |-> name, readable |-> TRUE, visible |-> TRUE, merged |-> FALSE, rows |-> rows]
Book(word, sheets) ==
    [kind |-> "excel", rel |-> <<word, "xlsx">>, readable |-> TRUE, sheets |-> sheets]

Titles == Sheet(<<"sheet">>, <<Line(<<"x">>), Line(<<"amount", "", "", "status">>),
                               Line(<<"2", "", "", "x", "30">>)>>)
Gapped == Sheet(<<"sheet", "2">>, <<Line(<<"status">>), Line(<<"x">>), Line(<<>>),
                                    [cells |-> <<"#REF!">>, hidden |-> TRUE]>>)
ManyFiles ==
    {<<Book("book", <<Titles, Gapped>>),
       [CSV(<<"sales", "csv">>, <<<<"amount">>, <<"amount", " ">>, <<>>>>, <<<<"2", "x", Null>>, <<"2", "x", Null>>>>, 1)
          EXCEPT !.sniffed = <<>>]>>,
     <<CSV(<<"customers", "csv">>, <<<<"status">>>>, InRows(("x" :> 3) @@ ("2" :> 2)), 0),
       CSV(<<"orders", "csv">>, <<<<"status">>>>, InRows(("x" :> 2) @@ ("30" :> 2) @@ ("X " :> 1)), 0),
       [Book("sheet", <<>>) EXCEPT !.readable = FALSE]>>}

AllDatasets == OneColumn \union LongColumn \union TwoTables \union ManyFiles

\* The smallest dataset of both kinds.
BothKinds ==
    {<<Book("book", <<Sheet(<<"sheet">>, <<Line(<<"status">>), Line(<<"x">>)>>)>>),
       CSV(<<"orders", "csv">>, <<<<"status">>>>, <<<<"x">>>>, 0),
       CSV(<<"sales", "csv">>, <<<<"status">>>>, <<<<"2">>>>, 0)>>}

-----------------------------------------------------------------------------
AnyTable == {<<"sales", "csv">>, <<"orders", "csv">>, <<"customers", "csv">>}

Rule(id, expect, column) ==
    [id |-> id, table |-> AnyTable, column |-> column, expect |-> expect, values |-> {},
     current |-> FALSE, pattern |-> {}, min |-> Unset, max |-> Unset, references |-> <<>>,
     where |-> {}, ignoreCase |-> FALSE, allowMissing |-> FALSE, severity |-> -1]

Amount == {<<"amount">>, <<"customer", "id">>}

InForce ==
    <<Rule("present", "not_null", Amount),
      Rule("once", "unique", {<<"id">>}),
      [Rule("positive", "positive", Amount) EXCEPT !.allowMissing = TRUE],
      Rule("signed", "non_negative", Amount),
      [Rule("listed", "one_of", {<<"amount">>}) EXCEPT !.values = {"2", "x"}, !.ignoreCase = TRUE],
      [Rule("written", "matches", Amount) EXCEPT !.pattern = {"2", "30"}],
      [Rule("small", "range", Amount) EXCEPT !.max = 10, !.severity = Warning],
      Rule("past", "not_future", Amount),
      [Rule("known", "references", {<<"customer", "id">>})
         EXCEPT !.references = <<<<"customers", "csv">>, <<"id">>>>],
      [Rule("rows", "sql", {}) EXCEPT !.where = {<<"n/a">>}],
      [Rule("broken", "sql", {<<"id">>}) EXCEPT !.where = Broken],
      Rule("typo", "not_null", {<<"amuont">>})>>

Proposed ==
    <<[Rule("vocabulary", "one_of", Amount) EXCEPT !.current = TRUE, !.allowMissing = TRUE],
      [Rule("folded", "one_of", {<<"status">>, <<"id">>, <<"customer", "id">>})
         EXCEPT !.current = TRUE, !.ignoreCase = TRUE],
      Rule("filled", "not_null", {<<"id">>})>>

SomeRules == {[file |-> InForce, ideas |-> Proposed]}
RuleCodes == [id \in {r.id : r \in Range(InForce) \union Range(Proposed)} |-> "rule." \o id]
=============================================================================
