----------------------------- MODULE DataAudit -----------------------------
(***************************************************************************)
(* The deterministic pass over a dataset, from its files to the findings:  *)
(* load, profile, checks, rules, what the model may propose, and Verify.   *)
(* What happens around it (budgets, cancellation, a stage that fails) is   *)
(* in AuditPipeline.                                                       *)
(***************************************************************************)
EXTENDS Ingest, AgentTools

CONSTANTS
    Datasets,        \* what there may be to audit: sequences of files
    MaxUnmeasured    \* columns whose measurements fail, at most

VARIABLES
    rules,       \* [file, ideas]: the rules in force, and those the model proposes
    profile,     \* table |-> column |-> what was measured of it
    found,       \* the finding.Set as the checks and the rules made it
    proposals,   \* the rules proposed: [rule, fromData, brokenBy]
    reported     \* the findings Verify left

vars == <<ingestVars, rules, profile, found, proposals, reported>>

CONSTANT RuleSets    \* what "rules" may be

\* The codes of the checks that count rows or look for a key.  No rule has one of them:
\* its own begins with "rule.".
Titled == {"column.missing_values", "column.type_violation", "column.ambiguous_dates",
           "column.numeric_outliers", "column.unexpected_negative", "table.duplicate_rows",
           "reference.orphan_values"}
OfAKey == {"key.duplicate_values", "table.no_candidate_key"}

RuleFields == {"id", "table", "column", "expect", "values", "current", "pattern", "min", "max",
               "references", "where", "ignoreCase", "allowMissing", "severity"}

ASSUME RulesLoad ==
    \A r \in RuleSets :
       /\ Loads(r.file) /\ IsSeq(r.file)
       /\ \A k \in DOMAIN r.file : RuleCode[r.file[k].id] \notin Titled \union OfAKey
       /\ \A k \in DOMAIN r.ideas : RuleFields \subseteq DOMAIN r.ideas[k]

\* A dataset is a sequence of files; so are the names of a header, the sheets of a
\* workbook, the rows of a sheet and the cells of a row.
ASSUME FilesAreRead ==
    \A dataset \in Datasets :
       /\ IsSeq(dataset)
       /\ \A f \in DOMAIN dataset :
             LET file == dataset[f] IN
             IF file.kind = "csv"
             THEN /\ IsSeq(file.header) /\ IsSeq(file.sniffed)
                  /\ IsFiniteSet(DOMAIN file.rows)
             ELSE /\ IsSeq(file.sheets)
                  /\ \A i \in DOMAIN file.sheets :
                        /\ IsSeq(file.sheets[i].rows)
                        /\ \A k \in DOMAIN file.sheets[i].rows : IsSeq(file.sheets[i].rows[k].cells)

Init ==
    /\ files \in Datasets
    /\ rules \in RuleSets
    /\ InitIngest
    /\ profile = <<>> /\ found = <<>> /\ proposals = {} /\ reported = <<>>

Env == [tables |-> tables, engine |-> engine, profile |-> profile]

IngestData == IngestStep /\ UNCHANGED <<rules, profile, found, proposals, reported>>

AllColumns == UNION {{<<n, i>> : i \in DOMAIN tables[n].columns} : n \in DOMAIN tables}

ProfileData ==
    /\ stage = "profile"
    /\ \E failed \in {c \in SUBSET AllColumns : Cardinality(c) <= MaxUnmeasured} :
          profile' = Profile(engine, tables, failed)
    /\ stage' = "checks"
    /\ UNCHANGED <<files, walked, worker, sheet, mu, seen, plan, scratch, skipped, loadVars,
                   rules, found, proposals, reported>>

CheckData ==
    /\ stage = "checks"
    /\ found' = RunChecks(Env)
    /\ stage' = "rules"
    /\ UNCHANGED <<files, walked, worker, sheet, mu, seen, plan, scratch, skipped, loadVars,
                   rules, profile, proposals, reported>>

ApplyRules ==
    /\ stage = "rules"
    /\ found' = AddAll(found, Evaluate(rules.file, Env))
    /\ stage' = "agent"
    /\ UNCHANGED <<files, walked, worker, sheet, mu, seen, plan, scratch, skipped, loadVars,
                   rules, profile, proposals, reported>>

\* propose_rule, of each idea in turn, with the right claim.
ProposeRules ==
    /\ stage = "agent"
    /\ LET broken(r) == BrokenToday(Materialized(r, Env), Env)
           taken == {i \in DOMAIN rules.ideas :
                       Proposable(rules.ideas[i], broken(rules.ideas[i]), rules.file,
                                  {rules.ideas[j] : j \in 1..i - 1}, Env)}
       IN  proposals' = {[rule |-> Materialized(rules.ideas[i], Env),
                          fromData |-> rules.ideas[i].current,
                          brokenBy |-> broken(rules.ideas[i])] : i \in taken}
    /\ stage' = "verify"
    /\ UNCHANGED <<files, walked, worker, sheet, mu, seen, plan, scratch, skipped, loadVars,
                   rules, profile, found, reported>>

\* Verify.  What is left of the findings keeps its place.
Remeasured(f) == IF f.query = NoQuery THEN 0 ELSE Answer(engine, f.query)

Verify ==
    /\ stage = "verify"
    /\ LET stays == {k \in DOMAIN found : ~Dropped(found[k], Remeasured(found[k]))} IN
       reported' = [k \in stays |-> Checked(found[k], Remeasured(found[k]))]
    /\ stage' = "done"
    /\ UNCHANGED <<files, walked, worker, sheet, mu, seen, plan, scratch, skipped, loadVars,
                   rules, profile, found, proposals>>

Next ==
    \/ IngestData \/ ProfileData \/ CheckData \/ ApplyRules \/ ProposeRules \/ Verify

Spec == Init /\ [][Next]_vars

-----------------------------------------------------------------------------
\* What the profile counted and what its evidence returns are computed by different
\* statements, in different packages; the number in the title of a finding is the number
\* of rows its query shows, and no such finding is lost for a query that finds fewer.
TitlesHold ==
    stage = "done" =>
       \A f \in Range(found) :
          f.rule \in Titled =>
             \E g \in Range(reported) : Key(g) = Key(f) /\ g.count = f.claimed

\* A column in which somebody typed a word for "no value" among its values has its gaps
\* in the report, and none of those words is left out of their number.
GapsAreReported ==
    stage = "done" =>
       \A c \in ColumnsOf(Env) :
          LET column == Column(engine[Where(Env, c)[1]], Where(Env, c)[2])
              typed == CountIn(column, IsTextPlaceholder)
              gaps == typed + CountIn(column, Cells \ NonBlank)
              values == NonBlank \ (IsTextPlaceholder \union IsNumberPlaceholder)
          IN  /\ Of(Env, c).measured /\ typed > 0 /\ CountIn(column, values) > 0
              => \E f \in Range(reported) :
                    /\ f.rule = "column.missing_values" /\ f.at = Where(Env, c)
                    /\ f.count >= gaps

\* What the model measures with the tools and what the checks report are two readings of
\* one table: a column that is a key to the model has no duplicate key in the report, and
\* is the key a table without one lacks; and a reference the report says is broken is
\* broken to the model, in as many rows.
ToolsAgree ==
    stage = "done" =>
       /\ \A c \in ColumnsOf(Env) :
             Of(Env, c).measured /\ KeyCheck(Env, c[1], {Where(Env, c)[2]}).isKey =>
                /\ ~KnownAt(reported, Where(Env, c), {"key.duplicate_values"})
                /\ ~KnownAt(reported, At(Env, c[1]), {"table.no_candidate_key"})
       /\ \A f \in Range(reported) :
             f.rule = "reference.orphan_values" =>
                \E child \in Lookup(Env, f.query.table, f.query.column),
                   parent \in Lookup(Env, f.query.table2, f.query.column2) :
                      ReferenceCheck(Env, child, parent).orphans >= f.count

\* A rule whose values were read from the data is not broken by that data, today or in
\* another audit of it, whatever it says of missing values: unless it ignores case, and
\* the two foldings differ on a value the data holds.  Then nothing breaks it but values
\* that compare as equal to such a one.
ProposedValuesHoldToday ==
    \A p \in proposals :
       p.fromData =>
          LET odd == {u \in Present(p.rule, Env) : p.rule.ignoreCase /\ GoFolded[u] # Folded[u]}
          IN  /\ Loads(<<p.rule>>)
              /\ odd = {} => p.brokenBy = 0 /\ Evaluate(<<p.rule>>, Env) = <<>>
              /\ \A c \in Targets(p.rule, Env) :
                    LET column == Column(engine[Where(Env, c)[1]], Where(Env, c)[2])
                    IN  \A v \in Range(column) \intersect Breaking(p.rule, column, <<>>) :
                           \E u \in odd : Folded[u] = Folded[v]
=============================================================================
