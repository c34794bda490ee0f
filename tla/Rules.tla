------------------------------- MODULE Rules -------------------------------
(***************************************************************************)
(* Package rules: what a rule of the customer's asks of the tables, what   *)
(* breaks it, and how a rule that was proposed without its values is given *)
(* the ones the data holds.                                                *)
(*                                                                         *)
(* A rule is a record of its fields.  A glob is the set of the names it    *)
(* matches, and {} is a field that was left out; so is Unset for a bound.  *)
(* "pattern" is the set of the texts a regular expression matches, "where" *)
(* the set of the rows a clause selects, or Broken when the engine rejects *)
(* it.                                                                     *)
(***************************************************************************)
EXTENDS Checks

CONSTANTS
    Unset, Broken,
    RuleCode,       \* id of a rule |-> the code of what it finds, "rule." and the id
    GoFolded        \* cell |-> its text as TrimSpace and ToLower leave it: of tabs and ends
                    \* of line too, which trim, in the engine, is not

\* Expectations, as ParseExpectation knows them.
OfColumns == {"not_null", "unique", "positive", "non_negative", "one_of", "matches", "range",
              "not_future", "references"}
Expectations == OfColumns \union {"sql"}

MaxMaterializedValues == 50

-----------------------------------------------------------------------------
(* Validate, of one rule; and of a file of them.                             *)

Configured(r) ==
    CASE r.expect = "one_of" -> (r.values = {}) = r.current
      [] r.expect = "matches" -> r.pattern # {}
      [] r.expect = "range" -> /\ {r.min, r.max} # {Unset}
                               /\ Unset \notin {r.min, r.max} => r.min <= r.max
      [] r.expect = "references" -> Len(r.references) = 2
      [] r.expect = "sql" -> r.where # {}
      [] OTHER -> TRUE

Usable(r) ==
    /\ r.id # ""
    /\ r.table # {}
    /\ r.expect \in Expectations
    /\ r.expect \in OfColumns => r.column # {}
    /\ r.current => r.expect = "one_of"
    /\ Configured(r)

Valid(file) ==
    /\ \A i \in DOMAIN file : Usable(file[i])
    /\ \A i, j \in DOMAIN file : i # j => file[i].id # file[j].id

\* Load: a file on disk does not permit whatever the data holds that day.
Loads(file) == Valid(file) /\ \A i \in DOMAIN file : ~file[i].current

-----------------------------------------------------------------------------
(* The tables and the columns a rule is about.                               *)

TablesOf(r, env) ==
    {n \in DOMAIN env.tables : {env.tables[n].display, env.tables[n].name} \intersect r.table # {}}

ColumnsNamed(r, env, n) ==
    {i \in DOMAIN env.tables[n].columns :
        {env.tables[n].columns[i].name, env.tables[n].columns[i].original} \intersect r.column # {}}

\* comparableList: the cell as the engine folds it, and what it is compared with, a value
\* of the rule's that was folded before it got there.
Comparable(r, v) == IF r.ignoreCase THEN Folded[v] ELSE v
Permitted(r) == {IF r.ignoreCase THEN GoFolded[u] ELSE u : u \in r.values}

\* violationPredicate: the cells that break a rule.  "x NOT IN (SELECT ...)" holds of
\* nothing when what is selected has a NULL.
Breaking(r, column, other) ==
    CASE r.expect = "not_null" -> Cells \ NonBlank
      [] r.expect = "unique" -> {v \in NonBlank : CountIn(column, {v}) > 1}
      [] r.expect = "positive" -> {v \in NonBlank : v \in DOMAIN Number => Number[v] <= 0}
      [] r.expect = "non_negative" -> {v \in NonBlank \intersect DOMAIN Number : Number[v] < 0}
      [] r.expect = "one_of" -> {v \in NonBlank : Comparable(r, v) \notin Permitted(r)}
      [] r.expect = "matches" -> {v \in NonBlank : Trimmed[v] \notin r.pattern}
      [] r.expect = "range" ->
            {v \in NonBlank \intersect DOMAIN Number :
                \/ r.min # Unset /\ Number[v] < r.min
                \/ r.max # Unset /\ Number[v] > r.max}
      [] r.expect = "not_future" ->
            {v \in NonBlank \intersect Castable["timestamp"] : DayIn["iso"][v] > Today}
      [] r.expect = "references" ->
            IF Null \in Range(other) THEN {}
            ELSE {v \in NonBlank : Comparable(r, v) \notin {Comparable(r, u) : u \in Range(other)}}

\* allow_missing: a placeholder is missing too.
Exempted(r, where) == IF r.allowMissing THEN (where \intersect NonBlank) \ IsTextPlaceholder ELSE where

\* The column a references rule points at, in the engine, and whether it is there.
Pointed(r, env) ==
    /\ r.references[1] \in DOMAIN env.engine
    /\ r.references[2] \in {c.name : c \in Range(env.engine[r.references[1]].columns)}

Other(r, env) ==
    IF r.expect # "references" THEN <<>>
    ELSE Column(env.engine[r.references[1]], r.references[2])

Invalid(at) == Raise("rule.invalid", Warning, at, 0, NoQuery)

Violations(r, at, q, env) ==
    LET n == Answer(env.engine, q) IN
    When(n > 0, Raise(RuleCode[r.id], IF r.severity = -1 THEN Error ELSE r.severity, at, n, q))

\* evaluateOne, of one column; what the engine rejects is a finding about the rule.
EvaluateColumn(r, env, n, i) ==
    LET at == Where(env, <<n, i>>)
        column == Column(env.engine[at[1]], at[2])
        where == Exempted(r, Breaking(r, column, Other(r, env)))
    IN  IF r.expect = "references" /\ ~Pointed(r, env) THEN <<Invalid(at)>>
        ELSE Violations(r, at, CountWhere(env, <<n, i>>, where), env)

\* sqlColumn, and evaluateOne of a rule about rows: the finding is at the first column
\* the rule names, or at the table when it names none.
EvaluateRows(r, env, n) ==
    LET t == env.tables[n]
        named == ColumnsNamed(r, env, n)
        at == IF r.column = {} THEN At(env, n) ELSE Where(env, <<n, Min(named)>>)
        missing(row) ==
            /\ named # {}
            /\ row[Position(env.engine[t.name], Where(env, <<n, Min(named)>>)[2])]
                   \notin NonBlank \ IsTextPlaceholder
    IN  IF r.where = Broken THEN <<Invalid(at)>>
        ELSE Violations(r, at,
                Query("rows", t.name, t.columns[1].name,
                      {row \in r.where : r.allowMissing => ~missing(row)}), env)

\* Where a rule is put to work: every column it names, or once in a table for a clause.
Targets(r, env) ==
    IF r.expect = "sql"
    THEN {<<n, 0>> : n \in {n \in TablesOf(r, env) :
                                r.column = {} \/ ColumnsNamed(r, env, n) # {}}}
    ELSE UNION {{<<n, i>> : i \in ColumnsNamed(r, env, n)} : n \in TablesOf(r, env)}

\* Evaluate.  A rule that matched nothing is a finding of no table, so two of them are one.
EvaluateTable(r, env, n) ==
    IF r.expect = "sql"
    THEN IF <<n, 0>> \in Targets(r, env) THEN EvaluateRows(r, env, n) ELSE <<>>
    ELSE FlattenSeq([i \in DOMAIN env.tables[n].columns |->
            IF <<n, i>> \in Targets(r, env) THEN EvaluateColumn(r, env, n, i) ELSE <<>>])

EvaluateRule(r, env) ==
    IF Targets(r, env) = {}
    THEN <<Raise("rule.never_applied", Warning, <<>>, 0, NoQuery)>>
    ELSE FlattenSeq([n \in DOMAIN env.tables |-> EvaluateTable(r, env, n)])

Evaluate(file, env) ==
    FlattenSeq([k \in DOMAIN file |-> EvaluateRule(file[k], env)])

-----------------------------------------------------------------------------
(* Materialize, of one rule that reads its values from the data.             *)

\* The values with content there are where a rule is put to work.
Present(r, env) ==
    UNION {NonBlank \intersect Range(Column(env.engine[Where(env, c)[1]], Where(env, c)[2])) :
              c \in Targets(r, env)}

\* A plausible bug: the values are always gathered as if case did not matter.
HeldFolded(r, env) ==
    LET held == Present(r, env) IN {CHOOSE u \in held : Folded[u] = Folded[v] : v \in held}

\* currentValues: one value, the engine's least, of those that compare as equal.
Held(r, env) ==
    LET held == Present(r, env) IN {CHOOSE u \in held : Comparable(r, u) = Comparable(r, v) : v \in held}

Materializes(r, env) ==
    /\ Targets(r, env) # {}
    /\ Cardinality(Held(r, env)) \in 1..MaxMaterializedValues

Materialized(r, env) ==
    IF r.current THEN [r EXCEPT !.values = Held(r, env), !.current = FALSE] ELSE r

-----------------------------------------------------------------------------
(* propose_rule: a proposal is taken when it was right about how many rows     *)
(* break it today.                                                           *)

\* Proposal.key: what it asserts.
ProposalKey(r) == <<r.table, r.column, r.expect, r.pattern, r.references, r.where,
                    SelectSeq(<<r.min, r.max>>, LAMBDA bound : bound # Unset)>>

\* Covering: a rule in force that asserts the same already.
Covers(in, r, display) ==
    /\ in.expect = r.expect
    /\ in.table \intersect (r.table \union {display}) # {}
    /\ IF r.expect = "sql" THEN in.where = r.where ELSE r.column \subseteq in.column

BrokenToday(r, env) ==
    LET all == EvaluateRule(r, env) IN
    Total([k \in {k \in DOMAIN all : all[k].rule = RuleCode[r.id]} |-> all[k].count])

Proposable(r, claimed, file, made, env) ==
    /\ Valid(<<r>>)
    /\ ~\E k \in DOMAIN file, n \in TablesOf(r, env) : Covers(file[k], r, env.tables[n].display)
    /\ ProposalKey(r) \notin {ProposalKey(p) : p \in made}
    /\ r.current => Materializes(r, env)
    /\ LET whole == Materialized(r, env)
           rules == {f.rule : f \in Range(EvaluateRule(whole, env))}
       IN  /\ rules \intersect {"rule.never_applied", "rule.invalid"} = {}
           /\ BrokenToday(whole, env) = claimed
=============================================================================
