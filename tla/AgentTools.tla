----------------------------- MODULE AgentTools -----------------------------
(***************************************************************************)
(* Package agent/tools, the tools that only look: what the engine is asked *)
(* for the model, and what the model is told the deterministic pass has    *)
(* found there already.                                                    *)
(***************************************************************************)
EXTENDS Rules

\* World.table and World.column: by the name in the engine or the one a person knows.
Lookup(env, table, column) ==
    {c \in ColumnsOf(env) :
        /\ table \in {env.tables[c[1]].name, env.tables[c[1]].display}
        /\ column \in {env.tables[c[1]].columns[c[2]].name, env.tables[c[1]].columns[c[2]].original}}

\* knownAt, and verdict: only ground that is new is to be recorded.
KnownAt(known, at, rules) ==
    \E f \in Range(known) : f.at = at /\ f.rule \in rules

\* What the lines of a table have in the columns of these names, and the lines that share it.
Parts(t, key) == [line \in DOMAIN t.rows |-> [name \in key |-> Column(t, name)[line]]]

Sharing(parts) ==
    {line \in DOMAIN parts : \E other \in DOMAIN parts \ {line} : parts[other] = parts[line]}

\* count(DISTINCT ...): a missing value counts as one only in a row of several.
DistinctParts(parts) ==
    {p \in Range(parts) : \E name \in DOMAIN p : Cardinality(DOMAIN p) = 1 => p[name] # Null}

\* A plausible bug: a row that misses a part of the key does not count against it.
KeyCheckIncomplete(env, n, key) ==
    LET parts == Parts(env.engine[env.tables[n].name], key) IN
    [distinct |-> Cardinality(DistinctParts(parts)), duplicateRows |-> Cardinality(Sharing(parts)),
     incomplete |-> 0, isKey |-> Sharing(parts) = {}]

\* check_candidate_key, of the columns of these names.
KeyCheck(env, n, key) ==
    LET parts == Parts(env.engine[env.tables[n].name], key)
        gaps == {line \in DOMAIN parts : \E name \in key : parts[line][name] \notin NonBlank}
    IN  [distinct |-> Cardinality(DistinctParts(parts)),
         duplicateRows |-> Cardinality(Sharing(parts)),
         incomplete |-> Cardinality(gaps),
         isKey |-> Sharing(parts) = {} /\ gaps = {}]

\* check_referential_integrity: trimmed on both sides, and no more.
ReferenceCheck(env, child, parent) ==
    LET of(c) == Column(env.engine[Where(env, c)[1]], Where(env, c)[2])
        keys == {Trimmed[v] : v \in NonBlank \intersect Range(of(parent))}
    IN  [referencing |-> CountIn(of(child), NonBlank),
         orphans |-> CountIn(of(child), {v \in NonBlank : Trimmed[v] \notin keys})]
=============================================================================
