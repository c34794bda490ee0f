------------------------------ MODULE Evaluation ------------------------------
(***************************************************************************)
(* Package eval and veritix eval: a dataset whose defects are known is     *)
(* audited several times, each audit is scored against the manifest of its *)
(* defects, the scores are put together, and a gate decides the exit code. *)
(*                                                                         *)
(* A location is the sequence of the words of the table's display name,    *)
(* followed by the column's when there is one.  A finding is [rule, at,    *)
(* bare, count, origin, queried]; "bare" says that it names no column,     *)
(* "queried" that it has a count query.                                    *)
(***************************************************************************)
EXTENDS Integers, SequencesExt, FiniteSetsExt

CONSTANTS
    Manifests,   \* [whole, context, defects, clean, noise]
    Passes,      \* what the checks and the accepted rules may find in the data
    Replies,     \* what one audit's model may record, in the order of Set.All
    Options,     \* [model, runs, minRecall]; minRecall is a percentage, -1 for none
    Mishaps      \* "audit": an audit fails.  "provider": one is abandoned.  "cancel"

IsSeq(s) == Len(s) \in Nat /\ s = [n \in 1..Len(s) |-> s[n]]

\* A defect is [id, where, caughtBy, counts, needs]: counts is <<>> when no model is to
\* find it, else the count and then its equivalents.  What a model records is called
\* "agent." and a name; a manifest names the rules of the checks.
ASSUME EvaluationAssumption ==
    /\ \A m \in Manifests : IsSeq(m.defects)
    /\ \A r \in Replies : IsSeq(r) /\ \A f \in Range(r) :
          /\ f.origin = "agent" /\ f.queried /\ f.count > 0
          /\ \A m \in Manifests :
                /\ \A d \in Range(m.defects) : d.caughtBy # f.rule
                /\ \A c \in m.clean : c.rule # f.rule
    /\ \A p \in Passes : IsSeq(p) /\ \A f \in Range(p) : f.origin \in {"check", "rule"}
    /\ \A o \in Options : o.runs \in Nat /\ o.model \in BOOLEAN /\ o.minRecall \in -1..100
    /\ Mishaps \subseteq {"audit", "provider", "cancel"}

VARIABLES
    manifest,
    pass,       \* what checks and rules find in this data, in every audit of it
    options,
    stage,      \* "loading", "auditing", "over"
    canceled,   \* the command's context
    runs,       \* the RunScores, each with the findings it was made from
    exit        \* "none", "refused", "interrupted", "usage", "checks", "unstable",
                \* "recall", "passed"

vars == <<manifest, pass, options, stage, canceled, runs, exit>>

Deterministic(d) == d.caughtBy \notin {"", "none"}
IsTarget(d) == d.counts # <<>>
Aided(d) == d.needs # {}
Measures(d, n) == n \in Range(d.counts)

Targets(m) == {d \in Range(m.defects) : IsTarget(d)}
Ids(defects) == {d.id : d \in defects}

\* Validate.  "whole" is that no entry lacks what it is told apart by or explained with.
Valid(m) ==
    /\ m.whole
    /\ m.defects # <<>>
    /\ IsInjective(m.context)
    /\ Cardinality(Ids(Range(m.defects))) = Len(m.defects)
    /\ \A d \in Range(m.defects) :
          /\ d.caughtBy # ""
          /\ d.needs \subseteq Range(m.context)
          /\ Aided(d) => IsTarget(d)
          /\ \A i \in DOMAIN d.counts : d.counts[i] > 0 /\ (i > 1 => d.counts[i] # d.counts[1])
    /\ \A n \in m.noise :
          /\ n.count > 0
          /\ \A d \in Range(m.defects) : ~(d.where = n.where /\ Measures(d, n.count))

-----------------------------------------------------------------------------
(* One audit's score.                                                        *)

\* covers: at the place, or at its table when the finding names no column.
Covers(f, where) == f.at = where \/ (f.bare /\ IsStrictPrefix(f.at, where))

\* A plausible bug: a finding about the table is one about its columns.
HasRuleNear(found, rule, where) ==
    \E f \in Range(found) : f.rule = rule /\ IsPrefix(f.at, where)

HasRuleAt(found, rule, where) == \E f \in Range(found) : f.rule = rule /\ f.at = where

ConvertedBy(found, d) ==
    \E f \in Range(found) :
        f.origin = "rule" /\ IsTarget(d) /\ f.at = d.where /\ Measures(d, f.count)

MatchesTarget(f, d) == IsTarget(d) /\ Covers(f, d.where) /\ Measures(d, f.count)

ScoreChecks(m, found) ==
    LET caught(d) == HasRuleAt(found, d.caughtBy, d.where)
        planted == {d \in Range(m.defects) : Deterministic(d)}
        left == Range(m.defects) \ planted
    IN  [found |-> {d.id : d \in {d \in planted : caught(d)}},
         missed |-> {d.id : d \in {d \in planted : ~caught(d)}},
         falsePositives |-> {c \in m.clean : HasRuleAt(found, c.rule, c.where)},
         converted |-> {d.id : d \in {d \in left : ConvertedBy(found, d)}},
         uncovered |-> {d.id : d \in {d \in left : ~ConvertedBy(found, d)}}]

Credited(c, hits, d) ==
    IF hits = {} THEN c
    ELSE [id \in DOMAIN c \union {d.id} |-> IF id = d.id THEN Min(hits) ELSE c[id]]

\* A plausible bug: a finding that was credited may be credited again.
CreditAgain(found, c, d) ==
    Credited(c, {i \in DOMAIN found : found[i].origin = "agent" /\ MatchesTarget(found[i], d)}, d)

\* ScoreRun's first loop: each target in turn takes the first finding that measures it and
\* that no other has taken.  "c" is who has been credited with which.
Credit(found, c, d) ==
    Credited(c, {i \in DOMAIN found \ Range(c) :
                    found[i].origin = "agent" /\ MatchesTarget(found[i], d)}, d)

\* (What was credited before is bound as the one member of a set, for TLC to compute once.)
Credits(m, found) ==
    LET credits[n \in 0..Len(m.defects)] ==
            IF n = 0 THEN <<>>
            ELSE CHOOSE after \in
                    {Credit(found, before, m.defects[n]) : before \in {credits[n - 1]}} : TRUE
    IN  credits[Len(m.defects)]

\* The second: what is left is listed, with the rule that covers it or why it is noise.
Claim(m, f) ==
    LET covering == SelectSeq(m.defects, LAMBDA d : Deterministic(d) /\ Covers(f, d.where)) IN
    [rule |-> f.rule, at |-> f.at, count |-> f.count,
     covers |-> IF covering = <<>> THEN "" ELSE covering[1].caughtBy,
     known |-> [where |-> f.at, count |-> f.count] \in m.noise]

ScoreRun(m, found, stopped) ==
    LET credits == Credits(m, found)
        rest == {i \in DOMAIN found \ Range(credits) : found[i].origin = "agent"}
    IN  [err |-> FALSE, stopped |-> stopped, from |-> found,
         detected |-> DOMAIN credits,
         missed |-> Ids(Targets(m)) \ DOMAIN credits,
         unclassified |-> [i \in rest |-> Claim(m, found[i])],
         checks |-> ScoreChecks(m, found)]

\* Go's zero values.
NoChecks == [found |-> {}, missed |-> {}, falsePositives |-> {}, converted |-> {}, uncovered |-> {}]
FailedRun ==
    [err |-> TRUE, stopped |-> "none", from |-> <<>>, detected |-> {}, missed |-> {},
     unclassified |-> <<>>, checks |-> NoChecks]

-----------------------------------------------------------------------------
(* All of them.                                                              *)

Scorable(r) == ~r.err /\ r.stopped \notin {"provider_error", "canceled"}

SameChecks(a, b) ==
    /\ Cardinality(a.found) = Cardinality(b.found)
    /\ Cardinality(a.missed) = Cardinality(b.missed)
    /\ Cardinality(a.falsePositives) = Cardinality(b.falsePositives)

\* Aggregate.
Checks(rs) ==
    LET audited == {i \in DOMAIN rs : ~rs[i].err} IN
    IF audited = {} THEN NoChecks ELSE rs[Min(audited)].checks

Unstable(rs) == \E r \in Range(rs) : ~r.err /\ ~SameChecks(Checks(rs), r.checks)

\* MeanRecallOf, as a fraction.  Every run that is scored has every target, so the mean of
\* the fractions is the fraction of the sums.
MeanRecall(rs, ids) ==
    LET scored == SelectSeq(rs, Scorable) IN
    IF scored = <<>> \/ ids = {} THEN [found |-> 0, of |-> 1]
    ELSE [found |-> FoldLeft(LAMBDA n, r : n + Cardinality(r.detected \intersect ids), 0, scored),
          of |-> Len(scored) * Cardinality(ids)]

AtLeast(a, b) == a.found * b.of >= b.found * a.of

\* evalGate.
Gate(rs, m, o) ==
    IF Checks(rs).missed # {} \/ Checks(rs).falsePositives # {} THEN "checks"
    ELSE IF Unstable(rs) THEN "unstable"
    ELSE IF o.minRecall < 0 THEN "passed"
    ELSE IF ~o.model THEN "usage"
    ELSE IF ~AtLeast(MeanRecall(rs, Ids(Targets(m))), [found |-> o.minRecall, of |-> 100])
         THEN "recall"
    ELSE "passed"

-----------------------------------------------------------------------------
Init ==
    /\ manifest \in Manifests /\ pass \in Passes /\ options \in Options
    /\ stage = "loading"
    /\ canceled = FALSE
    /\ runs = <<>>
    /\ exit = "none"

Load ==
    /\ stage = "loading"
    /\ IF Valid(manifest) THEN stage' = "auditing" /\ UNCHANGED exit
       ELSE stage' = "over" /\ exit' = "refused"
    /\ UNCHANGED <<manifest, pass, options, canceled, runs>>

\* Without a model one audit measures everything a second would.
Wanted == IF options.model THEN Max({options.runs, 1}) ELSE 1

Auditing == stage = "auditing" /\ Len(runs) < Wanted /\ ~canceled

Record(r) ==
    /\ runs' = Append(runs, r)
    /\ UNCHANGED <<manifest, pass, options, stage, exit>>

Found(reply) == IF options.model THEN pass \o reply ELSE pass

\* evalOnce.  The provider may stop answering after any of what the model recorded.
EvalOnce(reply, stopped) ==
    /\ Auditing
    /\ stopped = IF options.model THEN stopped ELSE "none"
    /\ Record(ScoreRun(manifest, Found(reply), stopped))
    /\ UNCHANGED canceled

EvalFails ==
    /\ Auditing /\ "audit" \in Mishaps
    /\ Record(FailedRun)
    /\ UNCHANGED canceled

\* What Verify keeps when it is interrupted after k findings: a query can no longer be run.
Kept(found, k) ==
    LET kept[n \in 0..Len(found)] ==
            IF n = 0 THEN <<>>
            ELSE IF n > k /\ found[n].queried THEN kept[n - 1]
            ELSE Append(kept[n - 1], found[n])
    IN  kept[Len(found)]

\* The command is interrupted in an audit: it fails, or it returns with what was kept.
EvalCanceled(reply) ==
    /\ Auditing /\ "cancel" \in Mishaps
    /\ canceled' = TRUE
    /\ \/ Record(FailedRun)
       \/ \E k \in 0..Len(Found(reply)) :
             Record(ScoreRun(manifest, Kept(Found(reply), k),
                             IF options.model THEN "canceled" ELSE "none"))

\* eval.Run looks at its context before each audit, and not after the last.
Interrupted ==
    /\ stage = "auditing" /\ Len(runs) < Wanted /\ canceled
    /\ stage' = "over" /\ exit' = "interrupted"
    /\ UNCHANGED <<manifest, pass, options, canceled, runs>>

\* The scorecard is written, and then the gate decides.
Finish ==
    /\ stage = "auditing" /\ Len(runs) = Wanted
    /\ stage' = "over" /\ exit' = Gate(runs, manifest, options)
    /\ UNCHANGED <<manifest, pass, options, canceled, runs>>

Stops == {"model_finished"} \union IF "provider" \in Mishaps THEN {"provider_error"} ELSE {}

Next ==
    \/ Load
    \/ \E reply \in Replies : \E stopped \in Stops \union {"none"} : EvalOnce(reply, stopped)
    \/ EvalFails
    \/ \E reply \in Replies : EvalCanceled(reply)
    \/ Interrupted
    \/ Finish

Spec == Init /\ [][Next]_vars

-----------------------------------------------------------------------------
Audited == {i \in DOMAIN runs : ~runs[i].err}
AgentFindings(r) == {i \in DOMAIN r.from : r.from[i].origin = "agent"}

\* A model is credited once for each finding that measures a target at its place, and for
\* nothing else; and what it is told to have missed is measured by none of the findings
\* that are left over.
CreditIsEarned ==
    \A i \in Audited :
       LET r == runs[i] IN
       /\ r.detected \union r.missed = Ids(Targets(manifest))
       /\ Cardinality(r.detected) + Cardinality(DOMAIN r.unclassified)
             = Cardinality(AgentFindings(r))
       /\ \A d \in Targets(manifest) :
             /\ d.id \in r.detected => \E k \in AgentFindings(r) : MatchesTarget(r.from[k], d)
             /\ d.id \in r.missed =>
                   \A k \in DOMAIN r.unclassified : ~MatchesTarget(r.from[k], d)

\* A build that is not interrupted is failed for its checks when they missed a planted
\* defect or fired on a clean place, and only then, whatever the model did.
GateIsFair ==
    stage = "over" /\ ~canceled /\ Audited # {} =>
       LET there(rule, where) == \E f \in Range(pass) : f.rule = rule /\ f.at = where
           failed == \/ \E d \in Range(manifest.defects) :
                           Deterministic(d) /\ ~there(d.caughtBy, d.where)
                     \/ \E c \in manifest.clean : there(c.rule, c.where)
       IN  /\ exit = "checks" <=> failed
           /\ exit # "unstable"
=============================================================================
