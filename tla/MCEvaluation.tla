----------------------------- MODULE MCEvaluation -----------------------------
(***************************************************************************)
(* Small manifests over one table with two columns, and a second table     *)
(* whose display name begins like the first one's.                         *)
(***************************************************************************)
EXTENDS Evaluation

Orders == <<"orders">>
Total == <<"orders", "total">>
Status == <<"orders", "status">>
Archived == <<"orders", "csv", "total">>

Planted(id, where, rule) == [id |-> id, where |-> where, caughtBy |-> rule, counts |-> <<>>, needs |-> {}]
Target(id, where, counts, needs) ==
    [id |-> id, where |-> where, caughtBy |-> "none", counts |-> counts, needs |-> needs]

Manifest(defects) ==
    [whole |-> TRUE, context |-> <<"dictionary">>, defects |-> defects,
     clean |-> {[rule |-> "key", where |-> Orders]}, noise |-> {[where |-> Status, count |-> 3]}]

\* Two targets of one column that one number measures; one of which needs a document.
Twins == <<Target("grams", Total, <<2, 1>>, {}), Target("late", Total, <<2>>, {"dictionary"})>>

Complete == Manifest(<<Planted("blank", Status, "empty"), Planted("twice", Total, "key")>> \o Twins)
ChecksOnly == Manifest(<<Planted("blank", Status, "empty")>>)
Far == Manifest(<<Planted("blank", Status, "empty"), Target("old", Archived, <<3>>, {})>>)

\* What Validate refuses, one of each.
Refused ==
    {[Complete EXCEPT !.whole = FALSE], [Complete EXCEPT !.defects = <<>>],
     [Complete EXCEPT !.context = <<"dictionary", "dictionary">>],
     Manifest(<<Twins[1], Twins[1]>>), Manifest(<<Planted("blank", Status, "")>>),
     Manifest(<<Target("grams", Total, <<2>>, {"ticket"})>>),
     Manifest(<<[Planted("blank", Status, "empty") EXCEPT !.needs = {"dictionary"}]>>),
     Manifest(<<Target("grams", Total, <<2, 2>>, {})>>), Manifest(<<Target("grams", Total, <<0>>, {})>>),
     [Complete EXCEPT !.noise = {[where |-> Total, count |-> 1]}]}

MCManifests == {Complete, ChecksOnly, Far} \union Refused

Found1(rule, at, bare, count, origin) ==
    [rule |-> rule, at |-> at, bare |-> bare, count |-> count, origin |-> origin, queried |-> TRUE]
Caught(rule, at) == Found1(rule, at, at = Orders, 4, "check")
Note == [Caught("note", Orders) EXCEPT !.queried = FALSE]
Accepted == Found1("rule.grams", Total, FALSE, 2, "rule")

MCPasses ==
    {<<Caught("empty", Status), Caught("key", Total)>>,
     <<Caught("empty", Status), Caught("key", Total), Note, Accepted>>,
     <<Caught("empty", Status), Caught("key", Orders)>>,
     <<Caught("empty", Orders), Caught("key", Total)>>,
     <<Caught("key", Total)>>}

Recorded(at, bare, count) == Found1("agent.x", at, bare, count, "agent")
MCReplies ==
    {<<>>} \union {<<Recorded(Total, FALSE, 2)>>, <<Recorded(Status, FALSE, 3)>>}
    \union {<<Recorded(Total, FALSE, n), Recorded(Orders, TRUE, k)>> : n, k \in 1..2}
    \union {<<Recorded(Orders, TRUE, 3), Recorded(Total, FALSE, 2)>>}

MCOptions ==
    {[model |-> FALSE, runs |-> 2, minRecall |-> -1], [model |-> FALSE, runs |-> 0, minRecall |-> 50],
     [model |-> TRUE, runs |-> 2, minRecall |-> 50], [model |-> TRUE, runs |-> 0, minRecall |-> 50],
     [model |-> TRUE, runs |-> 3, minRecall |-> -1]}
MCMishaps == {"audit", "provider", "cancel"}
===============================================================================
