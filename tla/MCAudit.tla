------------------------------ MODULE MCAudit ------------------------------
(* Servers, reports, proposals and findings for the runs of AuditPipeline. *)
EXTENDS AuditPipeline

Doc(id, uri) == [id |-> id, uri |-> uri]

\* Two servers that list a document of one name, another that has a number in its name,
\* and more than the catalog takes.
TwoServers ==
    << [name |-> "a", runnable |-> TRUE,
        docs |-> <<Doc(<<"dict">>, "a1"), Doc(<<"dict", 2>>, "a2"), Doc(<<"rest">>, "a3")>>],
       [name |-> "b", runnable |-> TRUE, docs |-> <<Doc(<<"dict">>, "b1")>>] >>

NoServers == <<>>

Answers == [wrong |-> {2}, none |-> {0}, now |-> {0, 1}]

Somewhere == <<"t", "c", 0>>

Report(rule, severity, query, claimed) ==
    [rule |-> rule, at |-> Somewhere, severity |-> severity, query |-> query,
     claimed |-> claimed, faulty |-> FALSE, rowQuery |-> TRUE]

\* One with the right number or the wrong one, and a worse one under the same rule whose
\* query measures the time.
SomeReports ==
    { Report("agent.x", Warning, "wrong", 2), Report("agent.x", Warning, "wrong", 1),
      Report("agent.x", Error, "now", 1) }

Idea(what, query, claimed, covered) ==
    [asserts |-> what, rule |-> what, query |-> query, claimed |-> claimed,
     faulty |-> FALSE, covered |-> covered, applies |-> TRUE]

SomeIdeas == { Idea("unique", "none", 0, FALSE), Idea("range", "wrong", 0, TRUE) }

Deterministic(rule, severity, query, n) ==
    [rule |-> rule, at |-> Somewhere, severity |-> severity, count |-> n,
     query |-> query, claimed |-> n, verified |-> FALSE]

SomePasses ==
    { [checks |-> << Deterministic("table.empty", Warning, "none", 0) >>,
       rules |-> << Deterministic("rule.r", Error, "now", 1) >>] }

\* Findings that are there whenever they are asked for.
LastingPasses ==
    { [checks |-> << Deterministic("file.encoding", Info, NoQuery, 0),
                     Deterministic("column.nulls", Warning, "wrong", 2) >>,
       rules |-> << >>] }
=============================================================================
