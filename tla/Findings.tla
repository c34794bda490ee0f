------------------------------ MODULE Findings ------------------------------
(***************************************************************************)
(* Package finding: what is a finding, when two are the same one, and what *)
(* becomes of each when its evidence is run again before it is reported.   *)
(*                                                                         *)
(* A finding is [rule, at, severity, count, query, claimed, verified].     *)
(* "at" is where it is: the table, the column and the line.  "query" is    *)
(* the count query or NoQuery; "claimed" is the number its title was       *)
(* written with.                                                           *)
(***************************************************************************)
EXTENDS Integers, SequencesExt

CONSTANT NoQuery      \* what stands for "no count query"

\* type Severity: Info < Warning < Error.
Info == 0
Warning == 1
Error == 2
Severities == {Info, Warning, Error}

\* ParseSeverity, of a word in lower case without spaces; -1 when it is no severity.
ParseSeverity(word) ==
    CASE word = "info" -> Info
      [] word \in {"warn", "warning"} -> Warning
      [] word = "error" -> Error
      [] OTHER -> -1

FindingFields == {"rule", "at", "severity", "count", "query", "claimed", "verified"}

\* key: what two reports of one problem have in common.
Key(f) == <<f.rule, f.at>>

\* Set.Add: of those with one key the most severe stays, the first of equals, in the
\* place of the first.
Add(items, f) ==
    LET same == {i \in DOMAIN items : Key(items[i]) = Key(f)}
    IN  IF same = {} THEN Append(items, f)
        ELSE [i \in DOMAIN items |->
                 IF i \in same /\ f.severity > items[i].severity THEN f ELSE items[i]]

\* Set.AddAll, of one finding after another.  (What was there before is bound as the one
\* member of a set: TLC then computes it once, and not at each use in Add.)
AddAll(items, fs) ==
    LET added[n \in 0..Len(fs)] ==
            IF n = 0 THEN items
            ELSE CHOOSE after \in {Add(before, fs[n]) : before \in {added[n - 1]}} : TRUE
    IN  added[Len(fs)]

\* Verify, for one finding.  "got" is what its query returned, -1 when it failed.  One
\* that counted nothing from the first stays.
Unrunnable == -1

Dropped(f, got) ==
    f.query # NoQuery /\ (got = Unrunnable \/ (got = 0 /\ f.count # 0))

Checked(f, got) ==
    IF f.query = NoQuery THEN f ELSE [f EXCEPT !.count = got, !.verified = TRUE]
=============================================================================
