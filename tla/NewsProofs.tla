----------------------------- MODULE NewsProofs -----------------------------
(***************************************************************************)
(* What is told of an audit, to those who watch it and to those who wait   *)
(* for its outcome.                                                        *)
(*                                                                         *)
(* EventStream, for every set of watchers, every size of their channels    *)
(* and every number of events; and Outcomes: what a comparison says, and   *)
(* what a build or a reader may conclude from hearing nothing, for any     *)
(* number of audits, however they overlap, and whatever they report.  The  *)
(* argument there: an audit that is over changes no more, nor does the one *)
(* it was compared with, so what was decided on them when it ended is      *)
(* still so.                                                               *)
(***************************************************************************)
EXTENDS EventStream, Outcomes, NatLemmas, FiniteSetTheorems, SequenceTheorems, TLAPS

-----------------------------------------------------------------------------
(* Two reports.                                                            *)

LEMMA FindingTypes ==
    ASSUME NEW report, IsReport(report), NEW id \in DOMAIN report.findings
    PROVE  /\ report.findings[id].severity \in 0..2 /\ report.findings[id].count \in Nat
           /\ report.findings[id] = [severity |-> report.findings[id].severity,
                                     count |-> report.findings[id].count]
BY DEF IsReport

LEMMA NoReportIsReport == IsReport(NoReport)
<1>1. DOMAIN NoReport.findings = {}
  BY DEF NoReport
<1> QED BY <1>1, FS_EmptySet DEF IsReport

\* What is in the one report or in the other has one status there.
LEMMA StatusOf ==
    ASSUME NEW old, NEW new, IsReport(old), IsReport(new),
           NEW id \in DOMAIN old.findings \union DOMAIN new.findings
    PROVE  /\ Status(old, new, id) = "new" <=> id \notin DOMAIN old.findings
           /\ Status(old, new, id) = "resolved" <=> id \notin DOMAIN new.findings
           /\ id \in DOMAIN old.findings \intersect DOMAIN new.findings =>
                 /\ Status(old, new, id) = "unchanged"
                       <=> old.findings[id].count = new.findings[id].count
                 /\ Status(old, new, id) = "worsened"
                       <=> new.findings[id].count > old.findings[id].count
<1>1. CASE id \notin DOMAIN old.findings
  BY <1>1 DEF Status
<1>2. CASE id \notin DOMAIN new.findings
  BY <1>2 DEF Status
<1>3. CASE id \in DOMAIN old.findings \intersect DOMAIN new.findings
  <2>1. old.findings[id].count \in Nat /\ new.findings[id].count \in Nat
    BY <1>3, FindingTypes
  <2> QED BY <1>3, <2>1 DEF Status
<1> QED BY <1>1, <1>2, <1>3

\* A comparison leaves out exactly what is as it was.
LEMMA ListsWhatMoved ==
    ASSUME NEW old, NEW new, IsReport(old), IsReport(new),
           NEW id \in DOMAIN old.findings \union DOMAIN new.findings
    PROVE  id \notin Listed(old, new)
              <=> /\ id \in DOMAIN old.findings \intersect DOMAIN new.findings
                  /\ old.findings[id] = new.findings[id]
<1>1. CASE id \in DOMAIN old.findings \intersect DOMAIN new.findings
  <2>1. /\ old.findings[id] = [severity |-> old.findings[id].severity,
                               count |-> old.findings[id].count]
        /\ new.findings[id] = [severity |-> new.findings[id].severity,
                               count |-> new.findings[id].count]
    BY <1>1, FindingTypes
  <2>2. id \notin Listed(old, new)
           <=> /\ old.findings[id].count = new.findings[id].count
               /\ old.findings[id].severity = new.findings[id].severity
    BY <1>1, StatusOf DEF Listed, SeverityMoved
  <2> QED BY <1>1, <2>1, <2>2
<1>2. CASE id \notin DOMAIN old.findings \/ id \notin DOMAIN new.findings
  BY <1>2, StatusOf DEF Listed
<1> QED BY <1>1, <1>2

\* Its two counts of what is in one report alone are those reports' sizes but for what
\* they share.
LEMMA CountsAddUp ==
    ASSUME NEW old, NEW new, IsReport(old), IsReport(new)
    PROVE  LET both == DOMAIN old.findings \intersect DOMAIN new.findings
           IN  /\ Summary(old, new)["resolved"] + Cardinality(both)
                     = Cardinality(DOMAIN old.findings)
               /\ Summary(old, new)["new"] + Cardinality(both)
                     = Cardinality(DOMAIN new.findings)
<1> DEFINE O == DOMAIN old.findings
           N == DOMAIN new.findings
           both == O \intersect N
           of(s) == {id \in O \union N : Status(old, new, id) = s}
<1>1. IsFiniteSet(O) /\ IsFiniteSet(N)
  BY DEF IsReport
<1>2. of("resolved") = O \ N /\ of("new") = N \ O
  BY StatusOf
<1>3. /\ Summary(old, new)["resolved"] = Cardinality(of("resolved"))
      /\ Summary(old, new)["new"] = Cardinality(of("new"))
  BY DEF Summary, Statuses
<1> HIDE DEF O, N, of
<1>4. /\ Cardinality(O \ N) = Cardinality(O) - Cardinality(O \intersect N)
      /\ Cardinality(N \ O) = Cardinality(N) - Cardinality(N \intersect O)
  BY <1>1, FS_Difference
<1>5. N \intersect O = both /\ O \intersect N = both
  OBVIOUS
<1>6. Cardinality(O) \in Nat /\ Cardinality(N) \in Nat
  BY <1>1, FS_CardinalityType
<1>7. Cardinality(both) \in Nat
  <2>1. IsFiniteSet(both)
    BY <1>1, FS_Subset
  <2> QED BY <2>1, FS_CardinalityType
<1> HIDE DEF both
<1>8. /\ Summary(old, new)["resolved"] + Cardinality(both) = Cardinality(O)
      /\ Summary(old, new)["new"] + Cardinality(both) = Cardinality(N)
  <2>1. /\ Cardinality(of("resolved")) = Cardinality(O) - Cardinality(both)
        /\ Cardinality(of("new")) = Cardinality(N) - Cardinality(both)
    BY <1>2, <1>4, <1>5
  <2> QED BY <1>3, <1>6, <1>7, <2>1
<1> QED BY <1>8 DEF both, O, N

\* When the table or the column of a finding went, the comparison says so.
LEMMA NotesWhatWent ==
    ASSUME NEW old, NEW new, NEW t \in DOMAIN old.tables, NEW c \in old.tables[t].columns,
           ~(t \in DOMAIN new.tables /\ c \in new.tables[t].columns)
    PROVE  Gone(old, new)
<1>1. CASE t \notin DOMAIN new.tables
  BY <1>1 DEF Gone, TableChange
<1>2. CASE t \in DOMAIN new.tables
  <2>1. c \notin new.tables[t].columns
    BY <1>2
  <2>2. old.tables[t] # new.tables[t] /\ ColumnsRemoved(old, new, t) # {}
    BY <2>1 DEF ColumnsRemoved
  <2>3. TableChange(old, new, t) = "changed"
    BY <1>2, <2>2 DEF TableChange
  <2> QED BY <2>2, <2>3 DEF Gone
<1> QED BY <1>1, <1>2

\* What does not regress was there before, and has not grown.
LEMMA NotRegressed ==
    ASSUME NEW old, NEW new, IsReport(old), IsReport(new), NEW min,
           Regressed(old, new, min) = {},
           NEW id \in DOMAIN new.findings, new.findings[id].severity >= min
    PROVE  id \in DOMAIN old.findings /\ new.findings[id].count <= old.findings[id].count
<1>1. ~(Status(old, new, id) \in {"new", "worsened"})
  BY DEF Regressed, Compare, Listed
<1>2. id \in DOMAIN old.findings
  BY <1>1, StatusOf
<1>3. ~(new.findings[id].count > old.findings[id].count)
  BY <1>1, <1>2, StatusOf
<1>4. old.findings[id].count \in Nat /\ new.findings[id].count \in Nat
  BY <1>2, FindingTypes
<1> QED BY <1>2, <1>3, <1>4

-----------------------------------------------------------------------------
(* What an audit leaves when it is over.                                   *)

Over == {"succeeded", "failed", "canceled", "unrecorded"}
Under == {"none", "running", "built"}

MailStates == {"none", "reading", "deciding", "posting", "waiting", "sent", "undelivered",
               "skipped", "unread"}

OutcomesType ==
    /\ asked \in Sinks \union Gates
    /\ status \in [Runs -> Under \union Over]
    /\ document \in [Runs -> Reports \union {NoReport}]
    /\ base \in [Runs -> Runs \union {0}]
    /\ mail \in [Runs -> [at : MailStates, attempt : 0..attempts]]
    /\ exit \in [Runs -> {"none", "passed", "failed", "refused"}]

\* What an audit was compared with has succeeded; what nobody was told, and what let a
\* build pass, is so of the reports that were kept.
OutcomesInv ==
    /\ OutcomesType
    /\ \A r \in Runs :
          /\ base[r] # 0 => base[r] \in Succeeded /\ status[r] \notin {"none", "running"}
          /\ mail[r].at # "none" => status[r] \in Over
          /\ mail[r].at = "skipped" => Wanted(r, FALSE) = "none"
          /\ mail[r].at = "unread" => Wanted(r, TRUE) = "none"
          /\ exit[r] = "passed" =>
                /\ status[r] = "succeeded" /\ asked \in Gates
                /\ Exit(base[r], document[r]) = "passed"

\* The run r is over, and nothing about it changes.
Kept(r) ==
    /\ status[r] \in Over
    /\ status'[r] = status[r] /\ document'[r] = document[r] /\ base'[r] = base[r]

LEMMA ReportsAreReports ==
    ASSUME OutcomesType, NEW r \in Runs PROVE IsReport(document[r])
<1>1. document[r] \in Reports \union {NoReport}
  BY DEF OutcomesType
<1> QED BY <1>1, NoReportIsReport, OutcomesAssumption

LEMMA SinksAndGatesDiffer == \A x : ~(x \in Sinks /\ x \in Gates)
<1> SUFFICES ASSUME NEW x \in Sinks, x \in Gates PROVE FALSE
  OBVIOUS
<1>1. DOMAIN x = {"on", "min"}
  BY DEF Sinks
<1>2. DOMAIN x = {"failOn", "onRegression"}
  BY DEF Gates
<1>3. "on" \in {"on", "min"} /\ "on" \notin {"failOn", "onRegression"}
  OBVIOUS
<1> QED BY <1>1, <1>2, <1>3

\* The latest of the runs created before another that has succeeded is there to be found.
LEMMA PreviousIsLatest ==
    ASSUME NEW r \in Runs, Previous(r) # 0
    PROVE  /\ Previous(r) \in Succeeded /\ Previous(r) < r
           /\ \A q \in Succeeded : q <= Previous(r) \/ q >= r
<1> DEFINE earlier == {q \in Succeeded : q < r}
           latest == CHOOSE q \in earlier : \A p \in earlier : p <= q
<1>1. earlier # {} /\ Previous(r) = latest
  BY DEF Previous
<1>2. MaxRuns \in Nat /\ Runs \subseteq 0..MaxRuns /\ Succeeded \subseteq Runs
  BY OutcomesAssumption DEF Runs, Succeeded
<1>3. earlier \subseteq 0..MaxRuns
  BY <1>2
<1>4. \E q \in earlier : \A p \in earlier : p <= q
  <2> HIDE DEF earlier
  <2> QED BY <1>1, <1>2, <1>3, GreatestUpTo
<1>5. latest \in earlier /\ \A p \in earlier : p <= latest
  BY <1>4
<1> HIDE DEF latest
<1>6. ASSUME NEW q \in Succeeded PROVE q <= latest \/ q >= r
  <2>1. q \in Int /\ r \in Int
    BY <1>2
  <2>2. CASE q < r
    BY <1>5, <2>2
  <2>3. CASE ~(q < r)
    BY <2>1, <2>3
  <2> QED BY <2>2, <2>3
<1> QED BY <1>1, <1>5, <1>6

\* What Settle does.
LEMMA SettleType ==
    ASSUME OutcomesType, NEW r \in Runs, NEW how \in Over, Settle(r, how)
    PROVE  /\ status' \in [Runs -> Under \union Over] /\ status'[r] = how
           /\ \A q \in Runs : q # r => status'[q] = status[q] /\ mail'[q] = mail[q]
           /\ mail' \in [Runs -> [at : MailStates, attempt : 0..attempts]]
           /\ mail'[r].at \in {"none", "reading"}
BY DEF OutcomesType, Settle, Over, Under, MailStates

\* What is over stays as it is, whatever else goes on.
LEMMA OverStays ==
    ASSUME OutcomesType, Next, NEW r \in Runs
    PROVE  asked' = asked /\ (status[r] \in Over => Kept(r))
<1>1. ASSUME NEW q \in Runs, Start(q) PROVE asked' = asked /\ (status[r] \in Over => Kept(r))
  BY <1>1 DEF Start, OutcomesType, Over, Kept
<1>2. ASSUME NEW q \in Runs, FindBaseline(q) PROVE asked' = asked /\ (status[r] \in Over => Kept(r))
  <2>1. base' \in {[base EXCEPT ![q] = Previous(q)], base}
    BY <1>2 DEF FindBaseline
  <2> HIDE DEF Previous
  <2> QED BY <1>2, <2>1 DEF FindBaseline, OutcomesType, Over, Kept
<1>6. ASSUME NEW q \in Runs, NEW report, FinishRun(q, report)
      PROVE  asked' = asked /\ (status[r] \in Over => Kept(r))
  BY <1>6 DEF FinishRun, Settle, OutcomesType, Over, Kept
<1>3. ASSUME NEW q \in Runs, NEW how, End(q, how)
      PROVE  asked' = asked /\ (status[r] \in Over => Kept(r))
  BY <1>3 DEF End, Settle, OutcomesType, Over, Kept
<1>4. ASSUME NEW q \in Runs, NEW b, NEW report, Build(q, b, report)
      PROVE  asked' = asked /\ (status[r] \in Over => Kept(r))
  BY <1>4 DEF Build, Settle, OutcomesType, Over, Kept
<1>5. ASSUME NEW q \in Runs, Delivery(q) \/ Shutdown(q)
      PROVE  asked' = asked /\ (status[r] \in Over => Kept(r))
  BY <1>5 DEF Delivery, ReadOutcome, Decide, Posted, NotPosted, Retry, Shutdown, Kept
<1> QED BY <1>1, <1>2, <1>3, <1>4, <1>5, <1>6 DEF Next

\* What was decided on what is kept would be decided again.
LEMMA DecisionsStay ==
    ASSUME asked' = asked, NEW r \in Runs, Kept(r), base[r] # 0 => Kept(base[r])
    PROVE  /\ \A blind : Wanted(r, blind)' = Wanted(r, blind)
           /\ Exit(base[r], document[r])' = Exit(base[r], document[r])
BY DEF Kept, Wanted, Regressions, Exit

\* What Step must show of the run that moves; of the others it follows.
RunInv(r) ==
    /\ base[r] # 0 => base[r] \in Succeeded /\ status[r] \notin {"none", "running"}
    /\ mail[r].at # "none" => status[r] \in Over
    /\ mail[r].at = "skipped" => Wanted(r, FALSE) = "none"
    /\ mail[r].at = "unread" => Wanted(r, TRUE) = "none"
    /\ exit[r] = "passed" =>
          /\ status[r] = "succeeded" /\ asked \in Gates
          /\ Exit(base[r], document[r]) = "passed"

LEMMA OthersStay ==
    ASSUME OutcomesInv, Next, NEW r \in Runs, base' = base \/ base'[r] = base[r],
           status'[r] = status[r],
           mail'[r] = mail[r] \/ mail'[r].at \notin {"none", "skipped", "unread"},
           mail[r].at = "none" => mail'[r].at = "none", exit'[r] = exit[r]
    PROVE  RunInv(r)'
<1>1. RunInv(r) /\ OutcomesType
  BY DEF OutcomesInv, RunInv
<1>2. asked' = asked /\ \A q \in Runs : status[q] \in Over => Kept(q)
  BY <1>1, OverStays
<1>3. \A q \in Succeeded : q \in Runs /\ status[q] \in Over /\ Kept(q) /\ q \in Succeeded'
  <2>1. \A q \in Succeeded : q \in Runs /\ status[q] \in Over
    BY DEF Succeeded, Over
  <2> QED BY <1>2, <2>1 DEF Kept, Succeeded
<1>4. base'[r] # 0 => base'[r] \in Succeeded' /\ status'[r] \notin {"none", "running"}
  BY <1>1, <1>3 DEF RunInv
<1>5. mail'[r].at # "none" => status'[r] \in Over
  BY <1>1 DEF RunInv
<1>6. status[r] \in Over =>
         /\ \A blind : Wanted(r, blind)' = Wanted(r, blind)
         /\ Exit(base[r], document[r])' = Exit(base[r], document[r])
  <2>1. base[r] # 0 => Kept(base[r])
    BY <1>1, <1>3 DEF RunInv
  <2> QED BY <1>2, <2>1, DecisionsStay
<1>7. /\ mail'[r].at = "skipped" => Wanted(r, FALSE)' = "none"
      /\ mail'[r].at = "unread" => Wanted(r, TRUE)' = "none"
  <2> HIDE DEF Wanted
  <2> QED BY <1>1, <1>6 DEF RunInv
<1>8. exit'[r] = "passed" =>
         /\ status'[r] = "succeeded" /\ asked' \in Gates
         /\ Exit(base[r], document[r])' = "passed"
  BY <1>1, <1>2, <1>6 DEF RunInv, Over
<1> HIDE DEF Wanted, Exit
<1> QED BY <1>4, <1>5, <1>7, <1>8 DEF RunInv

LEMMA OutcomesStep == OutcomesInv /\ [Next]_vars => OutcomesInv'
<1> SUFFICES ASSUME OutcomesInv, [Next]_vars PROVE OutcomesInv'
  OBVIOUS
<1>1. OutcomesType /\ \A r \in Runs : RunInv(r)
  BY DEF OutcomesInv, RunInv
<1>2. CASE UNCHANGED vars
  BY <1>2 DEF vars, OutcomesInv, OutcomesType, Succeeded, Wanted, Regressions, Exit
<1> SUFFICES ASSUME Next PROVE OutcomesType' /\ \A r \in Runs : RunInv(r)'
  BY <1>2 DEF OutcomesInv, RunInv
<1> USE <1>1
<1>3. ASSUME NEW r \in Runs, Start(r) PROVE OutcomesType' /\ \A q \in Runs : RunInv(q)'
  <2>1. OutcomesType'
    BY <1>3 DEF OutcomesType, Start, Under
  <2>2. /\ \A q \in Runs : q # r => status'[q] = status[q]
        /\ status[r] = "none" /\ mail[r].at = "none" /\ exit[r] # "passed"
        /\ status' = [status EXCEPT ![r] = "running"]
        /\ UNCHANGED <<asked, document, base, mail, exit>>
    BY <1>3 DEF Start, OutcomesType, RunInv, Over
  <2>3. ASSUME NEW q \in Runs, q # r PROVE RunInv(q)'
    BY <2>2, <2>3, OthersStay
  <2>4. RunInv(r)'
    <3>1. base[r] = 0
      BY <2>2 DEF RunInv
    <3> QED BY <2>2, <3>1 DEF RunInv
  <2> QED BY <2>1, <2>3, <2>4
<1>4. ASSUME NEW r \in Runs, FindBaseline(r) PROVE OutcomesType' /\ \A q \in Runs : RunInv(q)'
  <2>1. /\ status[r] = "running" /\ status' = [status EXCEPT ![r] = "built"]
        /\ base' = [base EXCEPT ![r] = Previous(r)] \/ base' = base
        /\ UNCHANGED <<asked, document, mail, exit>>
    BY <1>4 DEF FindBaseline
  <2>2. Previous(r) # 0 => Previous(r) \in Succeeded
    BY PreviousIsLatest
  <2> HIDE DEF Previous
  <2>3. Succeeded \subseteq Runs
    BY DEF Succeeded
  <2>4. base' \in [Runs -> Runs \union {0}] /\ \A q \in Runs : q # r => base'[q] = base[q]
    BY <2>1, <2>2, <2>3 DEF OutcomesType
  <2>5. OutcomesType'
    BY <2>1, <2>4 DEF OutcomesType, Under
  <2>6. ASSUME NEW q \in Runs, q # r PROVE RunInv(q)'
    BY <2>1, <2>4, <2>6, OthersStay DEF OutcomesType
  <2>7. RunInv(r)'
    <3>1. status'[r] = "built" /\ mail[r].at = "none" /\ exit[r] # "passed"
      BY <2>1 DEF OutcomesType, RunInv, Over
    <3>2. base'[r] # 0 => base'[r] \in Succeeded
      BY <2>1, <2>2 DEF RunInv, OutcomesType
    <3>3. \A q \in Succeeded : q \in Succeeded'
      BY <2>1 DEF Succeeded, OutcomesType
    <3> QED BY <2>1, <3>1, <3>2, <3>3 DEF RunInv
  <2> QED BY <2>5, <2>6, <2>7
<1>9. ASSUME NEW r \in Runs, NEW report \in Reports, FinishRun(r, report)
      PROVE  OutcomesType' /\ \A q \in Runs : RunInv(q)'
  <2>1. /\ status[r] = "built" /\ Settle(r, "succeeded")
        /\ document' = [document EXCEPT ![r] = report] /\ UNCHANGED <<asked, base, exit>>
    BY <1>9 DEF FinishRun
  <2>2. /\ status' \in [Runs -> Under \union Over] /\ status'[r] = "succeeded"
        /\ \A q \in Runs : q # r => status'[q] = status[q] /\ mail'[q] = mail[q]
        /\ mail' \in [Runs -> [at : MailStates, attempt : 0..attempts]]
        /\ mail'[r].at \in {"none", "reading"}
    BY <2>1, SettleType DEF Over
  <2>3. OutcomesType'
    BY <2>1, <2>2 DEF OutcomesType
  <2>4. ASSUME NEW q \in Runs, q # r PROVE RunInv(q)'
    BY <2>1, <2>2, <2>4, OthersStay
  <2>5. RunInv(r)'
    <3>1. \A q \in Succeeded : q \in Succeeded'
      BY <2>2 DEF Succeeded
    <3>2. exit'[r] # "passed"
      BY <2>1 DEF RunInv
    <3> QED BY <2>1, <2>2, <3>1, <3>2 DEF RunInv, Over
  <2> QED BY <2>3, <2>4, <2>5
<1>5. ASSUME NEW r \in Runs, NEW how \in {"failed", "canceled", "unrecorded"}, End(r, how)
      PROVE  OutcomesType' /\ \A q \in Runs : RunInv(q)'
  <2>1. /\ status[r] \in {"running", "built"} /\ Settle(r, how)
        /\ UNCHANGED <<asked, document, base, exit>>
    BY <1>5 DEF End
  <2>2. /\ status' \in [Runs -> Under \union Over] /\ status'[r] = how
        /\ \A q \in Runs : q # r => status'[q] = status[q] /\ mail'[q] = mail[q]
        /\ mail' \in [Runs -> [at : MailStates, attempt : 0..attempts]]
        /\ mail'[r].at \in {"none", "reading"}
    BY <2>1, SettleType DEF Over
  <2>3. OutcomesType'
    BY <2>1, <2>2 DEF OutcomesType
  <2>4. ASSUME NEW q \in Runs, q # r PROVE RunInv(q)'
    BY <2>1, <2>2, <2>4, OthersStay
  <2>5. RunInv(r)'
    <3>1. \A q \in Succeeded : q \in Succeeded'
      BY <2>1, <2>2 DEF Succeeded
    <3>2. exit'[r] # "passed"
      BY <2>1 DEF RunInv
    <3> QED BY <2>1, <2>2, <3>1, <3>2 DEF RunInv, Over
  <2> QED BY <2>3, <2>4, <2>5
<1>6. ASSUME NEW r \in Runs, NEW b \in Succeeded \union {0}, NEW report \in Reports,
             Build(r, b, report)
      PROVE  OutcomesType' /\ \A q \in Runs : RunInv(q)'
  <2> DEFINE how == IF exit'[r] = "refused" THEN "failed" ELSE "succeeded"
  <2>1. /\ status[r] = "running" /\ asked \in Gates
        /\ exit' = [exit EXCEPT ![r] = Exit(b, report)] /\ Settle(r, how)
        /\ asked' = asked
        /\ exit'[r] = "refused" => UNCHANGED <<document, base>>
        /\ exit'[r] # "refused" => /\ document' = [document EXCEPT ![r] = report]
                                   /\ base' = [base EXCEPT ![r] = b]
    BY <1>6 DEF Build
  <2>2. Exit(b, report) \in {"passed", "failed", "refused"}
    BY DEF Exit
  <2>3. how \in Over
    BY DEF Over
  <2> HIDE DEF Exit
  <2>4. /\ status' \in [Runs -> Under \union Over] /\ status'[r] = how
        /\ \A q \in Runs : q # r => status'[q] = status[q] /\ mail'[q] = mail[q]
        /\ mail' \in [Runs -> [at : MailStates, attempt : 0..attempts]]
        /\ mail'[r].at \in {"none", "reading"}
    <3> HIDE DEF how
    <3> QED BY <2>1, <2>3, SettleType
  <2>5. /\ exit' \in [Runs -> {"none", "passed", "failed", "refused"}]
        /\ exit'[r] = Exit(b, report) /\ \A q \in Runs : q # r => exit'[q] = exit[q]
    BY <2>1, <2>2 DEF OutcomesType
  <2>6. /\ base' \in [Runs -> Runs \union {0}] /\ \A q \in Runs : q # r => base'[q] = base[q]
        /\ document' \in [Runs -> Reports \union {NoReport}]
    <3>1. b \in Runs \union {0}
      BY DEF Succeeded
    <3> HIDE DEF NoReport
    <3> QED BY <2>1, <3>1 DEF OutcomesType
  <2>7. OutcomesType'
    BY <2>1, <2>4, <2>5, <2>6 DEF OutcomesType
  <2>8. ASSUME NEW q \in Runs, q # r PROVE RunInv(q)'
    BY <2>4, <2>5, <2>6, <2>8, OthersStay
  <2>9. RunInv(r)'
    <3>1. base'[r] # 0 => base'[r] \in Succeeded
      BY <2>1 DEF RunInv, OutcomesType
    <3>2. \A q \in Succeeded : q \in Succeeded' /\ q # r
      BY <2>1, <2>4 DEF Succeeded
    <3>3. ASSUME exit'[r] = "passed"
          PROVE  /\ status'[r] = "succeeded" /\ asked' \in Gates
                 /\ Exit(base[r], document[r])' = "passed"
      <4>1. /\ document' = [document EXCEPT ![r] = report] /\ base' = [base EXCEPT ![r] = b]
            /\ status'[r] = "succeeded" /\ asked' = asked /\ asked \in Gates
        BY <2>1, <2>4, <3>3
      <4>2. base'[r] = b /\ document'[r] = report /\ (b # 0 => document'[b] = document[b])
        BY <3>2, <4>1 DEF OutcomesType, Succeeded
      <4>3. Exit(base[r], document[r])' = Exit(b, report)
        BY <4>1, <4>2 DEF Exit
      <4> QED BY <2>5, <3>3, <4>1, <4>3
    <3>4. mail'[r].at \notin {"skipped", "unread"} /\ status'[r] \in Over
      BY <2>3, <2>4
    <3>5. status'[r] \notin {"none", "running"}
      BY <2>4
    <3> HIDE DEF how
    <3> QED BY <3>1, <3>2, <3>3, <3>4, <3>5 DEF RunInv
  <2> QED BY <2>7, <2>8, <2>9
<1>7. ASSUME NEW r \in Runs, Decide(r) PROVE OutcomesType' /\ \A q \in Runs : RunInv(q)'
  <2>1. PICK blind \in BOOLEAN :
          mail' = [mail EXCEPT ![r] =
                      IF Wanted(r, blind) # "none" THEN [at |-> "posting", attempt |-> 1]
                      ELSE [at |-> IF blind THEN "unread" ELSE "skipped", attempt |-> 0]]
    BY <1>7 DEF Decide
  <2>2. mail[r].at = "deciding" /\ UNCHANGED <<asked, status, document, base, exit>>
    BY <1>7 DEF Decide
  <2> HIDE DEF Wanted
  <2>3. /\ \A q \in Runs : q # r => mail'[q] = mail[q]
        /\ mail' \in [Runs -> [at : MailStates, attempt : 0..attempts]]
        /\ mail'[r].at \in {"skipped", "unread", "posting"}
        /\ mail'[r].at = "skipped" => Wanted(r, FALSE) = "none"
        /\ mail'[r].at = "unread" => Wanted(r, TRUE) = "none"
    <3> DEFINE decided == IF Wanted(r, blind) # "none" THEN [at |-> "posting", attempt |-> 1]
                          ELSE [at |-> IF blind THEN "unread" ELSE "skipped", attempt |-> 0]
    <3>1. decided \in [at : MailStates, attempt : 0..attempts]
      BY DEF MailStates, attempts
    <3>2. /\ decided.at \in {"skipped", "unread", "posting"}
          /\ decided.at = "skipped" => ~blind /\ Wanted(r, blind) = "none"
          /\ decided.at = "unread" => blind /\ Wanted(r, blind) = "none"
      OBVIOUS
    <3>3. mail' = [mail EXCEPT ![r] = decided]
      BY <2>1
    <3> HIDE DEF decided
    <3>4. mail'[r] = decided
      BY <3>3 DEF OutcomesType
    <3> QED BY <3>1, <3>2, <3>3, <3>4 DEF OutcomesType
  <2>6. OutcomesType'
    BY <2>2, <2>3 DEF OutcomesType
  <2>4. ASSUME NEW q \in Runs, q # r PROVE RunInv(q)'
    BY <2>2, <2>3, <2>4, OthersStay
  <2>5. RunInv(r)'
    <3>1. status[r] \in Over /\ (base[r] # 0 => base[r] \in Succeeded)
      BY <2>2 DEF RunInv
    <3>2. asked' = asked /\ Kept(r) /\ (base[r] # 0 => Kept(base[r]))
      BY <3>1, OverStays DEF Succeeded, Over
    <3>3. /\ \A blind_1 : Wanted(r, blind_1)' = Wanted(r, blind_1)
          /\ Exit(base[r], document[r])' = Exit(base[r], document[r])
      BY <3>2, DecisionsStay
    <3>4. Succeeded' = Succeeded
      BY <2>2 DEF Succeeded
    <3> HIDE DEF Exit
    <3> QED BY <2>2, <2>3, <3>1, <3>3, <3>4 DEF RunInv
  <2> QED BY <2>4, <2>5, <2>6
<1>8. ASSUME NEW r \in Runs, ReadOutcome(r) \/ Posted(r) \/ NotPosted(r) \/ Retry(r) \/ Shutdown(r)
      PROVE  OutcomesType' /\ \A q \in Runs : RunInv(q)'
  <2>1. /\ mail[r].at # "none"
        /\ UNCHANGED <<asked, status, document, base, exit>>
    BY <1>8 DEF ReadOutcome, Posted, NotPosted, Retry, Shutdown
  <2>2. /\ mail' \in [Runs -> [at : MailStates, attempt : 0..attempts]]
        /\ mail'[r].at \notin {"none", "skipped", "unread"}
        /\ \A q \in Runs : q # r => mail'[q] = mail[q]
    <3>1. CASE Posted(r)
      BY <3>1 DEF Posted, Mail, OutcomesType, MailStates, attempts
    <3>2. CASE NotPosted(r)
      BY <3>2 DEF NotPosted, Mail, OutcomesType, MailStates, attempts
    <3>3. CASE Retry(r)
      <4> DEFINE again == IF mail[r].attempt < attempts THEN mail[r].attempt + 1
                          ELSE mail[r].attempt
      <4>1. mail[r].attempt \in 0..3 /\ attempts = 3
        BY DEF OutcomesType, attempts
      <4>2. again \in 0..attempts
        BY <4>1
      <4>3. mail' = [mail EXCEPT ![r].at = "posting", ![r].attempt = again]
        BY <3>3 DEF Retry
      <4> HIDE DEF again
      <4> QED BY <4>2, <4>3 DEF OutcomesType, MailStates
    <3>4. CASE Shutdown(r)
      BY <3>4 DEF Shutdown, Mail, OutcomesType, MailStates, attempts
    <3>5. CASE ReadOutcome(r)
      BY <3>5 DEF ReadOutcome, Mail, OutcomesType, MailStates, attempts
    <3> QED BY <1>8, <3>1, <3>2, <3>3, <3>4, <3>5
  <2>3. OutcomesType'
    BY <2>1, <2>2 DEF OutcomesType
  <2>4. ASSUME NEW q \in Runs PROVE RunInv(q)'
    BY <2>1, <2>2, <2>4, OthersStay
  <2> QED BY <2>3, <2>4
<1> QED BY <1>3, <1>4, <1>5, <1>6, <1>7, <1>8, <1>9 DEF Next, Delivery

LEMMA OutcomesInvariant == Spec => []OutcomesInv
<1>1. Init => OutcomesInv
  <2> SUFFICES ASSUME Init PROVE OutcomesInv
    OBVIOUS
  <2>1. mail \in [Runs -> [at : MailStates, attempt : 0..attempts]]
    BY DEF Init, MailStates, attempts
  <2>2. OutcomesType
    BY <2>1 DEF Init, OutcomesType, Under
  <2> QED BY <2>2 DEF Init, OutcomesInv
<1>2. QED BY <1>1, OutcomesStep, PTL DEF Spec

-----------------------------------------------------------------------------
\* Whatever two audits report, what became of each finding is in their comparison.
THEOREM ComparisonsAlwaysAccountForAll == Spec => []ComparisonsAccountForAll
<1>1. OutcomesInv => ComparisonsAccountForAll
  <2> SUFFICES ASSUME OutcomesInv, NEW r \in Succeeded, base[r] # 0,
                      NEW old, NEW new, old = document[base[r]], new = document[r]
               PROVE  LET c == Compare(old, new)
                          both == DOMAIN old.findings \intersect DOMAIN new.findings
                      IN  /\ \A id \in DOMAIN old.findings \union DOMAIN new.findings :
                                id \notin c.listed
                                   <=> id \in both /\ old.findings[id] = new.findings[id]
                          /\ c.summary["resolved"] + Cardinality(both)
                                = Cardinality(DOMAIN old.findings)
                          /\ c.summary["new"] + Cardinality(both)
                                = Cardinality(DOMAIN new.findings)
                          /\ \A id \in DOMAIN old.findings \ DOMAIN new.findings :
                                \/ c.noted
                                \/ id[2] \in DOMAIN new.tables
                                     /\ id[3] \in new.tables[id[2]].columns
                                \/ ~(id[2] \in DOMAIN old.tables
                                       /\ id[3] \in old.tables[id[2]].columns)
    BY DEF ComparisonsAccountForAll
  <2>1. r \in Runs /\ base[r] \in Runs
    BY DEF OutcomesInv, Succeeded
  <2>2. IsReport(old) /\ IsReport(new)
    BY <2>1, ReportsAreReports DEF OutcomesInv
  <2>3. /\ Compare(old, new).listed = Listed(old, new)
        /\ Compare(old, new).summary = Summary(old, new)
        /\ Compare(old, new).noted = Gone(old, new)
    BY DEF Compare
  <2> HIDE DEF Compare
  <2>4. \A id \in DOMAIN old.findings \union DOMAIN new.findings :
           id \notin Listed(old, new)
              <=> /\ id \in DOMAIN old.findings \intersect DOMAIN new.findings
                  /\ old.findings[id] = new.findings[id]
    BY <2>2, ListsWhatMoved
  <2>5. LET both == DOMAIN old.findings \intersect DOMAIN new.findings
        IN  /\ Summary(old, new)["resolved"] + Cardinality(both)
                  = Cardinality(DOMAIN old.findings)
            /\ Summary(old, new)["new"] + Cardinality(both)
                  = Cardinality(DOMAIN new.findings)
    BY <2>2, CountsAddUp
  <2>6. \A t \in DOMAIN old.tables : \A c \in old.tables[t].columns :
           Gone(old, new) \/ (t \in DOMAIN new.tables /\ c \in new.tables[t].columns)
    BY NotesWhatWent
  <2> QED BY <2>3, <2>4, <2>5, <2>6
<1>2. QED BY <1>1, OutcomesInvariant, PTL

\* Whoever waits for news and hears nothing has none, for whatever he asked to be told, as
\* far as what became of the audit could be read.
THEOREM SilenceAlwaysMeansNoNews == Spec => []SilenceMeansNoNews
<1>1. OutcomesInv => SilenceMeansNoNews
  <2> SUFFICES ASSUME OutcomesInv, NEW r \in Runs, mail[r].at \in {"skipped", "unread"},
                      status[r] # "canceled"
               PROVE  /\ asked.on # "any" /\ status[r] \in {"succeeded", "unrecorded"}
                      /\ \/ asked.on = "failure" \/ base[r] = 0
                         \/ mail[r].at = "unread" \/ status[r] = "unrecorded"
                         \/ \A id \in DOMAIN document[r].findings :
                               document[r].findings[id].severity >= asked.min =>
                                  /\ id \in DOMAIN document[base[r]].findings
                                  /\ document[r].findings[id].count
                                        <= document[base[r]].findings[id].count
    BY DEF SilenceMeansNoNews
  <2>1. RunInv(r) /\ mail[r].at # "none"
    BY DEF OutcomesInv, RunInv
  <2>2. status[r] \in Over /\ \E blind \in BOOLEAN : Wanted(r, blind) = "none"
    <3> HIDE DEF Wanted
    <3> QED BY <2>1 DEF RunInv
  <2>3. asked.on # "any" /\ status[r] \in {"succeeded", "unrecorded"}
    BY <2>2 DEF Wanted, Over
  <2>4. ASSUME mail[r].at = "skipped", status[r] = "succeeded", asked.on # "failure", base[r] # 0,
               NEW id \in DOMAIN document[r].findings,
               document[r].findings[id].severity >= asked.min
        PROVE  /\ id \in DOMAIN document[base[r]].findings
               /\ document[r].findings[id].count <= document[base[r]].findings[id].count
    <3>1. Wanted(r, FALSE) = "none"
      <4> HIDE DEF Wanted
      <4> QED BY <2>1, <2>4 DEF RunInv
    <3>2. base[r] \in Runs
      BY <2>1, <2>4 DEF RunInv, Succeeded
    <3>3. Regressed(document[base[r]], document[r], asked.min) = {}
      BY <2>4, <3>1 DEF Wanted, Regressions
    <3>4. IsReport(document[base[r]]) /\ IsReport(document[r])
      BY <3>2, ReportsAreReports DEF OutcomesInv
    <3> QED BY <2>4, <3>3, <3>4, NotRegressed
  <2> QED BY <2>3, <2>4
<1>2. QED BY <1>1, OutcomesInvariant, PTL

\* A build that passed has in its report nothing that its gates stop.
THEOREM GatesAlwaysHold == Spec => []GatesHold
<1>1. OutcomesInv => GatesHold
  <2> SUFFICES ASSUME OutcomesInv, NEW r \in Runs, exit[r] = "passed"
               PROVE  LET report == document[r]
                      IN  /\ \A id \in DOMAIN report.findings :
                                report.findings[id].severity < asked.failOn
                          /\ asked.onRegression # NoGate =>
                                /\ base[r] \in Succeeded
                                /\ \A id \in DOMAIN report.findings :
                                      report.findings[id].severity >= asked.onRegression =>
                                         /\ id \in DOMAIN document[base[r]].findings
                                         /\ report.findings[id].count
                                               <= document[base[r]].findings[id].count
    BY DEF GatesHold
  <2> DEFINE report == document[r]
  <2>1. asked \in Gates /\ Exit(base[r], report) = "passed" /\ IsReport(report)
    BY ReportsAreReports DEF OutcomesInv
  <2>2. ASSUME NEW id \in DOMAIN report.findings PROVE report.findings[id].severity < asked.failOn
    <3>1. report.findings[id].severity \in 0..2
      BY <2>1, FindingTypes
    <3>2. asked.failOn \in Int
      <4>1. asked.failOn \in Thresholds \union {3}
        BY <2>1 DEF Gates, NoGate
      <4>2. \A n \in Thresholds : n \in 0..2
        BY OutcomesAssumption
      <4>3. 3 \in Int /\ \A n \in 0..2 : n \in Int
        OBVIOUS
      <4> QED BY <4>1, <4>2, <4>3, Zenon
    <3>3. ~(report.findings[id].severity >= asked.failOn)
      BY <2>1 DEF Exit
    <3> HIDE DEF report
    <3> QED BY <3>1, <3>2, <3>3
  <2>3. ASSUME asked.onRegression # NoGate,
               NEW id \in DOMAIN report.findings,
               report.findings[id].severity >= asked.onRegression
        PROVE  /\ id \in DOMAIN document[base[r]].findings
               /\ report.findings[id].count <= document[base[r]].findings[id].count
    <3>1. base[r] # 0 /\ base[r] \in Runs
      BY <2>1, <2>3 DEF Exit, OutcomesInv, Succeeded
    <3>2. IsReport(document[base[r]])
      BY <3>1, ReportsAreReports DEF OutcomesInv
    <3>3. Regressed(document[base[r]], report, asked.onRegression) = {}
      BY <2>1, <3>1 DEF Exit
    <3> HIDE DEF report
    <3> QED BY <2>1, <2>3, <3>2, <3>3, NotRegressed
  <2>4. asked.onRegression # NoGate => base[r] \in Succeeded
    BY <2>1 DEF Exit, OutcomesInv
  <2> QED BY <2>2, <2>3, <2>4
<1>2. QED BY <1>1, OutcomesInvariant, PTL

\* However the audits of the server overlap, each is compared with the one a reader would
\* take for its predecessor when its report is built, and stays so compared.
THEOREM AlwaysComparedWithTheLatest == Spec => ComparedWithTheLatest
<1> DEFINE Latest(r) == base'[r] # base[r] =>
                          /\ status[r] = "running" /\ base'[r] \in Succeeded /\ base'[r] < r
                          /\ \A q \in Succeeded : q <= base'[r] \/ q >= r
           Lasts(r) == /\ base[r] # 0 => /\ status'[base[r]] = "succeeded"
                                         /\ document'[base[r]] = document[base[r]]
                       /\ r \in Succeeded => document'[r] = document[r]
           Compared == \A r \in Runs : asked \in Sinks =>
                          /\ base'[r] # base[r] =>
                                /\ status[r] = "running" /\ base'[r] \in Succeeded /\ base'[r] < r
                                /\ \A q \in Succeeded : q <= base'[r] \/ q >= r
                          /\ base[r] # 0 => /\ status'[base[r]] = "succeeded"
                                            /\ document'[base[r]] = document[base[r]]
                          /\ r \in Succeeded => document'[r] = document[r]
<1>1. OutcomesInv /\ [Next]_vars => [Compared]_vars
  <2> SUFFICES ASSUME OutcomesInv, Next, NEW r \in Runs, asked \in Sinks
               PROVE  Latest(r) /\ Lasts(r)
    OBVIOUS
  <2>1. OutcomesType /\ RunInv(r)
    BY DEF OutcomesInv, RunInv
  <2>2. Lasts(r)
    <3>1. \A q \in Succeeded : q \in Runs /\ status[q] = "succeeded" /\ Kept(q)
      BY <2>1, OverStays DEF Succeeded, Over
    <3> QED BY <2>1, <3>1 DEF RunInv, Kept
  <2>3. ASSUME base'[r] # base[r] PROVE FindBaseline(r) /\ base'[r] = Previous(r)
    <3> HIDE DEF Previous
    <3>1. ASSUME NEW q \in Runs, FindBaseline(q) PROVE q = r /\ base'[r] = Previous(r)
      BY <2>1, <2>3, <3>1 DEF FindBaseline, OutcomesType
    <3>2. ASSUME NEW q \in Runs,
                 Start(q) \/ (\E report \in Reports : FinishRun(q, report))
                   \/ (\E how \in {"failed", "canceled", "unrecorded"} : End(q, how))
                   \/ Delivery(q) \/ Shutdown(q)
          PROVE  FALSE
      BY <2>3, <3>2
         DEF Start, FinishRun, End, Delivery, ReadOutcome, Decide, Posted, NotPosted, Retry, Shutdown
    <3>3. ASSUME NEW q \in Runs, NEW b, NEW report, Build(q, b, report) PROVE FALSE
      BY <3>3, SinksAndGatesDiffer DEF Build
    <3> QED BY <3>1, <3>2, <3>3 DEF Next
  <2>4. Latest(r)
    <3> SUFFICES ASSUME base'[r] # base[r]
                 PROVE  /\ status[r] = "running" /\ base'[r] \in Succeeded /\ base'[r] < r
                        /\ \A q \in Succeeded : q <= base'[r] \/ q >= r
      OBVIOUS
    <3>1. status[r] = "running" /\ base'[r] = Previous(r)
      BY <2>3 DEF FindBaseline
    <3>2. base[r] = 0
      BY <2>1, <3>1 DEF RunInv
    <3> QED BY <3>1, <3>2, PreviousIsLatest
  <2> QED BY <2>2, <2>4
<1>2. Spec => [][Compared]_vars
  BY <1>1, OutcomesInvariant, PTL DEF Spec
<1> QED BY <1>2 DEF ComparedWithTheLatest

USE BufferAssumption, EventsAssumption

-----------------------------------------------------------------------------
(* Types.                                                                  *)

\* Whatever is offered, no channel holds more than its buffer.
LEMMA OfferType ==
    ASSUME TypeOK, Offer
    PROVE  /\ history' \in Seq(Nat)
           /\ chan' \in [Watchers -> Seq(Nat)]
           /\ \A w \in Watchers : Len(chan'[w]) <= Buffer
           /\ behind' \in [Watchers -> BOOLEAN]
<1>1. AppendEvent(history) \in Seq(Nat) /\ AppendEvent(history)[Len(history) + 1] \in Nat
  BY DEF TypeOK, AppendEvent
<1>2. QED BY <1>1 DEF TypeOK, Offer, Room

LEMMA RunType == ASSUME TypeOK, Goroutine \/ Publish \/ Cancel \/ Stop PROVE TypeOK'
<1>1. CASE Register BY <1>1 DEF Register, TypeOK, watchVars, signalVars
<1>2. CASE Announce BY <1>2, OfferType DEF Announce, TypeOK, watchVars, signalVars
<1>3. CASE StartRun BY <1>3 DEF StartRun, TypeOK, watchVars, signalVars, RowStatuses
<1>4. CASE Record BY <1>4 DEF Record, TypeOK, watchVars, signalVars, RowStatuses
<1>5. CASE Deregister BY <1>5 DEF Deregister, TypeOK, watchVars, signalVars
<1>6. CASE Close BY <1>6 DEF Close, TypeOK, watchVars, signalVars
<1>7. CASE Publish BY <1>7, OfferType DEF Publish, TypeOK, watchVars, runVars, signalVars
<1>8. CASE Cancel \/ Stop BY <1>8 DEF Cancel, Stop, TypeOK, watchVars, runVars
<1>9. QED
  BY <1>1, <1>2, <1>3, <1>4, <1>5, <1>6, <1>7, <1>8 DEF Goroutine

WatcherStep(w) == ReadRun(w) \/ Refuse(w) \/ Handler(w) \/ ReplayFails(w) \/ ClientGone(w)

LEMMA WatcherType ==
    ASSUME TypeOK, NEW w \in Watchers, WatcherStep(w)
    PROVE  TypeOK'
<1> USE DEF TypeOK, runVars, signalVars, RowStatuses
<1>1. CASE ReadRun(w) BY <1>1 DEF ReadRun
<1>2. CASE Find(w) BY <1>2 DEF Find
<1>3. CASE Absent(w) BY <1>3 DEF Absent
<1>4. CASE Subscribe(w) BY <1>4 DEF Subscribe
<1>5. CASE Replay(w)
  <2>1. Head(backlog[w]) \in Nat /\ Tail(backlog[w]) \in Seq(Nat)
    BY <1>5 DEF Replay
  <2>2. Append(sent[w], Head(backlog[w])) \in Seq(Nat)
    BY <2>1
  <2>3. QED BY <1>5, <2>1, <2>2 DEF Replay
<1>6. CASE ReplayDone(w) BY <1>6 DEF ReplayDone
<1>7. CASE Receive(w)
  <2>1. Head(chan[w]) \in Nat /\ Tail(chan[w]) \in Seq(Nat) /\ Len(Tail(chan[w])) <= Buffer
    BY <1>7 DEF Receive
  <2>2. Append(sent[w], Head(chan[w])) \in Seq(Nat)
    BY <2>1
  <2>3. QED BY <1>7, <2>1, <2>2 DEF Receive
<1>8. CASE LastDone(w) BY <1>8 DEF LastDone, Finish
<1>9. CASE StreamClosed(w) BY <1>9 DEF StreamClosed, Finish, Leave
<1>10. CASE ServerStopping(w) BY <1>10 DEF ServerStopping, Finish, Leave
<1>11. CASE ClientGone(w) BY <1>11 DEF ClientGone, Leave
<1>12. CASE Refuse(w) \/ ReplayFails(w) BY <1>12 DEF Refuse, ReplayFails
<1>13. QED
  BY <1>1, <1>2, <1>3, <1>4, <1>5, <1>6, <1>7, <1>8, <1>9, <1>10, <1>11, <1>12
  DEF WatcherStep, Handler

\* The variables of EventStream keep their types, and no channel holds more events than
\* its buffer: publishing never waits for a reader.
THEOREM TypeCorrect == StreamSpec => []TypeOK
<1>1. StreamInit => TypeOK
  <2> SUFFICES ASSUME StreamInit PROVE TypeOK
    OBVIOUS
  <2>1. \A w \in Watchers : chan[w] = <<>>
    BY DEF StreamInit
  <2>2. \A w \in Watchers : Len(chan[w]) <= Buffer
    <3>1. Len(<<>>) = 0 /\ 0 <= Buffer
      OBVIOUS
    <3>2. QED BY <2>1, <3>1, Zenon
  <2>3. chan \in [Watchers -> Seq(Nat)] /\ sent \in [Watchers -> Seq(Nat)]
    BY DEF StreamInit
  <2>4. backlog \in [Watchers -> Seq(Nat)] /\ history \in Seq(Nat)
    BY DEF StreamInit
  <2>5. /\ closes \in [Watchers -> Nat]
        /\ behind \in [Watchers -> BOOLEAN]
    BY DEF StreamInit
  <2>6. /\ hpc \in [Watchers -> {"idle", "read", "found", "replay", "last", "stream", "ended"}]
        /\ seen \in [Watchers -> RowStatuses \union {"none"}]
        /\ done \in [Watchers -> RowStatuses \union {"none"}]
        /\ told \in [Watchers -> {"none", "absent", "closed", "stopping", "untold"}]
    BY DEF StreamInit
  <2>7. /\ gpc = "created" /\ row = "pending" /\ subs = {}
        /\ listed = FALSE /\ closed = FALSE /\ canceled = FALSE /\ stopping = FALSE
    BY DEF StreamInit
  <2>8. QED BY <2>2, <2>3, <2>4, <2>5, <2>6, <2>7 DEF TypeOK, RowStatuses
<1>2. TypeOK /\ UNCHANGED streamVars => TypeOK'
  BY DEF TypeOK, streamVars
<1>3. TypeOK /\ [StreamNext]_streamVars => TypeOK'
  BY <1>2, RunType, WatcherType DEF StreamNext, WatcherStep
<1>4. QED BY <1>1, <1>3, PTL DEF StreamSpec

-----------------------------------------------------------------------------
(* Who may still close a channel.                                          *)

Early == {"idle", "read", "found", "last"}
Loops == {"replay", "stream"}

\* A watcher in the map has an open channel and is in its loop, or has failed while it sent
\* its backlog; only the run's own close closes the channel of a handler that has not left;
\* and by then the outcome is in the store.
OwnerInv ==
    /\ gpc \in {"recorded", "delisted", "closed"} => Terminal(row)
    /\ closed <=> gpc = "closed"
    /\ closed => subs = {}
    /\ \A w \in Watchers :
          /\ closes[w] <= 1
          /\ w \in subs => closes[w] = 0 /\ hpc[w] \in Loops \union {"ended"}
          /\ hpc[w] \in Early => closes[w] = 0
          /\ hpc[w] = "last" => closed
          /\ hpc[w] \in Loops /\ closes[w] > 0 => closed
          /\ told[w] = "closed" => Terminal(done[w])
          /\ told[w] = "untold" => canceled

LEMMA RunOwner == ASSUME TypeOK, OwnerInv, Goroutine \/ Publish \/ Cancel \/ Stop PROVE OwnerInv'
<1> USE DEF TypeOK, OwnerInv, Early, Loops, Terminal, runVars, watchVars, signalVars, Offer
<1>1. CASE Register BY <1>1 DEF Register
<1>2. CASE Announce BY <1>2 DEF Announce
<1>3. CASE StartRun BY <1>3 DEF StartRun
<1>4. CASE Record BY <1>4 DEF Record
<1>5. CASE Deregister BY <1>5 DEF Deregister
<1>6. CASE Close
  <2>1. /\ gpc = "delisted" /\ gpc' = "closed" /\ closed' = TRUE /\ subs' = {}
        /\ row' = row /\ hpc' = hpc /\ told' = told /\ done' = done /\ canceled' = canceled
    BY <1>6 DEF Close
  <2>2. \A w \in Watchers :
            closes'[w] = IF w \in subs THEN closes[w] + 1 ELSE closes[w]
    BY <1>6 DEF Close
  <2>3. \A w \in Watchers : closes'[w] <= 1
    <3> SUFFICES ASSUME NEW w \in Watchers PROVE closes'[w] <= 1
      OBVIOUS
    <3>1. CASE w \in subs
      <4>1. closes[w] = 0 /\ closes'[w] = closes[w] + 1 BY <2>2, <3>1
      <4>2. QED BY <4>1
    <3>2. CASE w \notin subs
      <4>1. closes[w] <= 1 /\ closes'[w] = closes[w] BY <2>2, <3>2
      <4>2. QED BY <4>1
    <3>3. QED BY <3>1, <3>2
  <2>4. \A w \in Watchers : hpc[w] \in {"idle", "read", "found", "last"} => w \notin subs
    OBVIOUS
  <2>5. \A w \in Watchers : hpc[w] \in {"idle", "read", "found", "last"} => closes'[w] = 0
    BY <2>2, <2>4
  <2>6. QED BY <2>1, <2>3, <2>5
<1>7. CASE Publish BY <1>7 DEF Publish
<1>8. CASE Cancel \/ Stop BY <1>8 DEF Cancel, Stop
<1>9. QED
  BY <1>1, <1>2, <1>3, <1>4, <1>5, <1>6, <1>7, <1>8 DEF Goroutine

LEMMA WatcherOwner ==
    ASSUME TypeOK, OwnerInv, NEW w \in Watchers, WatcherStep(w)
    PROVE  OwnerInv'
<1> USE DEF TypeOK, OwnerInv, Early, Loops, Terminal, runVars, signalVars
<1>1. CASE ReadRun(w) BY <1>1 DEF ReadRun
<1>2. CASE Find(w) BY <1>2 DEF Find
<1>3. CASE Absent(w) BY <1>3 DEF Absent
<1>4. CASE Subscribe(w) BY <1>4 DEF Subscribe
<1>5. CASE Replay(w) BY <1>5 DEF Replay
<1>6. CASE ReplayDone(w) BY <1>6 DEF ReplayDone
<1>7. CASE Receive(w) BY <1>7 DEF Receive
<1>8. CASE LastDone(w) BY <1>8 DEF LastDone, Finish
<1>9. CASE StreamClosed(w) BY <1>9 DEF StreamClosed, Finish, Leave
<1>10. CASE ServerStopping(w) BY <1>10 DEF ServerStopping, Finish, Leave
<1>11. CASE ClientGone(w) BY <1>11 DEF ClientGone, Leave
<1>12. CASE Refuse(w) \/ ReplayFails(w) BY <1>12 DEF Refuse, ReplayFails
<1>13. QED
  BY <1>1, <1>2, <1>3, <1>4, <1>5, <1>6, <1>7, <1>8, <1>9, <1>10, <1>11, <1>12
  DEF WatcherStep, Handler

LEMMA OwnerInvariant == StreamSpec => []OwnerInv
<1>1. StreamInit => OwnerInv
  BY DEF StreamInit, OwnerInv, Early, Loops
<1>2. OwnerInv /\ UNCHANGED streamVars => OwnerInv'
  BY DEF OwnerInv, streamVars
<1>3. TypeOK /\ OwnerInv /\ [StreamNext]_streamVars => OwnerInv'
  BY <1>2, RunOwner, WatcherOwner DEF StreamNext, WatcherStep
<1>4. QED BY <1>1, <1>3, TypeCorrect, PTL DEF StreamSpec

\* However a run's close and the leaving of its watchers cross, each channel is closed at
\* most once, and one that is closed gets no more events.
THEOREM ChannelsAlwaysClosedOnce == StreamSpec => []ChannelsClosedOnce
<1>1. TypeOK /\ OwnerInv => ChannelsClosedOnce
  <2> SUFFICES ASSUME TypeOK, OwnerInv, NEW w \in Watchers
               PROVE  closes[w] <= (IF w \in subs THEN 0 ELSE 1)
    BY DEF ChannelsClosedOnce
  <2>1. closes[w] <= 1 /\ (w \in subs => closes[w] = 0)
    BY DEF OwnerInv
  <2>2. QED BY <2>1
<1>2. QED BY <1>1, TypeCorrect, OwnerInvariant, PTL

\* A watcher whose stream ended because the run's did was told how the run ended, and one
\* that could be told nothing is one whose request the signal had canceled.
THEOREM StreamEndAlwaysTellsOutcome == StreamSpec => []StreamEndTellsOutcome
<1>1. OwnerInv => StreamEndTellsOutcome
  BY DEF OwnerInv, StreamEndTellsOutcome
<1>2. QED BY <1>1, OwnerInvariant, PTL

-----------------------------------------------------------------------------
(* What is sent.                                                           *)

\* What watcher w has been sent, followed by what is on its way to it.
Stream(w) == sent[w] \o backlog[w] \o chan[w]

Rising(s) == \A i, j \in 1..Len(s) : i < j => s[i] < s[j]

\* What a watcher is sent and has waiting is in order and has been published; it is all
\* there is while nothing was dropped; before it subscribes it has nothing, and while it
\* streams no more backlog.
Delivered(w) ==
    /\ Rising(Stream(w))
    /\ \A i \in 1..Len(Stream(w)) : Stream(w)[i] <= Len(history)
    /\ w \in subs /\ ~behind[w] => Stream(w) = history
    /\ hpc[w] \in {"idle", "read", "found"}
          => sent[w] = <<>> /\ backlog[w] = <<>> /\ chan[w] = <<>>
    /\ hpc[w] = "stream" => backlog[w] = <<>>

\* Events are numbered as they come.
DeliveryInv ==
    /\ \A i \in 1..Len(history) : history[i] = i
    /\ \A w \in Watchers : Delivered(w)

\* What moves from the head of what waits to the end of what was sent keeps its place.
LEMMA HandOver ==
    ASSUME NEW s \in Seq(Nat), NEW t \in Seq(Nat), t # <<>>
    PROVE  Append(s, Head(t)) \o Tail(t) = s \o t
<1> DEFINE l == Append(s, Head(t)) \o Tail(t)
<1>1. /\ Head(t) \in Nat /\ Tail(t) \in Seq(Nat) /\ Len(Tail(t)) = Len(t) - 1
      /\ \A i \in 1..Len(Tail(t)) : Tail(t)[i] = t[i + 1]
      /\ Len(t) \in Nat /\ Len(t) > 0 /\ Len(s) \in Nat /\ Head(t) = t[1]
  BY HeadTailProperties, EmptySeq, LenProperties
<1>2. /\ Append(s, Head(t)) \in Seq(Nat) /\ Len(Append(s, Head(t))) = Len(s) + 1
      /\ \A i \in 1..Len(s) : Append(s, Head(t))[i] = s[i]
      /\ Append(s, Head(t))[Len(s) + 1] = t[1]
  BY <1>1, AppendProperties
<1>3. /\ l \in Seq(Nat) /\ s \o t \in Seq(Nat)
      /\ Len(l) = Len(s) + Len(t) /\ Len(s \o t) = Len(s) + Len(t)
  BY <1>1, <1>2, ConcatProperties
<1>4. \A i \in 1..(Len(s) + Len(t)) : l[i] = (s \o t)[i]
  <2> SUFFICES ASSUME NEW i \in 1..(Len(s) + Len(t)) PROVE l[i] = (s \o t)[i]
    OBVIOUS
  <2>1. l[i] = IF i <= Len(s) + 1 THEN Append(s, Head(t))[i] ELSE Tail(t)[i - (Len(s) + 1)]
    BY <1>1, <1>2, ConcatProperties
  <2>2. (s \o t)[i] = IF i <= Len(s) THEN s[i] ELSE t[i - Len(s)]
    BY <1>1, ConcatProperties
  <2> HIDE DEF l
  <2>3. QED BY <1>1, <1>2, <2>1, <2>2
<1> HIDE DEF l
<1>5. l = s \o t BY <1>3, <1>4, SeqEqual
<1> QED BY <1>5 DEF l

\* An event put behind all that waits is the last of the stream.
LEMMA OneMore ==
    ASSUME NEW s \in Seq(Nat), NEW t \in Seq(Nat), NEW e \in Nat
    PROVE  s \o Append(t, e) = Append(s \o t, e)
<1>1. Append(t, e) = t \o <<e>> /\ <<e>> \in Seq(Nat) /\ s \o t \in Seq(Nat)
  BY AppendIsConcat, ConcatProperties
<1>2. s \o (t \o <<e>>) = (s \o t) \o <<e>>
  BY <1>1, ConcatAssociative
<1>3. Append(s \o t, e) = (s \o t) \o <<e>>
  BY <1>1, AppendIsConcat
<1> QED BY <1>1, <1>2, <1>3

LEMMA RisingAppend ==
    ASSUME NEW s \in Seq(Nat), NEW e \in Nat, Rising(s), \A i \in 1..Len(s) : s[i] < e
    PROVE  Rising(Append(s, e))
BY DEF Rising

\* The start of a rising sequence rises.
LEMMA RisingPrefix ==
    ASSUME NEW s \in Seq(Nat), NEW t \in Seq(Nat), Rising(s \o t)
    PROVE  Rising(s)
BY ConcatProperties DEF Rising

LEMMA StreamType ==
    ASSUME TypeOK, NEW w \in Watchers
    PROVE  /\ sent[w] \in Seq(Nat) /\ backlog[w] \in Seq(Nat) /\ chan[w] \in Seq(Nat)
           /\ sent[w] \o backlog[w] \in Seq(Nat) /\ Stream(w) \in Seq(Nat)
<1>1. sent[w] \in Seq(Nat) /\ backlog[w] \in Seq(Nat) /\ chan[w] \in Seq(Nat)
  BY DEF TypeOK
<1>2. QED BY <1>1, ConcatProperties DEF Stream

\* A watcher whose stream is as it was, of a run whose history is: it may leave the map,
\* or go from the backlog to the loop.
LEMMA Unmoved ==
    ASSUME DeliveryInv, UNCHANGED <<history, behind>>, NEW w \in Watchers,
           UNCHANGED <<sent[w], backlog[w], chan[w]>>,
           w \in subs' => w \in subs,
           hpc'[w] = hpc[w] \/ hpc'[w] = "ended" \/ hpc[w] = "idle" \/ hpc[w] = "read"
              \/ (hpc'[w] = "stream" /\ backlog[w] = <<>>)
    PROVE  Delivered(w)'
<1>1. UNCHANGED Stream(w)
  BY DEF Stream
<1>2. hpc[w] \in {"idle", "read", "found"} => sent[w] = <<>> /\ backlog[w] = <<>> /\ chan[w] = <<>>
  BY DEF DeliveryInv, Delivered
<1>3. hpc'[w] \in {"idle", "read", "found"} =>
        sent'[w] = <<>> /\ backlog'[w] = <<>> /\ chan'[w] = <<>>
  BY <1>2
<1>4. hpc'[w] = "stream" => backlog'[w] = <<>>
  BY <1>2 DEF DeliveryInv, Delivered
<1>5. QED BY <1>1, <1>3, <1>4 DEF DeliveryInv, Delivered

\* publish: the new event is the greatest, and goes behind what waits.
LEMMA OfferDelivers ==
    ASSUME TypeOK, OwnerInv, DeliveryInv, Offer, UNCHANGED <<subs, hpc, sent, backlog>>
    PROVE  DeliveryInv'
<1> DEFINE e == Len(history) + 1
<1>1. /\ history \in Seq(Nat) /\ Len(history) \in Nat /\ e \in Nat
  BY LenProperties DEF TypeOK
<1>2. /\ history' = Append(history, e) /\ history' \in Seq(Nat)
      /\ Len(history') = e /\ history'[e] = e
      /\ \A i \in 1..Len(history) : history'[i] = history[i]
  BY <1>1, AppendProperties DEF Offer, AppendEvent
<1>3. \A i \in 1..Len(history') : history'[i] = i
  BY <1>1, <1>2 DEF DeliveryInv
<1>4. ASSUME NEW w \in Watchers PROVE Delivered(w)'
  <2>1. /\ sent[w] \in Seq(Nat) /\ backlog[w] \in Seq(Nat) /\ chan[w] \in Seq(Nat)
        /\ sent[w] \o backlog[w] \in Seq(Nat) /\ Stream(w) \in Seq(Nat)
    BY StreamType
  <2>2. Delivered(w)
    BY DEF DeliveryInv
  <2>3. CASE w \in subs /\ Room(w)
    <3>1. chan'[w] = Append(chan[w], e) /\ behind'[w] = behind[w]
      BY <2>3, <1>2 DEF Offer, TypeOK
    <3>2. Stream(w)' = Append(Stream(w), e)
      <4>1. (sent[w] \o backlog[w]) \o Append(chan[w], e) = Append(Stream(w), e)
        BY <2>1, <1>1, OneMore DEF Stream
      <4>2. QED BY <3>1, <4>1 DEF Stream
    <3>3. /\ Stream(w)' \in Seq(Nat) /\ Len(Stream(w)') = Len(Stream(w)) + 1
          /\ \A i \in 1..Len(Stream(w)) : Stream(w)'[i] = Stream(w)[i]
          /\ Stream(w)'[Len(Stream(w)) + 1] = e
      BY <3>2, <2>1, <1>1, AppendProperties
    <3>4. \A i \in 1..Len(Stream(w)) : Stream(w)[i] \in Nat /\ Stream(w)[i] < e
      <4> SUFFICES ASSUME NEW i \in 1..Len(Stream(w))
                   PROVE  Stream(w)[i] \in Nat /\ Stream(w)[i] < e
        OBVIOUS
      <4>1. Stream(w)[i] \in Nat
        BY <2>1, ElementOfSeq
      <4>2. Stream(w)[i] <= Len(history)
        BY <2>2 DEF Delivered
      <4>3. QED BY <4>1, <4>2, <1>1
    <3>5. Rising(Stream(w)')
      BY <3>2, <3>4, <2>1, <2>2, <1>1, RisingAppend DEF Delivered
    <3>6. \A i \in 1..Len(Stream(w)') : Stream(w)'[i] <= Len(history')
      <4> SUFFICES ASSUME NEW i \in 1..Len(Stream(w)') PROVE Stream(w)'[i] <= Len(history')
        OBVIOUS
      <4>1. Len(Stream(w)) \in Nat /\ (i = Len(Stream(w)) + 1 \/ i \in 1..Len(Stream(w)))
        BY <3>3, <2>1, LenProperties
      <4>2. QED BY <4>1, <3>3, <3>4, <1>1, <1>2
    <3>7. w \in subs' /\ ~behind'[w] => Stream(w)' = history'
      BY <3>1, <3>2, <2>2, <1>2 DEF Delivered
    <3>8. hpc'[w] \notin {"idle", "read", "found"}
      BY <2>3 DEF OwnerInv, Loops
    <3>9. hpc'[w] = "stream" => backlog'[w] = <<>>
      BY <2>2 DEF Delivered
    <3>10. QED BY <3>5, <3>6, <3>7, <3>8, <3>9 DEF Delivered
  <2>4. CASE ~(w \in subs /\ Room(w))
    <3>1. chan'[w] = chan[w]
      BY <2>4 DEF Offer, TypeOK
    <3>2. Stream(w)' = Stream(w)
      BY <3>1 DEF Stream
    <3>3. w \in subs' => behind'[w]
      BY <2>4 DEF Offer
    <3>4. \A i \in 1..Len(Stream(w)) : Stream(w)[i] <= Len(history')
      BY <2>2, <2>1, <1>1, <1>2, ElementOfSeq DEF Delivered
    <3>5. QED BY <3>1, <3>2, <3>3, <3>4, <2>2 DEF Delivered
  <2>5. QED BY <2>3, <2>4
<1>5. QED BY <1>3, <1>4 DEF DeliveryInv

LEMMA RunDelivers ==
    ASSUME TypeOK, OwnerInv, DeliveryInv, Goroutine \/ Publish \/ Cancel \/ Stop
    PROVE  DeliveryInv'
<1>1. CASE Announce \/ Publish
  BY <1>1, OfferDelivers DEF Announce, Publish, watchVars
<1>2. CASE Register \/ StartRun \/ Record \/ Deregister \/ Close \/ Cancel \/ Stop
  <2>1. UNCHANGED <<history, chan, hpc, sent, backlog, behind>> /\ subs' \subseteq subs
    BY <1>2 DEF Register, StartRun, Record, Deregister, Close, Cancel, Stop, watchVars
  <2>2. \A w \in Watchers : Delivered(w)'
    BY <2>1, Unmoved
  <2>3. QED BY <2>1, <2>2 DEF DeliveryInv
<1>3. QED BY <1>1, <1>2 DEF Goroutine

\* The steps of a handler touch its own stream only.
LEMMA WatcherDelivers ==
    ASSUME TypeOK, OwnerInv, DeliveryInv, NEW w \in Watchers,
           WatcherStep(w)
    PROVE  DeliveryInv'
<1>1. /\ sent[w] \in Seq(Nat) /\ backlog[w] \in Seq(Nat) /\ chan[w] \in Seq(Nat)
      /\ sent[w] \o backlog[w] \in Seq(Nat) /\ Stream(w) \in Seq(Nat)
      /\ history \in Seq(Nat)
  BY StreamType DEF TypeOK
<1>2. Delivered(w) /\ \A i \in 1..Len(history) : history[i] = i
  BY DEF DeliveryInv
<1>3. CASE ReadRun(w) \/ Find(w) \/ Absent(w) \/ ReplayDone(w) \/ LastDone(w)
             \/ StreamClosed(w) \/ ServerStopping(w) \/ ClientGone(w) \/ Refuse(w)
             \/ ReplayFails(w)
  <2>1. UNCHANGED <<history, chan, sent, backlog, behind>> /\ subs' \subseteq subs
    BY <1>3 DEF ReadRun, Find, Absent, ReplayDone, LastDone, StreamClosed, ServerStopping,
                ClientGone, Refuse, ReplayFails, Finish, Leave
  <2>2. \A v \in Watchers : hpc'[v] = hpc[v] \/ hpc'[v] = "ended" \/ hpc[v] = "idle"
              \/ hpc[v] = "read" \/ (hpc'[v] = "stream" /\ backlog[v] = <<>>)
    BY <1>3 DEF ReadRun, Find, Absent, ReplayDone, LastDone, StreamClosed, ServerStopping,
                ClientGone, Refuse, ReplayFails, Finish, TypeOK
  <2>3. \A v \in Watchers : Delivered(v)'
    BY <2>1, <2>2, Unmoved
  <2>4. QED BY <2>1, <2>3 DEF DeliveryInv
<1>4. ASSUME UNCHANGED <<history, behind>>, Delivered(w)',
             \A v \in Watchers \ {w} :
                 /\ UNCHANGED <<sent[v], backlog[v], chan[v], hpc[v]>>
                 /\ v \in subs' => v \in subs
      PROVE  DeliveryInv'
  <2>1. \A v \in Watchers \ {w} : Delivered(v)'
    BY <1>4, Unmoved
  <2>2. QED BY <1>2, <1>4, <2>1 DEF DeliveryInv
<1>5. CASE Subscribe(w)
  <2>1. sent[w] = <<>> /\ chan[w] = <<>>
    BY <1>5, <1>2 DEF Subscribe, Delivered
  <2>2. /\ sent' = sent /\ chan' = chan /\ UNCHANGED <<history, behind>>
        /\ backlog'[w] = history /\ hpc'[w] \in {"last", "replay"}
    BY <1>5 DEF Subscribe, runVars, TypeOK
  <2>3. Stream(w)' = history
    BY <2>1, <2>2, <1>1, ConcatEmptySeq DEF Stream
  <2>4. Rising(history) /\ \A i \in 1..Len(history) : history[i] <= Len(history)
    BY <1>1, <1>2, LenProperties DEF Rising
  <2>5. Delivered(w)'
    BY <2>2, <2>3, <2>4 DEF Delivered
  <2>6. \A v \in Watchers \ {w} : /\ UNCHANGED <<sent[v], backlog[v], chan[v], hpc[v]>>
                                  /\ v \in subs' => v \in subs
    BY <1>5 DEF Subscribe, TypeOK
  <2>7. QED BY <1>4, <2>2, <2>5, <2>6
<1>6. CASE Replay(w)
  <2>1. /\ sent'[w] = Append(sent[w], Head(backlog[w])) /\ backlog'[w] = Tail(backlog[w])
        /\ UNCHANGED <<history, behind, chan, hpc, subs>>
        /\ backlog[w] # <<>> /\ hpc[w] \in {"replay", "last"}
    BY <1>6 DEF Replay, TypeOK, runVars
  <2>2. UNCHANGED Stream(w)
    <3>1. Append(sent[w], Head(backlog[w])) \o Tail(backlog[w]) = sent[w] \o backlog[w]
      BY <2>1, <1>1, HandOver
    <3>2. QED BY <2>1, <3>1 DEF Stream
  <2>3. Delivered(w)'
    BY <2>1, <2>2, <1>2 DEF Delivered
  <2>4. \A v \in Watchers \ {w} : UNCHANGED <<sent[v], backlog[v], chan[v], hpc[v]>>
    BY <1>6 DEF Replay, TypeOK
  <2>5. QED BY <1>4, <2>1, <2>3, <2>4
<1>7. CASE Receive(w)
  <2>1. /\ sent'[w] = Append(sent[w], Head(chan[w])) /\ chan'[w] = Tail(chan[w])
        /\ UNCHANGED <<history, behind, backlog, hpc, subs>>
        /\ chan[w] # <<>> /\ hpc[w] = "stream"
    BY <1>7 DEF Receive, TypeOK, runVars
  <2>2. backlog[w] = <<>>
    BY <2>1, <1>2 DEF Delivered
  <2>3. Head(chan[w]) \in Nat /\ Append(sent[w], Head(chan[w])) \in Seq(Nat)
    BY <2>1, <1>1, HeadTailProperties, AppendProperties
  <2>4. /\ Stream(w) = sent[w] \o chan[w]
        /\ Stream(w)' = Append(sent[w], Head(chan[w])) \o Tail(chan[w])
    BY <2>1, <2>2, <2>3, <1>1, ConcatEmptySeq DEF Stream
  <2>5. UNCHANGED Stream(w)
    BY <2>1, <2>4, <1>1, HandOver
  <2>6. Delivered(w)'
    BY <2>1, <2>5, <1>2 DEF Delivered
  <2>7. \A v \in Watchers \ {w} : UNCHANGED <<sent[v], backlog[v], chan[v], hpc[v]>>
    BY <1>7 DEF Receive, TypeOK
  <2>8. QED BY <1>4, <2>1, <2>6, <2>7
<1>8. QED BY <1>3, <1>5, <1>6, <1>7 DEF WatcherStep, Handler

LEMMA DeliveryInvariant == StreamSpec => []DeliveryInv
<1>1. ASSUME StreamInit PROVE DeliveryInv
  <2>1. \A w \in Watchers : sent[w] = <<>> /\ backlog[w] = <<>> /\ chan[w] = <<>>
    BY <1>1 DEF StreamInit
  <2>2. <<>> \o <<>> = <<>> /\ history = <<>> /\ Len(<<>>) = 0
    BY <1>1, ConcatEmptySeq, EmptySeq DEF StreamInit
  <2>3. \A w \in Watchers : Stream(w) = <<>>
    BY <2>1, <2>2 DEF Stream
  <2>4. ASSUME NEW w \in Watchers PROVE Delivered(w)
    <3>1. Len(Stream(w)) = 0
      BY <2>2, <2>3
    <3>2. QED BY <2>1, <2>2, <2>3, <3>1 DEF Delivered, Rising
  <2>5. QED BY <2>2, <2>4 DEF DeliveryInv
<1>2. ASSUME TypeOK, OwnerInv, DeliveryInv, [StreamNext]_streamVars PROVE DeliveryInv'
  <2>1. CASE UNCHANGED streamVars
    <3>1. UNCHANGED <<history, chan, hpc, sent, backlog, behind, subs>>
      BY <2>1 DEF streamVars
    <3>2. \A w \in Watchers : Delivered(w)'
      BY <1>2, <3>1, Unmoved
    <3>3. QED BY <1>2, <3>1, <3>2 DEF DeliveryInv
  <2>2. QED BY <1>2, <2>1, RunDelivers, WatcherDelivers DEF StreamNext, WatcherStep
<1>3. QED BY <1>1, <1>2, TypeCorrect, OwnerInvariant, PTL DEF StreamSpec

\* No watcher sees an event twice or out of order, whatever the size of its channel and
\* however its backlog, its channel and the run's end cross.
THEOREM AlwaysSentInOrder == StreamSpec => []SentInOrder
<1>1. ASSUME TypeOK, DeliveryInv PROVE SentInOrder
  <2> SUFFICES ASSUME NEW w \in Watchers PROVE Rising(sent[w])
    BY DEF SentInOrder, Rising
  <2>1. /\ sent[w] \in Seq(Nat) /\ backlog[w] \in Seq(Nat) /\ chan[w] \in Seq(Nat)
        /\ sent[w] \o backlog[w] \in Seq(Nat)
    BY <1>1, StreamType
  <2>2. Rising((sent[w] \o backlog[w]) \o chan[w])
    BY <1>1 DEF DeliveryInv, Delivered, Stream
  <2>3. Rising(sent[w] \o backlog[w])
    BY <2>1, <2>2, RisingPrefix
  <2>4. QED BY <2>1, <2>3, RisingPrefix
<1>2. QED BY <1>1, TypeCorrect, DeliveryInvariant, PTL

\* A watcher that has not fallen behind by a full buffer has been sent, or has waiting,
\* everything published so far: nothing falls between its backlog and its channel.
THEOREM NothingEverMissedUnlessBehind == StreamSpec => []NothingMissedUnlessBehind
<1>1. TypeOK /\ DeliveryInv => NothingMissedUnlessBehind
  BY DEF TypeOK, DeliveryInv, Delivered, Stream, NothingMissedUnlessBehind
<1>2. QED BY <1>1, TypeCorrect, DeliveryInvariant, PTL
=============================================================================
