------------------------------ MODULE Outcomes ------------------------------
(***************************************************************************)
(* What becomes of the results of the audits of one dataset: which earlier *)
(* audit each is compared with, who is told of what got worse, and whether *)
(* a build that asks for it fails.                                         *)
(*                                                                         *)
(* Audits are numbered in the order of created_at; they may overlap, and   *)
(* end in any order.  Packages runs (baseline), store (PreviousRun),       *)
(* notify, api (notifyRun) and the gates of cli/audit.go.                  *)
(*                                                                         *)
(* The outcome that is recorded is final here: those who close out rows    *)
(* that are not theirs are in RunLifecycle.                                *)
(***************************************************************************)
EXTENDS Comparison

CONSTANTS
    MaxRuns,
    Reports,     \* what an audit of this dataset may report
    Scheduled,   \* the audits the clock started: only of those is anybody told
    Triggers,    \* notify.on: subset of {"regression", "failure", "any"}
    Thresholds,  \* notify.min_severity, and the severities a build may ask for
    Mishaps      \* what else happens: see MishapKinds

\* "baseline": the earlier report cannot be read, or not be looked up.
\* "read": a read for a message fails, as all do once the run's context is canceled.
\* "record": the outcome cannot be written.
\* "cancel": the run's context is canceled: the server stops.
MishapKinds == {"baseline", "read", "record", "cancel"}

attempts == 3
NoGate == 3

ASSUME OutcomesAssumption ==
    /\ MaxRuns \in Nat /\ Scheduled \subseteq 1..MaxRuns
    /\ \A report \in Reports : IsReport(report)
    /\ Triggers \subseteq {"regression", "failure", "any"} /\ Triggers # {}
    /\ Thresholds \subseteq 0..2 /\ Thresholds # {}
    /\ Mishaps \subseteq MishapKinds

VARIABLES
    asked,     \* a server with a webhook: [on, min]; or builds: [failOn, onRegression]
    status,    \* each run's: "none"; "running"; "built", with its report and its engine
               \* still in its hands; "succeeded", "failed", "canceled"; or "unrecorded",
               \* when it is over and its row does not say so
    document,  \* the report of each run that succeeded
    base,      \* the run each was compared with; 0 is none
    mail,      \* the message about each run: [at, attempt]; at the end "sent", "undelivered",
               \* "skipped", or "unread" if it was skipped without the report
    exit       \* how each build ended: "none", "passed", "failed", "refused"

vars == <<asked, status, document, base, mail, exit>>

Runs == 1..MaxRuns

Succeeded == {r \in Runs : status[r] = "succeeded"}

NoReport == [tables |-> <<>>, findings |-> <<>>]

Sinks == [on : Triggers, min : Thresholds]
Gates == [failOn : Thresholds \union {NoGate}, onRegression : Thresholds \union {NoGate}]

Init ==
    /\ asked \in Sinks \union Gates
    /\ status = [r \in Runs |-> "none"]
    /\ document = [r \in Runs |-> NoReport]
    /\ base = [r \in Runs |-> 0]
    /\ mail = [r \in Runs |-> [at |-> "none", attempt |-> 0]]
    /\ exit = [r \in Runs |-> "none"]

Start(r) ==
    /\ status[r] = "none" /\ \A q \in 1..(r - 1) : status[q] # "none"
    /\ status' = [status EXCEPT ![r] = "running"]
    /\ UNCHANGED <<asked, document, base, mail, exit>>

\* A plausible bug: the previous run is the last that succeeded.
PreviousLast(r) ==
    IF Succeeded = {} THEN 0 ELSE CHOOSE q \in Succeeded : \A p \in Succeeded : p <= q

\* PreviousRun: the latest of the runs created before it that has succeeded by now.
Previous(r) ==
    LET earlier == {q \in Succeeded : q < r}
    IN  IF earlier = {} THEN 0 ELSE CHOOSE q \in earlier : \A p \in earlier : p <= q

\* The run ends, and its runner goes on to tell whoever is to be told.
Settle(r, how) ==
    /\ status' = [status EXCEPT ![r] = how]
    /\ mail' = [mail EXCEPT ![r].at = IF asked \in Sinks /\ r \in Scheduled
                                      THEN "reading" ELSE "none"]

\* The audit has run: the baseline is looked up and the report built on it.
FindBaseline(r) ==
    /\ asked \in Sinks /\ status[r] = "running"
    /\ status' = [status EXCEPT ![r] = "built"]
    /\ base' \in {[base EXCEPT ![r] = Previous(r)]}
                 \union IF "baseline" \in Mishaps THEN {base} ELSE {}
    /\ UNCHANGED <<asked, document, mail, exit>>

\* The engine is closed, nobody has canceled, and the report is stored as it was built.
FinishRun(r, report) ==
    /\ status[r] = "built"
    /\ Settle(r, "succeeded")
    /\ document' = [document EXCEPT ![r] = report]
    /\ UNCHANGED <<asked, base, exit>>

\* The audit fails or is canceled, or its report cannot be encoded or stored, before or
\* after it was built; or not even that can be recorded, nor perhaps its start.
End(r, how) ==
    /\ status[r] \in {"running", "built"}
    /\ how \in {"failed", "canceled"} \union IF "record" \in Mishaps THEN {"unrecorded"} ELSE {}
    /\ Settle(r, how)
    /\ UNCHANGED <<asked, document, base, exit>>

-----------------------------------------------------------------------------
(* package notify, and notifyRun.                                          *)

\* Without the report, or without a comparison in it, nothing is known to be worse.
Regressions(r, blind, min) ==
    IF blind \/ status[r] # "succeeded" \/ base[r] = 0 THEN {}
    ELSE Regressed(document[base[r]], document[r], min)

\* A plausible bug: a run without a report has nothing to tell.
WantedQuiet(r, blind) ==
    IF status[r] \in {"canceled", "failed"} THEN "none"
    ELSE IF Regressions(r, blind, asked.min) # {} /\ asked.on # "failure" THEN "regression"
    ELSE IF asked.on = "any" THEN "audit"
    ELSE "none"

\* Wanted: the event the run is worth a message about, or "none".
Wanted(r, blind) ==
    IF status[r] = "canceled" THEN "none"
    ELSE IF status[r] = "failed" THEN "failure"
    ELSE IF Regressions(r, blind, asked.min) # {} /\ asked.on # "failure" THEN "regression"
    ELSE IF asked.on = "any" THEN "audit"
    ELSE "none"

Mail(r, at) == mail' = [mail EXCEPT ![r].at = at]

\* The row is read back; where it cannot be, nobody is told anything.
ReadOutcome(r) ==
    /\ mail[r].at = "reading"
    /\ \/ Mail(r, "deciding")
       \/ "read" \in Mishaps /\ Mail(r, "undelivered")
    /\ UNCHANGED <<asked, status, document, base, exit>>

\* Then the report, by a read of its own: where it cannot be read or decoded, the
\* decision is taken without it.
Decide(r) ==
    /\ mail[r].at = "deciding"
    /\ \E blind \in {FALSE} \union IF "read" \in Mishaps THEN {TRUE} ELSE {} :
          mail' = [mail EXCEPT ![r] =
                      IF Wanted(r, blind) # "none" THEN [at |-> "posting", attempt |-> 1]
                      ELSE [at |-> IF blind THEN "unread" ELSE "skipped", attempt |-> 0]]
    /\ UNCHANGED <<asked, status, document, base, exit>>

\* The sink takes the message, and says so.
Posted(r) ==
    /\ mail[r].at = "posting"
    /\ Mail(r, "sent")
    /\ UNCHANGED <<asked, status, document, base, exit>>

\* A plausible bug: an attempt that fails is always followed by another.
NotPostedForever(r) ==
    /\ mail[r].at = "posting"
    /\ Mail(r, "waiting")
    /\ UNCHANGED <<asked, status, document, base, exit>>

\* The sink does not answer, or not with a 2xx; it may have had the message all the same.
NotPosted(r) ==
    /\ mail[r].at = "posting"
    /\ Mail(r, IF mail[r].attempt = attempts THEN "undelivered" ELSE "waiting")
    /\ UNCHANGED <<asked, status, document, base, exit>>

Retry(r) ==
    /\ mail[r].at = "waiting"
    /\ mail' = [mail EXCEPT ![r].at = "posting",
                            ![r].attempt = IF @ < attempts THEN @ + 1 ELSE @]
    /\ UNCHANGED <<asked, status, document, base, exit>>

\* The context is canceled: what was still to be sent is not.
Shutdown(r) ==
    /\ "cancel" \in Mishaps
    /\ mail[r].at \in {"reading", "posting", "waiting"}
    /\ Mail(r, "undelivered")
    /\ UNCHANGED <<asked, status, document, base, exit>>

-----------------------------------------------------------------------------
(* The gates of veritix audit.                                             *)

\* A plausible bug: without a baseline the second gate is passed.
ExitOpen(b, report) ==
    IF \E id \in DOMAIN report.findings : report.findings[id].severity >= asked.failOn
    THEN "failed"
    ELSE IF b # 0 /\ Regressed(document[b], report, asked.onRegression) # {} THEN "failed"
    ELSE "passed"

\* openBaseline refuses a gate with nothing to compare with; failOn and
\* failOnRegression, in this order, after the report is written.
Exit(b, report) ==
    IF asked.onRegression # NoGate /\ b = 0 THEN "refused"
    ELSE IF \E id \in DOMAIN report.findings : report.findings[id].severity >= asked.failOn
         THEN "failed"
    ELSE IF b # 0 /\ Regressed(document[b], report, asked.onRegression) # {} THEN "failed"
    ELSE "passed"

\* A build's audit is compared with a report that was kept, or with none.
Build(r, b, report) ==
    /\ asked \in Gates /\ status[r] = "running"
    /\ exit' = [exit EXCEPT ![r] = Exit(b, report)]
    /\ IF exit'[r] = "refused"
       THEN Settle(r, "failed") /\ UNCHANGED <<asked, document, base>>
       ELSE /\ Settle(r, "succeeded")
            /\ document' = [document EXCEPT ![r] = report]
            /\ base' = [base EXCEPT ![r] = b]
            /\ UNCHANGED asked

Delivery(r) == ReadOutcome(r) \/ Decide(r) \/ Posted(r) \/ NotPosted(r) \/ Retry(r)

Next ==
    \E r \in Runs :
        \/ Start(r)
        \/ FindBaseline(r)
        \/ \E report \in Reports : FinishRun(r, report)
        \/ \E how \in {"failed", "canceled", "unrecorded"} : End(r, how)
        \/ \E b \in Succeeded \union {0}, report \in Reports : Build(r, b, report)
        \/ Delivery(r)
        \/ Shutdown(r)

\* A message that is under way gets its turn: a post has a timeout.
Fairness == \A r \in Runs : WF_vars(Delivery(r))

Spec == Init /\ [][Next]_vars
FairSpec == Spec /\ Fairness

-----------------------------------------------------------------------------
\* A comparison says of every finding of the two reports what became of it: it lists
\* each that came, went, grew, shrank or changed its severity and no other, and when one
\* went with its table or its column it says that such a thing happened.
ComparisonsAccountForAll ==
    \A r \in Succeeded :
        base[r] # 0 =>
          LET old == document[base[r]]
              new == document[r]
              c == Compare(old, new)
              both == DOMAIN old.findings \intersect DOMAIN new.findings
          IN  /\ \A id \in DOMAIN old.findings \union DOMAIN new.findings :
                    id \notin c.listed <=> id \in both /\ old.findings[id] = new.findings[id]
              /\ c.summary["resolved"] + Cardinality(both) = Cardinality(DOMAIN old.findings)
              /\ c.summary["new"] + Cardinality(both) = Cardinality(DOMAIN new.findings)
              /\ \A id \in DOMAIN old.findings \ DOMAIN new.findings :
                    \/ c.noted
                    \/ id[2] \in DOMAIN new.tables /\ id[3] \in new.tables[id[2]].columns
                    \/ ~(id[2] \in DOMAIN old.tables /\ id[3] \in old.tables[id[2]].columns)

\* An audit of the server is compared with an earlier one that has succeeded when its
\* report is built, and none that has succeeded by then was created between the two; from
\* then on, while its engine is closed and other audits end, it keeps what it was compared
\* with, and neither report changes under the comparison.  (One that succeeds after the
\* look is passed over, wherever it stands.)
ComparedWithTheLatest ==
    [][\A r \in Runs : asked \in Sinks =>
          /\ base'[r] # base[r] =>
                /\ status[r] = "running" /\ base'[r] \in Succeeded /\ base'[r] < r
                /\ \A q \in Succeeded : q <= base'[r] \/ q >= r
          /\ base[r] # 0 => /\ status'[base[r]] = "succeeded"
                            /\ document'[base[r]] = document[base[r]]
          /\ r \in Succeeded => document'[r] = document[r]]_vars

\* Nobody is spared the news: a run whose message is skipped was canceled; or not every
\* audit was asked to be told of, and it has a report in which nothing as severe as the
\* threshold appeared or grew since the report it was compared with, or the sink asked for
\* failures only.  What cannot be known is skipped as well: a comparison that was not made,
\* a report that could not be read back, an outcome that is not in the store.
SilenceMeansNoNews ==
    \A r \in Runs :
        mail[r].at \in {"skipped", "unread"} /\ status[r] # "canceled" =>
          /\ asked.on # "any" /\ status[r] \in {"succeeded", "unrecorded"}
          /\ \/ asked.on = "failure" \/ base[r] = 0
             \/ mail[r].at = "unread" \/ status[r] = "unrecorded"
             \/ \A id \in DOMAIN document[r].findings :
                   document[r].findings[id].severity >= asked.min =>
                      /\ id \in DOMAIN document[base[r]].findings
                      /\ document[r].findings[id].count
                            <= document[base[r]].findings[id].count

\* A build that passes its gates has nothing in it that they are there to stop, and had
\* something to be compared with when it asked to be.
GatesHold ==
    \A r \in Runs :
        exit[r] = "passed" =>
          LET report == document[r]
          IN  /\ \A id \in DOMAIN report.findings : report.findings[id].severity < asked.failOn
              /\ asked.onRegression # NoGate =>
                    /\ base[r] \in Succeeded
                    /\ \A id \in DOMAIN report.findings :
                          report.findings[id].severity >= asked.onRegression =>
                             /\ id \in DOMAIN document[base[r]].findings
                             /\ report.findings[id].count
                                   <= document[base[r]].findings[id].count

\* Every message is delivered, given up or found not to be worth sending, however the
\* sink behaves.
DeliveriesEnd ==
    \A r \in Runs : mail[r].at \in {"reading", "deciding", "posting", "waiting"}
                       ~> mail[r].at \in {"sent", "undelivered", "skipped", "unread"}
=============================================================================
