--------------------------- MODULE AuditPipeline ---------------------------
(***************************************************************************)
(* Package audit: one audit from the discovery of the files to the report, *)
(* with the engine, the scratch directory and the context servers it holds *)
(* on the way, the agent's loop as one of its stages, and the cancellation *)
(* that can come at any point.                                             *)
(***************************************************************************)
EXTENDS AgentLoop

CONSTANTS
    Passes,    \* what checks and rules may find: [checks, rules], sequences of findings
    Mishaps    \* what else happens: see MishapKinds

\* "cancel": the audit is canceled.    "stage": a stage fails.
\* "query": a count query that ran before does not run again.
MishapKinds == {"cancel", "stage", "query"}

\* What the checks and the rules find is written with a number the engine returned for
\* the query beside it: DataAudit shows that of each of them.
ASSUME PipelineAssumption ==
    /\ Mishaps \subseteq MishapKinds
    /\ \A p \in Passes :
          /\ IsSeq(p.checks) /\ IsSeq(p.rules)
          /\ \A f \in Range(p.checks) \union Range(p.rules) :
                /\ DOMAIN f = FindingFields
                /\ f.query # NoQuery =>
                      /\ f.query \in DOMAIN Measures
                      /\ f.count \in Measures[f.query] /\ f.claimed = f.count

VARIABLES
    options,   \* [database, agent, pass]: whether a path was given, whether a model is
               \* used, and what the checks and the rules find in this data
    stage,     \* the stage under way
    late,      \* whether the audit was canceled before it began, for EngineStages
    engine,    \* "none", "open", "locked", "closed"
    scratch,   \* the directory made for the engine's file: "none", "made", "gone"
    found,     \* the finding.Set
    dropped,   \* what Verify took out of it
    verified,  \* how many of its findings Verify has been through
    outcome    \* what Run returned: "running", "ok", "error"

pipelineVars == <<options, stage, late, engine, scratch, found, dropped, verified, outcome>>
vars == <<pipelineVars, canceled, loopVars, serverVars>>

Init ==
    /\ options \in [database : BOOLEAN, agent : BOOLEAN, pass : Passes]
    /\ stage = "discover" /\ late = FALSE
    /\ engine = "none" /\ scratch = "none"
    /\ found = <<>> /\ dropped = {} /\ verified = 0
    /\ outcome = "running"
    /\ canceled = FALSE
    /\ InitLoop /\ InitServers

\* The stages whose work is the engine's alone: one that begins canceled fails, one that
\* is canceled on the way may end all the same.
EngineStages == {"open", "ingest", "profile", "checks", "rules", "lockdown"}

Enter(s) == stage' = s /\ late' = (canceled /\ s \in EngineStages)

\* Every return with an error after the engine is open closes it, and then what was
\* deferred: the sessions.  The scratch directory stays.
ReturnError ==
    /\ outcome' = "error" /\ stage' = "over"
    /\ engine' = IF engine \in {"open", "locked"} THEN "closed" ELSE engine
    /\ CloseSessions
    /\ UNCHANGED <<options, late, found, dropped, verified, canceled, loopVars,
                   attached, catalog, byID, conns, requests, reads>>

Discover ==
    /\ stage = "discover"
    /\ Enter("open")
    /\ UNCHANGED <<options, engine, scratch, found, dropped, verified, outcome, canceled,
                   loopVars, serverVars>>

DiscoverFails ==
    /\ stage = "discover" /\ "stage" \in Mishaps
    /\ ReturnError
    /\ UNCHANGED scratch

\* Without a path for it the engine's file goes into a directory of its own, and when
\* that cannot be made the data is held in memory.
OpenEngine ==
    /\ stage = "open" /\ ~late
    /\ scratch' \in IF options.database THEN {"none"} ELSE {"made", "none"}
    /\ engine' = "open"
    /\ Enter("ingest")
    /\ UNCHANGED <<options, found, dropped, verified, outcome, canceled, loopVars, serverVars>>

OpenFails ==
    /\ stage = "open"
    /\ late \/ "stage" \in Mishaps
    /\ scratch' \in IF options.database THEN {"none"} ELSE {"gone", "none"}
    /\ ReturnError

\* What follows each stage of the deterministic pass.
After(s) ==
    CASE s = "ingest" -> "profile"
      [] s = "profile" -> "checks"
      [] s = "checks" -> "rules"
      [] s = "rules" -> IF options.agent THEN "lockdown" ELSE "verify"

Load ==
    /\ stage \in {"ingest", "profile"} /\ ~late
    /\ Enter(After(stage))
    /\ UNCHANGED <<options, engine, scratch, found, dropped, verified, outcome, canceled,
                   loopVars, serverVars>>

Judge ==
    /\ stage \in {"checks", "rules"} /\ ~late
    /\ found' = AddAll(found, IF stage = "checks" THEN options.pass.checks
                              ELSE options.pass.rules)
    /\ Enter(After(stage))
    /\ UNCHANGED <<options, engine, scratch, dropped, verified, outcome, canceled, loopVars,
                   serverVars>>

\* A plausible bug: the servers are started first.
LockdownLate ==
    /\ stage = "lockdown" /\ ~late
    /\ Enter(IF Servers = <<>> THEN "agent" ELSE "context")
    /\ loop' = IF Servers = <<>> THEN "top" ELSE "off"
    /\ UNCHANGED <<options, engine, scratch, found, dropped, verified, outcome, canceled,
                   step, attempt, usage, calls, corrected, stopped, worldVars, answered,
                   serverVars>>

Lockdown ==
    /\ stage = "lockdown" /\ ~late
    /\ engine' = "locked"
    /\ Enter(IF Servers = <<>> THEN "agent" ELSE "context")
    /\ loop' = IF Servers = <<>> THEN "top" ELSE "off"
    /\ UNCHANGED <<options, scratch, found, dropped, verified, outcome, canceled,
                   step, attempt, usage, calls, corrected, stopped, worldVars, answered,
                   serverVars>>

StageFails ==
    /\ stage \in {"ingest", "profile", "checks", "rules", "lockdown"}
    /\ canceled \/ "stage" \in Mishaps
    /\ ReturnError
    /\ UNCHANGED scratch

\* Connect goes through the servers in order and never fails the audit.
Context ==
    /\ stage = "context" /\ ~Connected
    /\ ConnectOne
    /\ sessions' # sessions => ~canceled
    /\ UNCHANGED <<pipelineVars, canceled, loopVars>>

ContextReady ==
    /\ stage = "context" /\ Connected
    /\ Enter("agent")
    /\ loop' = "top"
    /\ UNCHANGED <<options, engine, scratch, found, dropped, verified, outcome, canceled,
                   step, attempt, usage, calls, corrected, stopped, worldVars, answered,
                   serverVars>>

Agent ==
    /\ stage = "agent"
    /\ LoopStep
    /\ UNCHANGED <<pipelineVars, canceled>>

\* A plausible bug: what was recorded takes the place of the findings.
AgentDoneAlone ==
    /\ stage = "agent" /\ loop = "over"
    /\ found' = IF made = <<>> THEN found ELSE AddAll(<<>>, made)
    /\ Enter("verify")
    /\ UNCHANGED <<options, engine, scratch, dropped, verified, outcome, canceled, loopVars,
                   serverVars>>

\* However the loop stopped, what was recorded joins the findings.
AgentDone ==
    /\ stage = "agent" /\ loop = "over"
    /\ found' = AddAll(found, made)
    /\ Enter("verify")
    /\ UNCHANGED <<options, engine, scratch, dropped, verified, outcome, canceled, loopVars,
                   serverVars>>

\* Verify, one finding at a time, on the audit's own context.
Remeasures(f) ==
    IF f.query = NoQuery \/ canceled THEN {Unrunnable}
    ELSE Measures[f.query] \union (IF "query" \in Mishaps THEN {Unrunnable} ELSE {})

VerifyOne ==
    /\ stage = "verify" /\ verified < Len(found)
    /\ LET f == found[verified + 1]
       IN  \E got \in Remeasures(f) :
              IF Dropped(f, got)
              THEN /\ dropped' = dropped \union {f}
                   /\ found' = RemoveAt(found, verified + 1)
                   /\ UNCHANGED verified
              ELSE /\ found' = [found EXCEPT ![verified + 1] = Checked(f, got)]
                   /\ verified' = verified + 1
                   /\ UNCHANGED dropped
    /\ UNCHANGED <<options, stage, late, engine, scratch, outcome, canceled, loopVars,
                   serverVars>>

\* Run returns its result; the sessions close, the engine is the caller's to close.
ReturnResult ==
    /\ stage = "verify" /\ verified = Len(found)
    /\ outcome' = "ok" /\ stage' = "over"
    /\ CloseSessions
    /\ UNCHANGED <<options, late, engine, scratch, found, dropped, verified, canceled, loopVars,
                   attached, catalog, byID, conns, requests, reads>>

\* Result.Close: the engine first, then the directory its file is in.
CloseResult ==
    /\ outcome = "ok" /\ engine \in {"open", "locked"}
    /\ engine' = "closed"
    /\ scratch' = IF scratch = "made" THEN "gone" ELSE scratch
    /\ UNCHANGED <<options, stage, late, found, dropped, verified, outcome, canceled, loopVars,
                   serverVars>>

Cancel ==
    /\ "cancel" \in Mishaps /\ outcome = "running" /\ ~canceled
    /\ canceled' = TRUE
    /\ UNCHANGED <<pipelineVars, loopVars, serverVars>>

Progress ==
    \/ Discover \/ DiscoverFails \/ OpenEngine \/ OpenFails \/ Load \/ Judge
    \/ Lockdown \/ StageFails \/ Context \/ ContextReady \/ Agent \/ AgentDone
    \/ VerifyOne \/ ReturnResult \/ CloseResult

Next == Progress \/ Cancel

Spec == Init /\ [][Next]_vars

\* Every stage ends: the engine's queries, the connections and the model calls have
\* deadlines of their own.
FairSpec == Spec /\ WF_vars(Progress)

-----------------------------------------------------------------------------
\* From the moment anything outside takes part, the engine is locked down; an audit
\* that returns holds no session, and no engine unless it returns a result; and the
\* directory of the engine's file is never taken from under it.
EngineKeptInBounds ==
    /\ attached > 0 \/ loop # "off" => engine \in {"locked", "closed"}
    /\ outcome # "running" => sessions = {}
    /\ outcome = "error" => engine \in {"none", "closed"}
    /\ scratch = "gone" => engine \in {"none", "closed"}

\* A finding that has a query is reported with a number the engine returned for it, zero
\* only where none was claimed; and one of the model's, unless its query measures chance,
\* with the number its title was written with.
ReportedNumbersAreTheEngines ==
    outcome = "ok" =>
       \A i \in DOMAIN found :
          found[i].query # NoQuery =>
             /\ found[i].verified
             /\ found[i].count \in Measures[found[i].query]
             /\ found[i].count = 0 => found[i].claimed = 0
             /\ Measures[found[i].query] = {found[i].count} => found[i].claimed = found[i].count

\* What an audit leaves out of its report did not reproduce.  (cmd/veritix/main.go and
\* finding.go say so of every run; the code drops what it could not ask.)
OnlyWhatDidNotReproduceIsDropped ==
    outcome = "ok" => \A f \in dropped : 0 \in Measures[f.query]

\* Whatever the model and the servers do, and whenever it is canceled, an audit returns,
\* and its engine is closed.
AuditReturns == <>(outcome # "running" /\ engine \notin {"open", "locked"})

-----------------------------------------------------------------------------
(* What the callers are promised, as the pipeline keeps it.                *)

Phase ==
    CASE outcome = "error" -> "error"
      [] outcome = "ok" -> "result"
      [] outcome = "running" /\ stage = "verify" -> "verifying"
      [] outcome = "running" /\ stage \in {"context", "agent"} -> "asking"
      [] OTHER -> "reading"

Reportable ==
    {Key(f) : f \in UNION {Range(p.checks) \union Range(p.rules) : p \in Passes}}
      \union {<<a.rule, a.at>> : a \in Reports}

Promise ==
    INSTANCE AuditPromise
        WITH Problems <- Reportable,
             phase <- Phase,
             held <- engine \in {"open", "locked"},
             problems <- {Key(found[i]) : i \in DOMAIN found}

\* An audit is what its callers take it for: nothing fails it once its data is read, it
\* keeps an engine only for a result, what the model records is added to what the checks
\* and rules found and takes the place of nothing, and only Verify takes anything out.
PromiseKept == Promise!Spec
=============================================================================
