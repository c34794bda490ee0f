# Veritix in TLA+

Veritix audits data sets with a language model in the loop: a server (`veritix
serve`) keeps data sets, runs audits of them on request or on a schedule,
stores what they found in SQLite, streams their progress to browsers and serves
the offending rows back out of each run's DuckDB file. An assistant can ask for
audits through a second process (`veritix mcp`) that shares the same data
directory, a build through `veritix audit`. There is no queue and no worker
pool: every run is a goroutine, and everything that may happen to it (a cancel,
a shutdown, a crash, a sweep of the clock, a deletion of its data set) is
another goroutine or another process that meets it in the store, in one
in-memory map, or on the disk.

The modules model two things: that meeting, and the audit itself, from the
files it reads to the number in the title of a finding, the comparison with the
run before, and the message somebody gets. TLC checks them on small instances;
TLAPS proves the invariants that matter most for every value of the constants.

Contents: 1 the system · 2 the modules · 3 the model-checking runs · 4 fairness ·
5 the proofs · 6 where the code and its documentation part · 7 what is left out ·
8 the plan.

## 1. The system

Paths are relative to `src/`.

| Component | State it keeps | Operations | What is hard | What makes it correct |
|---|---|---|---|---|
| **run lifecycle** `internal/runs/runs.go`, `internal/api/{runs,runner,api}.go` | `runs.status`, the document, findings, proposals and trace; the runner's map `active`; one context per run | post, execute, cancel, deregister, close, shutdown, mark interrupted | cancel against registration, cancel against the last look at the context, clock against shutdown, crash between any two writes, two processes on one store | a row never says succeeded without its findings, is recorded before the run leaves the map, and settles after a crash |
| **progress stream** `internal/api/{runner,events}.go` | per run a history, a set of subscribers with bounded channels, a closed flag | publish, subscribe, unsubscribe, close, the SSE handler | two closers of one channel, backlog against live events, a full channel, a row read before the map | no double close, no event lost, repeated or reordered unless the watcher is behind, every stream ends and says how the run did |
| **scheduler** `internal/api/{scheduler,schedules}.go`, `internal/schedule`, `internal/store/schedules.go` | a schedule per data set with its next window and what came of the last | sweep (clear overdue, skip, start, record), PUT and DELETE of a schedule, retention | a sweep overtaken by an edit, a deletion or a posted run, lateness, crash between start and record | one start a window, one scheduled audit of a data set at a time, nothing starved |
| **run store** `internal/store` | SQLite: data sets, runs, findings, schedules, proposals, traces | one transaction per write; cascades; retention queries; migrations | partial writes, concurrent processes | what readers may conclude from one row |
| **data sets and retained files** `internal/api/{datasets,rows,scheduler}.go` | rows, upload directories, one directory and DuckDB file per run | register, upload, delete, discard, serve rows | rows and files change in separate steps, with no lock, from several requests | what is kept is there, what is recorded gone is gone, a deletion takes what it found |
| **accepted rules and proposals** `internal/api/proposals.go`, `internal/rules` | a rules file per data set | accept (lock, read, write beside, rename, reload) | lost updates, torn files, crash in the middle, deletion without the lock | accepted rules stay in force, the file always loads |
| **MCP server** `internal/mcp` | none of its own; writes runs | `audit_dataset`, reading tools, `register_dataset` | a second process: its runs are in no map and share the store | the same promises of the store |
| **audit pipeline** `internal/audit` | the engine, a scratch directory, the findings under construction | ingest, profile, checks, rules, lockdown, agent, verification, close | a failure or a cancellation in any stage with the engine and sessions held | locked before anything outside takes part; nothing outlives the call; the model's findings are added to the others and replace none |
| **agent loop** `internal/agent` | the conversation, step and token budgets | turns, retries, tool calls, ends | budgets that bound each other, malformed answers, a call written as text | it stops, in budget, with everything recorded |
| **agent tools and redaction** `internal/agent/{tools,redact}` | findings and proposals of the model | look, record, propose, read | a claim checked once and measured again later; SQL of their own | what the model is told agrees with what is reported |
| **context servers** `internal/mcpclient` | child processes and sessions, the catalog | connect, list, read, close | per-call timeouts, a child that hangs, documents of one name | every session is closed; a read fetches what the catalog showed |
| **findings** `internal/finding` | a set of findings with identities | add, verify | duplicates of different severity, evidence that cannot be run | each reported number is one the engine returned |
| **comparison and reports** `internal/report` | none | compare, summarize, regress | identity across runs, a column that went, a severity that moved with the same count | every finding of both reports is accounted for |
| **notification** `internal/notify`, `internal/api/notify.go` | none | decide, deliver, retry | a timeout after delivery, a shutdown between two attempts | silence means no news; every message is sent or given up |
| **checks and profile** `internal/{checks,profile}` | none | measure, judge, relate | two statements that count one thing; thresholds; words for "no value" | the title's number is the evidence's, gaps are not lost |
| **rules evaluation** `internal/rules` | none | validate, target, evaluate, materialize, propose | two foldings of case, missing values, a clause the engine rejects | a rule read from the data holds of the data |
| **ingest and sources** `internal/{ingest,source}` | the plan, scratch files of worksheets | walk, decode, name, load, attach rejected rows | workbooks decoded beside the walk; headers to be found; names that collide | every source is loaded, and what is not is said |
| **evaluation harness** `internal/eval`, `internal/cli/eval.go` | the scores of several audits | validate the manifest, score, aggregate, gate | audits that fail, are abandoned or interrupted; one finding for two defects | credit is earned; the gate is about the checks |
| **command line and configuration** `internal/{cli,config}` | none | the gates and the exit of `veritix audit` | both gates asked for, no baseline | a build that passes holds nothing its gates are to stop |
| **engine, model providers, HTTP middleware and pages, telemetry and build information, web interface** | none the program decides on | | | |

How they interact. `POST /runs` and the clock both go through `startRun`: the
row, then the run's directory and its path, then the runner's map, then a
goroutine. `Execute` moves the row, runs the audit pipeline, closes the engine,
looks at its context a last time and stores the outcome; the runner then takes
the run out of the map, closes its stream and, for scheduled runs, notifies.
Cancel reads the row, looks in the map, and either cancels the context or closes
the row out itself. The event stream reads the row, subscribes through the map
and reads the row again at the end. `New` marks what a dead process left in
flight as failed before anything else starts; `Close` stops the clock, waits for
it, cancels the runs and waits for them. The sweep shares its tick between
schedules and retention. A deletion reads the runs, deletes the data set (runs
go by cascade), then cancels what is running and removes files.

Inside `Execute`, `audit.Run` discovers and loads the files, profiles every
column, runs the checks and the customer's rules, locks the engine down, starts
the context servers, lets the model loop over its tools, adds what the model
recorded to what was found, and verifies all of it by running each finding's
query again. `runs.Execute` compares the report with the previous run's;
`notify` decides whether that is worth a message; `veritix audit` and `veritix
eval` turn it into an exit code.

The hazards are listed one by one with their lines in `PROJECT.json`.

## 2. The modules

| Module | Models | Extends / composes |
|---|---|---|
| `RunRecord` | what the store promises of a run's row: an abstract specification | |
| `RunLifecycle` | the whole life of runs across the server, the assistant's process and restarts | implements `RunRecord` (`INSTANCE`) |
| `RunLifecycleProofs` | its theorems | `RunLifecycle`, `TLAPS` |
| `EventStream` | one run's stream and its watchers | |
| `NatLemmas` | lemmas the proofs share: least and greatest numbers, induction up to a bound, a recursion carried out step by step | `TLAPS` |
| `Scheduler` | the clock, its schedules and the requests that overtake it | |
| `SchedulerProofs` | its theorems | `Scheduler`, `NatLemmas`, `TLAPS` |
| `DatasetFiles` | one data set's rows and files: audits, retention, rows requests, deletion, accepted rules | |
| `DatasetFilesProofs` | its theorems: the rules file; retention and deletion | `DatasetFiles`, `NatLemmas`, `TLAPS` |
| `AuditPromise` | what `audit.Run` promises its callers: an abstract specification | |
| `Findings` | the finding set: identity, duplicates, verification | |
| `ContextServers` | the documents' servers, the catalog and the reads | |
| `AgentLoop` | the loop around the model and the tools that change something | `ContextServers`, `Findings` |
| `AuditPipeline` | one audit's control: stages, resources, failures, cancellation | `AgentLoop`; implements `AuditPromise` (`INSTANCE`) |
| `AuditPipelineProofs` | its theorems | `AuditPipeline`, `NatLemmas`, `TLAPS` |
| `Tables` | the engine's tables and the SQL asked of them, over the cells of each line | |
| `Ingest` | from files and worksheets to tables, with the workbooks' goroutines | `Tables` |
| `Profiles` | what is measured of a column | `Tables` |
| `Checks` | the findings a profile gives | `Profiles`, `Findings` |
| `Rules` | the customer's rules: validation, targets, violations, materialization, proposals | `Checks` |
| `AgentTools` | the looking tools that measure keys and references | `Rules` |
| `DataAudit` | one audit's data: load, profile, checks, rules, proposals, verification | `Ingest`, `AgentTools` |
| `DataAuditProofs` | its theorems | `DataAudit`, `NatLemmas`, `TLAPS` |
| `Comparison` | two reports compared | |
| `Outcomes` | overlapping audits of one data set: baselines, messages, gates | `Comparison` |
| `NewsProofs` | theorems about the two ways somebody learns how an audit went: the stream, and what is told afterwards | `EventStream`, `Outcomes`, `NatLemmas`, `TLAPS` |
| `Evaluation` | audits of a data set whose defects are known: credit, scores, the gate | |
| `EvaluationProofs` | its theorems | `Evaluation`, `NatLemmas`, `TLAPS` |
| `MCScheduler`, `MCDatasetFiles`, `MCAudit`, `MCDataAudit`, `MCOutcomes`, `MCEvaluation` | the instances of the runs: values that cannot be written in a `.cfg`, and bounds | the module they are named for |

An action stands for the code between two points where something else can
interleave: one SQL statement or transaction, one section under a lock, one file
operation, one channel operation, one stage or one query of an audit. A
definition introduced by "A plausible bug" is not part of any specification: it
is the mutated form of its neighbour, used to see that the properties notice.

### RunLifecycle

`status` and `report` are the columns of `runs` (`report`: document and findings
are there), `extras` the later writes of proposals and traces; they survive
everything. `pc` is a program point per run: `startRun` (`created`, `prepared`,
`listed`), `Execute` (`spawned` to `extras`), the goroutine's unwinding
(`returned`, `delisted`, `notifying`), `ended`, or `lost` with its process. `ctx`
is the run's context, `active` the runner's map, `engine` the DuckDB files held
open, `server` the serving process (`up`, `closing` while the clock is awaited,
`joining` while the runs are, `draining` the listener, `stopped`, or `down`).

* `CreateRun`, `SetRunDatabase`, `NoRunDirectory`, `AbandonStart`: `startRun` and
  its error paths; its context is the request's or the clock's, and both are main's, so
  that after the signal (`Signalled`) any start can be abandoned, the clock's included. `Register` and `Spawn` are separate since the map is filled
  under the lock and the wait group after it. An assistant's audit is
  synchronous and registered nowhere (`ExecuteInCall`).
* `StartRun` … `SaveExtras`: `Execute`. A failed audit reads its context there and
  then (`AuditFails`); a successful one looks again just before it stores
  (`LastCheck`). `StopRun` is the shared exit; each store write may fail when
  "store" is among the `Mishaps`.
* `CancelRead`, `CancelFound`, `CancelMissed`, `CancelStop`: the cancel handler
  holds a row it read, then a look in the map, then writes: three separate steps.
* `Boot` is `New` with `MarkInterrupted`; `Signal`, `CancelAll`, `Joined`, `Exit` are
  `Close` and the listener's shutdown; `Crash` and `AssistantKilled` take the
  process's memory with them and leave the store.

`RunRecord` is the promise: a row is created pending, runs, and settles once,
and succeeds together with its report in one step.

### EventStream

`gpc`, `row`, `listed` are the run; `history`, `subs`, `closed`, `chan` the fields of
its `activeRun` under the mutex; `closes` counts closes per channel. `hpc` is the
handler: row read, map looked up, backlog replayed, streaming, ended; `sent` is
what the client received, `told` why its stream ended, `done` the outcome it was
given, `behind` whether an event was ever dropped for it. The close that ends a
run's stream and the deferred unsubscribe of a leaving client both want to close
the channel. A signal does two things, in either order: it cancels main's context, which
every request's descends from (`Cancel`), and it leads to `Server.Close` (`Stop`). Whatever reads
the store after the first fails: a stream that is asked for is refused (`Refuse`), one that
ends is told nothing (`Finish`). A send that fails in the middle of the backlog returns
before the unsubscribe is deferred (`ReplayFails`), one that fails later after it (`ClientGone`).
Assumed: the store takes the outcome, its reads fail for a canceled context only, and every
log line is published before the outcome (the lines come from the code that then records).

### Scheduler

Time is in units; `phase` is the wall clock modulo `Cycle`, `ticker` the time until
the next tick, `sched` each schedule with `wait`, the signed distance to
`next_due`; `sweep` holds what `DueSchedules` returned and what it is in the middle
of; `edit` is what a PUT handler has computed and not yet written. The sweep's branches
are actions of their own: clear an overdue window, skip a data set that is being
audited, start one audit a tick, record it. `NextWindow` is `schedule.Next` for an
interval and for a time of day.

A row in flight and an audit that executes are two things. `auto` counts the rows the clock
made that are pending or running, `others` the data sets with any other such row (a posted
run's, one left behind by a start that failed after its row was made, one that `StartRun` has
opened again), and `stray` those with an audit that executes although its row is closed:
`CloseOut` is a cancel handler that missed the run in the runner's map, or `MarkInterrupted` of
another process that starts on the same directory. `ActiveRun` sees rows only. Each
call the sweep makes of the store may fail (`StoreFails`): always after the signal, as the
clock runs on main's context, and at any time when "fail" is among the `Events`. Then the rows
are not read (`SweepUnread`), the look at the active run fails (`Blocked`), the row is not made or
is left without a path (`StartFails`), or what happened is not recorded (`Unrecorded`, `RecordFails`). A
stop is therefore two steps, `Signal` and, when the sweep has got through, `Stop`.

Abstractions: time stands still during a sweep
(seconds against minutes), ties in `next_due` are broken arbitrarily, lateness
saturates once it is past overdue, `since` is a history variable (the time since the last
*recorded* start). A second process may close rows, but its own clock is not modelled; any
stray audit may open its row again, though in the code only one that has not begun can.

### DatasetFiles

`dataset` and `source` are the row and its files; `row` is the table of runs with
`path` for `database_path`; `done` is the order of `finished_at`, of which the first
`expired` are older than the cutoff; `disk` is each run's directory (`none`, `empty`,
`data`); `sweep`, `reader`, `delete` and `accept` are the retention sweep, the rows
requests, the deletion and the accept requests, each at its own program point
holding what it read. One data set is enough since every file and query is keyed
by its id or a run's; other data sets share nothing but the rules lock.
A sweep lists the files that are to go once (`Expired`) and goes through them in the
order in which their runs finished: `sweep.todo` is what is left of the list, and
`Turn` says which file is next (runs that finished in one instant come in any order).
Abstractions: a cancellation only ends an audit sooner, so it is part of
`AuditFails`; posted, scheduled and assistant's runs write the same files; one
DELETE at a time; a request is either for rows or an acceptance; making the
rules directory and reading the file are both under the lock and one step; the
validation of the merged file is counted with its conflicts. `reader.seen`
remembers the status the request read first.

### AuditPromise and AuditPipeline

`AuditPromise` is what the three callers of `audit.Run` rely on: it fails, and
then only while it reads the data and with nothing held, or it returns a result
whose engine is the caller's to close; what the model is asked adds problems, and
only verification takes any away. `AuditPipeline` maps its `stage` and `outcome`
to the promise's phase and the keys of `found` to its problems.

`stage` is where `Run` is: `discover`, `open`, `ingest`, `profile`, `checks`, `rules`,
`lockdown`, `context`, `agent`, `verify`, `over`. `engine` and `scratch` are the two
things `Result.Close` releases; `options` fixes whether a database path was
given, whether there is a model, and what checks and rules find in this data.
`ReturnError` is every early return: it closes the engine and, by `defer`, the
sessions (the scratch directory stays, see section 6). `Enter` notes whether a
stage of the engine's began after a cancellation: such a stage fails, while one
that is canceled on the way may end all the same. `VerifyOne` takes one finding
at a time on the audit's own context, so a cancellation can come between two.
Abstractions: `ingest`, `profile`, `checks` and `rules` are single steps here and have
their data in `DataAudit`; a stage fails for any reason ("stage" in `Mishaps`).

### AgentLoop, ContextServers, Findings

`loop` is where `agent.Run` is: `top` (the three reasons to stop, in order),
`calling`, `waiting` (the backoff), `invoking` (the reply's calls, one after another),
`over`. `ReplyCalls` and `ReplyText` are the two kinds of reply, with any number of
tokens up to `MaxReply`, none included; a call written as text is answered once.
A query the model wrote may measure the time or chance: `Measures` gives the
counts it can return, one per execution. `RecordOutcome` and `ProposeOutcome` are
the orders of the refusals in `record_finding` and `propose_rule`; whatever
`run_sql` and the other looking tools do changes nothing (`InvokeLook`).

`ContextServers` goes through the servers in order, records what each
contributed, and gives every document an id (`UniqueID` is `uniqueID`); a read looks
up `byID` and asks the server it names. A server that does not start (`ServerDown`) or
starts and does not list (`ListFails`) is recorded and skipped, and a read may
bring nothing back.

`Findings.AddAll` is `Set.AddAll`, `Add` of one finding after another: of those with one
key the most severe stays, the first of equals, in the place of the first. (What was
there before each is bound as the only member of a set, so that TLC computes it once;
`Evaluation.Credits` does the same.) `Dropped` and
`Checked` are the two halves of `Verify`.

### Tables, Profiles, Checks, Rules, AgentTools

Every column is text. What DuckDB reads in a text (padding, numbers, kinds,
dates, shapes) is given by constants, with the facts about it that the code
relies on in the assumption `CellFacts`; a predicate over a column is then the
set of cells it holds for, with SQL's three values in how that set is made, and
a count query is a record that `Answer` evaluates against the engine's tables.
A table has the cells of each line that was loaded. A statement names the column it
asks about, as SQL does: `Column` looks it up in the engine's table, which is not
always the one the load means (section 6), and `CountIn` counts lines (`Lines`).

`Profiles` are the measurements as such counts; shares are
compared without division, and the outlier test without the root (`Far`
states the inequality). `Checks` has one operator per check, named after it:
its guard, its severity, the number its title claims, and the query it leaves as
evidence, which is computed separately by `Verify`. `Rules` has validation, the
targets by glob, `Breaking` (the violation predicate of each expectation; `one_of` compares
a cell that SQL folded, `Comparable`, with values that Go folded, `Permitted`),
`Materialized` (the values read from the data) and proposals; a glob is the set of
names it matches and a regular expression the set of texts. `AgentTools` are the
two tools that judge: they measure with their own SQL what the checks measured.

### Ingest and DataAudit

`Ingest` keeps the concurrency of `planTables`: `walked` is the walk over the files,
`worker` and `sheet` where each workbook's goroutine is, `mu` the mutex, and `seen` who
is between reading the plan and writing it back: a Go `append` is a read and a
write. Then names are assigned, tables loaded one by one, and rejected lines
attached by path. A worksheet becomes a delimited file as in `writeSheetCSV`: the
search for the header in `HeaderScanRows` rows, the blank rows, the row that
ended the search. Go's `sort.Slice` is not stable, so two plans, or two tables, of one
name come in any order (`Orders`). `FilesAreRead` says what a dataset is (lists of files,
rows and cells) and `RulesLoad` that the rules in force are a file `Load` accepts, whose
findings have codes of their own (`RuleCode`, "rule." and the id). `DataAudit` is the rest of the pass over that data: `ProfileData`
(some columns may fail to be measured), `CheckData`, `ApplyRules`, `ProposeRules`
(ideas in order, with the right claim), `Verify`.

### Comparison and Outcomes

A report is its tables with their columns and its findings by identity;
`Comparison` is `Compare` with its summary, its note on what went, and
`Regressed`. `Outcomes` numbers the audits of one data set in the order of
`created_at`; they overlap and end in any order. `asked` is either a server with a
webhook (`Sinks`) or a build's gates (`Gates`). A run of the server looks for its baseline
when the audit has run (`FindBaseline`: `Previous` is `PreviousRun`), and ends later, after its engine
is closed (`FinishRun`, `End`): other runs end in between. `mail` is one message per scheduled
run: `ReadOutcome` and `Decide` are the two reads of `notifyRun`, each of which can fail, the second
without anybody noticing; then `Posted`, `NotPosted`, `Retry`, `Shutdown`. `Exit` is the order of the gates
of `veritix audit`. The report itself is any of `Reports`. An outcome that is recorded is final here
(who else writes to a row is in `RunLifecycle`); one that cannot be recorded leaves the row
`unrecorded`.

### Evaluation

`manifest`, `pass` (what checks and rules find in this data) and `options` are fixed
at the start; `runs` are the `RunScore`s, each with the findings it was made from;
`exit` says how `veritix eval` ended. `Valid` is `Manifest.Validate`, `Credits` the first loop
of `ScoreRun`, one `Credit` after another (first come, first served), `Kept` what an
interrupted `Verify` leaves, `Claim` the second, `ScoreChecks` the
deterministic half, `Checks`, `Unstable`, `MeanRecall` the aggregation, `Gate` the order of
`evalGate`. An audit may end (`EvalOnce`), fail (`EvalFails`), lose its provider or be
interrupted in the middle of `Verify` (`EvalCanceled`); `Interrupted` is the look at
the context before the next. The layout of the scorecard is not modelled.

## 3. The runs

Every passing run has exhausted its state space.

| Run | Instance | Checks |
|---|---|---|
| `lifecycle_shared` | a posted and an assistant's run, a cancel handler, two boots, all mishaps (134 thousand states) | `SucceededHasReport`, `EngineClosedBeforeStored`: what a reader of the store in any process may rely on; `CancellationIsHeard`: a cancel before the last look at the context keeps the run from ever being recorded as succeeded |
| `lifecycle_server` | a posted and a scheduled run, three boots, crashes (10 thousand) | `RecordSpec`: the whole implements `RunRecord`; `DeregisteredMeansRecorded`; `ScheduledRunsAreJoined`: shutdown waits for the clock's runs; `EventuallySettled` |
| `events_watch` | two watchers, channels of one event, two events, a signal (263 thousand) | `ChannelsClosedOnce`, `SentInOrder`, `NothingMissedUnlessBehind`, `StreamEndTellsOutcome`, `StreamsEnd` |
| `clock` | two data sets, an interval of 1 and a daily schedule of 2 units, edits, deletions, failing calls of the store, stops, crashes (1.6 million, up to the order of the data sets) | `OnceAPeriod` |
| `clock_fair` | two data sets, an interval of 3 and daily schedules of 4 units at two times, audits by hand, rows closed under their audits (179 thousand) | `DueWithinPeriod`, `ScheduledNeverStack`, `NothingStarves` |
| `files` | two audits, retention, a rows request and a deletion, or one audit, both kinds of source and two requests that accept one of two rules each; removals, records and audits that fail, a crash (383 thousand) | `LatestKeepsItsFiles`, `ClearedMeansGone`, `GoneMeansGone`, `ExpiredDataGoes`; `DeleteTakesWhatItListed`, `AcceptedStayInForce`, `RulesAlwaysLoad` |
| `audit` | two servers with four documents of which two share a name and one has a number in its own, a catalog of two per server, two steps of two calls, a token budget of one, reports with a right and a wrong claim and one whose query measures the time, all mishaps (702 thousand) | `EngineKeptInBounds`, `ReportedNumbersAreTheEngines`, `ReadsGoWhereTheCatalogSays`, `BudgetsHold`; `AuditReturns`; `PromiseKept`: the pipeline implements `AuditPromise` |
| `news` | three audits of one data set, the third scheduled, eight reports, every sink and every pair of gates, unreadable baselines and reports, outcomes that are not recorded, a shutdown (402 thousand) | `ComparisonsAccountForAll`, `SilenceMeansNoNews`, `GatesHold`, `ComparedWithTheLatest`, `DeliveriesEnd` |
| `measures` | 3,113 data sets: every column of up to three of sixteen kinds of cell, 20 or 40 rows of one value with one or two others, references between two tables, a value with a tab at its end, workbooks beside delimited files; twelve rules, three ideas, one column that is not measured (60 thousand) | `TitlesHold`, `GapsAreReported`, `ToolsAgree`, `ProposedValuesHoldToday` |
| `scores` | three manifests and ten that are refused, five sets of what checks find, eight of what a model records, one to three audits (764 thousand) | `CreditIsEarned`, `GateIsFair` |
| `audit_interrupted`, `sources` | counterexamples: section 6 | |

Why these bounds are enough to meet the cases. *Lifecycle*: one served and one
assisted run differ in everything that matters (process, map, context); two boots
give one restart over a live assistant, three give two restarts in a row. *Events*:
with a channel of one event the second event is the first that can be dropped, so
both "behind" and "not behind" occur for each watcher; two watchers suffice for one
to leave while the other is closed. *Clock*: a window as short as the tick
is the tightest interval that is not overdue when seen; two data sets are the
fewest the order of windows means anything for; the cycle is the least common
period. The run `clock` identifies states that differ in the names of the data sets (nothing
tells one from another, in the model or in the property) and in the text of a schedule's last
failure (`WithoutErrors`: no step depends on it and no property of that run reads it); it
has no liveness property. *Files*: the floor of retention needs two audits, a lost update two
accepted rules; the two halves share no file and no lock, so `MCDatasetFiles`
keeps them apart with a state constraint (`InScope`) instead of multiplying them.
`ExpiredDataGoes` is about every run but the last, which is never past the floor.
*Audit*: two documents of one name and a third named like the number that tells
them apart are the case `uniqueID` exists for; two steps of two calls are the
fewest in which each budget can stop the loop first, and in which a duplicate of
a recorded finding arrives with another severity. *News*: three audits are the
fewest in which the latest baseline is not the last to end, and in which one ends between
another's look and its own end. *Measures*: three cells
decide every "all", "most" and "none" of the checks; the long columns (20 and 40
rows) are on both sides of the one-in-twenty and one-in-forty thresholds.
*Scores*: two targets that one number measures, and a table-wide finding that
measures both, are the fewest in which credit can be given twice.

Every counter that would be unbounded is named: `MaxBoots`, `MaxEvents`, `Buffer` (64 in
the code), `Cycle`, `MaxRuns`, `MaxRestarts`, `MaxSteps`, `TokenBudget`, `MaxReply`, `MaxCalls`,
`MaxCatalog`, `MaxUnmeasured` (columns whose measurement fails), `ParallelWorkbooks` (4, as
in the code) and `HeaderScanRows` (100 in the code; 2 in `measures` and 3 in `sources`, so
that a sheet can be longer than the search for its header). The set `Mishaps` or
`Events` of a run says which failures it admits.

`CHECK_DEADLOCK FALSE` is set where a behaviour really ends: runs, watchers and
requests are used up, an audit or a command returns, and a server that has been
started `MaxBoots` times may stay stopped. The clock never stops, and its runs
check deadlock.

## 4. Fairness

* *Lifecycle.* Weak fairness per run for the goroutine or handler that works on it,
  once the run was asked for, and per cancel handler: the Go scheduler runs
  goroutines that can run, and audits have a timeout and end. Weak fairness for
  `Boot`, `CancelAll`, `Joined`, `Exit`: a stopped server is started again, a closing
  one gets through `Close`. Nobody has to ask for a run, cancel, signal or crash.
* *Events.* Weak fairness for the run's goroutine and each handler. Nobody has to
  publish, to watch, or to leave.
* *Clock.* Weak fairness for time, for the sweep (the goroutine of the ticker) and
  for the end of each audit. Nobody has to edit or post.
* *Files.* Weak fairness for the sweep, which the clock runs on every tick; strong
  fairness for each successful removal and record, which is the code's own argument: a
  file that could not be removed is recorded nowhere so that the next sweep tries
  again, since "a held file is a transient thing" (`internal/api/scheduler.go:241`).
  Audits, requests and deletions need not happen.
* *Audit.* Weak fairness for `Progress`, the next step of the one goroutine that
  audits: queries, connections and model calls have deadlines of their own
  (`query_timeout`, `request_timeout`), and the backoff is finite. Nothing says which
  step it is: the model may never stop by itself. Nobody has to cancel.
* *Outcomes.* Weak fairness per delivery: a post has a timeout, and the wait between
  two attempts is finite. The sink need not answer, and the server need not stop.

## 5. The proofs

Every safety property, every action property and every refinement that a passing run checks
is also a theorem, for every value of the constants. Assumptions on constants are named
in the modules that declare them, and TLC evaluates each of them on the runs:

* `RunsAssumption` (who asks for a run is fixed), `BoundsAssumption` (of `RunLifecycle`, and of
  `DatasetFiles`: the numbers of runs are naturals), `BufferAssumption` and `EventsAssumption`.
* `SpecsAssumption` and `ClockAssumption`: there are schedules, finitely many; gaps and the tick are
  positive, a time of day is within its gap and the cycle a multiple of it.
* `RulesAssumption`: no rule has the name of the two markers the model uses.
* `ServersAssumption`: servers, their documents and the words of an id are lists. `LoopAssumption`:
  at least one step and one call, and every query has an answer.
* `PipelineAssumption`: what checks and rules find in the data has a count that its query
  can return, and a title that states it. Here that is taken as given: for the seven checks in `Titled`
  it is what `TitlesAlwaysHold` proves in `DataAudit` (section 6 names the others).
* `CellFacts` (`Tables`): what DuckDB reads in a text. Nothing without content reads as a number,
  a date or a word for "no value"; a word for "no value" is of no kind; what is a whole number
  is a number; one text has one folding. `FilesAreRead` and `RulesLoad` (`DataAudit`): section 2.
* `OutcomesAssumption`: every report is one (`IsReport`: finitely many findings, whose counts are
  naturals).
* `EvaluationAssumption`: manifests, passes and replies are lists; what a model records is called
  `agent.` and a name (`internal/agent/tools/record.go:184`) and no manifest names such a rule,
  since `caught_by` is "the deterministic rule that must find it" (`internal/eval/manifest.go:89`);
  `Validate` does not look at that.

A theorem with a further hypothesis says so in its statement.

**RunLifecycleProofs.** `TypeCorrect` is inductive by itself.

* `SucceededAlwaysHasReport`, `EngineAlwaysClosedBeforeStored`,
  `ExtrasAlwaysFollowFindings` come from `StoreInv`. The properties are not
  inductive: that a row says succeeded with the engine closed depends on where the
  code was when it stored. `StoreInv` adds that the engine is held only between its
  opening and its closing, that a report exists only once the code is past both, and
  that a run at `extras` has one. No assumption is needed on who else writes the row:
  cancel handlers and restarts write `failed`, never `succeeded`.
* `ScheduledRunsAlwaysJoined` comes from `ClockInv`: once the server is joining, no
  scheduled run is between its row and its wait group, since `CancelAll` waited for
  the clock and nothing asks for one afterwards; once it is draining none is in
  `Execute` either.
* `DeregisteredAlwaysRecorded` (`"store" \notin Mishaps`) comes from `RecordedInv`: a
  run at `extras` or later has a terminal row. With a store that refuses
  writes it is false, and the code says so where it logs the refusal.
* `CancellationAlwaysHeard`: `CancellationIsHeard` says of every moment something about all
  that follow it. The proof goes through `Doomed`, which holds from that moment, is kept by
  every step of every actor, and excludes that the row says succeeded: the run is
  canceled and before the last look at its context, or past it without having gone on
  to store. That the row does not say so already follows from `StoreInv`.
* `ImplementsRecord` (`Cancellers = {}`, `Assisted = {}`): initial states map to initial
  states and each step to a step of `RunRecord` or a stutter. `OwnerInv` ties each
  program point to the statuses its row can have, so that `StartRun` finds a pending
  row and `FinishRun` a running one, and says that a restart happens only when
  no run of this process is alive. Both hypotheses are needed: with a cancel handler or a
  second process the row has two owners, and section 6 shows what they do to it.

**SchedulerProofs.**

* `ScheduledNeverStacks` comes from `NoStackInv`: a sweep that is about to start an
  audit of `d` has seen none, and the only other code that adds to `auto` is
  the sweep itself. Editing, posting, deleting, failing, stopping, crashing and rows closed
  by others are all allowed. What it says is about rows. `OnlyClosedRowsStack` says what that
  comes to: where nobody closes a row under its audit (`"closeout" \notin Events`) no audit executes
  that the store does not have in flight, and so two of the clock's never execute at once.
  With such a close-out they do: section 6.
* `AlwaysDueWithinPeriod` (`Editors = {}`) comes from `DueInv`: the record the sweep
  holds carries the same schedule as the row, so the window it computes is one of
  the row's own period. An editor breaks exactly that: section 6.
* `AWindowFiresOnce` (`OnceAPeriod`) comes from `OnceInv`: every window that has come, whether it is
  still in its row (`RowInv`), on the sweep's list (`TodoInv`) or in its hands (`OnInv`), is one
  that the last recorded start has not served (`Unserved`: an interval's is a gap after that start, a time
  of day's is at such a time and after it). The property alone is not inductive: a sweep
  acts on a window it read earlier, while rows are edited, deleted and posted to. Between a
  start and its record the row is behind, which is why the sweep's list must hold
  nothing else of that data set. Three lemmas carry the arithmetic of windows: the next
  one computed is unserved (`NextUnserved`), time passing keeps it so (`AgedUnserved`), and an
  unserved one that has come is due (`UnservedIsDue`).

**DatasetFilesProofs.** `AcceptedAlwaysInForce` and `RulesFileAlwaysLoads` come from
`RulesInv`, the conjunction of types (`RulesType`), mutual exclusion between the
lock and the rename (`OneWriter`), the order of the deletion (`DirGoesLast`,
`NoneBefore`), and what the holder of the lock knows: what it read is what is in
force (`ReadIsCurrent`), what it wrote beside the file is whole (`WrittenIsWhole`), what it
renamed has stayed (`PlacedStays`). The deletion takes no lock; the proof shows that it
can only make an acceptance fail or take the file with the data set, never tear it.

`LatestAlwaysKeepsItsFiles`, `ClearedAlwaysMeansGone`, `GoneAlwaysMeansGone` and
`DeleteAlwaysTakesWhatItListed` come from one invariant, `FilesInv`, since each relies on what the other
actors hold: rows go before files (`RowsGoFirst`); a run's row, its directory and the step of
its audit agree (`StepsAgree`); what a sweep has listed has finished and is older than a
run it leaves, and between a removal and its record nothing is on the disk (`SweepInv`);
a request that read "succeeded" asks about a run that writes nothing more (`ReaderInv`);
a deletion that has warned of nothing has taken what it has been through (`DeleteInv`),
the source included (`SourceInv`).

**AuditPipelineProofs.** `EngineAlwaysKeptInBounds` comes from `HeldInv`, which says stage
by stage what is held: nothing before the engine is opened, an open engine in
the deterministic stages, a locked one with servers and the model, no session
once the audit is over. `BudgetsAlwaysHold` comes from `BudgetInv`: the loop has been
answered once for each step it has left behind, and it is past the top only with
a step and tokens to spend.

`ReportedNumbersAlwaysTheEngines` comes from `FoundInv`: each finding up to the one that `Verify` has
reached has a number its query returned then (`Reverified`), each after it has the one it
was recorded with (`Recorded`), and what the loop has made is of the second kind, through
every replacement of a duplicate by a more severe one. `ReadsAlwaysGoWhereTheCatalogSays` comes
from `CatalogInv`: an entry of the catalog and what `byID` holds under its id are one thing,
the ids that `uniqueID` gives are new (`Named` gives documents of one list different ids),
and what was read stays what the catalog says. `ImplementsPromise` (`PromiseKept`) maps each
action to a step of `AuditPromise` or a stutter: adding findings loses and invents no
problem (`AddAllKeys`), verification removes only. All hold for any servers, replies,
budgets, data and mishaps.

**NewsProofs.** Of the stream: `TypeCorrect` is inductive by itself. `ChannelsAlwaysClosedOnce`
and `StreamEndAlwaysTellsOutcome` come from `OwnerInv`: a watcher in the map has an
open channel and is in its loop, the run's own close leaves the map empty, and
it comes after the outcome is in the row. The first property alone is not
inductive: that an unsubscribe may close a channel depends on the watcher being
in the map still, which both closers look at under the mutex. The second says of every
stream that was closed that its client knows the outcome, or that the request was canceled
before it ended.
`AlwaysSentInOrder` and `NothingEverMissedUnlessBehind` come from `DeliveryInv`, which is about the
three places an event can be for a watcher at once: what was sent, the backlog and
the channel, one after another (`Stream`), are rising and published, and are the whole
history while nothing was dropped. So an event moves from one place to the next and
is never in two.

Of comparisons, messages and gates: `ComparisonsAlwaysAccountForAll` is about two reports and holds of any
(`StatusOf`, `ListsWhatMoved`). `SilenceAlwaysMeansNoNews`, `GatesAlwaysHold` and `AlwaysComparedWithTheLatest` come from
`OutcomesInv`: what an audit was compared with has succeeded, a message is only decided on
when its audit is over, and what was decided would be decided again from what was read,
because an audit that is over changes no more and neither does its baseline (`OverStays`,
`DecisionsStay`). That is the part no single action shows, with audits that overlap and end
in any order.

**DataAuditProofs.** Four properties of what the audit says of the data, each about numbers that
different statements of different packages compute. They hold for any dataset, any reading the
engine makes of a text, any rules, any interleaving of the load, and whatever columns are not
measured.

Two inductive invariants carry them. `IngestInv` goes through the load. `PlanInv`: whatever is
planned, or is held by somebody between the read and the write of an `append`, can be read back (a
delimited file of the dataset, or a sheet whose scratch file is written by then), and each
workbook's goroutine, its sheet and its scratch files agree. A lost append (section 6) loses a table
and breaks none of this. `LoadInv`: every table of the load is in the engine under its name, its
columns are a list, and the rows the load counted are the engine's unless a later table has the
same name (`Alone`). `PassInv` says of each later stage that its result is the function of what was
there before: the profile of these tables, the checks and rules of that profile, the proposals of
ideas that were right, the report of what `Verify` leaves.

From there each property is an argument about operators.

* `ProposedValuesAlwaysHoldToday`: every value with content a rule's columns hold is, to the engine,
  equal to one of the values that were read. Where that one is folded alike by Go, or case
  counts, the value does not break the rule (`HeldHold`); so nothing does (`ValuesHold`), whether
  missing values are let off or not, unless the data holds an odd value, one that the two
  foldings read differently (`Odd`), and then only what compares as equal to it.
* `TitlesAlwaysHold`: each of the seven checks in `Titled` claims the number its query returns.
  `CountApart` and `CountGroups` are the arithmetic: disjoint sets of cells add up, and what
  `GROUP BY` reports group by group adds up to the lines of those groups. So nulls, blanks and the
  placeholders that count are the lines that the missing-values query selects (`MissingHolds`);
  the values less those that match and those that are words for "no value" are the misfits
  (`ViolationHolds`), and so on check by check. The rest is that nothing else wears such a
  code (`FromChecks`: the other checks, the notes of the reader and the rules are gone through
  one by one), that `AddAll` keeps a finding of each key and makes none up (`AddAllElements`), and
  that `Verify` keeps what holds as it is (`TitledStays`).
* `GapsAlwaysReported`: a typed word for "no value" always counts, so the check raises a finding
  wherever a column has one beside a value, and it is never the silent case "all are missing"
  (`GapsFound`); the finding claims all gaps, and stays.
* `ToolsAlwaysAgree`: a column without a gap and without two equal lines has as many different
  texts as lines, so the profile calls it unique and no key check fires (`KeyToTheTools`). Of the
  two foldings the tools have the narrower, so an orphan to the report is one to the tool
  (`ToolsCountMore`). The reference the report chose is one both tables have: the order of the
  candidates has a first (`SoonerIsAnOrder`, cross-multiplied shares, then the place), which is
  what `BestIs` shows of the `CHOOSE` in `Reference`.

The last two have the hypothesis `NamesApart`, that no two tables of the load have one name.
`AssignNames` sees to that except in the case of section 6: of three files whose safe names are
`sales_csv_2`, `sales_csv` and `sales_csv` again, the first and the third are both called
`sales_csv_2`, and the engine keeps the later. If the load counted no rows of the first, its
profile is that of an empty column that was measured; and if the later's measurement fails, the
gaps of that one are in no finding (TLC shows this on these three files), so
`GapsAreReported` needs the hypothesis. `ToolsAgree` needs it since a column of the load must be one
of the engine's to be asked about. The other two properties ask the engine twice about the same
table, whichever it is.


**EvaluationProofs.** Both properties come from `ScoresInv`: every audit that did not fail was
scored from a list of findings, one that nobody interrupted from all there was to
find, and the exit code is the gate's. `CreditIsAlwaysEarned` then goes through the targets one
by one (`CreditedUpTo`, `CreditKeeps`): no two have one id, as `Validate` sees to (`ValidDistinct`), so
each turn leaves what was credited as it was and takes a finding that nobody had; a
target without credit is measured by nothing that is left, and less is left later.
`GateIsAlwaysFair` rests on `ChecksAreThePass`: what a model records is by no rule that a manifest
names, so the checks score the same in every audit, whichever of them failed.

**NatLemmas.** `UpTo` and `StepByStep` are what an induction over a list comes to here: a set of
numbers that holds 0 and with each number the next holds all up to a bound, and a
sequence of steps has a result. They follow from the library's `WFMin`. The library's
induction theorems take an operator as a parameter, which none of the provers at hand
can instantiate; these take a set.

**Only model-checked.** All liveness (`EventuallySettled`, `StreamsEnd`, `NothingStarves`,
`ExpiredDataGoes`, `AuditReturns`, `DeliveriesEnd`): it rests on fairness, and so on ENABLED, which
this prover does not reason about.

## 6. Where the code and its documentation part

Two runs end in a counterexample to something the repository says of itself.

| Run | The sentence | What happens |
|---|---|---|
| `audit_interrupted` | "Findings that no longer reproduce are removed" (`internal/finding/finding.go:275`); "a canceled context is a deliberate Ctrl-C" (`cmd/veritix/main.go:28`), which exits 130 | an audit that is canceled while `Verify` goes through its findings drops every one it has not asked about yet, since their queries fail on the canceled context, and returns a result all the same; `veritix audit` writes that report, passes its gates over it and exits 0. (With a model the same comes of a cancellation during its loop, which ends the loop but not the audit. A server's run looks at its context again and is recorded as canceled.) |
| `sources` | "Load reads every file in the dataset into the engine" (`internal/ingest/ingest.go:102`) | the walk appends a delimited file to the plan outside the mutex under which the workbooks' goroutines append: one of the two is lost, with no skip and no note |

The following were shown by runs of their own earlier, or are reached by the same
models; none of them is used by a passing run as if it were true.

* "Terminal reports whether a run has stopped moving" (`internal/store/runs.go:31`): a cancel
  handler that read the row before the run was in the map closes it out as failed;
  the run goes on to running and succeeded, or a run that has finished in between is
  overwritten from succeeded to failed (`internal/api/runs.go:296`).
* "Either it finished, or it belongs to a process that is gone; either way the store
  is the authority on how it ended" (`internal/api/events.go:45`): the outcome sent is the row read
  before the map was looked at; a run can be reported done with status pending or
  running.
* "editing a schedule takes effect at once rather than at whatever window the previous
  one was waiting for" (`internal/api/schedules.go:150`): a sweep that read the old schedule records
  the old schedule's next window over the edit.
* "A dataset audited once, six months ago, would otherwise lose the only copy of the
  data its findings were computed from" (`internal/store/runs.go:469`), "the newest audit's rows are
  always there to look at" (`docs/scheduling.md:249`): the floor of retention is the newest run with a
  database, whatever became of it; after a newer audit that failed, the last one
  with findings loses its rows.
* "leaving them behind would leave customer content on disk with nothing left pointing
  at it" (`internal/api/datasets.go:279`): a run that gets its row or its path between the deletion's
  listing and the cascade goes on to write a copy nothing points at; a rule
  accepted in between leaves its file.
* `MarkInterrupted` closes out every run in flight, those of a live `veritix mcp`
  included (`internal/store/runs.go:353`; `internal/api/api.go:91` assumes their process died). The
  cancel handler does the same to a run of another process or one that is not yet
  registered (`internal/api/runs.go:297`). Both are in the model: `Boot`, `CancelStop`.
* An interval's next window counts from the sweep's time, not from the window it
  fires (`internal/api/scheduler.go:129`, `internal/schedule/schedule.go:75`), so lateness accumulates.
* With a tick slower than twice an interval every window is overdue when seen and
  the schedule never starts anything (`internal/api/scheduler.go:171`, `internal/config/config.go:608`;
  `docs/scheduling.md:119` says that nothing is starved).
* A POST accepted during `Close` can register its run after `shutdown` has canceled
  those in the map (`internal/api/runner.go:147`, `:175`). In the model: a posted run may be
  in `Starting` when `CancelAll` happens; `ScheduledRunsAreJoined` is about the clock's
  runs, which `Close` does wait for.
* A row whose path could not be stored, or whose request was canceled under it (a client
  that left, or Ctrl-C, which cancels the clock's starts too), stays pending until the
  next start (`AbandonStart`); `EventuallySettled` holds because a stopped server is started
  again. Until then, or until somebody cancels it, it blocks the data set's schedule: the
  clock finds "an audit of this dataset was already running" (`internal/api/scheduler.go:179`).
* "an hourly schedule on something slower must not stack" (`internal/api/scheduler.go:175`): the
  look is at rows. A row that a late cancel handler closed (`internal/api/runs.go:296`), or that
  another `veritix serve` on the directory closed when it started (`internal/api/api.go:95`), is
  terminal while its audit goes on, and the next window starts a second audit beside it. In
  the model (`CloseOut`): `ScheduledNeverStack` counts rows, `OnlyClosedRowsStack` excludes it.
* An edit writes back the history it read, over what a sweep recorded meanwhile
  (`internal/api/schedules.go:154`).
* A schedule whose path is gone: `startRun` does not look, so the schedule records a
  start and the run fails (`docs/scheduling.md:110`).
* A crash after `startRun` and before `ScheduleFired` leaves the window due, and it fires
  again after the restart; so does Ctrl-C there, since `ScheduleFired` runs on the clock's
  canceled context (`internal/cli/serve.go:84`, `internal/api/scheduler.go:196`), and so, at the next
  free tick, does a window whose record the store refused, for which there is only a log line.
  In the model (`Crash`, `Signal` and `RecordFails`): a start that was never recorded
  does not count for `OnceAPeriod`.
* "Say so rather than drop the connection, so the browser shows a stopped server instead
  of a spinner that never resolves" (`internal/api/events.go:72`): `sendFinalStatus` reads the row
  with the request's context, which Ctrl-C has canceled (`internal/cli/serve.go:107`), so that there
  is a log line and no done event; or the handler's select takes the canceled context
  before it sees the stop. In the model (`Cancel`): `StreamEndTellsOutcome` excepts it. And
  a stream whose connection breaks in the backlog returns before `defer active.unsubscribe`
  (`events.go:53`, `:61`), so its channel stays in the map until the run ends (`ReplayFails`).
* A rows request that read the run before it succeeded can answer 410 although the
  rows are there by then (`internal/api/rows.go` reads the run before the finding); this is why
  `GoneMeansGone` asks for `seen = "succeeded"`. One that races a removal after its
  `Stat` answers 500 (`rows.go:63`).
* A crash in the middle of a deletion, a removal that fails during one, and an upload
  directory left by a crash before its row leave files with no row. They are in
  the model, and `DeleteTakesWhatItListed` is about deletions that finished and
  warned of nothing.

Met while the audit and what follows it were modelled:

* *Workbooks.* The row that ends the search for a sheet's header has been read when
  the second loop begins, so the 101st physical row of a longer sheet is in neither
  (`internal/source/excel.go:162`, `:225`; the comment says "then stream the rest"). The
  threshold for a header is one cell where a table has three columns, so a title
  above it is taken for the header (`excel.go:254`). Two sheets whose names differ in
  punctuation only can be given one table name, and the second load replaces the
  first (`internal/source/source.go:265`; "unique, SQL-friendly name"), since a number is put
  behind a taken name without a look whether that one is taken; two workbooks with the
  same safe name share their scratch files. In the model: `Written`, `HeaderRows`, `Named1`.
* *Delimited files.* The columns `a, a_1, a` are named twice `a_1`, and names that differ
  in case only make the load of the whole data set fail. A padded header is
  reported as a duplicate of its own name.
* *Gaps.* A column of placeholders and nothing else is reported by neither check:
  `checkMissingValues` leaves it to `checkEmptyColumn` (`internal/checks/column.go:233`), whose evidence
  counts only nulls and blanks, so that `Verify` drops it (`:100`). `GapsAreReported` asks for
  columns that hold a value.
* *Kinds.* A column of one value that is no number is inferred to be an integer, with
  a type violation. The evidence for mixed date formats counts values of any
  inferred format that is not ISO rather than the minority; that title's number is
  not among `Titled`. Padding, case variants, duplicate keys and orphans count
  slightly different things in the title and in the evidence where there are
  blanks or placeholders.
* *Rules.* `references` is written with NOT IN, so one NULL among the referenced values
  disables it; `positive` flags what is not a number; an invalid and a never
  applied rule are reported once per place, whichever there are. Two proposals
  that differ in their minimum or maximum only can have one key
  (`internal/rules/proposal.go:39`), and neither `ignore_case` nor `allow_missing` is part of it.
* *Findings.* `Set.Add` drops a duplicate after the model was told that it is recorded.
  `Verify` corrects a count and leaves the number in the title as it was, which is
  visible where a query measures time; `ReportedNumbersAreTheEngines` excepts those.
* *Pipeline.* The scratch directory stays on every return with an error after the
  engine is open. The context servers are closed when the audit returns, not when
  the model is done, as a comment says. `Conn.Omitted` is always 0, since the list stops
  at the limit by itself (`conns`).
* *Comparison and messages.* A raised severity with the same count is listed but is no
  regression. An unreadable baseline is no baseline, so nothing is a regression against
  it and nobody is told. A run that succeeds between another's look for its baseline
  and that one's own end is passed over although it was created before it
  (`internal/runs/runs.go:113`, `:139`): the look comes before the report is built, the engine closed
  and the result stored. `notifyRun` reads the row and the report one after the other; where
  the report cannot be read or decoded the decision is taken without it, a success with
  regressions counts as nothing to tell, and unless it is the decoding that fails nothing is
  logged (`internal/api/notify.go:37`); where the row cannot be read nobody is told. An outcome that
  could not be stored leaves a row that says running, which is no event for any sink but
  one that asks for all. A message may arrive twice after a timeout. A run that fails
  while the server stops is told to nobody, as its own context is the one that is canceled.
* *Foldings.* A rule with `ignore_case` whose values are read from the data compares
  `lower(trim(v))` in SQL with `ToLower(TrimSpace(v))` in Go (`internal/rules/evaluate.go:324`, `:326`), over values
  that SQL has grouped (`internal/rules/materialize.go:98`; `:68` says "what makes ignore_case mean the same
  thing here as it does when the rule is evaluated"). SQL's trim takes spaces; a value that ends in
  a tab or an end of line is in the list without it, and breaks its own rule the same day.
  In the model (`GoFolded`): `ProposedValuesHoldToday` says that nothing else breaks it.
* *Evaluation.* The gate passes where every audit failed: the score of the checks is then
  its zero value, which has missed nothing (`internal/cli/eval.go:188`, `internal/eval/score.go:367`; "A missed
  planted defect or a check firing on clean data exits non-zero without being asked
  to", `docs/eval.md:281`). `GateIsFair` asks for one audit that ran. An audit
  interrupted in the last run returns what `Verify` left of it, and is scored: the
  gate fails for planted defects that were never looked for again, or for two audits
  that differ (`score.go:413`: "anything but agreement is a bug"). Credit is given in the order
  of the findings (`score.go:158`): a finding that measures two targets is taken by the
  first, and another order might have credited both; and a second finding of one
  target is listed among those "that matched no target".

## 7. What is not modelled

* *Layout, wording, transport*: HTTP shapes, middleware, the web interface,
  telemetry, report formats (JSON, HTML, SARIF, text), the scorecard, provider wire
  formats, the text of briefs and messages. They hold no state the program decides on.
* *DuckDB itself*: what it reads in a text is given by constants (`Tables`), the names it
  gives to columns without one are external to `src/` (`EngineNames`).
* *Redaction* rewrites text before it leaves the process; no decision of the audit
  depends on it.
* *Delimiter and encoding detection* and the recognition of a call written as text:
  their results are inputs of `Ingest` and `AgentLoop`.
* *Time zones and daylight saving* in `schedule.Next`: the clock modules use a wall
  clock without jumps.
* *The clock of a second process* on the same directory; what a second process does to
  rows is in `RunLifecycle` and, as `CloseOut`, in `Scheduler`.
* *Failing reads of the store in the event stream* other than for a canceled request.
* *Migrations*, and the store's listings.
* *Reading MCP tools and `register_dataset`*, and the merging of rule files before an audit.
* *Flags, environment and validation of the configuration*; the bounds that matter
  are assumptions of the modules.

## 8. The plan

1. `StoreMigrate`: two processes that open an old store (`internal/store/store.go:187`).
2. The delimiter choice, `schedule.Next` with clock changes, and the merging of rule files as
   operators against reference definitions.
3. The titles that section 6 names as counting something else than their evidence: a second
   set beside `Titled` with the bounds that do hold between the two numbers.
