---------------------------- MODULE RunLifecycle ----------------------------
(***************************************************************************)
(* One audit from the request that asks for it to the row that says how it *)
(* ended, with everything that can happen to it on the way: the handler of *)
(* POST /runs, the goroutine the runner starts, the cancel handler, the    *)
(* assistant's synchronous audit in another process, a shutdown, a crash   *)
(* and the restart that closes out what the crash left.                    *)
(*                                                                         *)
(* The store is shared by every process and survives all of them; program  *)
(* points, contexts, the runner's map and open DuckDB handles die with     *)
(* their process.                                                          *)
(***************************************************************************)
EXTENDS Naturals

CONSTANTS
    Posted,      \* runs a POST /runs handler asks for
    Scheduled,   \* runs the clock of the serving process asks for
    Assisted,    \* runs an assistant asks for, in the process of veritix mcp
    Cancellers,  \* concurrent POST /runs/{id}/cancel handlers
    MaxBoots,    \* how often the serving process starts
    Mishaps      \* what may go wrong: see MishapKinds

Served == Posted \union Scheduled
Runs   == Served \union Assisted

NoRun == "no run"

\* "leave": the client of a request goes away while startRun is under way.
\* "store": a write to SQLite or a mkdir fails.
\* "kill":  the assistant's process is killed.
\* "crash": the serving process dies without unwinding.
MishapKinds == {"leave", "store", "kill", "crash"}

ASSUME RunsAssumption ==
    /\ Posted \intersect Scheduled = {}
    /\ Served \intersect Assisted = {}

ASSUME BoundsAssumption ==
    /\ MaxBoots \in Nat
    /\ Mishaps \subseteq MishapKinds

VARIABLES
    status,   \* runs.status, "none" while there is no row
    report,   \* whether the row has its document and its findings
    extras,   \* runs whose proposals or trace have been stored
    pc,       \* where the code working on a run has got to
    ctx,      \* whether the run's context has been canceled
    active,   \* runner.active: the runs the cancel handler can reach
    engine,   \* runs whose DuckDB file is held open
    server,   \* the serving process
    boots,    \* how often it has started
    hpc,      \* where each cancel handler has got to
    hrun      \* the run each cancel handler is about

storeVars   == <<status, report, extras>>
serverVars  == <<server, boots>>
handlerVars == <<hpc, hrun>>
vars == <<status, report, extras, pc, ctx, active, engine, server, boots, hpc, hrun>>

-----------------------------------------------------------------------------
Terminal(st) == st \in {"succeeded", "failed", "canceled"}

InFlight(st) == st \in {"pending", "running"}

Statuses == {"none", "pending", "running", "succeeded", "failed", "canceled"}

\* startRun, before the goroutine exists.
Starting == {"created", "prepared", "listed"}

\* Execute, from the call to its return.
Executing == {"spawned", "auditing", "ingesting", "built", "flushed", "storing",
              "unstored", "failing", "canceling", "extras"}

\* The rest of the goroutine.
Unwinding == {"returned", "delisted", "notifying"}

Points == {"none"} \union Starting \union Executing \union Unwinding
            \union {"ended", "lost"}

Goto(r, from, to) ==
    /\ pc[r] = from
    /\ pc' = [pc EXCEPT ![r] = to]

SetStatus(r, st) == status' = [status EXCEPT ![r] = st]

\* The listener accepts requests until the process closes it, which serve does
\* only after Server.Close has returned.
Serving == server \in {"up", "closing", "joining"}

\* The signal has come, and main's context is canceled.
Signalled == server \in {"closing", "joining", "draining"}

\* A request already accepted goes on while the listener drains.
ServerAlive == Serving \/ server = "draining"

Alive(r) == r \in Served => ServerAlive

Init ==
    /\ status = [r \in Runs |-> "none"]
    /\ report = [r \in Runs |-> FALSE]
    /\ extras = {}
    /\ pc = [r \in Runs |-> "none"]
    /\ ctx = [r \in Runs |-> FALSE]
    /\ active = {}
    /\ engine = {}
    /\ server = "down"
    /\ boots = 0
    /\ hpc = [h \in Cancellers |-> "idle"]
    /\ hrun = [h \in Cancellers |-> NoRun]

-----------------------------------------------------------------------------
(* startRun and auditDataset: the row, then its path, then the execution.  *)

\* Who may ask for a run now.  A tick in progress when stopping is closed goes on.
MayAsk(r) ==
    \/ r \in Posted /\ Serving
    \/ r \in Scheduled /\ server \in {"up", "closing"}
    \/ r \in Assisted

CreateRun(r) ==
    /\ MayAsk(r)
    /\ Goto(r, "none", "created")
    /\ SetStatus(r, "pending")
    /\ UNCHANGED <<report, extras, ctx, active, engine, serverVars, handlerVars>>

SetRunDatabase(r) ==
    /\ Alive(r)
    /\ Goto(r, "created", "prepared")
    /\ UNCHANGED <<storeVars, ctx, active, engine, serverVars, handlerVars>>

\* DatabasePath could not make the directory: the row is closed out.
NoRunDirectory(r) ==
    /\ Alive(r)
    /\ "store" \in Mishaps
    /\ Goto(r, "created", "ended")
    /\ SetStatus(r, "failed")
    /\ UNCHANGED <<report, extras, ctx, active, engine, serverVars, handlerVars>>

\* SetRunDatabase failed, because the store did or because the context was canceled
\* under it: startRun returns and leaves the row as it is.  A client that leaves cancels
\* its request's; the signal cancels main's, which is the clock's and every request's.
AbandonStart(r) ==
    /\ Alive(r)
    /\ \/ "store" \in Mishaps
       \/ "leave" \in Mishaps /\ r \notin Scheduled
       \/ r \in Served /\ Signalled
    /\ Goto(r, "created", "lost")
    /\ UNCHANGED <<storeVars, ctx, active, engine, serverVars, handlerVars>>

\* runner.start: into the map under the lock, and only then into the wait group.
Register(r) ==
    /\ r \in Served /\ ServerAlive
    /\ Goto(r, "prepared", "listed")
    /\ active' = active \union {r}
    /\ UNCHANGED <<storeVars, ctx, engine, serverVars, handlerVars>>

Spawn(r) ==
    /\ r \in Served /\ ServerAlive
    /\ Goto(r, "listed", "spawned")
    /\ UNCHANGED <<storeVars, ctx, active, engine, serverVars, handlerVars>>

\* The assistant's audit runs on the tool call itself: nothing is registered.
ExecuteInCall(r) ==
    /\ r \in Assisted
    /\ Goto(r, "prepared", "spawned")
    /\ UNCHANGED <<storeVars, ctx, active, engine, serverVars, handlerVars>>

Start(r) ==
    \/ CreateRun(r) \/ SetRunDatabase(r) \/ NoRunDirectory(r) \/ AbandonStart(r)
    \/ Register(r) \/ Spawn(r) \/ ExecuteInCall(r)

-----------------------------------------------------------------------------
(* Execute.                                                                *)

StartRun(r) ==
    /\ Alive(r)
    /\ Goto(r, "spawned", "auditing")
    /\ SetStatus(r, "running")
    /\ UNCHANGED <<report, extras, ctx, active, engine, serverVars, handlerVars>>

\* The row could not be marked: Execute returns at once and records nothing.
StartRunFails(r) ==
    /\ Alive(r)
    /\ "store" \in Mishaps
    /\ Goto(r, "spawned", "returned")
    /\ UNCHANGED <<storeVars, ctx, active, engine, serverVars, handlerVars>>

OpenEngine(r) ==
    /\ Alive(r)
    /\ Goto(r, "auditing", "ingesting")
    /\ engine' = engine \union {r}
    /\ UNCHANGED <<storeVars, ctx, active, serverVars, handlerVars>>

\* audit.Run returns an error and has released the engine.  Whether that is a
\* failure or a cancellation is read from the context there and then.
AuditFails(r) ==
    /\ Alive(r)
    /\ pc[r] \in {"auditing", "ingesting"}
    /\ pc' = [pc EXCEPT ![r] = IF ctx[r] THEN "canceling" ELSE "failing"]
    /\ engine' = engine \ {r}
    /\ UNCHANGED <<storeVars, ctx, active, serverVars, handlerVars>>

\* audit.Run returns a result, and the document is built from it.
AuditReturns(r) ==
    /\ Alive(r)
    /\ Goto(r, "ingesting", "built")
    /\ UNCHANGED <<storeVars, ctx, active, engine, serverVars, handlerVars>>

\* A plausible bug: the result is stored first and closed by the caller.
CloseEngineLater(r) ==
    /\ Alive(r)
    /\ Goto(r, "built", "flushed")
    /\ UNCHANGED <<storeVars, ctx, active, engine, serverVars, handlerVars>>

CloseEngine(r) ==
    /\ Alive(r)
    /\ Goto(r, "built", "flushed")
    /\ engine' = engine \ {r}
    /\ UNCHANGED <<storeVars, ctx, active, serverVars, handlerVars>>

\* A plausible bug: the context is not looked at again once the audit is done.
SkipLastCheck(r) ==
    /\ Alive(r)
    /\ Goto(r, "flushed", "storing")
    /\ UNCHANGED <<storeVars, ctx, active, engine, serverVars, handlerVars>>

LastCheck(r) ==
    /\ Alive(r)
    /\ Goto(r, "flushed", IF ctx[r] THEN "canceling" ELSE "storing")
    /\ UNCHANGED <<storeVars, ctx, active, engine, serverVars, handlerVars>>

\* A plausible bug: the status is committed before the findings are.
FinishRunInTwo(r) ==
    /\ Alive(r)
    /\ Goto(r, "storing", "extras")
    /\ SetStatus(r, "succeeded")
    /\ UNCHANGED <<report, extras, ctx, active, engine, serverVars, handlerVars>>

\* FinishRun: status, document and findings in one transaction.
FinishRun(r) ==
    /\ Alive(r)
    /\ Goto(r, "storing", "extras")
    /\ SetStatus(r, "succeeded")
    /\ report' = [report EXCEPT ![r] = TRUE]
    /\ UNCHANGED <<extras, ctx, active, engine, serverVars, handlerVars>>

\* The transaction rolls back, or the document could not be encoded.
FinishRunFails(r) ==
    /\ Alive(r)
    /\ "store" \in Mishaps
    /\ Goto(r, "storing", "unstored")
    /\ UNCHANGED <<storeVars, ctx, active, engine, serverVars, handlerVars>>

\* StopRun at the three places Execute gives up.
Verdict(p) == IF p = "canceling" THEN "canceled" ELSE "failed"

\* A plausible bug: a canceled run returns without being recorded.
StopFailedOnly(r) ==
    /\ Alive(r)
    /\ pc[r] \in {"failing", "canceling", "unstored"}
    /\ pc' = [pc EXCEPT ![r] = "returned"]
    /\ IF pc[r] = "canceling" THEN UNCHANGED status ELSE SetStatus(r, "failed")
    /\ UNCHANGED <<report, extras, ctx, active, engine, serverVars, handlerVars>>

StopRun(r) ==
    /\ Alive(r)
    /\ pc[r] \in {"failing", "canceling", "unstored"}
    /\ pc' = [pc EXCEPT ![r] = "returned"]
    /\ SetStatus(r, Verdict(pc[r]))
    /\ UNCHANGED <<report, extras, ctx, active, engine, serverVars, handlerVars>>

StopRunFails(r) ==
    /\ Alive(r)
    /\ "store" \in Mishaps
    /\ pc[r] \in {"failing", "canceling", "unstored"}
    /\ pc' = [pc EXCEPT ![r] = "returned"]
    /\ UNCHANGED <<storeVars, ctx, active, engine, serverVars, handlerVars>>

\* SaveProposals and SaveTrace: what the run had of either, and what the store
\* took.  Neither failure fails the run.
SaveExtras(r) ==
    /\ Alive(r)
    /\ Goto(r, "extras", "returned")
    /\ \/ extras' = extras \union {r}
       \/ extras' = extras
    /\ UNCHANGED <<status, report, ctx, active, engine, serverVars, handlerVars>>

Execute(r) ==
    \/ StartRun(r) \/ StartRunFails(r) \/ OpenEngine(r) \/ AuditFails(r)
    \/ AuditReturns(r) \/ CloseEngine(r) \/ LastCheck(r)
    \/ FinishRun(r) \/ FinishRunFails(r) \/ StopRun(r) \/ StopRunFails(r)
    \/ SaveExtras(r)

-----------------------------------------------------------------------------
(* The goroutine after Execute: out of the map, stream closed, webhook.    *)

Deregister(r) ==
    /\ r \in Served /\ ServerAlive
    /\ Goto(r, "returned", "delisted")
    /\ active' = active \ {r}
    /\ UNCHANGED <<storeVars, ctx, engine, serverVars, handlerVars>>

CloseStream(r) ==
    /\ r \in Served /\ ServerAlive
    /\ \/ Goto(r, "delisted", "ended")
       \/ r \in Scheduled /\ Goto(r, "delisted", "notifying")
    /\ UNCHANGED <<storeVars, ctx, active, engine, serverVars, handlerVars>>

Notified(r) ==
    /\ r \in Scheduled /\ ServerAlive
    /\ Goto(r, "notifying", "ended")
    /\ UNCHANGED <<storeVars, ctx, active, engine, serverVars, handlerVars>>

CallReturns(r) ==
    /\ r \in Assisted
    /\ Goto(r, "returned", "ended")
    /\ UNCHANGED <<storeVars, ctx, active, engine, serverVars, handlerVars>>

Unwind(r) == Deregister(r) \/ CloseStream(r) \/ Notified(r) \/ CallReturns(r)

-----------------------------------------------------------------------------
(* handleCancelRun: read the row, look in the map, close the row out.      *)

CancelRead(h, r) ==
    /\ Serving
    /\ hpc[h] = "idle"
    /\ InFlight(status[r])
    /\ hpc' = [hpc EXCEPT ![h] = "read"]
    /\ hrun' = [hrun EXCEPT ![h] = r]
    /\ UNCHANGED <<storeVars, pc, ctx, active, engine, serverVars>>

Answer(h) ==
    /\ hpc' = [hpc EXCEPT ![h] = "idle"]
    /\ hrun' = [hrun EXCEPT ![h] = NoRun]

CancelFound(h) ==
    /\ ServerAlive
    /\ hpc[h] = "read"
    /\ hrun[h] \in active
    /\ Answer(h)
    /\ ctx' = [ctx EXCEPT ![hrun[h]] = TRUE]
    /\ UNCHANGED <<storeVars, pc, active, engine, serverVars>>

CancelMissed(h) ==
    /\ ServerAlive
    /\ hpc[h] = "read"
    /\ hrun[h] \notin active
    /\ hpc' = [hpc EXCEPT ![h] = "missed"]
    /\ UNCHANGED <<storeVars, pc, ctx, active, engine, serverVars, hrun>>

CancelStop(h) ==
    /\ ServerAlive
    /\ hpc[h] = "missed"
    /\ Answer(h)
    /\ SetStatus(hrun[h], "failed")
    /\ UNCHANGED <<report, extras, pc, ctx, active, engine, serverVars>>

Cancel(h) == CancelFound(h) \/ CancelMissed(h) \/ CancelStop(h)

\* The assistant gives up on its call: the context is the call's.
CallerGivesUp(r) ==
    /\ r \in Assisted
    /\ pc[r] \in {"prepared"} \union Executing
    /\ ~ctx[r]
    /\ ctx' = [ctx EXCEPT ![r] = TRUE]
    /\ UNCHANGED <<storeVars, pc, active, engine, serverVars, handlerVars>>

-----------------------------------------------------------------------------
(* The serving process.                                                    *)

\* A plausible bug: MarkInterrupted is not called.
BootBlind ==
    /\ server \in {"down", "stopped"}
    /\ boots < MaxBoots
    /\ server' = "up"
    /\ boots' = boots + 1
    /\ UNCHANGED <<storeVars, pc, ctx, active, engine, handlerVars>>

\* A plausible bug: every row without a report counts as interrupted.
BootSweeping ==
    /\ server \in {"down", "stopped"}
    /\ boots < MaxBoots
    /\ server' = "up"
    /\ boots' = boots + 1
    /\ status' = [r \in Runs |-> IF status[r] \notin {"none", "succeeded"} THEN "failed"
                                 ELSE status[r]]
    /\ UNCHANGED <<report, extras, pc, ctx, active, engine, handlerVars>>

\* New: MarkInterrupted, and only then a clock and a listener.
Boot ==
    /\ server \in {"down", "stopped"}
    /\ boots < MaxBoots
    /\ server' = "up"
    /\ boots' = boots + 1
    /\ status' = [r \in Runs |-> IF InFlight(status[r]) THEN "failed" ELSE status[r]]
    /\ UNCHANGED <<report, extras, pc, ctx, active, engine, handlerVars>>

\* SIGTERM: main's context is canceled, and Server.Close closes stopping.  MaxBoots bounds how often.
Signal ==
    /\ server = "up"
    /\ boots < MaxBoots
    /\ server' = "closing"
    /\ UNCHANGED <<storeVars, pc, ctx, active, engine, boots, handlerVars>>

\* A plausible bug: the runs are shut down before the clock has stopped.
CancelAllAtOnce ==
    /\ server = "closing"
    /\ server' = "joining"
    /\ ctx' = [r \in Runs |-> ctx[r] \/ r \in active]
    /\ UNCHANGED <<storeVars, pc, active, engine, boots, handlerVars>>

\* sched.wait, then shutdown cancels what is in the map.
CancelAll ==
    /\ server = "closing"
    /\ \A r \in Scheduled : pc[r] \notin Starting
    /\ server' = "joining"
    /\ ctx' = [r \in Runs |-> ctx[r] \/ r \in active]
    /\ UNCHANGED <<storeVars, pc, active, engine, boots, handlerVars>>

\* wg.Wait returns: no goroutine that has been added is left.
Joined ==
    /\ server = "joining"
    /\ \A r \in Served : pc[r] \notin Executing \union Unwinding
    /\ server' = "draining"
    /\ UNCHANGED <<storeVars, pc, ctx, active, engine, boots, handlerVars>>

\* What dies with the serving process.
ServerDies ==
    /\ pc' = [r \in Runs |-> IF r \in Served /\ pc[r] \notin {"none", "ended"}
                             THEN "lost" ELSE pc[r]]
    /\ active' = {}
    /\ engine' = engine \ Served
    /\ hpc' = [h \in Cancellers |-> "idle"]
    /\ hrun' = [h \in Cancellers |-> NoRun]
    /\ UNCHANGED <<storeVars, ctx, boots>>

\* httpSrv.Shutdown returns, drained or timed out, and main returns.
Exit ==
    /\ server = "draining"
    /\ server' = "stopped"
    /\ ServerDies

Crash ==
    /\ "crash" \in Mishaps
    /\ ServerAlive
    /\ boots < MaxBoots
    /\ server' = "down"
    /\ ServerDies

\* The assistant's process is killed in the middle of its audit.
AssistantKilled(r) ==
    /\ "kill" \in Mishaps
    /\ r \in Assisted
    /\ pc[r] \notin {"none", "ended", "lost"}
    /\ pc' = [pc EXCEPT ![r] = "lost"]
    /\ engine' = engine \ {r}
    /\ UNCHANGED <<storeVars, ctx, active, serverVars, handlerVars>>

Process == Boot \/ Signal \/ CancelAll \/ Joined \/ Exit \/ Crash

Next ==
    \/ \E r \in Runs : Start(r) \/ Execute(r) \/ Unwind(r)
    \/ \E r \in Runs : CallerGivesUp(r) \/ AssistantKilled(r)
    \/ \E h \in Cancellers, r \in Runs : CancelRead(h, r)
    \/ \E h \in Cancellers : Cancel(h)
    \/ Process

\* Goroutines and handlers that can step do; a stopped server is started again
\* and a closing one gets through Close.  Nobody has to ask for a run, press
\* cancel or send a signal.
Fairness ==
    /\ \A r \in Runs : WF_vars(pc[r] # "none" /\ (Start(r) \/ Execute(r) \/ Unwind(r)))
    /\ \A h \in Cancellers : WF_vars(Cancel(h))
    /\ WF_vars(Boot) /\ WF_vars(CancelAll) /\ WF_vars(Joined) /\ WF_vars(Exit)

Spec == Init /\ [][Next]_vars

FairSpec == Spec /\ Fairness

-----------------------------------------------------------------------------
(* Properties.                                                             *)

TypeOK ==
    /\ status \in [Runs -> Statuses]
    /\ report \in [Runs -> BOOLEAN]
    /\ extras \subseteq Runs
    /\ pc \in [Runs -> Points]
    /\ ctx \in [Runs -> BOOLEAN]
    /\ active \subseteq Served
    /\ engine \subseteq Runs
    /\ server \in {"down", "up", "closing", "joining", "draining", "stopped"}
    /\ boots \in Nat
    /\ hpc \in [Cancellers -> {"idle", "read", "missed"}]
    /\ hrun \in [Cancellers -> Runs \union {NoRun}]
    /\ \A h \in Cancellers : hpc[h] # "idle" => hrun[h] \in Runs

\* FinishRun's promise to a reader in any process: a run marked succeeded has
\* its document and its findings, whoever else writes to the row.
SucceededHasReport ==
    \A r \in Runs : status[r] = "succeeded" => report[r]

\* The rows endpoint reopens the file of a succeeded run read-only, so Execute
\* must have released the engine before the row says succeeded, in every order
\* of cancellation, shutdown and restart.
EngineClosedBeforeStored ==
    \A r \in Runs : status[r] = "succeeded" => r \notin engine

\* A run leaves the runner's map only after its outcome is in the store: a
\* subscriber whose stream ends then reads it there (runner.start).  A store
\* that refuses the write is the exception Execute logs.
DeregisteredMeansRecorded ==
    \A r \in Served :
        pc[r] \in {"delisted", "notifying", "ended"} => Terminal(status[r])

\* Proposals and the trace are stored last: they are never in the store for a
\* run whose findings are not.
ExtrasFollowFindings == \A r \in extras : report[r]

\* A cancellation that arrives before Execute's last look at the context is
\* never lost: that run is never recorded as succeeded, however far the audit
\* had got.
CancellationIsHeard ==
    \A r \in Runs :
        [](ctx[r] /\ pc[r] \in {"spawned", "auditing", "ingesting", "built", "flushed"}
             => [](status[r] # "succeeded"))

\* Server.Close stops the clock before it shuts the runs down, so that a clock
\* still ticking cannot start an audit nobody will stop: when the process
\* returns from main no scheduled run is in the middle of anything.
ScheduledRunsAreJoined ==
    [][server = "draining" /\ server' = "stopped"
         => \A r \in Scheduled : pc[r] \in {"none", "ended", "lost"}]_vars

\* A run with a row is eventually recorded as finished: by the code running
\* it, or by the restart that follows a crash.
EventuallySettled ==
    \A r \in Runs : InFlight(status[r]) ~> Terminal(status[r])

-----------------------------------------------------------------------------
(* The store's promise, as the detailed specification keeps it.            *)

Record == INSTANCE RunRecord WITH Runs <- Runs, status <- status, report <- report

RecordSpec == Record!Spec
=============================================================================
