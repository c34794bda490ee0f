------------------------------ MODULE Scheduler ------------------------------
(***************************************************************************)
(* The clock of the serving process: the sweep that starts due audits, the *)
(* schedule rows it advances, and the requests that edit, delete or overtake*)
(* it between its steps.                                                   *)
(*                                                                         *)
(* Time is relative, so that the state space is finite without a horizon:  *)
(* a row keeps how far its window is away, and the wall clock is kept      *)
(* modulo Cycle.  Time stands still while a sweep is under way, which takes*)
(* milliseconds against windows of at least a minute; it does not stand    *)
(* still while a request is between its read and its write.                *)
(***************************************************************************)
EXTENDS Integers, FiniteSets

CONSTANTS
    Datasets,
    Specs,      \* the schedules in use: [kind, gap, at]
    Tick,       \* schedule.tick, in units of time
    Cycle,      \* the wall clock's period, a multiple of every wall clock gap
    Editors,    \* concurrent PUT /schedule handlers
    Events      \* what else happens: see EventKinds

\* "post": somebody starts an audit by hand.   "fail": a call of the store fails.
\* "stop": the server is stopped and started.  "crash": it dies in mid-sweep.
\* "delete": a schedule is deleted.            "closeout": the row of an audit is
\* closed out under it, by a late StopRun or by another process that starts.
EventKinds == {"post", "fail", "stop", "crash", "delete", "closeout"}

ASSUME SpecsAssumption ==
    /\ IsFiniteSet(Specs) /\ Specs # {}
    /\ \A s \in Specs :
          /\ s.kind \in {"interval", "wallclock"}
          /\ s.gap \in Nat \ {0}
          /\ s.at \in 0..(s.gap - 1)
          /\ s.kind = "wallclock" => Cycle % s.gap = 0

ASSUME ClockAssumption ==
    /\ Tick \in Nat \ {0} /\ Cycle \in Nat \ {0}
    /\ Events \subseteq EventKinds

VARIABLES
    phase,     \* the wall clock, modulo Cycle
    ticker,    \* time until the ticker fires
    server,    \* "up", "stopping" once the signal has canceled every context, or "down"
    sched,     \* schedules: dataset |-> [spec, wait, error]
    sweep,     \* the sweep under way: [at, todo, on, started]
    auto,      \* how many runs the clock started the store has in flight, by dataset
    others,    \* datasets with any other row in flight: a posted run's, one a failed
               \* start left behind, one StartRun has opened again
    stray,     \* datasets with an audit that executes although its row is closed
    edit,      \* what each PUT handler is about to write
    since      \* history: time since the last start of each dataset that the clock
               \* recorded, by the schedule it has; an edit starts it afresh

timeVars == <<phase, ticker, server>>
runVars  == <<auto, others, stray>>
vars == <<phase, ticker, server, sched, sweep, auto, others, stray, edit, since>>

-----------------------------------------------------------------------------
(* package schedule.                                                       *)

\* A plausible bug: the step to the next day is always taken.
NextWindowAlwaysSteps(s, p) ==
    IF s.kind = "interval" THEN s.gap
    ELSE (s.gap - ((p + s.gap - s.at) % s.gap)) + s.gap

\* A plausible bug: the window found is at the given instant or after it.
NextWindowNotStrict(s, p) ==
    IF s.kind = "interval" THEN s.gap
    ELSE (s.gap - ((p + s.gap - s.at) % s.gap)) % s.gap

\* How far away a schedule's next window is, strictly after the instant p of
\* the wall clock.  A daily or weekly schedule keeps to its time of day.
NextWindow(s, p) ==
    IF s.kind = "interval" THEN s.gap
    ELSE s.gap - ((p + s.gap - s.at) % s.gap)

\* A window is older than its schedule's own period.
Overdue(e) == -e.wait > e.spec.gap

-----------------------------------------------------------------------------
MaxGap == CHOOSE g \in {s.gap : s \in Specs} : \A s \in Specs : s.gap <= g

\* Long enough ago for every property here.
LongAgo == MaxGap + Tick

None == [ds |-> "none"]

\* No sweep is under way; no row is about to be written.
Idle == [at |-> "idle", todo |-> {}, on |-> None, started |-> FALSE]

\* How a lateness ages.  Beyond Overdue, later makes no difference.
Older(s, w) == IF w >= -s.gap THEN w - 1 ELSE w

Init ==
    /\ phase = 0
    /\ ticker = Tick
    /\ server = "up"
    /\ \E f \in [Datasets -> Specs] :
          sched = [d \in Datasets |-> [spec |-> f[d], wait |-> NextWindow(f[d], 0),
                                       error |-> FALSE]]
    /\ sweep = Idle
    /\ auto = [d \in Datasets |-> 0]
    /\ others = {}
    /\ stray = {}
    /\ edit = [h \in Editors |-> None]
    /\ since = [d \in Datasets |-> LongAgo]

-----------------------------------------------------------------------------
(* sweep.                                                                  *)

\* Once the signal has come every call the clock makes of the store is canceled.
StoreFails == server = "stopping" \/ "fail" \in Events

\* A plausible bug: only runs somebody posted are looked for.
ActiveRunPosted(d) == d \in others

\* store.ActiveRun: a row pending or running, whoever started it.  It is the row
\* that is read: an audit may be executing all the same.
ActiveRun(d) == auto[d] > 0 \/ d \in others

\* The rows are read once, and the windows that have come are worked through
\* from the oldest on.
BeginSweep ==
    /\ server = "up" /\ sweep = Idle /\ ticker = 0
    /\ ticker' = Tick
    /\ LET due == {d \in DOMAIN sched : sched[d].wait <= 0} IN
       sweep' = [Idle EXCEPT !.at = "next",
                             !.todo = {[ds |-> d, spec |-> sched[d].spec,
                                        wait |-> sched[d].wait] : d \in due}]
    /\ UNCHANGED <<phase, server, sched, runVars, edit, since>>

\* The rows cannot be read: nothing is started this time.
SweepUnread ==
    /\ StoreFails
    /\ server # "down" /\ sweep = Idle /\ ticker = 0
    /\ ticker' = Tick
    /\ UNCHANGED <<phase, server, sched, sweep, runVars, edit, since>>

EndSweep ==
    /\ sweep.at = "next" /\ sweep.todo = {}
    /\ sweep' = Idle
    /\ UNCHANGED <<timeVars, sched, runVars, edit, since>>

IsNext(e) ==
    /\ sweep.at = "next"
    /\ e \in sweep.todo
    /\ \A x \in sweep.todo : e.wait <= x.wait

Skip(e) == sweep' = [sweep EXCEPT !.todo = @ \ {e}]

\* ScheduleFired: the row's window moves on from now, by the schedule that was
\* read; a row deleted meanwhile stays deleted.
Fired(e, error) ==
    sched' = IF e.ds \in DOMAIN sched
             THEN [sched EXCEPT ![e.ds].wait = NextWindow(e.spec, phase), ![e.ds].error = error]
             ELSE sched

\* The record is lost, and only a log line says so: the row stays as it was.
Unrecorded == StoreFails /\ UNCHANGED sched

Record(e, error) ==
    \/ server = "up" /\ Fired(e, error)
    \/ Unrecorded

Blocked(e) ==
    /\ IsNext(e)
    /\ Overdue(e) \/ ActiveRun(e.ds) \/ StoreFails
    /\ Record(e, TRUE)
    /\ Skip(e)
    /\ UNCHANGED <<timeVars, runVars, edit, since>>

\* A plausible bug: the window that was left due moves on like any other.
LeaveMoved(e) ==
    /\ server = "up" /\ IsNext(e)
    /\ ~Overdue(e) /\ ~ActiveRun(e.ds) /\ sweep.started
    /\ Skip(e)
    /\ Fired(e, FALSE)
    /\ UNCHANGED <<timeVars, runVars, edit, since>>

\* One audit has been started already: left due on purpose.
LeaveDue(e) ==
    /\ server = "up" /\ IsNext(e)
    /\ ~Overdue(e) /\ ~ActiveRun(e.ds) /\ sweep.started
    /\ Skip(e)
    /\ UNCHANGED <<timeVars, sched, runVars, edit, since>>

\* Nothing is in the way.  The run itself is created a moment later.
Clear(e) ==
    /\ server = "up" /\ IsNext(e)
    /\ ~Overdue(e) /\ ~ActiveRun(e.ds) /\ ~sweep.started
    /\ sweep' = [sweep EXCEPT !.at = "clear", !.todo = @ \ {e}, !.on = e]
    /\ UNCHANGED <<timeVars, sched, runVars, edit, since>>

\* Back to the windows after the one a run was tried for.
Resume(started) ==
    sweep' = [sweep EXCEPT !.at = "next", !.on = None, !.started = started]

\* The row is still the one the sweep read.
AsRead ==
    LET d == sweep.on.ds IN
    d \in DOMAIN sched /\ sched[d].spec = sweep.on.spec /\ sched[d].wait = sweep.on.wait

\* startRun succeeds.  It does not look at the dataset's path.
StartAudit ==
    /\ server = "up" /\ sweep.at = "clear"
    /\ sweep' = [sweep EXCEPT !.at = "started"]
    /\ auto' = [auto EXCEPT ![sweep.on.ds] = @ + 1]
    /\ since' = [since EXCEPT ![sweep.on.ds] = IF AsRead THEN 0 ELSE LongAgo]
    /\ UNCHANGED <<timeVars, sched, others, stray, edit>>

\* startRun returns an error: before it has made the row, or after, and then the
\* row stays in flight with nothing behind it.
StartFails ==
    /\ StoreFails
    /\ sweep.at = "clear"
    /\ others' \in {others, others \union {sweep.on.ds}}
    /\ Record(sweep.on, TRUE)
    /\ Resume(FALSE)
    /\ UNCHANGED <<timeVars, auto, stray, edit, since>>

RecordStart ==
    /\ server = "up" /\ sweep.at = "started"
    /\ Fired(sweep.on, FALSE)
    /\ Resume(TRUE)
    /\ UNCHANGED <<timeVars, runVars, edit, since>>

\* A start nobody recorded is forgotten, and its window comes again.
RecordFails ==
    /\ sweep.at = "started"
    /\ Unrecorded
    /\ since' = [since EXCEPT ![sweep.on.ds] = LongAgo]
    /\ Resume(TRUE)
    /\ UNCHANGED <<timeVars, runVars, edit>>

Sweep ==
    \/ BeginSweep \/ SweepUnread \/ EndSweep
    \/ \E e \in sweep.todo : Blocked(e) \/ LeaveDue(e) \/ Clear(e)
    \/ StartAudit \/ StartFails \/ RecordStart \/ RecordFails

-----------------------------------------------------------------------------
(* The requests.                                                           *)

\* handleSetSchedule: the window is counted from now, and what happened last
\* is read from the row there was.
EditRead(h, d, s) ==
    /\ server = "up" /\ edit[h] = None
    /\ edit' = [edit EXCEPT ![h] =
         [ds |-> d, spec |-> s, wait |-> NextWindow(s, phase),
          error |-> d \in DOMAIN sched /\ sched[d].error]]
    /\ UNCHANGED <<timeVars, sched, sweep, runVars, since>>

EditWrite(h) ==
    /\ server = "up" /\ edit[h] # None
    /\ LET new == edit[h] IN
       /\ sched' = [d \in DOMAIN sched \union {new.ds} |->
                       IF d = new.ds
                       THEN [spec |-> new.spec, wait |-> new.wait, error |-> new.error]
                       ELSE sched[d]]
       /\ since' = [since EXCEPT ![new.ds] = LongAgo]
    /\ edit' = [edit EXCEPT ![h] = None]
    /\ UNCHANGED <<timeVars, sweep, runVars>>

DeleteSchedule(d) ==
    /\ "delete" \in Events /\ server = "up"
    /\ sched' = [x \in DOMAIN sched \ {d} |-> sched[x]]
    /\ UNCHANGED <<timeVars, sweep, runVars, edit, since>>

\* POST /runs, and the run's end.
PostRun(d) ==
    /\ "post" \in Events /\ server = "up"
    /\ others' = others \union {d}
    /\ UNCHANGED <<timeVars, sched, sweep, auto, stray, edit, since>>

RunEnds(d) ==
    /\ \/ auto[d] > 0 /\ auto' = [auto EXCEPT ![d] = @ - 1] /\ UNCHANGED <<others, stray>>
       \/ d \in others /\ others' = others \ {d} /\ UNCHANGED <<auto, stray>>
       \/ d \in stray /\ stray' = stray \ {d} /\ UNCHANGED <<auto, others>>
    /\ UNCHANGED <<timeVars, sched, sweep, edit, since>>

\* A cancel handler that missed the run in the runner's map, or MarkInterrupted of
\* another process on the same directory, writes a row whose audit goes on.
CloseOut(d) ==
    /\ "closeout" \in Events /\ server # "down"
    /\ auto[d] > 0
    /\ auto' = [auto EXCEPT ![d] = @ - 1]
    /\ stray' = stray \union {d}
    /\ UNCHANGED <<timeVars, sched, sweep, others, edit, since>>

\* StartRun does not look at the status it writes over: an audit whose row was
\* closed before it began opens it again.
Reopen(d) ==
    /\ d \in stray
    /\ stray' = stray \ {d}
    /\ others' = others \union {d}
    /\ UNCHANGED <<timeVars, sched, sweep, auto, edit, since>>

-----------------------------------------------------------------------------
(* The process and the time.                                               *)

\* Whichever way the server goes, no run is in flight when it is back: a stop
\* cancels them and New's MarkInterrupted closes out the rest.
Down ==
    /\ server' = "down"
    /\ sweep' = Idle
    /\ auto' = [d \in Datasets |-> 0]
    /\ others' = {}
    /\ stray' = {}
    /\ edit' = [h \in Editors |-> None]
    /\ since' = IF sweep.at = "started" THEN [since EXCEPT ![sweep.on.ds] = LongAgo] ELSE since
    /\ UNCHANGED <<phase, ticker, sched>>

\* SIGINT or SIGTERM: main's context is the clock's and every request's, and it is
\* canceled in the middle of whatever they are doing.
Signal ==
    /\ "stop" \in Events /\ server = "up"
    /\ server' = "stopping"
    /\ UNCHANGED <<phase, ticker, sched, sweep, runVars, edit, since>>

\* Server.Close waits for the sweep; a crash does not.
Stop == server = "stopping" /\ sweep = Idle /\ Down

\* A crash between a start and its record forgets the start, and the window
\* comes again.
Crash == "crash" \in Events /\ server # "down" /\ Down

\* The first sweep is a tick away.
Boot ==
    /\ server = "down"
    /\ server' = "up"
    /\ ticker' = Tick
    /\ UNCHANGED <<phase, sched, sweep, runVars, edit, since>>

Advance ==
    /\ sweep = Idle
    /\ server = "up" => ticker > 0
    /\ phase' = (phase + 1) % Cycle
    /\ ticker' = IF server = "up" THEN ticker - 1 ELSE ticker
    /\ sched' = [d \in DOMAIN sched |-> [sched[d] EXCEPT !.wait = Older(sched[d].spec, @)]]
    /\ edit' = [h \in Editors |-> IF edit[h] = None THEN None
                                  ELSE [edit[h] EXCEPT !.wait = Older(edit[h].spec, @)]]
    /\ since' = [d \in Datasets |-> IF since[d] < LongAgo THEN since[d] + 1 ELSE LongAgo]
    /\ UNCHANGED <<server, sweep, runVars>>

Next ==
    \/ Sweep
    \/ \E h \in Editors : EditWrite(h) \/ \E d \in Datasets, s \in Specs : EditRead(h, d, s)
    \/ \E d \in Datasets : DeleteSchedule(d) \/ PostRun(d) \/ RunEnds(d)
    \/ \E d \in Datasets : CloseOut(d) \/ Reopen(d)
    \/ Signal \/ Stop \/ Crash \/ Boot \/ Advance

\* Time passes, the ticker is served and every audit ends.
Fairness ==
    /\ WF_vars(Advance) /\ WF_vars(Sweep)
    /\ \A d \in Datasets : WF_vars(RunEnds(d))

Spec == Init /\ [][Next]_vars

FairSpec == Spec /\ Fairness

-----------------------------------------------------------------------------
(* Properties.                                                             *)

TypeOK ==
    /\ phase \in 0..(Cycle - 1)
    /\ ticker \in 0..Tick
    /\ server \in {"up", "stopping", "down"}
    /\ DOMAIN sched \subseteq Datasets
    /\ \A d \in DOMAIN sched :
          /\ sched[d].spec \in Specs
          /\ sched[d].wait \in (-MaxGap - 1)..MaxGap
          /\ sched[d].error \in BOOLEAN
    /\ sweep.at \in {"idle", "next", "clear", "started"}
    /\ auto \in [Datasets -> 0..2]
    /\ others \subseteq Datasets /\ stray \subseteq Datasets
    /\ \A h \in Editors : edit[h].ds \in Datasets \union {"none"}
    /\ since \in [Datasets -> 0..LongAgo]

\* The clock starts an audit of d in this step.
Starts(d) == auto'[d] > auto[d]

\* A window whose start is recorded has fired: an interval is at least its gap
\* after the recorded start before it, and a time of day comes once between one such
\* time and the next, however the server is stopped and started and whatever else is
\* audited.  A start that a crash, a stop or a failing store kept ScheduleFired from
\* recording is not counted, and its window does fire again.
OnceAPeriod ==
    [][\A d \in Datasets : Starts(d) =>
         LET s == sweep.on.spec IN
         since[d] > (IF s.kind = "interval" THEN s.gap - 1
                     ELSE (phase + s.gap - s.at) % s.gap)]_vars

\* A schedule slower than its own window does not stack: of the audits of a dataset
\* that the clock started, at most one is in flight with its row as the clock left
\* it, through edits, hand-started runs, failures, stops and crashes between the look
\* and the start.  An audit whose row somebody else has closed is not seen, and the
\* next window does start another beside it.
ScheduledNeverStack == \A d \in Datasets : auto[d] <= 1

\* A schedule nobody edits waits for a window of its own kind: it is never
\* further away than the schedule's period.
DueWithinPeriod ==
    \A d \in DOMAIN sched : sched[d].wait <= sched[d].spec.gap

\* A sweep comes to d's window in time: it starts an audit of d, or finds one
\* running.
Attends(d) ==
    \/ Starts(d)
    \/ \E e \in sweep.todo : e.ds = d /\ e \notin sweep'.todo /\ ~Overdue(e) /\ ActiveRun(d)

\* Nothing is starved: however the datasets' windows fall and whoever else asks
\* for audits, the clock attends to every schedule again and again.
NothingStarves == \A d \in Datasets : []<><<Attends(d)>>_vars

=============================================================================
