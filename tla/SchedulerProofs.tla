-------------------------- MODULE SchedulerProofs --------------------------
(***************************************************************************)
(* What the sweep keeps for any number of datasets, any schedules and any  *)
(* tick: it never stacks audits of one dataset, a window fires once, and,  *)
(* as long as nobody edits a schedule, every window is within its          *)
(* schedule's period.                                                      *)
(***************************************************************************)
EXTENDS Scheduler, NatLemmas, FiniteSetTheorems, TLAPS

-----------------------------------------------------------------------------
(* Scheduled audits do not stack.                                          *)

SweepRecord ==
    sweep = [at |-> sweep.at, todo |-> sweep.todo, on |-> sweep.on, started |-> sweep.started]

\* Between the look for a run in flight and the start of another, the clock
\* itself starts none: the look is still good for the clock's own runs.
NoStackInv ==
    /\ auto \in [Datasets -> 0..1]
    /\ SweepRecord
    /\ \A d \in Datasets : sweep.at = "clear" /\ sweep.on.ds = d => auto[d] = 0

LEMMA NoStackInit == Init => NoStackInv
  BY DEF Init, NoStackInv, SweepRecord, Idle

\* The sweep goes on to something other than starting an audit.
LEMMA GoesOn ==
    ASSUME NoStackInv, UNCHANGED auto, NEW at, at # "clear", NEW todo, NEW on, NEW started,
           sweep' = [at |-> at, todo |-> todo, on |-> on, started |-> started]
    PROVE  NoStackInv'
  BY DEF NoStackInv, SweepRecord

LEMMA SweepNoStack == ASSUME NoStackInv, Sweep PROVE NoStackInv'
  <1> USE DEF NoStackInv
  <1>0. SweepRecord OBVIOUS
  <1>1. CASE BeginSweep
    <2>1. \E todo : sweep' = [at |-> "next", todo |-> todo, on |-> None, started |-> FALSE]
      BY <1>1 DEF BeginSweep, Idle
    <2>2. UNCHANGED auto
      BY <1>1 DEF BeginSweep, runVars
    <2> QED BY <2>1, <2>2, GoesOn
  <1>2. CASE EndSweep
    BY <1>2, GoesOn DEF EndSweep, Idle, runVars
  <1>3. ASSUME NEW e \in sweep.todo, Blocked(e) \/ LeaveDue(e) PROVE NoStackInv'
    <2>1. sweep.at = "next" /\ sweep' = [sweep EXCEPT !.todo = @ \ {e}] /\ UNCHANGED auto
      BY <1>3 DEF Blocked, LeaveDue, IsNext, Skip, runVars
    <2>2. sweep' = [at |-> "next", todo |-> sweep.todo \ {e}, on |-> sweep.on,
                    started |-> sweep.started]
      BY <1>0, <2>1 DEF SweepRecord
    <2> QED BY <2>1, <2>2, GoesOn
  <1>4. ASSUME NEW e \in sweep.todo, Clear(e) PROVE NoStackInv'
    <2>1. /\ ~ActiveRun(e.ds) /\ UNCHANGED auto
          /\ sweep' = [sweep EXCEPT !.at = "clear", !.todo = @ \ {e}, !.on = e]
      BY <1>4 DEF Clear, runVars
    <2>2. sweep' = [at |-> "clear", todo |-> sweep.todo \ {e}, on |-> e, started |-> sweep.started]
      BY <1>0, <2>1 DEF SweepRecord
    <2>3. \A d \in Datasets : d = e.ds => auto[d] = 0
      BY <2>1 DEF ActiveRun
    <2> QED BY <2>1, <2>2, <2>3 DEF SweepRecord
  <1>5. CASE StartAudit
    <2>1. /\ sweep.at = "clear" /\ auto' = [auto EXCEPT ![sweep.on.ds] = @ + 1]
          /\ sweep' = [sweep EXCEPT !.at = "started"]
      BY <1>5 DEF StartAudit
    <2>2. sweep' = [at |-> "started", todo |-> sweep.todo, on |-> sweep.on, started |-> sweep.started]
      BY <1>0, <2>1 DEF SweepRecord
    <2>3. auto' \in [Datasets -> 0..1]
      <3>1. CASE sweep.on.ds \in Datasets
        <4>1. auto[sweep.on.ds] = 0 BY <2>1, <3>1
        <4> QED BY <2>1, <3>1, <4>1
      <3>2. CASE sweep.on.ds \notin Datasets
        <4>1. auto' = auto BY <2>1, <3>2
        <4> QED BY <4>1
      <3> QED BY <3>1, <3>2
    <2> QED BY <2>2, <2>3 DEF SweepRecord
  <1>6. CASE StartFails \/ RecordStart \/ RecordFails
    <2>1. UNCHANGED auto
      BY <1>6 DEF StartFails, RecordStart, RecordFails, runVars
    <2>2. \E b \in BOOLEAN : sweep' = [sweep EXCEPT !.at = "next", !.on = None, !.started = b]
      BY <1>6 DEF StartFails, RecordStart, RecordFails, Resume
    <2>3. \E b \in BOOLEAN :
            sweep' = [at |-> "next", todo |-> sweep.todo, on |-> None, started |-> b]
      BY <1>0, <2>2 DEF SweepRecord
    <2> QED BY <2>1, <2>3, GoesOn
  <1>7. CASE SweepUnread
    BY <1>7 DEF SweepUnread, SweepRecord, runVars
  <1> QED BY <1>1, <1>2, <1>3, <1>4, <1>5, <1>6, <1>7 DEF Sweep

LEMMA NextNoStack == ASSUME NoStackInv, [Next]_vars PROVE NoStackInv'
  <1>1. CASE Sweep BY <1>1, SweepNoStack
  <1>2. ASSUME NEW d \in Datasets, RunEnds(d) \/ CloseOut(d) PROVE NoStackInv'
    <2>1. UNCHANGED sweep /\ (auto' = auto \/ (auto[d] > 0 /\ auto' = [auto EXCEPT ![d] = @ - 1]))
      BY <1>2 DEF RunEnds, CloseOut
    <2>2. \A x \in Datasets : auto'[x] = auto[x] \/ (x = d /\ auto[d] > 0 /\ auto'[x] = auto[d] - 1)
      BY <2>1 DEF NoStackInv
    <2>3. auto' \in [Datasets -> 0..1]
      BY <2>1, <2>2 DEF NoStackInv
    <2> QED BY <2>1, <2>2, <2>3 DEF NoStackInv, SweepRecord
  <1>3. CASE Down
    <2>1. auto' = [d \in Datasets |-> 0] /\ sweep' = Idle
      BY <1>3 DEF Down
    <2> QED BY <2>1 DEF NoStackInv, SweepRecord, Idle
  <1>4. CASE UNCHANGED <<auto, sweep>>
    BY <1>4 DEF NoStackInv, SweepRecord
  <1>5. ASSUME NEW h \in Editors, EditWrite(h) \/ \E d \in Datasets, s \in Specs : EditRead(h, d, s)
        PROVE  UNCHANGED <<auto, sweep>>
    BY <1>5 DEF EditWrite, EditRead, runVars
  <1>6. ASSUME NEW d \in Datasets, DeleteSchedule(d) \/ PostRun(d) \/ Reopen(d)
        PROVE  UNCHANGED <<auto, sweep>>
    BY <1>6 DEF DeleteSchedule, PostRun, Reopen, runVars
  <1>7. Boot \/ Signal \/ Advance \/ UNCHANGED vars => UNCHANGED <<auto, sweep>>
    BY DEF Boot, Signal, Advance, runVars, vars
  <1> QED BY <1>1, <1>2, <1>3, <1>4, <1>5, <1>6, <1>7 DEF Next, Stop, Crash

\* Of the audits of one dataset the clock started, at most one is in flight with its row
\* as the clock left it, whatever the schedules and the tick, and whatever edits,
\* hand-started runs, failures, stops, crashes and rows closed out by somebody else come
\* between the look and the start.
THEOREM ScheduledNeverStacks == Spec => []ScheduledNeverStack
  <1>1. ASSUME NoStackInv PROVE ScheduledNeverStack
    <2>1. \A d \in Datasets : auto[d] \in 0..1 BY <1>1 DEF NoStackInv
    <2>2. \A n \in 0..1 : n <= 1 OBVIOUS
    <2> QED BY <2>1, <2>2 DEF ScheduledNeverStack
  <1> QED BY <1>1, NoStackInit, NextNoStack, PTL DEF Spec

\* So what the clock has executing stacks only over a row that somebody else closed: where
\* nobody does, no audit executes that the store does not have in flight, and there is at
\* most one.
THEOREM OnlyClosedRowsStack ==
    ASSUME "closeout" \notin Events
    PROVE  Spec => [](stray = {} /\ ScheduledNeverStack)
  <1> DEFINE NoStray == stray = {}
  <1>1. Init => NoStray
    BY DEF Init
  <1>2. NoStray /\ [Next]_vars => NoStray'
    <2> SUFFICES ASSUME stray = {}, [Next]_vars PROVE stray' = {}
      OBVIOUS
    <2>1. CASE Sweep
      BY <2>1 DEF Sweep, BeginSweep, SweepUnread, EndSweep, Blocked, LeaveDue, Clear, StartAudit,
                  StartFails, RecordStart, RecordFails, runVars
    <2>2. ASSUME NEW d \in Datasets,
                 DeleteSchedule(d) \/ PostRun(d) \/ RunEnds(d) \/ CloseOut(d) \/ Reopen(d)
          PROVE  stray' = {}
      BY <2>2 DEF DeleteSchedule, PostRun, RunEnds, CloseOut, Reopen, runVars
    <2>3. ASSUME NEW h \in Editors, EditWrite(h) \/ \E d \in Datasets, s \in Specs : EditRead(h, d, s)
          PROVE  stray' = {}
      BY <2>3 DEF EditWrite, EditRead, runVars
    <2>4. CASE Signal \/ Stop \/ Crash \/ Boot \/ Advance \/ UNCHANGED vars
      BY <2>4 DEF Signal, Stop, Crash, Down, Boot, Advance, runVars, vars
    <2> QED BY <2>1, <2>2, <2>3, <2>4 DEF Next
  <1>3. Spec => []NoStray
    <2> HIDE DEF NoStray
    <2> QED BY <1>1, <1>2, PTL DEF Spec
  <1> QED BY <1>3, ScheduledNeverStacks, PTL

-----------------------------------------------------------------------------
(* Windows are within their period, when nobody edits a schedule.          *)

\* What Next promises of a schedule: a window ahead, within one period.
LEMMA NextWindowInPeriod ==
    ASSUME NEW s \in Specs, NEW p \in Int
    PROVE  NextWindow(s, p) \in 1..s.gap
  <1>1. s.gap \in Nat \ {0} /\ s.at \in Int
    BY SpecsAssumption
  <1>2. (p + s.gap - s.at) % s.gap \in 0..(s.gap - 1)
    BY <1>1
  <1>3. CASE s.kind = "interval"
    BY <1>1, <1>3 DEF NextWindow
  <1>4. CASE s.kind # "interval"
    BY <1>1, <1>2, <1>4 DEF NextWindow
  <1> QED BY <1>3, <1>4

SchedType ==
    /\ phase \in Int
    /\ sched \in [DOMAIN sched -> [spec : Specs, wait : Int, error : BOOLEAN]]

\* A window that was read is one of the schedule as it is.
IsAsRead(e) == e.ds \in DOMAIN sched => sched[e.ds].spec = e.spec

DueInv ==
    /\ SchedType /\ SweepRecord /\ DueWithinPeriod
    /\ \A e \in sweep.todo : e.spec \in Specs /\ IsAsRead(e)
    /\ sweep.at \in {"clear", "started"} => sweep.on.spec \in Specs /\ IsAsRead(sweep.on)

\* The record of a sweep moves a window to within its schedule's period.
LEMMA FiredInPeriod ==
    ASSUME DueInv, NEW e, e.spec \in Specs, IsAsRead(e), NEW error \in BOOLEAN, Fired(e, error)
    PROVE  /\ DOMAIN sched' = DOMAIN sched
           /\ sched' \in [DOMAIN sched -> [spec : Specs, wait : Int, error : BOOLEAN]]
           /\ \A d \in DOMAIN sched : sched'[d].spec = sched[d].spec
           /\ DueWithinPeriod'
  <1> DEFINE next == NextWindow(e.spec, phase)
  <1>1. next \in Int /\ next <= e.spec.gap
    BY NextWindowInPeriod, SpecsAssumption DEF DueInv, SchedType
  <1>2. sched \in [DOMAIN sched -> [spec : Specs, wait : Int, error : BOOLEAN]]
    BY DEF DueInv, SchedType
  <1>3. CASE e.ds \notin DOMAIN sched
    <2>1. sched' = sched BY <1>3 DEF Fired
    <2> QED BY <1>2, <2>1 DEF DueInv, DueWithinPeriod
  <1>4. CASE e.ds \in DOMAIN sched
    <2>1. sched' = [sched EXCEPT ![e.ds].wait = next, ![e.ds].error = error]
      BY <1>4 DEF Fired
    <2>2. sched[e.ds].spec = e.spec
      BY <1>4 DEF IsAsRead
    <2> HIDE DEF next
    <2>3. DOMAIN sched' = DOMAIN sched
      BY <1>2, <2>1
    <2>4. \A d \in DOMAIN sched :
            sched'[d] = IF d = e.ds THEN [spec |-> e.spec, wait |-> next, error |-> error] ELSE sched[d]
      BY <1>2, <2>1, <2>2, <2>3
    <2>5. sched' \in [DOMAIN sched -> [spec : Specs, wait : Int, error : BOOLEAN]]
      <3>1. \A d \in DOMAIN sched : sched'[d] \in [spec : Specs, wait : Int, error : BOOLEAN]
        <4>1. \A d \in DOMAIN sched : sched[d] \in [spec : Specs, wait : Int, error : BOOLEAN]
          BY <1>2
        <4>2. [spec |-> e.spec, wait |-> next, error |-> error]
                \in [spec : Specs, wait : Int, error : BOOLEAN]
          BY <1>1
        <4> QED BY <2>4, <4>1, <4>2
      <3>2. sched' = [d \in DOMAIN sched |-> sched'[d]]
        BY <1>2, <2>1
      <3> QED BY <3>1, <3>2
    <2>6. \A d \in DOMAIN sched : sched'[d].spec = sched[d].spec
      BY <2>2, <2>4
    <2>7. DueWithinPeriod'
      BY <1>1, <2>3, <2>4, <2>6 DEF DueInv, DueWithinPeriod
    <2> QED BY <2>3, <2>5, <2>6, <2>7
  <1> QED BY <1>3, <1>4

\* What keeps the invariant: schedules keep their spec, windows their period,
\* and the sweep what it has read.
LEMMA DueKept ==
    ASSUME DueInv, SchedType', SweepRecord', DueWithinPeriod',
           DOMAIN sched' \subseteq DOMAIN sched,
           \A d \in DOMAIN sched' : sched'[d].spec = sched[d].spec,
           \A e \in sweep'.todo : e \in sweep.todo \/ (e.spec \in Specs /\ IsAsRead(e)),
           sweep'.at \in {"clear", "started"} =>
               \/ sweep'.on \in sweep.todo
               \/ sweep'.on = sweep.on /\ sweep.at \in {"clear", "started"}
    PROVE  DueInv'
  <1>1. \A e \in sweep'.todo : e.spec \in Specs /\ IsAsRead(e)'
    BY DEF DueInv, IsAsRead
  <1>2. sweep'.at \in {"clear", "started"} => sweep'.on.spec \in Specs /\ IsAsRead(sweep.on)'
    <2>1. CASE sweep'.on \in sweep.todo
      BY <2>1 DEF DueInv, IsAsRead
    <2>2. CASE sweep'.on = sweep.on /\ sweep.at \in {"clear", "started"}
      BY <2>2 DEF DueInv, IsAsRead
    <2> QED BY <2>1, <2>2
  <1> QED BY <1>1, <1>2 DEF DueInv

LEMMA DueInit == Init => DueInv
  <1> SUFFICES ASSUME Init PROVE DueInv
    OBVIOUS
  <1>1. PICK f \in [Datasets -> Specs] :
          sched = [d \in Datasets |-> [spec |-> f[d], wait |-> NextWindow(f[d], 0), error |-> FALSE]]
    BY DEF Init
  <1>2. \A d \in Datasets : NextWindow(f[d], 0) \in Int /\ NextWindow(f[d], 0) <= f[d].gap
    <2> TAKE d \in Datasets
    <2>1. f[d] \in Specs OBVIOUS
    <2> QED BY <2>1, NextWindowInPeriod, SpecsAssumption
  <1>3. SchedType /\ DueWithinPeriod
    BY <1>1, <1>2 DEF Init, SchedType, DueWithinPeriod
  <1> QED BY <1>3 DEF Init, DueInv, SweepRecord, Idle

\* The steps of a sweep that write no row.
LEMMA LookKeeps ==
    ASSUME DueInv, UNCHANGED <<phase, sched>>, SweepRecord',
           \A e \in sweep'.todo : e \in sweep.todo \/ (e.spec \in Specs /\ IsAsRead(e)),
           sweep'.at \in {"clear", "started"} =>
               \/ sweep'.on \in sweep.todo
               \/ sweep'.on = sweep.on /\ sweep.at \in {"clear", "started"}
    PROVE  DueInv'
  <1>1. SchedType' /\ DueWithinPeriod'
    BY DEF DueInv, SchedType, DueWithinPeriod
  <1> QED BY <1>1, DueKept

\* The steps that do, and are back at the windows after it.
LEMMA RecordKeeps ==
    ASSUME DueInv, NEW e, e.spec \in Specs, IsAsRead(e), NEW error \in BOOLEAN, Fired(e, error),
           UNCHANGED phase, SweepRecord', sweep'.at = "next", sweep'.todo \subseteq sweep.todo
    PROVE  DueInv'
  <1>1. /\ DOMAIN sched' = DOMAIN sched
        /\ sched' \in [DOMAIN sched -> [spec : Specs, wait : Int, error : BOOLEAN]]
        /\ \A d \in DOMAIN sched : sched'[d].spec = sched[d].spec
        /\ DueWithinPeriod'
    BY FiredInPeriod
  <1>2. SchedType' BY <1>1 DEF DueInv, SchedType
  <1> QED BY <1>1, <1>2, DueKept

LEMMA SweepDue == ASSUME DueInv, Sweep PROVE DueInv'
  <1>0. SweepRecord BY DEF DueInv
  <1>1. CASE BeginSweep
    <2> DEFINE todo == {[ds |-> d, spec |-> sched[d].spec, wait |-> sched[d].wait] :
                          d \in {x \in DOMAIN sched : sched[x].wait <= 0}}
    <2>1. /\ sweep' = [at |-> "next", todo |-> todo, on |-> None, started |-> FALSE]
          /\ UNCHANGED <<phase, sched>>
      BY <1>1 DEF BeginSweep, Idle
    <2>2. \A e \in todo : e.spec \in Specs /\ IsAsRead(e)
      BY DEF DueInv, SchedType, IsAsRead
    <2> HIDE DEF todo
    <2>3. SweepRecord' BY <2>1 DEF SweepRecord
    <2> QED BY <2>1, <2>2, <2>3, LookKeeps
  <1>2. CASE EndSweep
    BY <1>2, LookKeeps DEF EndSweep, Idle, timeVars, SweepRecord
  <1>3. ASSUME NEW e \in sweep.todo, Blocked(e) PROVE DueInv'
    <2>1. /\ sweep.at = "next" /\ sweep' = [sweep EXCEPT !.todo = @ \ {e}]
          /\ Fired(e, TRUE) \/ UNCHANGED sched
          /\ UNCHANGED phase
      BY <1>3 DEF Blocked, Record, Unrecorded, IsNext, Skip, timeVars
    <2>2. sweep' = [at |-> "next", todo |-> sweep.todo \ {e}, on |-> sweep.on,
                    started |-> sweep.started]
      BY <1>0, <2>1 DEF SweepRecord
    <2>3. SweepRecord' BY <2>2 DEF SweepRecord
    <2>4. e.spec \in Specs /\ IsAsRead(e) BY DEF DueInv
    <2>5. CASE Fired(e, TRUE)
      BY <2>1, <2>2, <2>3, <2>4, <2>5, RecordKeeps
    <2>6. CASE UNCHANGED sched
      BY <2>1, <2>2, <2>3, <2>6, LookKeeps
    <2> QED BY <2>1, <2>5, <2>6
  <1>4. ASSUME NEW e \in sweep.todo, LeaveDue(e) \/ Clear(e) PROVE DueInv'
    <2>1. /\ UNCHANGED <<phase, sched>> /\ sweep.at = "next"
          /\ \/ sweep' = [sweep EXCEPT !.todo = @ \ {e}]
             \/ sweep' = [sweep EXCEPT !.at = "clear", !.todo = @ \ {e}, !.on = e]
      BY <1>4 DEF LeaveDue, Clear, IsNext, Skip, timeVars
    <2>2. \/ sweep' = [at |-> "next", todo |-> sweep.todo \ {e}, on |-> sweep.on,
                       started |-> sweep.started]
          \/ sweep' = [at |-> "clear", todo |-> sweep.todo \ {e}, on |-> e,
                       started |-> sweep.started]
      BY <1>0, <2>1 DEF SweepRecord
    <2>3. SweepRecord' BY <2>2 DEF SweepRecord
    <2> QED BY <2>1, <2>2, <2>3, LookKeeps
  <1>5. CASE StartAudit
    <2>1. /\ UNCHANGED <<phase, sched>> /\ sweep.at = "clear"
          /\ sweep' = [sweep EXCEPT !.at = "started"]
      BY <1>5 DEF StartAudit, timeVars
    <2>2. sweep' = [at |-> "started", todo |-> sweep.todo, on |-> sweep.on,
                    started |-> sweep.started]
      BY <1>0, <2>1 DEF SweepRecord
    <2>3. SweepRecord' BY <2>2 DEF SweepRecord
    <2> QED BY <2>1, <2>2, <2>3, LookKeeps
  <1>6. CASE StartFails \/ RecordStart \/ RecordFails
    <2>1. /\ sweep.at \in {"clear", "started"} /\ UNCHANGED phase
          /\ (\E error \in BOOLEAN : Fired(sweep.on, error)) \/ UNCHANGED sched
          /\ \E b \in BOOLEAN : sweep' = [sweep EXCEPT !.at = "next", !.on = None, !.started = b]
      BY <1>6 DEF StartFails, RecordStart, RecordFails, Record, Unrecorded, Resume, timeVars
    <2>2. \E b \in BOOLEAN :
            sweep' = [at |-> "next", todo |-> sweep.todo, on |-> None, started |-> b]
      BY <1>0, <2>1 DEF SweepRecord
    <2>3. SweepRecord' /\ sweep'.at = "next" /\ sweep'.todo = sweep.todo
      BY <2>2 DEF SweepRecord
    <2>4. sweep.on.spec \in Specs /\ IsAsRead(sweep.on)
      BY <2>1 DEF DueInv
    <2>5. CASE \E error \in BOOLEAN : Fired(sweep.on, error)
      BY <2>1, <2>3, <2>4, <2>5, RecordKeeps
    <2>6. CASE UNCHANGED sched
      BY <2>1, <2>3, <2>6, LookKeeps
    <2> QED BY <2>1, <2>5, <2>6
  <1>7. CASE SweepUnread
    <2>1. UNCHANGED <<phase, sched, sweep>>
      BY <1>7 DEF SweepUnread
    <2>2. SweepRecord'
      BY <1>0, <2>1 DEF SweepRecord
    <2> QED BY <2>1, <2>2, LookKeeps
  <1> QED BY <1>1, <1>2, <1>3, <1>4, <1>5, <1>6, <1>7 DEF Sweep

\* Time only brings a window nearer.
LEMMA AdvanceDue == ASSUME DueInv, Advance PROVE DueInv'
  <1>1. /\ sched \in [DOMAIN sched -> [spec : Specs, wait : Int, error : BOOLEAN]]
        /\ phase \in Int
    BY DEF DueInv, SchedType
  <1>2. /\ sched' = [d \in DOMAIN sched |-> [sched[d] EXCEPT !.wait = Older(sched[d].spec, @)]]
        /\ UNCHANGED sweep /\ phase' = (phase + 1) % Cycle
    BY DEF Advance
  <1>3. \A d \in DOMAIN sched :
          /\ sched'[d].spec = sched[d].spec
          /\ sched'[d] \in [spec : Specs, wait : Int, error : BOOLEAN]
          /\ sched'[d].wait <= sched[d].wait
    <2> TAKE d \in DOMAIN sched
    <2>1. sched[d] \in [spec : Specs, wait : Int, error : BOOLEAN] BY <1>1
    <2>2. /\ Older(sched[d].spec, sched[d].wait) \in Int
          /\ Older(sched[d].spec, sched[d].wait) <= sched[d].wait
      BY <2>1, SpecsAssumption DEF Older
    <2>3. sched'[d] = [spec |-> sched[d].spec, wait |-> Older(sched[d].spec, sched[d].wait),
                       error |-> sched[d].error]
      BY <1>2, <2>1
    <2> QED BY <2>1, <2>2, <2>3
  <1>4. SchedType'
    <2>1. phase' \in Int BY <1>1, <1>2, ClockAssumption
    <2> QED BY <1>2, <1>3, <2>1 DEF SchedType
  <1>5. DueWithinPeriod'
    <2> SUFFICES ASSUME NEW d \in DOMAIN sched PROVE sched'[d].wait <= sched'[d].spec.gap
      BY <1>2 DEF DueWithinPeriod
    <2>1. sched[d].wait <= sched[d].spec.gap BY DEF DueInv, DueWithinPeriod
    <2>2. sched[d].wait \in Int /\ sched[d].spec.gap \in Int /\ sched'[d].wait \in Int
      BY <1>1, <1>3, SpecsAssumption
    <2> QED BY <1>3, <2>1, <2>2
  <1>6. SweepRecord' BY <1>2 DEF DueInv, SweepRecord
  <1> QED BY <1>2, <1>3, <1>4, <1>5, <1>6, DueKept

LEMMA NextDue == ASSUME Editors = {}, DueInv, [Next]_vars PROVE DueInv'
  <1>1. CASE Sweep BY <1>1, SweepDue
  <1>2. CASE Advance BY <1>2, AdvanceDue
  <1>3. CASE Down
    <2>1. UNCHANGED <<phase, sched>> /\ sweep' = Idle BY <1>3 DEF Down
    <2>2. SweepRecord' BY <2>1 DEF SweepRecord, Idle
    <2> QED BY <2>1, <2>2, LookKeeps DEF Idle
  <1>4. ASSUME NEW d \in Datasets, DeleteSchedule(d) PROVE DueInv'
    <2>1. /\ UNCHANGED <<phase, sweep>>
          /\ sched' = [x \in DOMAIN sched \ {d} |-> sched[x]]
      BY <1>4 DEF DeleteSchedule, timeVars
    <2>2. SchedType' /\ DueWithinPeriod' /\ SweepRecord'
      BY <2>1 DEF DueInv, SchedType, DueWithinPeriod, SweepRecord
    <2> QED BY <2>1, <2>2, DueKept
  <1>5. ASSUME UNCHANGED <<phase, sched, sweep>> PROVE DueInv'
    <2>1. SweepRecord' BY <1>5 DEF DueInv, SweepRecord
    <2> QED BY <1>5, <2>1, LookKeeps
  <1>6. ASSUME NEW d \in Datasets, PostRun(d) \/ RunEnds(d) \/ CloseOut(d) \/ Reopen(d)
        PROVE  UNCHANGED <<phase, sched, sweep>>
    BY <1>6 DEF PostRun, RunEnds, CloseOut, Reopen, timeVars
  <1>7. Boot \/ Signal \/ UNCHANGED vars => UNCHANGED <<phase, sched, sweep>>
    BY DEF Boot, Signal, vars
  <1> QED BY <1>1, <1>2, <1>3, <1>4, <1>5, <1>6, <1>7 DEF Next, Stop, Crash

\* As long as nobody edits a schedule, none waits longer than its own period,
\* however late the sweeps are and wherever the server stops or dies.
THEOREM AlwaysDueWithinPeriod ==
    ASSUME Editors = {}
    PROVE  Spec => []DueWithinPeriod
  <1>1. DueInv => DueWithinPeriod
    BY DEF DueInv
  <1>2. DueInv /\ [Next]_vars => DueInv'
    BY NextDue
  <1> QED BY <1>1, <1>2, DueInit, PTL DEF Spec

-----------------------------------------------------------------------------
(* A window fires once.                                                    *)

\* The window w away, of the schedule s, is one that the start n ago has not served: an
\* interval's a whole gap after it, a time of day's at such a time and after it.
Unserved(s, w, n, p) ==
    IF s.kind = "interval" THEN n + w >= s.gap
    ELSE n + w > 0 /\ (w >= -s.gap => \E k \in Int : p + w - s.at = k * s.gap)

Fits(s, w, d) == since[d] = LongAgo \/ Unserved(s, w, since[d], phase)

\* What a sweep has read of a window that came, and not yet gone through.
Pending(e) ==
    /\ e.ds \in Datasets /\ e.spec \in Specs /\ e.wait \in Int
    /\ e.wait <= 0 /\ Fits(e.spec, e.wait, e.ds)

\* The row the window was read from has the schedule it had, or was written afresh.
StillRead(e) ==
    e.ds \in DOMAIN sched => sched[e.ds].spec = e.spec \/ since[e.ds] = LongAgo

Writes == [ds : Datasets, spec : Specs, wait : Int, error : BOOLEAN]

ClockType ==
    /\ phase \in 0..(Cycle - 1)
    /\ sched \in [DOMAIN sched -> [spec : Specs, wait : Int, error : BOOLEAN]]
    /\ DOMAIN sched \subseteq Datasets
    /\ since \in [Datasets -> 0..LongAgo]
    /\ edit \in [Editors -> Writes \union {None}]

\* Nothing that comes up in a sweep comes up twice.
TodoInv ==
    /\ \A e \in sweep.todo : Pending(e) /\ StillRead(e)
    /\ \A e, x \in sweep.todo : e.ds = x.ds => e = x

\* What it has in its hands has come, is not too old, and is off the list.
OnInv ==
    /\ sweep.at = "clear" => Pending(sweep.on) /\ ~Overdue(sweep.on)
    /\ sweep.at \in {"clear", "started"} =>
          /\ sweep.on.ds \in Datasets /\ sweep.on.spec \in Specs
          /\ StillRead(sweep.on)
          /\ \A e \in sweep.todo : e.ds # sweep.on.ds

\* Between a start and its record the row is behind, and only then.
RowInv ==
    \A d \in DOMAIN sched :
       \/ Fits(sched[d].spec, sched[d].wait, d)
       \/ sweep.at = "started" /\ sweep.on.ds = d

\* Every window that has come, in its row, in the sweep's list or in its hands, is one
\* that no start has served.
OnceInv ==
    /\ ClockType /\ SweepRecord
    /\ sweep.at \in {"idle", "next", "clear", "started"}
    /\ sweep.at = "idle" => sweep = Idle
    /\ TodoInv /\ OnInv /\ RowInv

-----------------------------------------------------------------------------
(* How far windows are away.                                               *)

LEMMA GapsAreBounded == MaxGap \in Nat /\ \A s \in Specs : s.gap <= MaxGap
<1> DEFINE N == Cardinality(Specs)
           Gaps == {s.gap : s \in Specs}
<1>1. N \in Nat /\ ExistsBijection(1..N, Specs)
  BY SpecsAssumption, FS_CardinalityType
<1> HIDE DEF N
<1>2. PICK f \in [1..N -> Specs] : \A s \in Specs : \E n \in 1..N : f[n] = s
  BY <1>1 DEF ExistsBijection, Bijection, Injection, Surjection
<1> DEFINE T == {n \in 0..N : \E b \in Nat : \A m \in 1..n : f[m].gap <= b}
<1>3. 0 \in T
  BY <1>1
<1>4. \A n \in 1..N : n - 1 \in T => n \in T
  <2> SUFFICES ASSUME NEW n \in 1..N, n - 1 \in T PROVE n \in T
    OBVIOUS
  <2>1. PICK b \in Nat : \A m \in 1..(n - 1) : f[m].gap <= b
    OBVIOUS
  <2>2. f[n].gap \in Nat /\ n \in 0..N
    BY <1>1, SpecsAssumption
  <2> DEFINE c == b + f[n].gap
  <2>3. c \in Nat /\ b <= c /\ f[n].gap <= c
    BY <2>1, <2>2
  <2>4. \A m \in 1..n : f[m].gap <= c
    <3>1. ASSUME NEW m \in 1..n, m # n PROVE f[m].gap <= c
      <4>1. m \in 1..(n - 1) /\ m \in 1..N
        BY <1>1, <3>1
      <4>2. f[m].gap <= b /\ f[m].gap \in Nat
        BY <2>1, <4>1, SpecsAssumption
      <4> HIDE DEF c
      <4> QED BY <2>1, <2>3, <4>2
    <3> QED BY <2>3, <3>1
  <2> HIDE DEF c
  <2> QED BY <2>2, <2>3, <2>4
<1>5. N \in T
  <2>1. \A n \in 0..N : n \in T
    <3>1. N \in Nat
      BY <1>1
    <3> HIDE DEF T
    <3> QED BY <1>3, <1>4, <3>1, UpTo
  <2>2. N \in 0..N
    BY <1>1
  <2> HIDE DEF T
  <2> QED BY <2>1, <2>2
<1>6. PICK b \in Nat : \A n \in 1..N : f[n].gap <= b
  BY <1>5
<1>7. Gaps \subseteq 0..b /\ Gaps # {}
  BY <1>2, <1>6, SpecsAssumption
<1>8. \E g \in Gaps : \A h \in Gaps : h <= g
  <2> HIDE DEF Gaps
  <2> QED BY <1>6, <1>7, GreatestUpTo
<1>9. \E g \in Gaps : \A s \in Specs : s.gap <= g
  BY <1>8
<1>10. MaxGap \in Gaps /\ \A s \in Specs : s.gap <= MaxGap
  BY <1>9 DEF MaxGap
<1> QED BY <1>7, <1>10

LEMMA LongAgoIsLater == LongAgo \in Nat /\ \A s \in Specs : s.gap < LongAgo
<1>1. MaxGap \in Nat /\ \A s \in Specs : s.gap <= MaxGap /\ s.gap \in Nat
  BY GapsAreBounded, SpecsAssumption
<1> QED BY <1>1, ClockAssumption DEF LongAgo

\* How far the wall clock is past the last time of day of a schedule.
LEMMA Division ==
    ASSUME NEW x \in Int, NEW g \in Nat \ {0}
    PROVE  /\ x % g \in 0..(g - 1)
           /\ \E q \in Int : x = q * g + (x % g)
<1>1. x % g \in 0..(g - 1)
  OBVIOUS
<1>2. x \div g \in Int /\ x = g * (x \div g) + (x % g)
  OBVIOUS
<1>3. g * (x \div g) = (x \div g) * g
  BY <1>2
<1> QED BY <1>1, <1>2, <1>3

\* The next window is one that no start before now has served.
LEMMA NextUnserved ==
    ASSUME NEW s \in Specs, NEW p \in Int, NEW n \in Nat
    PROVE  Unserved(s, NextWindow(s, p), n, p)
<1>1. s.gap \in Nat \ {0} /\ s.at \in Int /\ NextWindow(s, p) \in 1..s.gap
  BY SpecsAssumption, NextWindowInPeriod
<1>2. CASE s.kind = "interval"
  BY <1>1, <1>2 DEF Unserved, NextWindow
<1>3. CASE s.kind # "interval"
  <2> DEFINE x == p + s.gap - s.at
  <2>1. x \in Int
    BY <1>1
  <2>2. PICK q \in Int : x = q * s.gap + (x % s.gap)
    BY <1>1, <2>1, Division
  <2>3. NextWindow(s, p) = s.gap - (x % s.gap)
    BY <1>3 DEF NextWindow
  <2>4. x % s.gap \in Int /\ q * s.gap \in Int
    BY <1>1, <2>1, <2>2
  <2>5. p + NextWindow(s, p) - s.at = q * s.gap
    <3> DEFINE r == x % s.gap
               m == q * s.gap
    <3>1. r \in Int /\ m \in Int /\ x = m + r /\ NextWindow(s, p) = s.gap - r
      BY <2>2, <2>3, <2>4
    <3> HIDE DEF r, m
    <3>2. p + (s.gap - r) - s.at = m
      BY <1>1, <3>1
    <3> QED BY <3>1, <3>2 DEF m
  <2>6. n + NextWindow(s, p) > 0
    BY <1>1
  <2> QED BY <1>3, <2>5, <2>6 DEF Unserved
<1> QED BY <1>2, <1>3

\* And it stays so as time passes.
LEMMA AgedUnserved ==
    ASSUME NEW s \in Specs, NEW w \in Int, NEW n \in Nat, NEW p \in 0..(Cycle - 1),
           Unserved(s, w, n, p)
    PROVE  Unserved(s, Older(s, w), n + 1, (p + 1) % Cycle)
<1>1. s.gap \in Nat \ {0} /\ s.at \in Int /\ s.kind \in {"interval", "wallclock"}
  BY SpecsAssumption
<1>2. Older(s, w) \in Int /\ Older(s, w) >= w - 1
  BY <1>1 DEF Older
<1>3. CASE s.kind = "interval"
  BY <1>1, <1>2, <1>3 DEF Unserved
<1>4. CASE s.kind # "interval"
  <2>1. n + w > 0 /\ (w >= -s.gap => \E k \in Int : p + w - s.at = k * s.gap)
    BY <1>4 DEF Unserved
  <2>2. (n + 1) + Older(s, w) > 0
    BY <1>2, <2>1
  <2>3. ASSUME Older(s, w) >= -s.gap
        PROVE  \E k \in Int : ((p + 1) % Cycle) + Older(s, w) - s.at = k * s.gap
    <3>1. w >= -s.gap /\ Older(s, w) = w - 1
      BY <1>1, <2>3 DEF Older
    <3>2. PICK k \in Int : p + w - s.at = k * s.gap
      BY <2>1, <3>1
    <3>3. Cycle \in Nat \ {0} /\ p \in Int
      BY ClockAssumption
    <3>4. CASE p + 1 # Cycle
      <4>1. (p + 1) % Cycle = p + 1
        BY <3>3, <3>4
      <4>2. (p + 1) + (w - 1) - s.at = p + w - s.at
        BY <1>1, <3>3
      <4> QED BY <3>1, <3>2, <4>1, <4>2
    <3>5. CASE p + 1 = Cycle
      <4>1. (p + 1) % Cycle = 0
        BY <3>3, <3>5
      <4>2. PICK m \in Int : Cycle = m * s.gap
        <5>1. Cycle % s.gap = 0
          BY <1>1, <1>4, SpecsAssumption
        <5> DEFINE c == Cycle
                   g == s.gap
        <5>2. PICK m \in Int : c = m * g + (c % g)
          <6>1. c \in Int /\ g \in Nat \ {0}
            BY <1>1, <3>3
          <6> HIDE DEF c, g
          <6> QED BY <6>1, Division
        <5>3. m * s.gap \in Int
          BY <1>1
        <5> QED BY <5>1, <5>2, <5>3
      <4>3. 0 + (w - 1) - s.at = k * s.gap - m * s.gap
        <5> DEFINE a == k * s.gap
                   b == m * s.gap
        <5>1. p + w - s.at = a /\ p + 1 = b
          BY <3>2, <3>5, <4>2
        <5> HIDE DEF a, b
        <5>2. 0 + (w - 1) - s.at = a - b
          BY <1>1, <3>3, <5>1
        <5> QED BY <5>2 DEF a, b
      <4>4. k * s.gap - m * s.gap = (k - m) * s.gap
        <5> DEFINE g == s.gap
        <5>1. g \in Int
          BY <1>1
        <5> HIDE DEF g
        <5>2. k * g - m * g = (k - m) * g
          BY <5>1
        <5> QED BY <5>2 DEF g
      <4>5. k - m \in Int
        OBVIOUS
      <4> QED BY <3>1, <4>1, <4>3, <4>4, <4>5
    <3> QED BY <3>4, <3>5
  <2> QED BY <1>4, <2>2, <2>3 DEF Unserved
<1> QED BY <1>3, <1>4

\* A window that has come and that no start has served is of this period: the last start
\* is before it.
LEMMA UnservedIsDue ==
    ASSUME NEW s \in Specs, NEW w \in Int, w <= 0, ~(-w > s.gap), NEW n \in Nat, NEW p \in Int,
           Unserved(s, w, n, p)
    PROVE  n > (IF s.kind = "interval" THEN s.gap - 1 ELSE (p + s.gap - s.at) % s.gap)
<1>1. s.gap \in Nat \ {0} /\ s.at \in Int
  BY SpecsAssumption
<1>2. CASE s.kind = "interval"
  BY <1>1, <1>2 DEF Unserved
<1>3. CASE s.kind # "interval"
  <2> DEFINE g == s.gap
             x == p + g - s.at
             r == x % g
  <2>1. n + w > 0 /\ w >= -g
    BY <1>1, <1>3 DEF Unserved
  <2>2. PICK k \in Int : p + w - s.at = k * g
    BY <1>3, <2>1 DEF Unserved
  <2>3. x \in Int /\ g \in Nat \ {0}
    BY <1>1
  <2>4. PICK q \in Int : x = q * g + r
    BY <2>3, Division
  <2>5. r \in 0..(g - 1)
    BY <2>3, Division
  <2> DEFINE m == q - k - 1
  <2>6. -w = m * g + r
    <3>1. p + w - s.at = k * g /\ p + g - s.at = q * g + r
      BY <2>2, <2>4
    <3> HIDE DEF r, g, x, m
    <3>2. m * g = q * g - k * g - g
      BY <2>3 DEF m
    <3> DEFINE a == k * g
               b == q * g
               c == m * g
    <3>3. a \in Int /\ b \in Int /\ c \in Int /\ r \in Int /\ s.at \in Int /\ g \in Int
      BY <1>1, <2>3, <2>5 DEF m
    <3>4. p + w - s.at = a /\ p + g - s.at = b + r /\ c = b - a - g
      BY <3>1, <3>2
    <3> HIDE DEF a, b, c
    <3>5. -w = c + r
      BY <3>3, <3>4
    <3> QED BY <3>5 DEF c
  <2>7. m >= 0
    <3> SUFFICES ASSUME m <= -1 PROVE FALSE
      OBVIOUS
    <3> HIDE DEF r, g, x, m
    <3>1. m \in Int
      BY DEF m
    <3>2. m * g <= -g
      BY <2>3, <3>1
    <3> QED BY <2>3, <2>5, <2>6, <3>1, <3>2
  <2>8. m * g >= 0 /\ m * g \in Int
    <3>1. m \in Nat /\ g \in Nat
      BY <2>3, <2>7
    <3> HIDE DEF r, g, x, m
    <3> QED BY <3>1
  <2>9. n > r
    <3> HIDE DEF r, g, x, m
    <3> QED BY <2>1, <2>5, <2>6, <2>8
  <2> QED BY <1>3, <2>9
<1> QED BY <1>2, <1>3

-----------------------------------------------------------------------------
(* Every window in the sweep's hands is one that no start has served.      *)

LEMMA OnceInit == Init => OnceInv
<1> SUFFICES ASSUME Init PROVE OnceInv
  OBVIOUS
<1>1. ClockType
  <2>1. PICK f \in [Datasets -> Specs] :
          sched = [d \in Datasets |-> [spec |-> f[d], wait |-> NextWindow(f[d], 0), error |-> FALSE]]
    BY DEF Init
  <2>2. \A d \in Datasets : NextWindow(f[d], 0) \in Int
    <3> SUFFICES ASSUME NEW d \in Datasets PROVE NextWindow(f[d], 0) \in Int
      OBVIOUS
    <3>1. f[d] \in Specs /\ f[d].gap \in Nat
      BY SpecsAssumption
    <3>2. NextWindow(f[d], 0) \in 1..f[d].gap
      BY <3>1, NextWindowInPeriod
    <3> QED BY <3>1, <3>2
  <2>3. phase \in 0..(Cycle - 1)
    BY ClockAssumption DEF Init
  <2>4. since \in [Datasets -> 0..LongAgo]
    <3>1. LongAgo \in 0..LongAgo
      BY LongAgoIsLater
    <3> QED BY <3>1 DEF Init
  <2>5. edit \in [Editors -> Writes \union {None}]
    BY DEF Init
  <2>6. sched \in [Datasets -> [spec : Specs, wait : Int, error : BOOLEAN]] /\ DOMAIN sched = Datasets
    BY <2>1, <2>2
  <2> QED BY <2>3, <2>4, <2>5, <2>6 DEF ClockType
<1>2. sweep = Idle
  BY DEF Init
<1>3. \A d \in DOMAIN sched : since[d] = LongAgo
  BY DEF Init
<1> QED BY <1>1, <1>2, <1>3 DEF OnceInv, SweepRecord, Idle, TodoInv, OnInv, RowInv, Fits

\* Only what the rows, the starts and the wall clock say matters.
Rows == <<sched, since, phase>>

\* The sweep looks at rows and leaves them as they are.
LEMMA OnceUnchanged ==
    ASSUME OnceInv, UNCHANGED Rows, UNCHANGED sweep, ClockType'
    PROVE  OnceInv'
<1>1. /\ UNCHANGED <<sched, since, phase, sweep>>
      /\ SweepRecord' /\ (sweep.at \in {"idle", "next", "clear", "started"})'
      /\ (sweep.at = "idle" => sweep = Idle)'
  BY DEF OnceInv, SweepRecord, Rows, Idle
<1>2. TodoInv'
  BY <1>1 DEF OnceInv, TodoInv, Pending, StillRead, Fits, Unserved
<1>3. OnInv'
  BY <1>1 DEF OnceInv, OnInv, Pending, StillRead, Fits, Unserved, Overdue
<1>4. RowInv'
  BY <1>1 DEF OnceInv, RowInv, Fits, Unserved
<1> QED BY <1>1, <1>2, <1>3, <1>4 DEF OnceInv

LEMMA TypeUnchanged ==
    ASSUME OnceInv, UNCHANGED Rows, UNCHANGED edit
    PROVE  ClockType'
  BY DEF OnceInv, ClockType, Rows

\* Windows that have come, with no start since.
LEMMA OnceBeginSweep == ASSUME OnceInv, BeginSweep PROVE OnceInv'
<1>1. /\ sweep = Idle /\ UNCHANGED <<sched, since, phase, edit>>
      /\ sweep' = [at |-> "next", todo |-> sweep'.todo, on |-> None, started |-> FALSE]
      /\ sweep'.todo = {[ds |-> d, spec |-> sched[d].spec, wait |-> sched[d].wait]
                          : d \in {x \in DOMAIN sched : sched[x].wait <= 0}}
  BY DEF BeginSweep, Idle
<1>2. ClockType'
  BY <1>1, TypeUnchanged DEF Rows
<1>3. \A d \in DOMAIN sched : /\ Fits(sched[d].spec, sched[d].wait, d)
                              /\ d \in Datasets /\ sched[d].spec \in Specs /\ sched[d].wait \in Int
  BY <1>1 DEF OnceInv, RowInv, ClockType, Idle
<1>4. RowInv'
  BY <1>1, <1>3 DEF RowInv, Fits, Unserved
<1>5. TodoInv'
  BY <1>1, <1>3 DEF TodoInv, Pending, StillRead, Fits, Unserved
<1> QED BY <1>1, <1>2, <1>4, <1>5 DEF OnceInv, SweepRecord, OnInv

LEMMA OnceEndSweep == ASSUME OnceInv, EndSweep PROVE OnceInv'
<1>1. sweep.at = "next" /\ sweep' = Idle /\ UNCHANGED <<sched, since, phase, edit>>
  BY DEF EndSweep, timeVars
<1>2. ClockType'
  BY <1>1, TypeUnchanged DEF Rows
<1>3. RowInv'
  BY <1>1 DEF OnceInv, RowInv, Fits, Unserved
<1> QED BY <1>1, <1>2, <1>3 DEF OnceInv, SweepRecord, OnInv, TodoInv, Idle

\* What comes off the list, or out of the sweep's hands, with no start and no record.
LEMMA OncePassed ==
    ASSUME OnceInv, UNCHANGED <<sched, since, phase, edit>>, sweep.at \in {"next", "clear"},
           NEW todo, todo \subseteq sweep.todo, NEW on, NEW started,
           sweep' = [at |-> "next", todo |-> todo, on |-> on, started |-> started]
    PROVE  OnceInv'
<1>1. ClockType'
  BY TypeUnchanged DEF Rows
<1>2. RowInv'
  BY DEF OnceInv, RowInv, Fits, Unserved
<1>3. TodoInv'
  BY DEF OnceInv, TodoInv, Pending, StillRead, Fits, Unserved
<1> QED BY <1>1, <1>2, <1>3 DEF OnceInv, SweepRecord, OnInv

LEMMA OnceLeaveDue == ASSUME OnceInv, NEW e \in sweep.todo, LeaveDue(e) PROVE OnceInv'
<1>1. sweep.at = "next" /\ UNCHANGED <<sched, since, phase, edit>> /\ SweepRecord
  BY DEF LeaveDue, IsNext, timeVars, OnceInv
<1>2. sweep' = [at |-> "next", todo |-> sweep.todo \ {e}, on |-> sweep.on, started |-> sweep.started]
  BY <1>1 DEF LeaveDue, Skip, SweepRecord
<1> QED BY <1>1, <1>2, OncePassed

LEMMA OnceClear == ASSUME OnceInv, NEW e \in sweep.todo, Clear(e) PROVE OnceInv'
<1>1. /\ sweep.at = "next" /\ UNCHANGED <<sched, since, phase, edit>> /\ SweepRecord
      /\ ~Overdue(e)
  BY DEF Clear, IsNext, timeVars, OnceInv
<1>2. sweep' = [at |-> "clear", todo |-> sweep.todo \ {e}, on |-> e, started |-> sweep.started]
  BY <1>1 DEF Clear, SweepRecord
<1>3. ClockType'
  BY <1>1, TypeUnchanged DEF Rows
<1>4. RowInv'
  BY <1>1, <1>2 DEF OnceInv, RowInv, Fits, Unserved
<1>5. TodoInv'
  BY <1>1, <1>2 DEF OnceInv, TodoInv, Pending, StillRead, Fits, Unserved
<1>6. OnInv'
  <2>1. Pending(e) /\ StillRead(e)
    BY DEF OnceInv, TodoInv
  <2>2. (Pending(sweep.on) /\ StillRead(sweep.on) /\ ~Overdue(sweep.on))'
    BY <1>1, <1>2, <2>1 DEF Pending, StillRead, Fits, Unserved, Overdue
  <2>3. e.ds \in Datasets /\ e.spec \in Specs
    BY <2>1 DEF Pending
  <2>4. \A x \in sweep.todo \ {e} : x.ds # e.ds
    BY DEF OnceInv, TodoInv
  <2> QED BY <1>2, <2>2, <2>3, <2>4 DEF OnInv
<1> QED BY <1>2, <1>3, <1>4, <1>5, <1>6 DEF OnceInv, SweepRecord

\* What the record of a sweep does to the rows: that of the window it is of moves on to one
\* no start has served, or one a start has never been of.
LEMMA FiredUnserved ==
    ASSUME OnceInv, NEW e, e.ds \in Datasets, e.spec \in Specs, StillRead(e), NEW b \in BOOLEAN,
           Fired(e, b), UNCHANGED <<since, phase, edit>>
    PROVE  /\ ClockType' /\ DOMAIN sched' = DOMAIN sched
           /\ \A d \in DOMAIN sched : sched'[d].spec = sched[d].spec
           /\ \A d \in DOMAIN sched : d # e.ds => sched'[d] = sched[d]
           /\ e.ds \in DOMAIN sched => Fits(sched[e.ds].spec, sched[e.ds].wait, e.ds)'
<1>0. PICK w : w = NextWindow(e.spec, phase)
  OBVIOUS
<1>1. ClockType /\ phase \in Int
  BY DEF OnceInv, ClockType
<1>2. w \in Int
  <2>1. w \in 1..e.spec.gap /\ e.spec.gap \in Nat
    BY <1>0, <1>1, NextWindowInPeriod, SpecsAssumption
  <2> QED BY <2>1
<1>3. Fired(e, b) /\ sched' = IF e.ds \in DOMAIN sched
                              THEN [sched EXCEPT ![e.ds].wait = w, ![e.ds].error = b]
                              ELSE sched
  BY <1>0 DEF Fired
<1>4. CASE e.ds \notin DOMAIN sched
  BY <1>1, <1>3, <1>4 DEF ClockType
<1>5. CASE e.ds \in DOMAIN sched
  <2>0. PICK row : row = [spec |-> sched[e.ds].spec, wait |-> w, error |-> b]
    OBVIOUS
  <2>1. sched[e.ds] \in [spec : Specs, wait : Int, error : BOOLEAN]
    BY <1>1, <1>5 DEF ClockType
  <2>2. \A d \in DOMAIN sched :
          sched'[d] = IF d = e.ds THEN [spec |-> sched[e.ds].spec, wait |-> w, error |-> b]
                                  ELSE sched[d]
    <3>1. sched \in [DOMAIN sched -> [spec : Specs, wait : Int, error : BOOLEAN]]
      BY <1>1 DEF ClockType
    <3>2. sched' = [sched EXCEPT ![e.ds].wait = w, ![e.ds].error = b]
      BY <1>3, <1>5
    <3>3. PICK r : r = sched[e.ds].spec
      OBVIOUS
    <3>4. \A d \in DOMAIN sched :
            sched'[d] = IF d = e.ds THEN [spec |-> r, wait |-> w, error |-> b] ELSE sched[d]
      BY <3>1, <3>2, <3>3
    <3> QED BY <3>3, <3>4
  <2>3. row \in [spec : Specs, wait : Int, error : BOOLEAN] /\ row.spec = sched[e.ds].spec /\ row.wait = w
    BY <1>2, <2>0, <2>1
  <2>4. /\ DOMAIN sched' = DOMAIN sched /\ sched'[e.ds] = row
        /\ \A d \in DOMAIN sched : d # e.ds => sched'[d] = sched[d]
        /\ sched' \in [DOMAIN sched' -> [spec : Specs, wait : Int, error : BOOLEAN]]
    <3>1. sched \in [DOMAIN sched -> [spec : Specs, wait : Int, error : BOOLEAN]]
      BY <1>1 DEF ClockType
    <3>2. sched' = [d \in DOMAIN sched |-> sched'[d]]
      BY <1>3, <1>5, <3>1
    <3>3. \A d \in DOMAIN sched : sched'[d] = IF d = e.ds THEN row ELSE sched[d]
      BY <2>0, <2>2
    <3> QED BY <1>5, <2>3, <3>1, <3>2, <3>3
  <2>5. ClockType'
    BY <1>1, <2>4 DEF ClockType
  <2>6. Fits(row.spec, row.wait, e.ds)'
    <3>1. CASE since[e.ds] = LongAgo
      BY <3>1 DEF Fits
    <3>2. CASE sched[e.ds].spec = e.spec
      <4>1. since[e.ds] \in Nat
        <5>1. since[e.ds] \in 0..LongAgo /\ LongAgo \in Nat
          BY <1>1, LongAgoIsLater DEF ClockType
        <5> QED BY <5>1
      <4>2. Unserved(e.spec, w, since[e.ds], phase)
        BY <1>0, <1>1, <4>1, NextUnserved
      <4> QED BY <2>3, <3>2, <4>2 DEF Fits, Unserved
    <3> QED BY <1>5, <3>1, <3>2 DEF StillRead
  <2> QED BY <1>5, <2>3, <2>4, <2>5, <2>6 DEF Fits
<1> QED BY <1>4, <1>5

\* So a window that is dealt with is done with.
LEMMA OnceRecorded ==
    ASSUME OnceInv, NEW e, e.ds \in Datasets, e.spec \in Specs, StillRead(e), NEW b \in BOOLEAN,
           Fired(e, b), UNCHANGED <<since, phase, edit>>,
           \A x \in sweep'.todo : x \in sweep.todo /\ x.ds # e.ds,
           sweep.at = "started" => e = sweep.on,
           sweep' = [at |-> "next", todo |-> sweep'.todo, on |-> sweep'.on, started |-> sweep'.started]
    PROVE  OnceInv'
<1>1. /\ ClockType' /\ DOMAIN sched' = DOMAIN sched
      /\ \A d \in DOMAIN sched : sched'[d].spec = sched[d].spec
      /\ \A d \in DOMAIN sched : d # e.ds => sched'[d] = sched[d]
      /\ e.ds \in DOMAIN sched => Fits(sched[e.ds].spec, sched[e.ds].wait, e.ds)'
  BY FiredUnserved
<1>2. TodoInv'
  BY <1>1 DEF OnceInv, TodoInv, Pending, StillRead, Fits, Unserved
<1>3. RowInv'
  <2>1. ASSUME NEW d \in DOMAIN sched, d # e.ds PROVE Fits(sched[d].spec, sched[d].wait, d)'
    BY <1>1, <2>1 DEF OnceInv, RowInv, Fits, Unserved
  <2> QED BY <1>1, <2>1 DEF RowInv, Fits
<1> QED BY <1>1, <1>2, <1>3 DEF OnceInv, SweepRecord, OnInv

LEMMA OnceBlocked == ASSUME OnceInv, NEW e \in sweep.todo, Blocked(e) PROVE OnceInv'
<1>1. /\ sweep.at = "next" /\ UNCHANGED <<since, phase, edit>> /\ SweepRecord
      /\ (\E b \in BOOLEAN : Fired(e, b)) \/ UNCHANGED sched
      /\ sweep' = [sweep EXCEPT !.todo = @ \ {e}]
  BY DEF Blocked, Record, Unrecorded, IsNext, Skip, timeVars, OnceInv
<1>2. sweep' = [at |-> "next", todo |-> sweep.todo \ {e}, on |-> sweep.on, started |-> sweep.started]
  BY <1>1 DEF SweepRecord
<1>3. /\ e.ds \in Datasets /\ e.spec \in Specs /\ StillRead(e)
      /\ \A x \in sweep.todo \ {e} : x.ds # e.ds
  BY DEF OnceInv, TodoInv, Pending
<1>4. \A x \in sweep'.todo : x \in sweep.todo /\ x.ds # e.ds
  BY <1>2, <1>3
<1>5. CASE \E b \in BOOLEAN : Fired(e, b)
  BY <1>1, <1>2, <1>3, <1>4, <1>5, OnceRecorded
<1>6. CASE UNCHANGED sched
  BY <1>1, <1>2, <1>6, OncePassed
<1> QED BY <1>1, <1>5, <1>6

LEMMA OnceResumed == ASSUME OnceInv, StartFails \/ RecordStart PROVE OnceInv'
<1>1. /\ sweep.at \in {"clear", "started"} /\ UNCHANGED <<since, phase, edit>> /\ SweepRecord
      /\ (\E b \in BOOLEAN : Fired(sweep.on, b)) \/ (sweep.at = "clear" /\ UNCHANGED sched)
      /\ \E b \in BOOLEAN : sweep' = [sweep EXCEPT !.at = "next", !.on = None, !.started = b]
  BY DEF StartFails, RecordStart, Record, Unrecorded, Resume, timeVars, OnceInv
<1>2. \E b \in BOOLEAN :
        sweep' = [at |-> "next", todo |-> sweep.todo, on |-> None, started |-> b]
  BY <1>1 DEF SweepRecord
<1>3. /\ sweep.on.ds \in Datasets /\ sweep.on.spec \in Specs /\ StillRead(sweep.on)
      /\ \A x \in sweep.todo : x.ds # sweep.on.ds
  BY <1>1 DEF OnceInv, OnInv
<1>4. /\ \A x \in sweep'.todo : x \in sweep.todo /\ x.ds # sweep.on.ds
      /\ sweep' = [at |-> "next", todo |-> sweep'.todo, on |-> sweep'.on, started |-> sweep'.started]
  BY <1>2, <1>3
<1>5. CASE \E b \in BOOLEAN : Fired(sweep.on, b)
  BY <1>1, <1>3, <1>4, <1>5, OnceRecorded
<1>6. CASE sweep.at = "clear" /\ UNCHANGED sched
  BY <1>1, <1>2, <1>6, OncePassed
<1> QED BY <1>1, <1>5, <1>6

\* The count of the last start is given up with its record.
LEMMA OnceRecordFails == ASSUME OnceInv, RecordFails PROVE OnceInv'
<1> DEFINE d == sweep.on.ds
<1>1. /\ sweep.at = "started" /\ UNCHANGED <<sched, phase, edit>> /\ SweepRecord
      /\ since' = [since EXCEPT ![d] = LongAgo]
      /\ sweep' = [sweep EXCEPT !.at = "next", !.on = None, !.started = TRUE]
  BY DEF RecordFails, Unrecorded, Resume, timeVars, OnceInv
<1>2. sweep' = [at |-> "next", todo |-> sweep.todo, on |-> None, started |-> TRUE]
  BY <1>1 DEF SweepRecord
<1>3. d \in Datasets /\ DOMAIN sched \subseteq Datasets
  BY <1>1 DEF OnceInv, OnInv, ClockType
<1>4. since \in [Datasets -> 0..LongAgo] /\ LongAgo \in Nat
  BY LongAgoIsLater DEF OnceInv, ClockType
<1>5. /\ since' \in [Datasets -> 0..LongAgo] /\ since'[d] = LongAgo
      /\ \A x \in Datasets : since'[x] = LongAgo \/ since'[x] = since[x]
  BY <1>1, <1>3, <1>4
<1>6. ClockType'
  BY <1>1, <1>5 DEF OnceInv, ClockType
<1>7. ASSUME NEW x \in Datasets, NEW sp, NEW w, Fits(sp, w, x) PROVE Fits(sp, w, x)'
  BY <1>1, <1>5, <1>7 DEF Fits, Unserved
<1>8. TodoInv'
  <2>1. ASSUME NEW e \in sweep.todo PROVE Pending(e)' /\ StillRead(e)'
    <3>1. Pending(e) /\ StillRead(e) /\ e.ds \in Datasets
      BY DEF OnceInv, TodoInv, Pending
    <3>2. Pending(e)'
      BY <1>7, <3>1 DEF Pending
    <3>3. StillRead(e)'
      BY <1>1, <1>5, <3>1 DEF StillRead
    <3> QED BY <3>2, <3>3
  <2> QED BY <1>2, <2>1 DEF OnceInv, TodoInv
<1>9. RowInv'
  <2>1. ASSUME NEW x \in DOMAIN sched PROVE Fits(sched[x].spec, sched[x].wait, x)'
    <3>1. CASE x = d
      BY <1>1, <1>5, <3>1 DEF Fits
    <3>2. CASE x # d
      <4>1. Fits(sched[x].spec, sched[x].wait, x) /\ x \in Datasets
        BY <1>1, <1>3, <3>2 DEF OnceInv, RowInv
      <4>2. Fits(sched[x].spec, sched[x].wait, x)' \/ since'[x] = since[x]
        BY <1>5, <4>1 DEF Fits
      <4> QED BY <1>1, <4>1, <4>2 DEF Fits, Unserved
    <3> QED BY <3>1, <3>2
  <2> QED BY <1>1, <2>1 DEF RowInv
<1> QED BY <1>2, <1>6, <1>8, <1>9 DEF OnceInv, SweepRecord, OnInv

\* The start serves the window in the sweep's hands, and no other.
LEMMA OnceStartAudit == ASSUME OnceInv, StartAudit PROVE OnceInv'
<1> DEFINE d == sweep.on.ds
<1>1. /\ sweep.at = "clear" /\ UNCHANGED <<sched, phase, edit>> /\ SweepRecord
      /\ sweep' = [sweep EXCEPT !.at = "started"]
      /\ since' = [since EXCEPT ![d] = IF AsRead THEN 0 ELSE LongAgo]
  BY DEF StartAudit, timeVars, OnceInv
<1>2. sweep' = [at |-> "started", todo |-> sweep.todo, on |-> sweep.on, started |-> sweep.started]
  BY <1>1 DEF SweepRecord
<1>3. d \in Datasets /\ sweep.on.spec \in Specs /\ StillRead(sweep.on) /\ \A e \in sweep.todo : e.ds # d
  BY <1>1 DEF OnceInv, OnInv
<1>4. since \in [Datasets -> 0..LongAgo] /\ LongAgo \in Nat
  BY LongAgoIsLater DEF OnceInv, ClockType
<1>5. /\ since' \in [Datasets -> 0..LongAgo]
      /\ since'[d] = IF AsRead THEN 0 ELSE LongAgo
      /\ \A x \in Datasets : x # d => since'[x] = since[x]
  BY <1>1, <1>3, <1>4
<1>6. ClockType'
  BY <1>1, <1>5 DEF OnceInv, ClockType
<1>7. StillRead(sweep.on)'
  BY <1>2, <1>1, <1>5 DEF StillRead, AsRead
<1>8. TodoInv'
  <2>1. ASSUME NEW e \in sweep.todo PROVE Pending(e)' /\ StillRead(e)'
    <3>1. Pending(e) /\ StillRead(e) /\ e.ds \in Datasets /\ e.ds # d
      BY <1>3 DEF OnceInv, TodoInv, Pending
    <3>2. since'[e.ds] = since[e.ds]
      BY <1>5, <3>1
    <3> QED BY <1>1, <3>1, <3>2 DEF Pending, StillRead, Fits, Unserved
  <2> QED BY <1>2, <2>1 DEF OnceInv, TodoInv
<1>9. RowInv'
  <2>1. ASSUME NEW x \in DOMAIN sched, x # d PROVE Fits(sched[x].spec, sched[x].wait, x)'
    <3>1. Fits(sched[x].spec, sched[x].wait, x) /\ x \in Datasets
      BY <1>1 DEF OnceInv, RowInv, ClockType
    <3>2. since'[x] = since[x]
      BY <1>5, <2>1, <3>1
    <3> QED BY <1>1, <3>1, <3>2 DEF Fits, Unserved
  <2> QED BY <1>1, <1>2, <2>1 DEF RowInv, Fits
<1> QED BY <1>2, <1>3, <1>6, <1>7, <1>8, <1>9 DEF OnceInv, SweepRecord, OnInv

LEMMA OnceSweep == ASSUME OnceInv, Sweep PROVE OnceInv'
<1>1. CASE SweepUnread
  <2>1. UNCHANGED <<sched, since, phase, sweep, edit>>
    BY <1>1 DEF SweepUnread
  <2> QED BY <2>1, OnceUnchanged, TypeUnchanged DEF Rows
<1> QED BY <1>1, OnceBeginSweep, OnceEndSweep, OnceBlocked, OnceLeaveDue, OnceClear,
           OnceStartAudit, OnceResumed, OnceRecordFails DEF Sweep

\* A request that writes a row, and starts the count of its dataset afresh.
LEMMA OnceEditWrite == ASSUME OnceInv, NEW h \in Editors, EditWrite(h) PROVE OnceInv'
<1>1. PICK new : new = edit[h]
  OBVIOUS
<1>2. /\ new # None /\ UNCHANGED <<phase, sweep>>
      /\ sched' = [d \in DOMAIN sched \union {new.ds} |->
                      IF d = new.ds THEN [spec |-> new.spec, wait |-> new.wait, error |-> new.error]
                      ELSE sched[d]]
      /\ since' = [since EXCEPT ![new.ds] = LongAgo]
      /\ edit' = [edit EXCEPT ![h] = None]
  BY <1>1 DEF EditWrite, timeVars
<1>3. ClockType
  BY DEF OnceInv
<1>4. new.ds \in Datasets /\ new.spec \in Specs /\ new.wait \in Int /\ new.error \in BOOLEAN
  <2>1. new \in Writes
    BY <1>1, <1>2, <1>3 DEF ClockType
  <2> QED BY <2>1 DEF Writes
<1>5. LongAgo \in Nat
  BY LongAgoIsLater
<1>6. /\ since' \in [Datasets -> 0..LongAgo] /\ since'[new.ds] = LongAgo
      /\ \A d \in Datasets : since'[d] = LongAgo \/ since'[d] = since[d]
  BY <1>2, <1>3, <1>4, <1>5 DEF ClockType
<1>7. \A d \in DOMAIN sched : d # new.ds => sched'[d] = sched[d]
  BY <1>2
<1>8. DOMAIN sched' = DOMAIN sched \union {new.ds}
  BY <1>2
<1>9. ClockType'
  <2>1. edit' \in [Editors -> Writes \union {None}]
    BY <1>2, <1>3 DEF ClockType
  <2>2. sched' \in [DOMAIN sched' -> [spec : Specs, wait : Int, error : BOOLEAN]]
    <3>1. \A d \in DOMAIN sched : sched[d] \in [spec : Specs, wait : Int, error : BOOLEAN]
      BY <1>3 DEF ClockType
    <3> QED BY <1>2, <1>4, <1>8, <3>1
  <2> QED BY <1>2, <1>3, <1>4, <1>6, <1>8, <2>1, <2>2 DEF ClockType
<1>10. ASSUME NEW d \in Datasets, NEW s, NEW w, Fits(s, w, d) PROVE Fits(s, w, d)'
  BY <1>2, <1>6, <1>10 DEF Fits, Unserved
<1>11. ASSUME NEW e, StillRead(e), e.ds \in Datasets PROVE StillRead(e)'
  BY <1>6, <1>7, <1>8, <1>11 DEF StillRead
<1>12. ASSUME NEW e, Pending(e) PROVE Pending(e)'
  BY <1>10, <1>12 DEF Pending
<1>13. TodoInv'
  BY <1>2, <1>11, <1>12 DEF OnceInv, TodoInv, Pending
<1>14. OnInv'
  BY <1>2, <1>11, <1>12 DEF OnceInv, OnInv, Overdue
<1>15. RowInv'
  <2>1. ASSUME NEW d \in DOMAIN sched, d # new.ds, Fits(sched[d].spec, sched[d].wait, d)
        PROVE  Fits(sched[d].spec, sched[d].wait, d)'
    <3>1. d \in Datasets
      BY <1>3 DEF ClockType
    <3> QED BY <1>2, <1>6, <1>7, <2>1, <3>1 DEF Fits, Unserved
  <2>2. Fits(sched[new.ds].spec, sched[new.ds].wait, new.ds)'
    BY <1>6 DEF Fits
  <2> QED BY <1>2, <1>8, <2>1, <2>2 DEF OnceInv, RowInv
<1> QED BY <1>2, <1>9, <1>13, <1>14, <1>15 DEF OnceInv, SweepRecord, Idle

LEMMA OnceEditRead ==
    ASSUME OnceInv, NEW h \in Editors, NEW d \in Datasets, NEW s \in Specs, EditRead(h, d, s)
    PROVE  OnceInv'
<1>1. UNCHANGED <<sched, since, phase, sweep>>
  BY DEF EditRead, timeVars
<1>2. PICK new : new = [ds |-> d, spec |-> s, wait |-> NextWindow(s, phase),
                        error |-> d \in DOMAIN sched /\ sched[d].error]
  OBVIOUS
<1>3. edit' = [edit EXCEPT ![h] = new]
  BY <1>2 DEF EditRead
<1>4. phase \in Int /\ ClockType
  BY DEF OnceInv, ClockType
<1>5. new \in Writes
  <2>1. NextWindow(s, phase) \in Int
    <3>1. NextWindow(s, phase) \in 1..s.gap /\ s.gap \in Nat
      BY <1>4, NextWindowInPeriod, SpecsAssumption
    <3> QED BY <3>1
  <2>2. (d \in DOMAIN sched /\ sched[d].error) \in BOOLEAN
    BY Zenon
  <2> QED BY <1>2, <2>1, <2>2 DEF Writes
<1>6. ClockType'
  BY <1>1, <1>3, <1>4, <1>5 DEF ClockType
<1> QED BY <1>1, <1>6, OnceUnchanged DEF Rows

LEMMA OnceDelete == ASSUME OnceInv, NEW d \in Datasets, DeleteSchedule(d) PROVE OnceInv'
<1>1. /\ UNCHANGED <<since, phase, sweep, edit>>
      /\ sched' = [x \in DOMAIN sched \ {d} |-> sched[x]]
  BY DEF DeleteSchedule, timeVars
<1>2. DOMAIN sched' \subseteq DOMAIN sched /\ \A x \in DOMAIN sched' : sched'[x] = sched[x]
  BY <1>1
<1>3. ClockType'
  BY <1>1, <1>2 DEF OnceInv, ClockType
<1>4. ASSUME NEW e, StillRead(e) PROVE StillRead(e)'
  BY <1>1, <1>2, <1>4 DEF StillRead
<1>5. ASSUME NEW e, Pending(e) PROVE Pending(e)'
  BY <1>1, <1>5 DEF Pending, Fits, Unserved
<1>6. TodoInv'
  BY <1>1, <1>4, <1>5 DEF OnceInv, TodoInv
<1>7. OnInv'
  BY <1>1, <1>4, <1>5 DEF OnceInv, OnInv, Overdue
<1>8. RowInv'
  <2>1. ASSUME NEW x \in DOMAIN sched', Fits(sched[x].spec, sched[x].wait, x)
        PROVE  Fits(sched[x].spec, sched[x].wait, x)'
    BY <1>1, <1>2, <2>1 DEF Fits, Unserved
  <2> QED BY <1>1, <1>2, <2>1 DEF OnceInv, RowInv
<1> QED BY <1>1, <1>3, <1>6, <1>7, <1>8 DEF OnceInv, SweepRecord, Idle

\* A crash between a start and its record forgets the start: the window comes again.
LEMMA OnceDown == ASSUME OnceInv, Down PROVE OnceInv'
<1>1. /\ UNCHANGED <<sched, phase>> /\ sweep' = Idle /\ edit' = [h \in Editors |-> None]
      /\ since' = IF sweep.at = "started" THEN [since EXCEPT ![sweep.on.ds] = LongAgo] ELSE since
  BY DEF Down
<1>2. since \in [Datasets -> 0..LongAgo] /\ LongAgo \in Nat /\ DOMAIN sched \subseteq Datasets
  BY LongAgoIsLater DEF OnceInv, ClockType
<1>3. since' \in [Datasets -> 0..LongAgo] /\ \A d \in Datasets : since'[d] = LongAgo \/ since'[d] = since[d]
  <2>1. CASE since' = since
    BY <1>2, <2>1
  <2>2. CASE since' = [since EXCEPT ![sweep.on.ds] = LongAgo]
    <3>1. LongAgo \in 0..LongAgo
      BY <1>2
    <3> QED BY <1>2, <2>2, <3>1
  <2> QED BY <1>1, <2>1, <2>2
<1>4. ClockType'
  BY <1>1, <1>3 DEF OnceInv, ClockType
<1>5. RowInv'
  <2>1. ASSUME NEW d \in DOMAIN sched PROVE Fits(sched[d].spec, sched[d].wait, d)'
    <3>1. CASE sweep.at = "started" /\ sweep.on.ds = d
      BY <1>1, <1>2, <3>1 DEF Fits
    <3>2. CASE Fits(sched[d].spec, sched[d].wait, d)
      BY <1>1, <1>2, <1>3, <3>2 DEF Fits, Unserved
    <3> QED BY <3>1, <3>2 DEF OnceInv, RowInv
  <2> QED BY <1>1, <2>1 DEF RowInv
<1> QED BY <1>1, <1>4, <1>5 DEF OnceInv, SweepRecord, TodoInv, OnInv, Idle

\* As time passes a window comes nearer as fast as the start falls behind.
LEMMA OnceAdvance == ASSUME OnceInv, Advance PROVE OnceInv'
<1>1. /\ sweep = Idle /\ sweep' = Idle /\ phase' = (phase + 1) % Cycle
      /\ sched' = [d \in DOMAIN sched |-> [sched[d] EXCEPT !.wait = Older(sched[d].spec, @)]]
      /\ edit' = [h \in Editors |-> IF edit[h] = None THEN None
                                    ELSE [edit[h] EXCEPT !.wait = Older(edit[h].spec, @)]]
      /\ since' = [d \in Datasets |-> IF since[d] < LongAgo THEN since[d] + 1 ELSE LongAgo]
  BY DEF Advance
<1>2. ClockType /\ LongAgo \in Nat
  BY LongAgoIsLater DEF OnceInv
<1>3. ASSUME NEW s \in Specs, NEW w \in Int PROVE Older(s, w) \in Int
  BY SpecsAssumption DEF Older
<1>4. phase \in 0..(Cycle - 1) /\ phase' \in 0..(Cycle - 1)
  BY <1>1, <1>2, ClockAssumption DEF ClockType
<1>5. since' \in [Datasets -> 0..LongAgo]
  BY <1>1, <1>2 DEF ClockType
<1>6. ASSUME NEW d \in DOMAIN sched
      PROVE  /\ sched[d].spec \in Specs /\ sched[d].wait \in Int
             /\ sched'[d] = [spec |-> sched[d].spec, wait |-> Older(sched[d].spec, sched[d].wait),
                             error |-> sched[d].error]
             /\ sched'[d] \in [spec : Specs, wait : Int, error : BOOLEAN]
  <2>1. sched[d] \in [spec : Specs, wait : Int, error : BOOLEAN]
    BY <1>2 DEF ClockType
  <2>2. Older(sched[d].spec, sched[d].wait) \in Int
    BY <1>3, <2>1
  <2> QED BY <1>1, <2>1, <2>2
<1>7. edit' \in [Editors -> Writes \union {None}]
  <2>1. ASSUME NEW h \in Editors, edit[h] # None PROVE edit'[h] \in Writes
    <3>1. edit[h] \in Writes
      BY <1>2, <2>1 DEF ClockType
    <3>2. Older(edit[h].spec, edit[h].wait) \in Int
      BY <1>3, <3>1 DEF Writes
    <3> QED BY <1>1, <2>1, <3>1, <3>2 DEF Writes
  <2>2. \A h \in Editors : edit'[h] \in Writes \union {None}
    BY <1>1, <2>1
  <2>3. edit' = [h \in Editors |-> edit'[h]]
    BY <1>1
  <2> QED BY <2>2, <2>3
<1>8. ClockType'
  <2>1. DOMAIN sched' = DOMAIN sched /\ sched' = [d \in DOMAIN sched |-> sched'[d]]
    BY <1>1
  <2>2. sched' \in [DOMAIN sched' -> [spec : Specs, wait : Int, error : BOOLEAN]]
    BY <1>6, <2>1
  <2> QED BY <1>2, <1>4, <1>5, <1>7, <2>1, <2>2 DEF ClockType
<1>9. RowInv'
  <2>1. ASSUME NEW d \in DOMAIN sched PROVE Fits(sched[d].spec, sched[d].wait, d)'
    <3>0. PICK s, w, n, p : s = sched[d].spec /\ w = sched[d].wait /\ n = since[d] /\ p = phase
      OBVIOUS
    <3>1. d \in Datasets /\ n \in 0..LongAgo /\ n \in Nat
      BY <1>2, <3>0 DEF ClockType
    <3>2. since'[d] = IF n < LongAgo THEN n + 1 ELSE LongAgo
      BY <1>1, <3>0, <3>1
    <3>3. CASE n = LongAgo
      BY <1>2, <3>2, <3>3 DEF Fits
    <3>4. CASE n # LongAgo
      <4>1. since'[d] = n + 1
        BY <1>2, <3>1, <3>2, <3>4
      <4>2. Unserved(s, w, n, p)
        BY <1>1, <3>0, <3>4 DEF OnceInv, RowInv, Fits, Idle
      <4>3. s \in Specs /\ w \in Int /\ p \in 0..(Cycle - 1)
        BY <1>4, <1>6, <3>0
      <4>4. Unserved(s, Older(s, w), n + 1, (p + 1) % Cycle)
        BY <3>1, <4>2, <4>3, AgedUnserved
      <4>5. sched'[d].spec = s /\ sched'[d].wait = Older(s, w) /\ phase' = (p + 1) % Cycle
        BY <1>1, <1>6, <3>0
      <4> QED BY <4>1, <4>4, <4>5 DEF Fits, Unserved
    <3> QED BY <3>3, <3>4
  <2>2. DOMAIN sched' = DOMAIN sched
    BY <1>1
  <2> QED BY <2>1, <2>2 DEF RowInv
<1> QED BY <1>1, <1>8, <1>9 DEF OnceInv, SweepRecord, TodoInv, OnInv, Idle

LEMMA OnceNext == ASSUME OnceInv, [Next]_vars PROVE OnceInv'
<1>1. CASE Sweep
  BY <1>1, OnceSweep
<1>2. ASSUME NEW h \in Editors, EditWrite(h) \/ \E d \in Datasets, s \in Specs : EditRead(h, d, s)
      PROVE  OnceInv'
  BY <1>2, OnceEditWrite, OnceEditRead
<1>3. ASSUME NEW d \in Datasets, DeleteSchedule(d) PROVE OnceInv'
  BY <1>3, OnceDelete
<1>4. CASE \/ \E d \in Datasets : PostRun(d) \/ RunEnds(d) \/ CloseOut(d) \/ Reopen(d)
           \/ Boot \/ Signal \/ UNCHANGED vars
  <2>1. UNCHANGED <<sched, since, phase, sweep, edit>>
    BY <1>4 DEF PostRun, RunEnds, CloseOut, Reopen, Boot, Signal, timeVars, vars
  <2> QED BY <2>1, OnceUnchanged, TypeUnchanged DEF Rows
<1>5. CASE Down
  BY <1>5, OnceDown
<1>6. CASE Advance
  BY <1>6, OnceAdvance
<1> QED BY <1>1, <1>2, <1>3, <1>4, <1>5, <1>6 DEF Next, Stop, Crash

\* Only a sweep that is clear to start an audit starts one.
LEMMA OnlyTheSweepStarts ==
    ASSUME NoStackInv, [Next]_vars, NEW d \in Datasets, Starts(d)
    PROVE  StartAudit /\ sweep.on.ds = d
<1>1. auto \in [Datasets -> 0..1]
  BY DEF NoStackInv
<1>2. auto[d] \in 0..1 /\ auto'[d] > auto[d]
  BY <1>1 DEF Starts
<1>3. ~UNCHANGED auto
  BY <1>2
<1>4. ~Down
  BY <1>2 DEF Down
<1>5. ASSUME NEW x \in Datasets, RunEnds(x) \/ CloseOut(x) PROVE FALSE
  BY <1>1, <1>2, <1>5 DEF RunEnds, CloseOut
<1>6. Sweep
  BY <1>3, <1>4, <1>5 DEF Next, Stop, Crash, EditWrite, EditRead, DeleteSchedule, PostRun, Reopen,
                          Boot, Signal, Advance, runVars, vars
<1>7. StartAudit
  BY <1>3, <1>6 DEF Sweep, BeginSweep, SweepUnread, EndSweep, Blocked, LeaveDue, Clear, StartFails,
                    RecordStart, RecordFails, runVars
<1>8. sweep.on.ds = d
  BY <1>1, <1>2, <1>7 DEF StartAudit
<1> QED BY <1>7, <1>8

\* A recorded start is not repeated, for any number of datasets and any schedules:
\* whatever is edited, deleted or started by hand between the look at a row and its record,
\* and however the server is stopped, dies and starts again, an audit the clock starts is a
\* whole interval, or a time of day, after the last start it recorded for the schedule.  What
\* the record failed for, in a stop, a crash or a failing store, does come again.
THEOREM AWindowFiresOnce == Spec => OnceAPeriod
<1>1. ASSUME OnceInv, NoStackInv, [Next]_vars, NEW d \in Datasets, Starts(d)
      PROVE  since[d] > (IF sweep.on.spec.kind = "interval" THEN sweep.on.spec.gap - 1
                         ELSE (phase + sweep.on.spec.gap - sweep.on.spec.at) % sweep.on.spec.gap)
  <2>1. sweep.at = "clear" /\ sweep.on.ds = d
    BY <1>1, OnlyTheSweepStarts DEF StartAudit
  <2>2. PICK s, w, n, p : s = sweep.on.spec /\ w = sweep.on.wait /\ n = since[d] /\ p = phase
    OBVIOUS
  <2>3. /\ s \in Specs /\ w \in Int /\ w <= 0 /\ ~(-w > s.gap)
        /\ n = LongAgo \/ Unserved(s, w, n, p)
    BY <1>1, <2>1, <2>2 DEF OnceInv, OnInv, Pending, Overdue, Fits
  <2>4. n \in Nat /\ p \in Int
    <3>1. since[d] \in 0..LongAgo /\ LongAgo \in Nat /\ phase \in 0..(Cycle - 1)
      BY <1>1, LongAgoIsLater DEF OnceInv, ClockType
    <3> QED BY <2>2, <3>1
  <2>5. n > (IF s.kind = "interval" THEN s.gap - 1 ELSE (p + s.gap - s.at) % s.gap)
    <3>1. CASE n = LongAgo
      <4>1. s.gap \in Nat \ {0} /\ s.at \in Int /\ s.gap < n
        BY <2>3, <3>1, SpecsAssumption, LongAgoIsLater
      <4>2. (p + s.gap - s.at) % s.gap \in 0..(s.gap - 1)
        BY <2>4, <4>1
      <4> QED BY <2>4, <4>1, <4>2
    <3>2. CASE Unserved(s, w, n, p)
      BY <2>3, <2>4, <3>2, UnservedIsDue
    <3> QED BY <2>3, <3>1, <3>2
  <2> QED BY <2>2, <2>5
<1>2. ASSUME OnceInv, NoStackInv, [Next]_vars
      PROVE  \A d \in Datasets : Starts(d) =>
               LET s == sweep.on.spec IN
               since[d] > (IF s.kind = "interval" THEN s.gap - 1
                           ELSE (phase + s.gap - s.at) % s.gap)
  BY <1>1, <1>2
<1> QED BY <1>2, OnceInit, OnceNext, NoStackInit, NextNoStack, PTL DEF Spec, OnceAPeriod
=============================================================================
