------------------------- MODULE RunLifecycleProofs -------------------------
(***************************************************************************)
(* Theorems about RunLifecycle for every set of runs, of cancel handlers   *)
(* and of mishaps.                                                         *)
(***************************************************************************)
EXTENDS RunLifecycle, TLAPS

USE RunsAssumption, BoundsAssumption

LEMMA ServedAreRuns == Served \subseteq Runs /\ Posted \subseteq Served
                         /\ Scheduled \subseteq Served /\ Assisted \subseteq Runs
BY DEF Served, Runs

-----------------------------------------------------------------------------
(* Types.                                                                  *)

LEMMA StartType == ASSUME TypeOK, NEW r \in Runs, Start(r) PROVE TypeOK'
<1> USE ServedAreRuns DEF TypeOK, Points, Statuses, Goto, SetStatus, storeVars,
          serverVars, handlerVars, Starting, Executing, Unwinding
<1>1. CASE CreateRun(r) BY <1>1 DEF CreateRun
<1>2. CASE SetRunDatabase(r) BY <1>2 DEF SetRunDatabase
<1>3. CASE NoRunDirectory(r) BY <1>3 DEF NoRunDirectory
<1>4. CASE AbandonStart(r) BY <1>4 DEF AbandonStart
<1>5. CASE Register(r) BY <1>5 DEF Register
<1>6. CASE Spawn(r) BY <1>6 DEF Spawn
<1>7. CASE ExecuteInCall(r) BY <1>7 DEF ExecuteInCall
<1>8. QED BY <1>1, <1>2, <1>3, <1>4, <1>5, <1>6, <1>7 DEF Start

LEMMA ExecuteType == ASSUME TypeOK, NEW r \in Runs, Execute(r) PROVE TypeOK'
<1> USE ServedAreRuns DEF TypeOK, Points, Statuses, Goto, SetStatus, storeVars,
          serverVars, handlerVars, Starting, Executing, Unwinding
<1>1. CASE StartRun(r) BY <1>1 DEF StartRun
<1>2. CASE StartRunFails(r) BY <1>2 DEF StartRunFails
<1>3. CASE OpenEngine(r) BY <1>3 DEF OpenEngine
<1>4. CASE AuditFails(r) BY <1>4 DEF AuditFails
<1>5. CASE AuditReturns(r) BY <1>5 DEF AuditReturns
<1>6. CASE CloseEngine(r) BY <1>6 DEF CloseEngine
<1>7. CASE LastCheck(r) BY <1>7 DEF LastCheck
<1>8. CASE FinishRun(r) BY <1>8 DEF FinishRun
<1>9. CASE FinishRunFails(r) BY <1>9 DEF FinishRunFails
<1>10. CASE StopRun(r) BY <1>10 DEF StopRun, Verdict
<1>11. CASE StopRunFails(r) BY <1>11 DEF StopRunFails
<1>12. CASE SaveExtras(r) BY <1>12 DEF SaveExtras
<1>13. QED
  BY <1>1, <1>2, <1>3, <1>4, <1>5, <1>6, <1>7, <1>8, <1>9, <1>10, <1>11, <1>12
  DEF Execute

LEMMA UnwindType == ASSUME TypeOK, NEW r \in Runs, Unwind(r) PROVE TypeOK'
<1> USE ServedAreRuns DEF TypeOK, Points, Statuses, Goto, SetStatus, storeVars,
          serverVars, handlerVars, Starting, Executing, Unwinding
<1>1. CASE Deregister(r) BY <1>1 DEF Deregister
<1>2. CASE CloseStream(r) BY <1>2 DEF CloseStream
<1>3. CASE Notified(r) BY <1>3 DEF Notified
<1>4. CASE CallReturns(r) BY <1>4 DEF CallReturns
<1>5. QED BY <1>1, <1>2, <1>3, <1>4 DEF Unwind

LEMMA CancelType == ASSUME TypeOK, NEW h \in Cancellers, Cancel(h) PROVE TypeOK'
<1> USE ServedAreRuns DEF TypeOK, Points, Statuses, Goto, SetStatus, storeVars,
          serverVars, handlerVars, Answer
<1>1. CASE CancelFound(h) BY <1>1 DEF CancelFound
<1>2. CASE CancelMissed(h) BY <1>2 DEF CancelMissed
<1>3. CASE CancelStop(h) BY <1>3 DEF CancelStop
<1>4. QED BY <1>1, <1>2, <1>3 DEF Cancel

LEMMA ProcessType == ASSUME TypeOK, Process PROVE TypeOK'
<1> USE ServedAreRuns DEF TypeOK, Points, Statuses, storeVars, serverVars,
          handlerVars, Starting, Executing, Unwinding
<1>1. CASE Boot BY <1>1 DEF Boot
<1>2. CASE Signal BY <1>2 DEF Signal
<1>3. CASE CancelAll BY <1>3 DEF CancelAll
<1>4. CASE Joined BY <1>4 DEF Joined
<1>5. CASE Exit BY <1>5 DEF Exit, ServerDies
<1>6. CASE Crash BY <1>6 DEF Crash, ServerDies
<1>7. QED BY <1>1, <1>2, <1>3, <1>4, <1>5, <1>6 DEF Process

LEMMA TypeStep == TypeOK /\ [Next]_vars => TypeOK'
<1> SUFFICES ASSUME TypeOK, [Next]_vars PROVE TypeOK'
    OBVIOUS
<1>1. ASSUME NEW r \in Runs, Start(r) \/ Execute(r) \/ Unwind(r) PROVE TypeOK'
  BY <1>1, StartType, ExecuteType, UnwindType
<1>2. ASSUME NEW r \in Runs, CallerGivesUp(r) PROVE TypeOK'
  BY <1>2 DEF CallerGivesUp, TypeOK, storeVars, serverVars, handlerVars
<1>3. ASSUME NEW r \in Runs, AssistantKilled(r) PROVE TypeOK'
  BY <1>3 DEF AssistantKilled, TypeOK, storeVars, serverVars, handlerVars, Points
<1>4. ASSUME NEW h \in Cancellers, NEW r \in Runs, CancelRead(h, r) PROVE TypeOK'
  BY <1>4 DEF CancelRead, TypeOK, storeVars, serverVars
<1>5. ASSUME NEW h \in Cancellers, Cancel(h) PROVE TypeOK'
  BY <1>5, CancelType
<1>6. CASE Process
  BY <1>6, ProcessType
<1>7. CASE UNCHANGED vars
  BY <1>7 DEF vars, TypeOK
<1>8. QED BY <1>1, <1>2, <1>3, <1>4, <1>5, <1>6, <1>7 DEF Next

\* The variables of RunLifecycle keep their types, whatever happens to the
\* processes that hold them.
THEOREM TypeCorrect == Spec => []TypeOK
<1>1. Init => TypeOK
  BY DEF Init, TypeOK, Statuses, Points, Served, Runs
<1>2. QED BY <1>1, TypeStep, PTL DEF Spec

-----------------------------------------------------------------------------
(* What the store holds against what the code working on the run is doing. *)

\* A report is written by the last step but one of Execute, the engine is open
\* only while the pipeline has it, and the two never overlap.
StoreInv ==
    /\ \A r \in Runs : status[r] = "succeeded" => report[r]
    /\ \A r \in Runs : report[r] => pc[r] \in {"extras", "ended", "lost"} \union Unwinding
    /\ \A r \in Runs : pc[r] = "extras" => report[r]
    /\ \A r \in engine : pc[r] \in {"ingesting", "built"}
    /\ \A r \in extras : report[r]

LEMMA StoreStep == TypeOK /\ StoreInv /\ [Next]_vars => StoreInv'
<1> SUFFICES ASSUME TypeOK, StoreInv, [Next]_vars PROVE StoreInv'
    OBVIOUS
<1> USE ServedAreRuns DEF TypeOK, StoreInv, Unwinding, storeVars, serverVars, handlerVars
<1>1. ASSUME NEW r \in Runs, Start(r) PROVE StoreInv'
  BY <1>1 DEF Start, CreateRun, SetRunDatabase, NoRunDirectory, AbandonStart, Register,
     Spawn, ExecuteInCall, Goto, SetStatus
<1>2. ASSUME NEW r \in Runs, Execute(r) PROVE StoreInv'
  <2>1. CASE StartRun(r) BY <2>1 DEF StartRun, Goto, SetStatus
  <2>2. CASE StartRunFails(r) BY <2>2 DEF StartRunFails, Goto
  <2>3. CASE OpenEngine(r) BY <2>3 DEF OpenEngine, Goto
  <2>4. CASE AuditFails(r) BY <2>4 DEF AuditFails
  <2>5. CASE AuditReturns(r) BY <2>5 DEF AuditReturns, Goto
  <2>6. CASE CloseEngine(r) BY <2>6 DEF CloseEngine, Goto
  <2>7. CASE LastCheck(r) BY <2>7 DEF LastCheck, Goto
  <2>8. CASE FinishRun(r) BY <2>8 DEF FinishRun, Goto, SetStatus
  <2>9. CASE FinishRunFails(r) BY <2>9 DEF FinishRunFails, Goto
  <2>10. CASE StopRun(r) BY <2>10 DEF StopRun, Verdict, SetStatus
  <2>11. CASE StopRunFails(r) BY <2>11 DEF StopRunFails
  <2>12. CASE SaveExtras(r) BY <2>12 DEF SaveExtras, Goto
  <2>13. QED
    BY <1>2, <2>1, <2>2, <2>3, <2>4, <2>5, <2>6, <2>7, <2>8, <2>9, <2>10, <2>11, <2>12
    DEF Execute
<1>3. ASSUME NEW r \in Runs, Unwind(r) PROVE StoreInv'
  BY <1>3 DEF Unwind, Deregister, CloseStream, Notified, CallReturns, Goto
<1>4. ASSUME NEW r \in Runs, CallerGivesUp(r) \/ AssistantKilled(r) PROVE StoreInv'
  BY <1>4 DEF CallerGivesUp, AssistantKilled
<1>5. ASSUME NEW h \in Cancellers, NEW r \in Runs, CancelRead(h, r) PROVE StoreInv'
  BY <1>5 DEF CancelRead
<1>6. ASSUME NEW h \in Cancellers, Cancel(h) PROVE StoreInv'
  BY <1>6 DEF Cancel, CancelFound, CancelMissed, CancelStop, SetStatus
<1>7. CASE Boot BY <1>7 DEF Boot, InFlight
<1>8. CASE Signal \/ CancelAll \/ Joined BY <1>8 DEF Signal, CancelAll, Joined
<1>9. CASE Exit \/ Crash
  <2>1. ServerDies BY <1>9 DEF Exit, Crash
  <2>2. QED BY <2>1 DEF ServerDies
<1>10. CASE UNCHANGED vars BY <1>10 DEF vars
<1>11. QED
  BY <1>1, <1>2, <1>3, <1>4, <1>5, <1>6, <1>7, <1>8, <1>9, <1>10 DEF Next, Process

LEMMA StoreInvariant == Spec => []StoreInv
<1>1. Init => StoreInv
  BY DEF Init, StoreInv
<1>2. QED BY <1>1, TypeCorrect, StoreStep, PTL DEF Spec

\* Whatever is canceled, stopped, killed or restarted, a run marked succeeded
\* has its document and its findings.
THEOREM SucceededAlwaysHasReport == Spec => []SucceededHasReport
<1>1. StoreInv => SucceededHasReport
  BY DEF StoreInv, SucceededHasReport
<1>2. QED BY <1>1, StoreInvariant, PTL

\* No reader finds a run succeeded while its DuckDB file is still held open.
THEOREM EngineAlwaysClosedBeforeStored == Spec => []EngineClosedBeforeStored
<1>1. StoreInv => EngineClosedBeforeStored
  BY DEF StoreInv, EngineClosedBeforeStored, Unwinding
<1>2. QED BY <1>1, StoreInvariant, PTL

\* Proposals and traces are never in the store ahead of the findings.
THEOREM ExtrasAlwaysFollowFindings == Spec => []ExtrasFollowFindings
<1>1. StoreInv => ExtrasFollowFindings
  BY DEF StoreInv, ExtrasFollowFindings
<1>2. QED BY <1>1, StoreInvariant, PTL

-----------------------------------------------------------------------------
(* The clock and the shutdown.                                             *)

\* Once shutdown has canceled the runs the clock has stopped asking for any, and
\* once the wait group is empty none of the clock's runs is under way.
ClockInv ==
    /\ server \in {"joining", "draining"} => \A r \in Scheduled : pc[r] \notin Starting
    /\ server = "draining"
         => \A r \in Scheduled : pc[r] \notin Executing \union Unwinding

LEMMA ClockStep == TypeOK /\ ClockInv /\ [Next]_vars => ClockInv'
<1> SUFFICES ASSUME TypeOK, ClockInv, [Next]_vars PROVE ClockInv'
    OBVIOUS
<1> USE ServedAreRuns DEF TypeOK, ClockInv, Starting, Executing, Unwinding, storeVars,
          serverVars, handlerVars
<1>1. ASSUME NEW r \in Runs, Start(r) PROVE ClockInv'
  BY <1>1 DEF Start, CreateRun, MayAsk, SetRunDatabase, NoRunDirectory, AbandonStart,
     Register, Spawn, ExecuteInCall, Goto, Runs, Served
<1>2. ASSUME NEW r \in Runs, Execute(r) PROVE ClockInv'
  <2>1. CASE StartRun(r) BY <2>1 DEF StartRun, Goto
  <2>2. CASE StartRunFails(r) BY <2>2 DEF StartRunFails, Goto
  <2>3. CASE OpenEngine(r) BY <2>3 DEF OpenEngine, Goto
  <2>4. CASE AuditFails(r) BY <2>4 DEF AuditFails
  <2>5. CASE AuditReturns(r) BY <2>5 DEF AuditReturns, Goto
  <2>6. CASE CloseEngine(r) BY <2>6 DEF CloseEngine, Goto
  <2>7. CASE LastCheck(r) BY <2>7 DEF LastCheck, Goto
  <2>8. CASE FinishRun(r) BY <2>8 DEF FinishRun, Goto
  <2>9. CASE FinishRunFails(r) BY <2>9 DEF FinishRunFails, Goto
  <2>10. CASE StopRun(r) BY <2>10 DEF StopRun
  <2>11. CASE StopRunFails(r) BY <2>11 DEF StopRunFails
  <2>12. CASE SaveExtras(r) BY <2>12 DEF SaveExtras, Goto
  <2>13. QED
    BY <1>2, <2>1, <2>2, <2>3, <2>4, <2>5, <2>6, <2>7, <2>8, <2>9, <2>10, <2>11, <2>12
    DEF Execute
<1>3. ASSUME NEW r \in Runs, Unwind(r) PROVE ClockInv'
  BY <1>3 DEF Unwind, Deregister, CloseStream, Notified, CallReturns, Goto
<1>4. ASSUME NEW r \in Runs, CallerGivesUp(r) \/ AssistantKilled(r) PROVE ClockInv'
  BY <1>4 DEF CallerGivesUp, AssistantKilled
<1>5. ASSUME NEW h \in Cancellers, NEW r \in Runs, CancelRead(h, r) PROVE ClockInv'
  BY <1>5 DEF CancelRead
<1>6. ASSUME NEW h \in Cancellers, Cancel(h) PROVE ClockInv'
  BY <1>6 DEF Cancel, CancelFound, CancelMissed, CancelStop
<1>7. CASE Process
  <2>1. CASE Boot BY <2>1 DEF Boot
  <2>2. CASE Signal BY <2>2 DEF Signal
  <2>3. CASE CancelAll BY <2>3 DEF CancelAll
  <2>4. CASE Joined BY <2>4 DEF Joined
  <2>5. CASE Exit BY <2>5 DEF Exit
  <2>6. CASE Crash BY <2>6 DEF Crash
  <2>7. QED BY <1>7, <2>1, <2>2, <2>3, <2>4, <2>5, <2>6 DEF Process
<1>8. CASE UNCHANGED vars BY <1>8 DEF vars
<1>9. QED BY <1>1, <1>2, <1>3, <1>4, <1>5, <1>6, <1>7, <1>8 DEF Next

\* However many runs are under way when the process is told to stop, it does not
\* return from main with an audit the clock started still going.
THEOREM ScheduledRunsAlwaysJoined == Spec => ScheduledRunsAreJoined
<1>1. Init => ClockInv
  BY DEF Init, ClockInv
<1>2. TypeOK /\ ClockInv
        => (server = "draining" /\ server' = "stopped"
              => \A r \in Scheduled : pc[r] \in {"none", "ended", "lost"})
  BY ServedAreRuns DEF TypeOK, ClockInv, Points
<1>3. QED
  BY <1>1, <1>2, TypeCorrect, ClockStep, PTL DEF Spec, ScheduledRunsAreJoined

-----------------------------------------------------------------------------
(* A run's outcome is in the store before the run leaves the map.          *)

RecordedInv ==
    \A r \in Runs :
        pc[r] \in {"extras", "ended"} \union Unwinding => Terminal(status[r])

LEMMA RecordedStep ==
    ASSUME "store" \notin Mishaps, TypeOK, RecordedInv, [Next]_vars
    PROVE  RecordedInv'
<1> USE ServedAreRuns DEF TypeOK, RecordedInv, Unwinding, Terminal, storeVars, serverVars,
          handlerVars
<1>1. ASSUME NEW r \in Runs, Start(r) PROVE RecordedInv'
  BY <1>1 DEF Start, CreateRun, SetRunDatabase, NoRunDirectory, AbandonStart, Register,
     Spawn, ExecuteInCall, Goto, SetStatus
<1>2. ASSUME NEW r \in Runs, Execute(r) PROVE RecordedInv'
  <2>1. CASE StartRun(r) BY <2>1 DEF StartRun, Goto, SetStatus
  <2>2. CASE StartRunFails(r) BY <2>2 DEF StartRunFails, Goto
  <2>3. CASE OpenEngine(r) BY <2>3 DEF OpenEngine, Goto
  <2>4. CASE AuditFails(r) BY <2>4 DEF AuditFails
  <2>5. CASE AuditReturns(r) BY <2>5 DEF AuditReturns, Goto
  <2>6. CASE CloseEngine(r) BY <2>6 DEF CloseEngine, Goto
  <2>7. CASE LastCheck(r) BY <2>7 DEF LastCheck, Goto
  <2>8. CASE FinishRun(r) BY <2>8 DEF FinishRun, Goto, SetStatus
  <2>9. CASE FinishRunFails(r) BY <2>9 DEF FinishRunFails, Goto
  <2>10. CASE StopRun(r) BY <2>10 DEF StopRun, Verdict, SetStatus
  <2>11. CASE StopRunFails(r) BY <2>11 DEF StopRunFails
  <2>12. CASE SaveExtras(r) BY <2>12 DEF SaveExtras, Goto
  <2>13. QED
    BY <1>2, <2>1, <2>2, <2>3, <2>4, <2>5, <2>6, <2>7, <2>8, <2>9, <2>10, <2>11, <2>12
    DEF Execute
<1>3. ASSUME NEW r \in Runs, Unwind(r) PROVE RecordedInv'
  BY <1>3 DEF Unwind, Deregister, CloseStream, Notified, CallReturns, Goto
<1>4. ASSUME NEW r \in Runs, CallerGivesUp(r) \/ AssistantKilled(r) PROVE RecordedInv'
  BY <1>4 DEF CallerGivesUp, AssistantKilled
<1>5. ASSUME NEW h \in Cancellers, NEW r \in Runs, CancelRead(h, r) PROVE RecordedInv'
  BY <1>5 DEF CancelRead
<1>6. ASSUME NEW h \in Cancellers, Cancel(h) PROVE RecordedInv'
  BY <1>6 DEF Cancel, CancelFound, CancelMissed, CancelStop, SetStatus
<1>7. CASE Boot BY <1>7 DEF Boot, InFlight
<1>8. CASE Signal \/ CancelAll \/ Joined BY <1>8 DEF Signal, CancelAll, Joined
<1>9. CASE Exit \/ Crash
  <2>1. ServerDies BY <1>9 DEF Exit, Crash
  <2>2. QED BY <2>1 DEF ServerDies
<1>10. CASE UNCHANGED vars BY <1>10 DEF vars
<1>11. QED
  BY <1>1, <1>2, <1>3, <1>4, <1>5, <1>6, <1>7, <1>8, <1>9, <1>10 DEF Next, Process

\* Unless a write to the store fails, a subscriber whose stream has ended finds
\* the run's outcome in the store.
THEOREM DeregisteredAlwaysRecorded ==
    ASSUME "store" \notin Mishaps
    PROVE  Spec => []DeregisteredMeansRecorded
<1>1. Init => RecordedInv
  BY DEF Init, RecordedInv, Unwinding
<1>2. TypeOK /\ RecordedInv /\ [Next]_vars => RecordedInv'
  BY RecordedStep
<1>3. RecordedInv => DeregisteredMeansRecorded
  BY ServedAreRuns DEF RecordedInv, DeregisteredMeansRecorded, Unwinding
<1>4. QED BY <1>1, <1>2, <1>3, TypeCorrect, PTL DEF Spec

-----------------------------------------------------------------------------
(* A cancellation in time.                                                   *)

BeforeLastCheck == {"spawned", "auditing", "ingesting", "built", "flushed"}

\* The run can no longer get to where it would be recorded as succeeded.
Doomed(r) ==
    /\ status[r] # "succeeded"
    /\ \/ ctx[r] /\ pc[r] \in BeforeLastCheck
       \/ pc[r] \in {"canceling", "ended", "lost"} \union Unwinding

LEMMA DoomedStep ==
    ASSUME TypeOK, [Next]_vars, NEW d \in Runs, Doomed(d)
    PROVE  Doomed(d)'
<1> USE ServedAreRuns DEF TypeOK, Doomed, BeforeLastCheck, Unwinding, storeVars, serverVars,
          handlerVars
<1>1. ASSUME NEW r \in Runs, Start(r) PROVE Doomed(d)'
  BY <1>1 DEF Start, CreateRun, SetRunDatabase, NoRunDirectory, AbandonStart, Register,
     Spawn, ExecuteInCall, Goto, SetStatus
<1>2. ASSUME NEW r \in Runs, Execute(r) PROVE Doomed(d)'
  <2>1. CASE StartRun(r) BY <2>1 DEF StartRun, Goto, SetStatus
  <2>2. CASE StartRunFails(r) BY <2>2 DEF StartRunFails, Goto
  <2>3. CASE OpenEngine(r) BY <2>3 DEF OpenEngine, Goto
  <2>4. CASE AuditFails(r) BY <2>4 DEF AuditFails
  <2>5. CASE AuditReturns(r) BY <2>5 DEF AuditReturns, Goto
  <2>6. CASE CloseEngine(r) BY <2>6 DEF CloseEngine, Goto
  <2>7. CASE LastCheck(r) BY <2>7 DEF LastCheck, Goto
  <2>8. CASE FinishRun(r) BY <2>8 DEF FinishRun, Goto, SetStatus
  <2>9. CASE FinishRunFails(r) BY <2>9 DEF FinishRunFails, Goto
  <2>10. CASE StopRun(r) BY <2>10 DEF StopRun, Verdict, SetStatus
  <2>11. CASE StopRunFails(r) BY <2>11 DEF StopRunFails
  <2>12. CASE SaveExtras(r) BY <2>12 DEF SaveExtras, Goto
  <2>13. QED
    BY <1>2, <2>1, <2>2, <2>3, <2>4, <2>5, <2>6, <2>7, <2>8, <2>9, <2>10, <2>11, <2>12
    DEF Execute
<1>3. ASSUME NEW r \in Runs, Unwind(r) PROVE Doomed(d)'
  BY <1>3 DEF Unwind, Deregister, CloseStream, Notified, CallReturns, Goto
<1>4. ASSUME NEW r \in Runs, CallerGivesUp(r) \/ AssistantKilled(r) PROVE Doomed(d)'
  BY <1>4 DEF CallerGivesUp, AssistantKilled
<1>5. ASSUME NEW h \in Cancellers, NEW r \in Runs, CancelRead(h, r) PROVE Doomed(d)'
  BY <1>5 DEF CancelRead
<1>6. ASSUME NEW h \in Cancellers, Cancel(h) PROVE Doomed(d)'
  BY <1>6 DEF Cancel, CancelFound, CancelMissed, CancelStop, SetStatus
<1>7. CASE Boot BY <1>7 DEF Boot, InFlight
<1>8. CASE Signal \/ CancelAll \/ Joined BY <1>8 DEF Signal, CancelAll, Joined
<1>9. CASE Exit \/ Crash
  <2>1. ServerDies BY <1>9 DEF Exit, Crash
  <2>2. QED BY <2>1 DEF ServerDies
<1>10. CASE UNCHANGED vars BY <1>10 DEF vars
<1>11. QED
  BY <1>1, <1>2, <1>3, <1>4, <1>5, <1>6, <1>7, <1>8, <1>9, <1>10 DEF Next, Process

\* A cancellation that arrives before the last look at the context, whoever it comes from,
\* keeps the run from ever being recorded as succeeded, through any number of restarts.
THEOREM CancellationAlwaysHeard == Spec => CancellationIsHeard
<1>1. ASSUME NEW r \in Runs
      PROVE  Spec => [](ctx[r] /\ pc[r] \in BeforeLastCheck => [](status[r] # "succeeded"))
  <2>1. TypeOK /\ StoreInv /\ ctx[r] /\ pc[r] \in BeforeLastCheck => Doomed(r)
    BY DEF StoreInv, Doomed, BeforeLastCheck, Unwinding
  <2>2. TypeOK /\ [Next]_vars /\ Doomed(r) => Doomed(r)'
    BY DoomedStep
  <2>3. Doomed(r) => status[r] # "succeeded"
    BY DEF Doomed
  <2>4. QED BY <2>1, <2>2, <2>3, TypeCorrect, StoreInvariant, PTL DEF Spec
<1>2. QED BY <1>1 DEF CancellationIsHeard, BeforeLastCheck

-----------------------------------------------------------------------------
(* Without cancel requests and without a second process the detailed       *)
(* specification implements the record a reader is promised.               *)

\* The program point tells the status, and a server that is down has nothing
\* under way.
OwnerInv ==
    /\ \A r \in Runs : pc[r] = "none" => status[r] = "none"
    /\ \A r \in Runs : pc[r] \in Starting \union {"spawned"} => status[r] = "pending"
    /\ \A r \in Runs : pc[r] \in Executing \ {"spawned", "extras"} => status[r] = "running"
    /\ server \in {"down", "stopped"} => \A r \in Runs : pc[r] \in {"none", "ended", "lost"}

LEMMA OwnerStep ==
    ASSUME Cancellers = {}, Assisted = {}, TypeOK, OwnerInv, [Next]_vars
    PROVE  OwnerInv'
<1> USE ServedAreRuns DEF TypeOK, OwnerInv, Starting, Executing, Unwinding, storeVars,
          serverVars, handlerVars
<1>0. Runs = Served
  BY DEF Runs
<1>1. ASSUME NEW r \in Runs, Start(r) PROVE OwnerInv'
  BY <1>0, <1>1 DEF Start, CreateRun, MayAsk, SetRunDatabase, NoRunDirectory, AbandonStart,
     Register, Spawn, ExecuteInCall, Goto, SetStatus, Served, Alive, ServerAlive, Serving
<1>2. ASSUME NEW r \in Runs, Execute(r) PROVE OwnerInv'
  <2>1. CASE StartRun(r) BY <1>0, <2>1 DEF StartRun, Goto, Alive, ServerAlive, Serving, SetStatus
  <2>2. CASE StartRunFails(r) BY <1>0, <2>2 DEF StartRunFails, Goto, Alive, ServerAlive, Serving
  <2>3. CASE OpenEngine(r) BY <1>0, <2>3 DEF OpenEngine, Goto, Alive, ServerAlive, Serving
  <2>4. CASE AuditFails(r) BY <1>0, <2>4 DEF AuditFails, Alive, ServerAlive, Serving
  <2>5. CASE AuditReturns(r) BY <1>0, <2>5 DEF AuditReturns, Goto, Alive, ServerAlive, Serving
  <2>6. CASE CloseEngine(r) BY <1>0, <2>6 DEF CloseEngine, Goto, Alive, ServerAlive, Serving
  <2>7. CASE LastCheck(r) BY <1>0, <2>7 DEF LastCheck, Goto, Alive, ServerAlive, Serving
  <2>8. CASE FinishRun(r) BY <1>0, <2>8 DEF FinishRun, Goto, Alive, ServerAlive, Serving, SetStatus
  <2>9. CASE FinishRunFails(r) BY <1>0, <2>9 DEF FinishRunFails, Goto, Alive, ServerAlive, Serving
  <2>10. CASE StopRun(r) BY <1>0, <2>10 DEF StopRun, Verdict, SetStatus, Alive, ServerAlive, Serving
  <2>11. CASE StopRunFails(r) BY <1>0, <2>11 DEF StopRunFails, Alive, ServerAlive, Serving
  <2>12. CASE SaveExtras(r) BY <1>0, <2>12 DEF SaveExtras, Goto, Alive, ServerAlive, Serving
  <2>13. QED
    BY <1>2, <2>1, <2>2, <2>3, <2>4, <2>5, <2>6, <2>7, <2>8, <2>9, <2>10, <2>11, <2>12
    DEF Execute
<1>3. ASSUME NEW r \in Runs, Unwind(r) PROVE OwnerInv'
  BY <1>0, <1>3 DEF Unwind, Deregister, CloseStream, Notified, CallReturns, Goto, ServerAlive,
     Serving
<1>4. ASSUME NEW r \in Runs, CallerGivesUp(r) \/ AssistantKilled(r) PROVE OwnerInv'
  BY <1>4 DEF CallerGivesUp, AssistantKilled
<1>5. CASE Process
  <2>1. CASE Boot BY <2>1 DEF Boot, InFlight
  <2>2. CASE Signal BY <2>2 DEF Signal
  <2>3. CASE CancelAll BY <2>3 DEF CancelAll
  <2>4. CASE Joined BY <2>4 DEF Joined
  <2>5. CASE Exit \/ Crash
    <3>1. ServerDies BY <2>5 DEF Exit, Crash
    <3>2. QED BY <1>0, <2>5, <3>1 DEF ServerDies, Exit, Crash
  <2>6. QED BY <1>5, <2>1, <2>2, <2>3, <2>4, <2>5 DEF Process
<1>6. CASE UNCHANGED vars BY <1>6 DEF vars
<1>7. QED BY <1>1, <1>2, <1>3, <1>4, <1>5, <1>6 DEF Next

\* One step of the detailed specification is one step of the record or none.
LEMMA RecordStep ==
    ASSUME Cancellers = {}, Assisted = {}, TypeOK, OwnerInv, [Next]_vars
    PROVE  [Record!Next]_(Record!recordVars)
<1> USE ServedAreRuns DEF TypeOK, OwnerInv, Starting, Executing, storeVars,
          Record!recordVars
<1> DEFINE Settles(r, st) ==
             /\ InFlight(status[r])
             /\ st \in {"failed", "canceled"}
             /\ status' = [status EXCEPT ![r] = st]
             /\ UNCHANGED report
<1>1. ASSUME NEW r \in Runs, NEW st, Settles(r, st) PROVE Record!Next
  <2>1. Record!GiveUp({r})
    <3>1. [x \in {r} |-> st] \in [{r} -> {"failed", "canceled"}]
      BY <1>1
    <3>2. status' = [x \in Runs |-> IF x \in {r} THEN [y \in {r} |-> st][x] ELSE status[x]]
      BY <1>1
    <3>3. QED BY <1>1, <3>1, <3>2 DEF Record!GiveUp, Record!InFlight, InFlight
  <2>2. QED BY <2>1 DEF Record!Next
<1>2. ASSUME NEW r \in Runs, Start(r) PROVE [Record!Next]_(Record!recordVars)
  <2>1. CASE CreateRun(r)
    BY <2>1 DEF CreateRun, Goto, SetStatus, Record!Next, Record!Create
  <2>2. CASE NoRunDirectory(r)
    BY <1>1, <2>2 DEF NoRunDirectory, Goto, SetStatus, InFlight
  <2>3. CASE SetRunDatabase(r) \/ AbandonStart(r) \/ Register(r) \/ Spawn(r)
               \/ ExecuteInCall(r)
    BY <2>3 DEF SetRunDatabase, AbandonStart, Register, Spawn, ExecuteInCall
  <2>4. QED BY <1>2, <2>1, <2>2, <2>3 DEF Start
<1>3. ASSUME NEW r \in Runs, Execute(r) PROVE [Record!Next]_(Record!recordVars)
  <2>1. CASE StartRun(r)
    BY <2>1 DEF StartRun, Goto, SetStatus, Record!Next, Record!Begin
  <2>2. CASE FinishRun(r)
    BY <2>2 DEF FinishRun, Goto, SetStatus, Record!Next, Record!Succeed
  <2>3. CASE StopRun(r)
    BY <1>1, <2>3 DEF StopRun, Verdict, SetStatus, InFlight
  <2>4. CASE \/ StartRunFails(r) \/ OpenEngine(r) \/ AuditFails(r) \/ AuditReturns(r)
             \/ CloseEngine(r) \/ LastCheck(r) \/ FinishRunFails(r) \/ StopRunFails(r)
             \/ SaveExtras(r)
    BY <2>4 DEF StartRunFails, OpenEngine, AuditFails, AuditReturns, CloseEngine, LastCheck,
       FinishRunFails, StopRunFails, SaveExtras
  <2>5. QED BY <1>3, <2>1, <2>2, <2>3, <2>4 DEF Execute
<1>4. ASSUME NEW r \in Runs, Unwind(r) \/ CallerGivesUp(r) \/ AssistantKilled(r)
      PROVE  UNCHANGED Record!recordVars
  BY <1>4 DEF Unwind, Deregister, CloseStream, Notified, CallReturns, CallerGivesUp,
     AssistantKilled
<1>5. CASE Boot
  <2> DEFINE S == {r \in Runs : InFlight(status[r])}
  <2>1. S \in SUBSET Runs
    OBVIOUS
  <2>2. [r \in S |-> "failed"] \in [S -> {"failed", "canceled"}]
    OBVIOUS
  <2>3. status' = [r \in Runs |-> IF r \in S THEN [x \in S |-> "failed"][r] ELSE status[r]]
    BY <1>5 DEF Boot
  <2>4. Record!GiveUp(S)
    <3> HIDE DEF S
    <3>1. \A r \in S : Record!InFlight(status[r])
      BY DEF S, Record!InFlight, InFlight
    <3>2. UNCHANGED report
      BY <1>5 DEF Boot
    <3>3. QED BY <2>2, <2>3, <3>1, <3>2 DEF Record!GiveUp
  <2>5. QED BY <2>1, <2>4 DEF Record!Next
<1>6. CASE Signal \/ CancelAll \/ Joined \/ Exit \/ Crash
  BY <1>6 DEF Signal, CancelAll, Joined, Exit, Crash, ServerDies
<1>7. CASE UNCHANGED vars
  BY <1>7 DEF vars
<1>8. QED BY <1>2, <1>3, <1>4, <1>5, <1>6, <1>7 DEF Next, Process

\* With no cancel request and no assistant's process, every behaviour of the
\* detailed specification is one the record allows: a row is started once and
\* settled once, and carries a report exactly when it succeeded.
THEOREM ImplementsRecord ==
    ASSUME Cancellers = {}, Assisted = {}
    PROVE  Spec => RecordSpec
<1>1. Init => OwnerInv
  BY DEF Init, OwnerInv, Starting, Executing
<1>2. Init => Record!Init
  BY DEF Init, Record!Init
<1>3. TypeOK /\ OwnerInv /\ [Next]_vars => OwnerInv'
  BY OwnerStep
<1>4. TypeOK /\ OwnerInv /\ [Next]_vars => [Record!Next]_(Record!recordVars)
  BY RecordStep
<1>5. QED
  BY <1>1, <1>2, <1>3, <1>4, TypeCorrect, PTL DEF Spec, RecordSpec, Record!Spec
=============================================================================
