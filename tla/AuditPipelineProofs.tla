------------------------ MODULE AuditPipelineProofs ------------------------
(***************************************************************************)
(* Theorems about AuditPipeline and the loop inside it, for every budget,  *)
(* every list of servers, whatever the model, the servers and the data are *)
(* like, and whenever the audit is canceled.                               *)
(***************************************************************************)
EXTENDS AuditPipeline, NatLemmas, FiniteSetTheorems, SequenceTheorems, TLAPS

-----------------------------------------------------------------------------
(* What is held, stage by stage.                                           *)

Deterministic == {"ingest", "profile", "checks", "rules", "lockdown"}

\* The engine is opened once, and locked on the way to the servers and the model; what
\* is not over holds what its stage needs, what is over holds no session.
HeldInv ==
    /\ attached \in Nat
    /\ stage \in {"discover", "open"} \union Deterministic
          => attached = 0 /\ loop = "off" /\ outcome = "running"
    /\ stage \in {"discover", "open"} => engine = "none"
    /\ stage \in Deterministic => engine = "open"
    /\ stage = "context" => loop = "off"
    /\ stage \in {"context", "agent"} => engine = "locked" /\ outcome = "running"
    /\ stage = "verify" => engine \in {"open", "locked"} /\ outcome = "running"
    /\ stage \in {"discover", "open", "context", "agent", "verify", "over"} \union Deterministic
    /\ stage = "over" => outcome # "running" /\ sessions = {}
    /\ outcome = "error" => engine \in {"none", "closed"}
    /\ scratch = "gone" => stage = "over" /\ engine \in {"none", "closed"}
    /\ attached > 0 \/ loop # "off" => engine \in {"locked", "closed"}

LEMMA LoopHolds ==
    ASSUME LoopStep
    PROVE  /\ attached' = attached /\ sessions' = sessions
           /\ loop # "off"
<1>1. Top \/ CallFails \/ CallRetried \/ Backoff \/ BackoffCanceled
        => attached' = attached /\ sessions' = sessions /\ loop # "off"
  BY DEF Top, CallFails, CallRetried, Backoff, BackoffCanceled, serverVars
<1>2. ASSUME NEW tokens \in 0..MaxReply, NEW n \in 1..MaxCalls, ReplyCalls(n, tokens)
      PROVE  attached' = attached /\ sessions' = sessions /\ loop # "off"
  BY <1>2 DEF ReplyCalls, serverVars
<1>3. ASSUME NEW tokens \in 0..MaxReply, NEW written \in BOOLEAN, NEW refusal \in BOOLEAN,
             ReplyText(written, refusal, tokens)
      PROVE  attached' = attached /\ sessions' = sessions /\ loop # "off"
  BY <1>3 DEF ReplyText, serverVars
<1>4. InvokeLook => attached' = attached /\ sessions' = sessions /\ loop # "off"
  BY DEF InvokeLook, CallDone, serverVars
<1>5. ASSUME NEW a, NEW n, InvokeRecord(a, n) \/ InvokePropose(a, n)
      PROVE  attached' = attached /\ sessions' = sessions /\ loop # "off"
  BY <1>5 DEF InvokeRecord, InvokePropose, CallDone, serverVars
<1>6. ASSUME NEW id, InvokeRead(id)
      PROVE  attached' = attached /\ sessions' = sessions /\ loop # "off"
  BY <1>6 DEF InvokeRead, CallDone, ReadUnknown, Read, serverVars
<1>7. QED BY <1>1, <1>2, <1>3, <1>4, <1>5, <1>6 DEF LoopStep

LEMMA HeldStep == HeldInv /\ [Next]_vars => HeldInv'
<1> SUFFICES ASSUME HeldInv, [Next]_vars PROVE HeldInv'
    OBVIOUS
<1> USE DEF HeldInv, Deterministic
<1>1. CASE Discover BY <1>1 DEF Discover, Enter, loopVars, serverVars
<1>2. CASE DiscoverFails
  BY <1>2 DEF DiscoverFails, ReturnError, CloseSessions, loopVars
<1>3. CASE OpenEngine BY <1>3 DEF OpenEngine, Enter, loopVars, serverVars
<1>4. CASE OpenFails BY <1>4 DEF OpenFails, ReturnError, CloseSessions, loopVars
<1>5. CASE Load BY <1>5 DEF Load, Enter, After, loopVars, serverVars
<1>6. CASE Judge
  <2>1. stage' \in {"rules", "lockdown", "verify"}
    BY <1>6 DEF Judge, Enter, After
  <2>2. QED BY <1>6, <2>1 DEF Judge, loopVars, serverVars
<1>7. CASE Lockdown BY <1>7 DEF Lockdown, Enter, serverVars
<1>8. CASE StageFails BY <1>8 DEF StageFails, ReturnError, CloseSessions, loopVars
<1>9. CASE Context
  <2>1. attached' = attached + 1
    BY <1>9 DEF Context, ConnectOne, ServerDown, ListFails, Attach
  <2>2. QED BY <1>9, <2>1 DEF Context, pipelineVars, loopVars
<1>10. CASE ContextReady BY <1>10 DEF ContextReady, Enter, serverVars
<1>11. CASE Agent BY <1>11, LoopHolds DEF Agent, pipelineVars
<1>12. CASE AgentDone BY <1>12 DEF AgentDone, Enter, loopVars, serverVars
<1>13. CASE VerifyOne BY <1>13 DEF VerifyOne, loopVars, serverVars
<1>14. CASE ReturnResult BY <1>14 DEF ReturnResult, CloseSessions, loopVars
<1>15. CASE CloseResult BY <1>15 DEF CloseResult, loopVars, serverVars
<1>16. CASE Cancel BY <1>16 DEF Cancel, pipelineVars, loopVars, serverVars
<1>17. CASE UNCHANGED vars BY <1>17 DEF vars, pipelineVars, loopVars, serverVars
<1>18. QED
  BY <1>1, <1>2, <1>3, <1>4, <1>5, <1>6, <1>7, <1>8, <1>9, <1>10, <1>11, <1>12, <1>13,
     <1>14, <1>15, <1>16, <1>17 DEF Next, Progress

LEMMA HeldInvariant == Spec => []HeldInv
<1>1. ASSUME Init PROVE HeldInv
  <2>1. /\ stage = "discover" /\ engine = "none" /\ scratch = "none" /\ outcome = "running"
        /\ loop = "off" /\ attached = 0
    BY <1>1 DEF Init, InitLoop, InitServers
  <2>2. QED BY <2>1 DEF HeldInv, Deterministic
<1>2. QED BY <1>1, HeldStep, PTL DEF Spec

\* Nothing outside takes part before the engine is locked down, and an audit that has
\* returned holds no session and, unless it returned a result, no engine: at whatever
\* stage it failed or was canceled.
THEOREM EngineAlwaysKeptInBounds == Spec => []EngineKeptInBounds
<1>1. HeldInv => EngineKeptInBounds
  BY DEF HeldInv, EngineKeptInBounds
<1>2. QED BY <1>1, HeldInvariant, PTL

-----------------------------------------------------------------------------
(* The budgets of the loop.                                                *)

\* The loop has asked once for each step it has left behind, and it is past the top only
\* with a step and tokens to spend.
BudgetInv ==
    /\ loop \in {"off", "top", "calling", "waiting", "invoking", "over"}
    /\ step \in Nat /\ answered \in Nat /\ usage \in Nat
    /\ attempt \in Nat /\ 1 <= attempt /\ attempt <= maxRetries
    /\ step <= MaxSteps + 1
    /\ loop = "off" => step = 1
    /\ loop \in {"off", "top", "calling", "waiting"} => answered = step - 1
    /\ loop = "invoking" => answered = step
    /\ loop \in {"calling", "waiting", "invoking"} => step <= MaxSteps
    /\ answered <= MaxSteps
    /\ answered = 0 => usage = 0
    /\ TokenBudget > 0 => usage < TokenBudget + MaxReply
    /\ loop \in {"calling", "waiting"} /\ TokenBudget > 0 => usage < TokenBudget
    /\ loop # "over" => stopped = "none"
    /\ stopped = "step_budget" => answered = MaxSteps
    /\ stopped = "token_budget" => usage >= TokenBudget /\ answered > 0

LEMMA Budgets ==
    MaxSteps \in Nat /\ MaxSteps >= 1 /\ TokenBudget \in Nat /\ MaxReply \in Nat
BY LoopAssumption

\* A tool leaves the reply one call shorter, and the last one ends the step.
LEMMA CallDoneBudget == ASSUME BudgetInv, CallDone PROVE BudgetInv'
BY Budgets DEF BudgetInv, CallDone, maxRetries

LEMMA LoopBudget == ASSUME BudgetInv, LoopStep PROVE BudgetInv'
<1> USE Budgets DEF BudgetInv, maxRetries, Stop
<1>1. CASE Top BY <1>1 DEF Top, StopsBefore
<1>2. CASE CallFails BY <1>2 DEF CallFails
<1>3. CASE CallRetried BY <1>3 DEF CallRetried
<1>4. CASE Backoff BY <1>4 DEF Backoff
<1>5. CASE BackoffCanceled BY <1>5 DEF BackoffCanceled
<1>6. ASSUME NEW tokens \in 0..MaxReply, NEW n \in 1..MaxCalls, ReplyCalls(n, tokens)
      PROVE  BudgetInv'
  BY <1>6 DEF ReplyCalls
<1>7. ASSUME NEW tokens \in 0..MaxReply, NEW written \in BOOLEAN, NEW refusal \in BOOLEAN,
             ReplyText(written, refusal, tokens)
      PROVE  BudgetInv'
  BY <1>7 DEF ReplyText
<1>8. CASE InvokeLook BY <1>8, CallDoneBudget DEF InvokeLook
<1>9. ASSUME NEW a, NEW n, InvokeRecord(a, n) \/ InvokePropose(a, n)
      PROVE  BudgetInv'
  BY <1>9, CallDoneBudget DEF InvokeRecord, InvokePropose
<1>10. ASSUME NEW id, InvokeRead(id) PROVE BudgetInv'
  BY <1>10, CallDoneBudget DEF InvokeRead
<1>11. QED
  BY <1>1, <1>2, <1>3, <1>4, <1>5, <1>6, <1>7, <1>8, <1>9, <1>10 DEF LoopStep

LEMMA BudgetStep == HeldInv /\ BudgetInv /\ [Next]_vars => BudgetInv'
<1> SUFFICES ASSUME HeldInv, BudgetInv, [Next]_vars PROVE BudgetInv'
    OBVIOUS
<1>1. CASE Lockdown
  <2>1. loop = "off" BY <1>1 DEF HeldInv, Deterministic, Lockdown
  <2>2. QED BY <1>1, <2>1 DEF Lockdown, BudgetInv, maxRetries
<1>2. CASE ContextReady
  <2>1. loop = "off" BY <1>2 DEF HeldInv, ContextReady
  <2>2. QED BY <1>2, <2>1 DEF ContextReady, BudgetInv, maxRetries
<1>3. CASE Agent BY <1>3, LoopBudget DEF Agent
<1>4. ASSUME UNCHANGED loopVars PROVE BudgetInv'
  BY <1>4 DEF loopVars, BudgetInv, maxRetries
<1>5. Discover \/ DiscoverFails \/ OpenEngine \/ OpenFails \/ Load \/ Judge \/ StageFails
        \/ Context \/ AgentDone \/ VerifyOne \/ ReturnResult \/ CloseResult \/ Cancel
        \/ UNCHANGED vars
      => UNCHANGED loopVars
  BY DEF Discover, DiscoverFails, OpenEngine, OpenFails, Load, Judge, StageFails, Context,
     AgentDone, VerifyOne, ReturnResult, CloseResult, Cancel, ReturnError, vars
<1>6. QED BY <1>1, <1>2, <1>3, <1>4, <1>5 DEF Next, Progress

\* However the model answers and the provider fails, no audit asks more often than once a
\* step, more than three times for one answer, or again once a budget is spent.
THEOREM BudgetsAlwaysHold == Spec => []BudgetsHold
<1>1. ASSUME Init PROVE BudgetInv
  <2>1. /\ loop = "off" /\ step = 1 /\ attempt = 1 /\ usage = 0 /\ answered = 0 /\ stopped = "none"
    BY <1>1 DEF Init, InitLoop
  <2>2. QED BY <2>1, Budgets DEF BudgetInv, maxRetries
<1>2. BudgetInv => BudgetsHold
  BY DEF BudgetInv, BudgetsHold
<1>3. QED BY <1>1, <1>2, BudgetStep, HeldInvariant, PTL DEF Spec

-----------------------------------------------------------------------------
(* What finding.Set.AddAll makes of two lists.                             *)

LEMMA AddIn == ASSUME NEW S, NEW s \in Seq(S), NEW f \in S PROVE Add(s, f) \in Seq(S)
<1> DEFINE same == {i \in DOMAIN s : Key(s[i]) = Key(f)}
<1>1. CASE same = {}
  BY <1>1 DEF Add
<1>2. CASE same # {}
  <2> DEFINE t == [i \in DOMAIN s |->
                      IF i \in same /\ f.severity > s[i].severity THEN f ELSE s[i]]
  <2>1. t \in [1..Len(s) -> S]
    OBVIOUS
  <2>2. t \in Seq(S)
    BY <2>1, SeqDef
  <2>3. Add(s, f) = t
    BY <1>2 DEF Add
  <2> QED BY <2>2, <2>3
<1> QED BY <1>1, <1>2

LEMMA AddOnce ==
    ASSUME NEW s, NEW f
    PROVE  (CHOOSE after \in {Add(before, f) : before \in {s}} : TRUE) = Add(s, f)
<1>1. {Add(before, f) : before \in {s}} = {Add(s, f)}
  OBVIOUS
<1> QED BY <1>1

\* The recursion of AddAll has a solution, of one step for each finding added.
LEMMA AddAllSteps ==
    ASSUME NEW S, NEW items \in Seq(S), NEW fs \in Seq(S)
    PROVE  \E g \in [0..Len(fs) -> Seq(S)] :
              /\ g[0] = items
              /\ \A n \in 1..Len(fs) : g[n] = Add(g[n - 1], fs[n])
              /\ AddAll(items, fs) = g[Len(fs)]
<1> DEFINE N == Len(fs)
           E(g) == [n \in 0..N |->
                      IF n = 0 THEN items
                      ELSE CHOOSE after \in {Add(before, fs[n]) : before \in {g[n - 1]}} : TRUE]
           F == [n \in 1..N |-> [s \in Seq(S) |-> Add(s, fs[n])]]
<1>2. N \in Nat /\ \A n \in 1..N : fs[n] \in S
  OBVIOUS
<1>3. StepsWithin(F, N, Seq(S))
  BY AddIn, <1>2 DEF StepsWithin
<1>4. PICK g : MadeBy(g, F, N, Seq(S), items)
  <2> HIDE DEF F, N
  <2> QED BY <1>2, <1>3, StepByStep
<1>5. \A n \in 1..N : g[n] = Add(g[n - 1], fs[n])
  <2> SUFFICES ASSUME NEW n \in 1..N PROVE g[n] = Add(g[n - 1], fs[n])
    OBVIOUS
  <2>1. n - 1 \in 0..N
    BY <1>2
  <2>2. g[n - 1] \in Seq(S)
    BY <1>4, <2>1 DEF MadeBy
  <2>3. F[n][g[n - 1]] = Add(g[n - 1], fs[n])
    BY <2>2
  <2> QED BY <1>4, <2>3 DEF MadeBy
<1>6. g = E(g)
  <2>1. \A n \in 0..N : E(g)[n] = IF n = 0 THEN items ELSE Add(g[n - 1], fs[n])
    BY AddOnce
  <2>2. \A n \in 0..N : g[n] = E(g)[n]
    <3> HIDE DEF E
    <3> QED BY <1>2, <1>4, <1>5, <2>1 DEF MadeBy
  <2> QED BY <1>4, <2>2 DEF MadeBy
<1> DEFINE h == CHOOSE added : added = E(added)
<1>7. h = E(h)
  BY <1>6
<1>8. AddAll(items, fs) = h[N]
  BY DEF AddAll
<1> HIDE DEF h, E
<1>9. \A n \in 0..N : n \in {m \in 0..N : h[m] = g[m]}
  <2>1. \A n \in 0..N : h[n] = IF n = 0 THEN items ELSE Add(h[n - 1], fs[n])
    <3>1. \A n \in 0..N : E(h)[n] = IF n = 0 THEN items ELSE Add(h[n - 1], fs[n])
      BY AddOnce DEF E
    <3> QED BY <1>7, <3>1
  <2>2. 0 \in {m \in 0..N : h[m] = g[m]}
    BY <1>2, <1>4, <2>1 DEF MadeBy
  <2>3. ASSUME NEW n \in 1..N, n - 1 \in {m \in 0..N : h[m] = g[m]}
        PROVE  n \in {m \in 0..N : h[m] = g[m]}
    BY <1>2, <1>5, <2>1, <2>3
  <2> HIDE DEF N
  <2> QED BY <1>2, <2>2, <2>3, UpTo
<1> QED BY <1>2, <1>4, <1>5, <1>8, <1>9 DEF MadeBy

LEMMA AddAllIn == ASSUME NEW S, NEW items \in Seq(S), NEW fs \in Seq(S) PROVE AddAll(items, fs) \in Seq(S)
<1>1. Len(fs) \in 0..Len(fs)
  OBVIOUS
<1> QED BY <1>1, AddAllSteps

Keys(s) == {Key(s[i]) : i \in DOMAIN s}

LEMMA AddKeys == ASSUME NEW S, NEW s \in Seq(S), NEW f \in S PROVE Keys(Add(s, f)) = Keys(s) \union {Key(f)}
<1> DEFINE same == {i \in DOMAIN s : Key(s[i]) = Key(f)}
<1>1. CASE same = {}
  <2>1. Add(s, f) = Append(s, f)
    BY <1>1 DEF Add
  <2>2. /\ DOMAIN Append(s, f) = DOMAIN s \union {Len(s) + 1}
        /\ \A i \in DOMAIN s : Append(s, f)[i] = s[i]
        /\ Append(s, f)[Len(s) + 1] = f
    OBVIOUS
  <2> QED BY <2>1, <2>2 DEF Keys
<1>2. CASE same # {}
  <2> DEFINE t == [i \in DOMAIN s |->
                      IF i \in same /\ f.severity > s[i].severity THEN f ELSE s[i]]
  <2>1. Add(s, f) = t
    BY <1>2 DEF Add
  <2>2. DOMAIN t = DOMAIN s /\ \A i \in DOMAIN s : Key(t[i]) = Key(s[i])
    OBVIOUS
  <2>3. Key(f) \in Keys(s)
    BY <1>2 DEF Keys
  <2> HIDE DEF t
  <2> QED BY <2>1, <2>2, <2>3 DEF Keys
<1> QED BY <1>1, <1>2

\* What is added takes the place of nothing: no problem is lost, and none is made up.
LEMMA AddAllKeys ==
    ASSUME NEW S, NEW items \in Seq(S), NEW fs \in Seq(S)
    PROVE  Keys(AddAll(items, fs)) = Keys(items) \union Keys(fs)
<1>1. PICK g \in [0..Len(fs) -> Seq(S)] :
         /\ g[0] = items
         /\ \A n \in 1..Len(fs) : g[n] = Add(g[n - 1], fs[n])
         /\ AddAll(items, fs) = g[Len(fs)]
  BY AddAllSteps
<1> DEFINE N == Len(fs)
           Upto(n) == {Key(fs[j]) : j \in 1..n}
           Good == {n \in 0..N : Keys(g[n]) = Keys(items) \union Upto(n)}
<1>2. N \in Nat /\ DOMAIN fs = 1..N
  OBVIOUS
<1>3. 0 \in Good
  BY <1>1, <1>2
<1>4. ASSUME NEW n \in 1..N, n - 1 \in Good PROVE n \in Good
  <2>1. g[n - 1] \in Seq(S) /\ fs[n] \in S /\ n \in 0..N
    BY <1>1, <1>2
  <2>2. Keys(g[n]) = Keys(g[n - 1]) \union {Key(fs[n])}
    BY <1>1, <2>1, AddKeys
  <2>3. Upto(n) = Upto(n - 1) \union {Key(fs[n])}
    <3>1. 1..n = (1..(n - 1)) \union {n}
      BY <1>2
    <3> QED BY <3>1
  <2> QED BY <1>4, <2>1, <2>2, <2>3
<1>5. N \in Good
  <2> HIDE DEF Good, N
  <2>1. \A n \in 0..N : n \in Good
    BY <1>2, <1>3, <1>4, UpTo
  <2> QED BY <1>2, <2>1
<1> QED BY <1>1, <1>2, <1>5 DEF Keys

Elements(s, S) == \A i \in DOMAIN s : s[i] \in S

LEMMA SeqByElements ==
    ASSUME NEW s, NEW S, IsSeq(s), Elements(s, S)
    PROVE  s \in Seq(S)
<1> DEFINE n == Len(s)
<1>1. DOMAIN s = 1..n /\ n \in Nat /\ s = [k \in 1..n |-> s[k]]
  BY DEF IsSeq
<1> HIDE DEF n
<1>2. \A k \in 1..n : s[k] \in S
  BY <1>1 DEF Elements
<1>3. s \in [1..n -> S]
  BY <1>1, <1>2
<1> QED BY <1>1, <1>3, SeqDef

LEMMA SeqIs == ASSUME NEW S, NEW s \in Seq(S) PROVE IsSeq(s)
BY DEF IsSeq

\* What is added together is of the one list or of the other.
LEMMA AddAllElements ==
    ASSUME NEW items, NEW fs, IsSeq(items), IsSeq(fs)
    PROVE  /\ IsSeq(AddAll(items, fs))
           /\ \A i \in DOMAIN AddAll(items, fs) :
                 \/ \E j \in DOMAIN items : AddAll(items, fs)[i] = items[j]
                 \/ \E j \in DOMAIN fs : AddAll(items, fs)[i] = fs[j]
           /\ Keys(AddAll(items, fs)) = Keys(items) \union Keys(fs)
<1> DEFINE S == {items[j] : j \in DOMAIN items} \union {fs[j] : j \in DOMAIN fs}
<1>1. items \in Seq(S) /\ fs \in Seq(S)
  <2>1. Elements(items, S) /\ Elements(fs, S)
    BY DEF Elements
  <2> HIDE DEF S
  <2> QED BY <2>1, SeqByElements
<1>2. AddAll(items, fs) \in Seq(S) /\ Keys(AddAll(items, fs)) = Keys(items) \union Keys(fs)
  <2> HIDE DEF S
  <2> QED BY <1>1, AddAllIn, AddAllKeys
<1>3. \A i \in DOMAIN AddAll(items, fs) : AddAll(items, fs)[i] \in S
  <2> HIDE DEF S
  <2> QED BY <1>2, ElementOfSeq
<1>4. IsSeq(AddAll(items, fs))
  <2> HIDE DEF S
  <2> QED BY <1>2, SeqIs
<1> QED BY <1>2, <1>3, <1>4

LEMMA RemoveAtElements ==
    ASSUME NEW s, IsSeq(s), NEW k \in 1..Len(s)
    PROVE  /\ IsSeq(RemoveAt(s, k))
           /\ Len(RemoveAt(s, k)) = Len(s) - 1
           /\ \A i \in DOMAIN RemoveAt(s, k) :
                 i \in Nat /\ RemoveAt(s, k)[i] = IF i < k THEN s[i] ELSE s[i + 1]
<1> DEFINE S == {s[j] : j \in DOMAIN s}
           before == SubSeq(s, 1, k - 1)
           after == SubSeq(s, k + 1, Len(s))
<1>1. s \in Seq(S) /\ Len(s) \in Nat
  <2>1. Elements(s, S)
    BY DEF Elements
  <2> HIDE DEF S
  <2> QED BY <2>1, SeqByElements DEF IsSeq
<1>2. /\ before \in Seq(S) /\ Len(before) = k - 1
      /\ \A i \in 1..(k - 1) : before[i] = s[i]
  BY <1>1
<1>3. /\ after \in Seq(S) /\ Len(after) = Len(s) - k
      /\ \A i \in 1..(Len(s) - k) : after[i] = s[i + k]
  BY <1>1
<1> HIDE DEF S, before, after
<1>4. RemoveAt(s, k) = before \o after
  BY DEF RemoveAt, before, after
<1>5. before \o after \in Seq(S) /\ Len(before \o after) = Len(s) - 1
  <2>1. before \o after \in Seq(S) /\ Len(before \o after) = Len(before) + Len(after)
    BY <1>2, <1>3, ConcatProperties
  <2> QED BY <1>1, <1>2, <1>3, <2>1
<1>6. ASSUME NEW i \in 1..(Len(s) - 1)
      PROVE  (before \o after)[i] = IF i < k THEN s[i] ELSE s[i + 1]
  <2>1. CASE i < k
    BY <1>1, <1>2, <1>3, <2>1
  <2>2. CASE ~(i < k)
    <3>1. i - (k - 1) \in 1..(Len(s) - k)
      BY <1>1, <2>2
    <3>2. (before \o after)[i] = after[i - (k - 1)]
      BY <1>1, <1>2, <1>3, <2>2
    <3> QED BY <1>1, <1>3, <2>2, <3>1, <3>2
  <2> QED BY <2>1, <2>2
<1>7. IsSeq(before \o after)
  BY <1>5, SeqIs
<1>8. DOMAIN (before \o after) = 1..(Len(s) - 1)
  BY <1>5
<1> DEFINE t == before \o after
<1>9. /\ RemoveAt(s, k) = t /\ IsSeq(t) /\ Len(t) = Len(s) - 1 /\ DOMAIN t = 1..(Len(s) - 1)
      /\ \A i \in 1..(Len(s) - 1) : t[i] = IF i < k THEN s[i] ELSE s[i + 1]
  BY <1>4, <1>5, <1>6, <1>7, <1>8
<1> HIDE DEF t
<1> QED BY <1>1, <1>9

-----------------------------------------------------------------------------
(* The numbers that are reported.                                          *)

\* A finding as it is recorded, and as it leaves Verify.
Recorded(f) ==
    /\ DOMAIN f = FindingFields
    /\ f.query # NoQuery =>
          f.query \in DOMAIN Measures /\ f.count \in Measures[f.query] /\ f.claimed = f.count

Reverified(f) ==
    f.query # NoQuery =>
        /\ f.verified
        /\ f.count \in Measures[f.query]
        /\ f.count = 0 => f.claimed = 0
        /\ Measures[f.query] = {f.count} => f.claimed = f.count

\* The findings up to "verified" have been through Verify, those after it are as they
\* were recorded, and all are about something the audit can find.
FoundInv ==
    /\ options.pass \in Passes
    /\ IsSeq(made) /\ \A i \in DOMAIN made : Recorded(made[i]) /\ Key(made[i]) \in Reportable
    /\ IsSeq(found) /\ \A i \in DOMAIN found : Key(found[i]) \in Reportable
    /\ verified \in 0..Len(found)
    /\ \A i \in DOMAIN found :
          IF i <= verified THEN Reverified(found[i]) ELSE Recorded(found[i])
    /\ stage \notin {"verify", "over"} => verified = 0
    /\ outcome = "ok" => verified = Len(found)

LEMMA CheckedIsReverified ==
    ASSUME NEW f, Recorded(f), NEW got \in Remeasures(f), ~Dropped(f, got)
    PROVE  Reverified(Checked(f, got)) /\ Key(Checked(f, got)) = Key(f)
<1>1. CASE f.query = NoQuery
  BY <1>1 DEF Checked, Reverified
<1>2. CASE f.query # NoQuery
  <2>1. got # Unrunnable /\ (got = 0 => f.count = 0)
    BY <1>2 DEF Dropped
  <2>2. got \in Measures[f.query]
    BY <1>2, <2>1 DEF Remeasures
  <2>3. /\ Checked(f, got).count = got /\ Checked(f, got).verified = TRUE
        /\ Checked(f, got).query = f.query /\ Checked(f, got).claimed = f.claimed
        /\ Checked(f, got).rule = f.rule /\ Checked(f, got).at = f.at
    BY <1>2 DEF Checked, Recorded, FindingFields
  <2>4. f.claimed = f.count /\ f.count \in Measures[f.query]
    BY <1>2 DEF Recorded
  <2> HIDE DEF Checked
  <2> QED BY <2>1, <2>2, <2>3, <2>4 DEF Reverified, Key
<1> QED BY <1>1, <1>2

\* The model's reports are recorded with the number the engine returned, or not at all.
LEMMA LoopRecords ==
    ASSUME FoundInv, LoopStep
    PROVE  IsSeq(made') /\ \A i \in DOMAIN made' : Recorded(made'[i]) /\ Key(made'[i]) \in Reportable
<1>1. CASE made' = made
  BY <1>1 DEF FoundInv
<1>2. ASSUME NEW a \in Reports, NEW n \in Measures[a.query],
             a.claimed = n, made' = Append(made, AsFinding(a, n))
      PROVE  IsSeq(made') /\ \A i \in DOMAIN made' : Recorded(made'[i]) /\ Key(made'[i]) \in Reportable
  <2> DEFINE f == AsFinding(a, n)
             S == {made[j] : j \in DOMAIN made} \union {f}
  <2>1. Recorded(f) /\ Key(f) \in Reportable
    <3>1. /\ DOMAIN f = FindingFields /\ f.query = a.query /\ f.count = n /\ f.claimed = n
          /\ Key(f) = <<a.rule, a.at>>
      BY <1>2 DEF AsFinding, FindingFields, Key
    <3>2. a.query \in DOMAIN Measures
      BY LoopAssumption
    <3> HIDE DEF f
    <3> QED BY <3>1, <3>2 DEF Recorded, Reportable
  <2>2. made \in Seq(S) /\ f \in S
    <3>1. Elements(made, S) /\ f \in S
      BY DEF Elements
    <3> HIDE DEF S, f
    <3> QED BY <3>1, SeqByElements DEF FoundInv
  <2> HIDE DEF f, S
  <2>3. made' = Append(made, f)
    BY <1>2 DEF f
  <2>4. Append(made, f) \in Seq(S) /\ Len(made) \in Nat /\ DOMAIN made = 1..Len(made)
    BY <2>2
  <2>5. IsSeq(made')
    BY <2>3, <2>4, SeqIs
  <2>6. /\ DOMAIN made' = DOMAIN made \union {Len(made) + 1} /\ made'[Len(made) + 1] = f
        /\ \A i \in DOMAIN made : made'[i] = made[i]
    BY <2>2, <2>3
  <2> QED BY <2>1, <2>5, <2>6 DEF FoundInv
<1>3. \/ made' = made
      \/ \E a \in Reports : \E n \in Measures[a.query] :
            a.claimed = n /\ made' = Append(made, AsFinding(a, n))
  <2>1. ASSUME NEW a \in Reports, NEW n \in Measures[a.query], InvokeRecord(a, n)
        PROVE  made' = made \/ (a.claimed = n /\ made' = Append(made, AsFinding(a, n)))
    BY <2>1 DEF InvokeRecord, RecordOutcome
  <2>2. ASSUME NEW a, NEW n, InvokePropose(a, n) PROVE made' = made
    BY <2>2 DEF InvokePropose
  <2>3. ASSUME NEW id, InvokeRead(id) PROVE made' = made
    BY <2>3 DEF InvokeRead, worldVars
  <2>4. ASSUME NEW n, NEW tokens, ReplyCalls(n, tokens) PROVE made' = made
    BY <2>4 DEF ReplyCalls, worldVars
  <2>5. ASSUME NEW written, NEW refusal, NEW tokens, ReplyText(written, refusal, tokens)
        PROVE  made' = made
    BY <2>5 DEF ReplyText, worldVars
  <2>6. Top \/ CallFails \/ CallRetried \/ Backoff \/ BackoffCanceled \/ InvokeLook => made' = made
    BY DEF Top, CallFails, CallRetried, Backoff, BackoffCanceled, InvokeLook, worldVars
  <2> QED BY <2>1, <2>2, <2>3, <2>4, <2>5, <2>6 DEF LoopStep
<1> QED BY <1>1, <1>2, <1>3

\* Findings that are recorded join those there are.
LEMMA Joined ==
    ASSUME FoundInv, verified = 0, NEW fs, IsSeq(fs), found' = AddAll(found, fs),
           \A i \in DOMAIN fs : Recorded(fs[i]) /\ Key(fs[i]) \in Reportable
    PROVE  /\ IsSeq(found') /\ Keys(found) \subseteq Keys(found')
           /\ \A i \in DOMAIN found' : Recorded(found'[i]) /\ Key(found'[i]) \in Reportable
<1>1. IsSeq(found) /\ DOMAIN found = 1..Len(found)
  BY DEF FoundInv, IsSeq
<1>2. \A i \in DOMAIN found : Recorded(found[i]) /\ Key(found[i]) \in Reportable
  BY <1>1 DEF FoundInv
<1>3. /\ IsSeq(AddAll(found, fs))
      /\ \A i \in DOMAIN AddAll(found, fs) :
            \/ \E j \in DOMAIN found : AddAll(found, fs)[i] = found[j]
            \/ \E j \in DOMAIN fs : AddAll(found, fs)[i] = fs[j]
      /\ Keys(AddAll(found, fs)) = Keys(found) \union Keys(fs)
  BY <1>1, AddAllElements
<1> HIDE DEF IsSeq
<1> QED BY <1>2, <1>3

\* The findings of the checks and of the rules.
LEMMA PassRecorded ==
    ASSUME options.pass \in Passes, NEW fs, fs \in {options.pass.checks, options.pass.rules}
    PROVE  IsSeq(fs) /\ \A i \in DOMAIN fs : Recorded(fs[i]) /\ Key(fs[i]) \in Reportable
<1> DEFINE p == options.pass
<1>1. p \in Passes
  OBVIOUS
<1>2. IsSeq(p.checks) /\ IsSeq(p.rules)
  BY <1>1, PipelineAssumption
<1>3. \A i \in DOMAIN fs : fs[i] \in Range(p.checks) \union Range(p.rules)
  BY DEF Range
<1>4. \A f \in Range(p.checks) \union Range(p.rules) : Recorded(f)
  BY <1>1, PipelineAssumption DEF Recorded
<1>5. \A f \in Range(p.checks) \union Range(p.rules) : Key(f) \in Reportable
  BY <1>1 DEF Reportable
<1> QED BY <1>2, <1>3, <1>4, <1>5

\* One finding is verified, or left out.
LEMMA VerifyFound == ASSUME FoundInv, VerifyOne PROVE FoundInv'
<1> DEFINE k == verified + 1
           f == found[k]
<1>1. /\ stage = "verify" /\ verified < Len(found)
      /\ UNCHANGED <<options, stage, outcome, made>>
  BY DEF VerifyOne, loopVars
<1>2. /\ IsSeq(found) /\ Len(found) \in Nat /\ DOMAIN found = 1..Len(found)
      /\ verified \in Nat /\ k \in 1..Len(found)
  <2>1. IsSeq(found) /\ verified \in 0..Len(found)
    BY DEF FoundInv
  <2>2. Len(found) \in Nat /\ DOMAIN found = 1..Len(found)
    BY <2>1 DEF IsSeq
  <2> QED BY <1>1, <2>1, <2>2
<1>3. Recorded(f) /\ Key(f) \in Reportable
  <2>1. k \in DOMAIN found /\ ~(k <= verified)
    BY <1>2
  <2> HIDE DEF k
  <2> QED BY <2>1 DEF FoundInv
<1>4. outcome # "ok"
  BY <1>1 DEF FoundInv
<1>5. PICK got \in Remeasures(f) :
         IF Dropped(f, got)
         THEN found' = RemoveAt(found, k) /\ verified' = verified
         ELSE found' = [found EXCEPT ![k] = Checked(f, got)] /\ verified' = k
  BY DEF VerifyOne
<1> HIDE DEF f
<1>6. /\ IsSeq(found')
      /\ verified' \in 0..Len(found')
      /\ \A i \in DOMAIN found' :
            /\ Key(found'[i]) \in Reportable
            /\ IF i <= verified' THEN Reverified(found'[i]) ELSE Recorded(found'[i])
  <2>1. CASE Dropped(f, got)
    <3>1. /\ IsSeq(found') /\ Len(found') = Len(found) - 1 /\ verified' = verified
          /\ \A i \in DOMAIN found' : i \in Nat /\ found'[i] = IF i < k THEN found[i] ELSE found[i + 1]
      BY <1>2, <1>5, <2>1, RemoveAtElements
    <3>2. DOMAIN found' = 1..(Len(found) - 1)
      BY <1>2, <3>1 DEF IsSeq
    <3>3. \A i \in DOMAIN found' : i \in DOMAIN found /\ i + 1 \in DOMAIN found
      BY <1>2, <3>2
    <3>4. \A i \in DOMAIN found' : Key(found'[i]) \in Reportable
      BY <3>1, <3>3 DEF FoundInv
    <3>5. \A i \in DOMAIN found' :
             IF i <= verified' THEN Reverified(found'[i]) ELSE Recorded(found'[i])
      <4>1. ASSUME NEW i \in DOMAIN found', i <= verified PROVE Reverified(found'[i])
        <5>1. i < k /\ i \in DOMAIN found
          BY <1>2, <3>3, <4>1, <3>1
        <5> QED BY <3>1, <4>1, <5>1 DEF FoundInv
      <4>2. ASSUME NEW i \in DOMAIN found', ~(i <= verified) PROVE Recorded(found'[i])
        <5>1. ~(i < k) /\ i + 1 \in DOMAIN found /\ ~(i + 1 <= verified)
          BY <1>2, <3>3, <3>1, <4>2
        <5> QED BY <3>1, <4>2, <5>1 DEF FoundInv
      <4> QED BY <3>1, <4>1, <4>2
    <3> QED BY <1>2, <3>1, <3>4, <3>5
  <2>2. CASE ~Dropped(f, got)
    <3>1. found' = [found EXCEPT ![k] = Checked(f, got)] /\ verified' = k
      BY <1>5, <2>2
    <3>2. /\ DOMAIN found' = DOMAIN found /\ found'[k] = Checked(f, got)
          /\ \A i \in DOMAIN found : i # k => found'[i] = found[i]
      BY <1>2, <3>1
    <3>3. Reverified(found'[k]) /\ Key(found'[k]) = Key(f)
      BY <1>3, <2>2, <3>2, CheckedIsReverified
    <3>4. IsSeq(found') /\ Len(found') = Len(found)
      <4> DEFINE S == {found'[j] : j \in DOMAIN found}
      <4>1. found' \in [1..Len(found) -> S]
        BY <1>2, <3>1, <3>2
      <4>2. found' \in Seq(S)
        <5> HIDE DEF S
        <5> QED BY <1>2, <4>1, SeqDef
      <4>3. IsSeq(found')
        BY <4>2, SeqIs
      <4> QED BY <1>2, <3>2, <4>3 DEF IsSeq
    <3>5. \A i \in DOMAIN found' :
            /\ Key(found'[i]) \in Reportable
            /\ IF i <= k THEN Reverified(found'[i]) ELSE Recorded(found'[i])
      <4>1. \A i \in DOMAIN found : i # k => (i <= k <=> i <= verified)
        BY <1>2
      <4> HIDE DEF k
      <4> QED BY <1>3, <3>2, <3>3, <4>1 DEF FoundInv
    <3> QED BY <1>2, <3>1, <3>4, <3>5
  <2> QED BY <2>1, <2>2
<1>7. outcome' # "ok" /\ stage' = "verify"
  BY <1>1, <1>4
<1> QED BY <1>1, <1>6, <1>7 DEF FoundInv

\* Verify makes nothing up.
LEMMA VerifyKeys == ASSUME FoundInv, VerifyOne PROVE Keys(found') \subseteq Keys(found)
<1> DEFINE k == verified + 1
<1>1. IsSeq(found) /\ verified \in 0..Len(found) /\ verified < Len(found)
  BY DEF FoundInv, VerifyOne
<1>2. DOMAIN found = 1..Len(found) /\ Len(found) \in Nat
  BY <1>1 DEF IsSeq
<1>3. k \in 1..Len(found) /\ ~(k <= verified)
  BY <1>1, <1>2
<1>4. PICK got \in Remeasures(found[k]) :
         IF Dropped(found[k], got)
         THEN found' = RemoveAt(found, k)
         ELSE found' = [found EXCEPT ![k] = Checked(found[k], got)]
  BY DEF VerifyOne
<1> HIDE DEF k
<1>5. CASE Dropped(found[k], got)
  <2>1. /\ IsSeq(found') /\ Len(found') = Len(found) - 1
        /\ \A i \in DOMAIN found' : i \in Nat /\ found'[i] = IF i < k THEN found[i] ELSE found[i + 1]
    BY <1>1, <1>3, <1>4, <1>5, RemoveAtElements
  <2>2. DOMAIN found' = 1..(Len(found) - 1)
    BY <1>2, <2>1 DEF IsSeq
  <2>3. \A i \in DOMAIN found' : i \in DOMAIN found /\ i + 1 \in DOMAIN found
    BY <1>2, <2>2
  <2> QED BY <2>1, <2>3 DEF Keys
<1>6. CASE ~Dropped(found[k], got)
  <2>1. /\ DOMAIN found' = DOMAIN found /\ found'[k] = Checked(found[k], got)
        /\ \A i \in DOMAIN found : i # k => found'[i] = found[i]
    BY <1>2, <1>3, <1>4, <1>6
  <2>2. Recorded(found[k])
    BY <1>2, <1>3 DEF FoundInv
  <2>3. Key(found'[k]) = Key(found[k])
    BY <1>6, <2>1, <2>2, CheckedIsReverified
  <2> QED BY <2>1, <2>3 DEF Keys
<1> QED BY <1>5, <1>6

LEMMA FoundStep == HeldInv /\ FoundInv /\ [Next]_vars => FoundInv'
<1> SUFFICES ASSUME HeldInv, FoundInv, [Next]_vars PROVE FoundInv'
  OBVIOUS
<1>1. CASE Agent
  BY <1>1, LoopRecords DEF Agent, pipelineVars, FoundInv
<1>2. CASE Judge
  <2>1. /\ stage' \in {"rules", "lockdown", "verify"} /\ stage \in {"checks", "rules"}
        /\ UNCHANGED <<options, made, verified, outcome>>
    BY <1>2 DEF Judge, Enter, After, loopVars
  <2> DEFINE fs == IF stage = "checks" THEN options.pass.checks ELSE options.pass.rules
  <2>2. found' = AddAll(found, fs) /\ fs \in {options.pass.checks, options.pass.rules}
    BY <1>2 DEF Judge
  <2>3. verified = 0 /\ outcome # "ok"
    BY <2>1 DEF FoundInv, HeldInv, Deterministic
  <2> HIDE DEF fs
  <2>4. IsSeq(fs) /\ \A i \in DOMAIN fs : Recorded(fs[i]) /\ Key(fs[i]) \in Reportable
    BY <2>2, PassRecorded DEF FoundInv
  <2>5. IsSeq(found') /\ \A i \in DOMAIN found' : Recorded(found'[i]) /\ Key(found'[i]) \in Reportable
    BY <2>2, <2>3, <2>4, Joined
  <2> QED BY <2>1, <2>3, <2>5 DEF FoundInv, IsSeq
<1>3. CASE AgentDone
  <2>1. /\ stage = "agent" /\ stage' = "verify" /\ found' = AddAll(found, made)
        /\ UNCHANGED <<options, made, verified, outcome>>
    BY <1>3 DEF AgentDone, Enter, loopVars
  <2>2. verified = 0 /\ outcome # "ok"
    BY <2>1 DEF FoundInv, HeldInv
  <2>3. IsSeq(found') /\ \A i \in DOMAIN found' : Recorded(found'[i]) /\ Key(found'[i]) \in Reportable
    BY <2>1, <2>2, Joined DEF FoundInv
  <2> QED BY <2>1, <2>2, <2>3 DEF FoundInv, IsSeq
<1>4. CASE VerifyOne
  BY <1>4, VerifyFound
<1>5. Discover \/ OpenEngine \/ Load \/ Lockdown \/ ContextReady
        => /\ UNCHANGED <<options, found, verified, outcome, made>>
           /\ stage \notin {"verify", "over"}
  BY DEF Discover, OpenEngine, Load, Lockdown, ContextReady, loopVars, worldVars
<1>6. DiscoverFails \/ OpenFails \/ StageFails
        => /\ UNCHANGED <<options, found, verified, made>> /\ outcome' = "error" /\ stage' = "over"
  BY DEF DiscoverFails, OpenFails, StageFails, ReturnError, loopVars
<1>7. CASE ReturnResult
  BY <1>7 DEF ReturnResult, loopVars, FoundInv
<1>8. Context \/ CloseResult \/ Cancel \/ UNCHANGED vars
        => UNCHANGED <<options, found, verified, made, stage, outcome>>
  BY DEF Context, CloseResult, Cancel, vars, pipelineVars, loopVars
<1>9. CASE UNCHANGED <<options, found, verified, made, stage, outcome>>
  BY <1>9 DEF FoundInv
<1>10. CASE UNCHANGED <<options, found, verified, outcome, made>> /\ stage \notin {"verify", "over"}
  BY <1>10 DEF FoundInv
<1>11. CASE /\ UNCHANGED <<options, found, verified, made>> /\ outcome' = "error" /\ stage' = "over"
  BY <1>11 DEF FoundInv
<1> QED BY <1>1, <1>2, <1>3, <1>4, <1>5, <1>6, <1>7, <1>8, <1>9, <1>10, <1>11 DEF Next, Progress

LEMMA FoundInvariant == Spec => []FoundInv
<1>1. ASSUME Init PROVE FoundInv
  <2>1. /\ options.pass \in Passes /\ made = <<>> /\ found = <<>> /\ verified = 0
        /\ stage = "discover" /\ outcome = "running"
    BY <1>1 DEF Init, InitLoop
  <2>2. IsSeq(<<>>) /\ DOMAIN <<>> = {} /\ Len(<<>>) = 0
    BY DEF IsSeq
  <2> QED BY <2>1, <2>2 DEF FoundInv
<1>2. QED BY <1>1, FoundStep, HeldInvariant, PTL DEF Spec

\* Whatever the model claims, and however often a query is asked, a report carries no
\* number under a finding that the engine did not return for its query.
THEOREM ReportedNumbersAlwaysTheEngines == Spec => []ReportedNumbersAreTheEngines
<1>1. FoundInv => ReportedNumbersAreTheEngines
  <2> SUFFICES ASSUME FoundInv, outcome = "ok", NEW i \in DOMAIN found PROVE Reverified(found[i])
    BY DEF ReportedNumbersAreTheEngines, Reverified
  <2>1. i <= verified
    BY DEF FoundInv, IsSeq
  <2> QED BY <2>1 DEF FoundInv
<1>2. QED BY <1>1, FoundInvariant, PTL

-----------------------------------------------------------------------------
(* The promise.                                                            *)

Problems == {Key(found[i]) : i \in DOMAIN found}

Held == engine \in {"open", "locked"}

LEMMA Found ==
    FoundInv => Problems \subseteq Reportable /\ Problems = Keys(found)
BY DEF FoundInv, Problems, Keys

\* What a step does to the phase its callers see.
LEMMA PhaseIs ==
    /\ outcome = "error" => Phase = "error"
    /\ outcome = "ok" => Phase = "result"
    /\ outcome = "running" /\ stage = "verify" => Phase = "verifying"
    /\ outcome = "running" /\ stage \in {"context", "agent"} => Phase = "asking"
    /\ outcome = "running" /\ stage \notin {"verify", "context", "agent"} => Phase = "reading"
BY DEF Phase

LEMMA PromiseStep ==
    ASSUME HeldInv, FoundInv, FoundInv', [Next]_vars
    PROVE  [Promise!Next]_(Promise!promiseVars)
<1> DEFINE Stutter == UNCHANGED <<Phase, Held, Problems>>
<1>1. Promise!Next \/ Stutter => [Promise!Next]_(Promise!promiseVars)
  BY DEF Promise!promiseVars, Held, Problems
<1> SUFFICES Promise!Next \/ Stutter
  BY <1>1
<1>2. CASE Discover \/ Load
  <2>1. UNCHANGED <<outcome, engine, found>> /\ outcome = "running"
        /\ stage \in {"discover"} \union Deterministic
        /\ stage' \in {"open"} \union Deterministic
    BY <1>2 DEF Discover, Load, Enter, After, HeldInv, Deterministic
  <2>2. Phase = "reading" /\ Phase' = "reading"
    BY <2>1, PhaseIs DEF Deterministic, Phase
  <2> QED BY <2>1, <2>2 DEF Held, Problems
<1>3. CASE DiscoverFails \/ OpenFails \/ StageFails
  <2>1. /\ UNCHANGED found /\ outcome = "running" /\ outcome' = "error"
        /\ stage \in {"discover", "open"} \union Deterministic
        /\ engine' = IF engine \in {"open", "locked"} THEN "closed" ELSE engine
    BY <1>3 DEF DiscoverFails, OpenFails, StageFails, ReturnError, HeldInv, Deterministic
  <2>2. Phase = "reading" /\ Phase' = "error"
    BY <2>1 DEF Deterministic, Phase
  <2>3. Promise!Fail
    BY <2>1, <2>2 DEF Promise!Fail
  <2> QED BY <2>3 DEF Promise!Next
<1>4. CASE OpenEngine
  <2>1. /\ UNCHANGED <<found, outcome>> /\ outcome = "running" /\ stage = "open"
        /\ stage' = "ingest" /\ engine = "none" /\ engine' = "open"
    BY <1>4 DEF OpenEngine, Enter, HeldInv
  <2>2. Phase = "reading" /\ Phase' = "reading"
    BY <2>1 DEF Phase
  <2>3. Promise!Hold
    BY <2>1, <2>2 DEF Promise!Hold
  <2> QED BY <2>3 DEF Promise!Next
<1>5. CASE Judge
  <2>1. /\ UNCHANGED <<options, outcome, engine, verified>> /\ outcome = "running"
        /\ stage \in {"checks", "rules"} /\ stage' \in {"rules", "lockdown", "verify"}
        /\ engine = "open"
    BY <1>5 DEF Judge, Enter, After, HeldInv, Deterministic
  <2> DEFINE fs == IF stage = "checks" THEN options.pass.checks ELSE options.pass.rules
  <2>2. found' = AddAll(found, fs) /\ fs \in {options.pass.checks, options.pass.rules}
    BY <1>5 DEF Judge
  <2> HIDE DEF fs
  <2>3. IsSeq(fs) /\ \A i \in DOMAIN fs : Recorded(fs[i]) /\ Key(fs[i]) \in Reportable
    BY <2>2, PassRecorded DEF FoundInv
  <2>4. Keys(found) \subseteq Keys(found')
    <3>1. verified = 0
      BY <2>1 DEF FoundInv
    <3> QED BY <2>2, <2>3, <3>1, Joined
  <2>5. Phase = "reading" /\ Phase' \in {"reading", "verifying"}
    BY <2>1 DEF Phase
  <2>6. Problems \subseteq Problems' /\ Problems' \in SUBSET Reportable
    BY <2>4, Found DEF Problems, Keys, FoundInv
  <2>7. Promise!Find
    BY <2>1, <2>5, <2>6 DEF Promise!Find, Problems
  <2> QED BY <2>7 DEF Promise!Next
<1>6. CASE Lockdown
  <2>1. /\ UNCHANGED <<found, outcome>> /\ outcome = "running" /\ stage = "lockdown"
        /\ stage' \in {"agent", "context"} /\ engine = "open" /\ engine' = "locked"
    BY <1>6 DEF Lockdown, Enter, HeldInv, Deterministic
  <2>2. Phase = "reading" /\ Phase' = "asking"
    BY <2>1 DEF Phase
  <2>3. Problems' = Problems /\ Problems \in SUBSET Reportable
    BY <2>1, Found DEF Problems
  <2>4. Promise!Find
    BY <2>1, <2>2, <2>3 DEF Promise!Find, Problems
  <2> QED BY <2>4 DEF Promise!Next
<1>7. CASE Context \/ ContextReady \/ Agent
  <2>1. /\ UNCHANGED <<found, outcome, engine>> /\ outcome = "running"
        /\ stage \in {"context", "agent"} /\ stage' \in {"context", "agent"}
    BY <1>7 DEF Context, ContextReady, Agent, Enter, pipelineVars, HeldInv
  <2>2. Phase = "asking" /\ Phase' = "asking"
    BY <2>1 DEF Phase
  <2> QED BY <2>1, <2>2 DEF Held, Problems
<1>8. CASE AgentDone
  <2>1. /\ UNCHANGED <<outcome, engine>> /\ outcome = "running"
        /\ stage = "agent" /\ stage' = "verify" /\ found' = AddAll(found, made)
    BY <1>8 DEF AgentDone, Enter, HeldInv
  <2>2. Keys(found) \subseteq Keys(found')
    <3>1. verified = 0 /\ IsSeq(made)
          /\ \A i \in DOMAIN made : Recorded(made[i]) /\ Key(made[i]) \in Reportable
      BY <2>1 DEF FoundInv
    <3> QED BY <2>1, <3>1, Joined
  <2>3. Problems \subseteq Problems' /\ Problems' \in SUBSET Reportable
    BY <2>2, Found DEF Problems, Keys, FoundInv
  <2>4. Phase = "asking" /\ Phase' = "verifying"
    BY <2>1 DEF Phase
  <2>5. Promise!Ask
    BY <2>1, <2>3, <2>4 DEF Promise!Ask, Problems
  <2> QED BY <2>5 DEF Promise!Next
<1>9. CASE VerifyOne
  <2>1. /\ UNCHANGED <<outcome, engine, stage>> /\ outcome = "running" /\ stage = "verify"
    BY <1>9 DEF VerifyOne, HeldInv
  <2>2. Phase = "verifying" /\ Phase' = "verifying"
    BY <2>1 DEF Phase
  <2>3. Problems' \subseteq Problems
    BY <1>9, VerifyKeys DEF Problems, Keys
  <2>4. Promise!Drop
    BY <2>1, <2>2, <2>3 DEF Promise!Drop, Problems
  <2> QED BY <2>4 DEF Promise!Next
<1>10. CASE ReturnResult
  <2>1. /\ UNCHANGED <<found, engine>> /\ outcome = "running" /\ stage = "verify"
        /\ outcome' = "ok"
    BY <1>10 DEF ReturnResult, HeldInv
  <2>2. Phase = "verifying" /\ Phase' = "result"
    BY <2>1 DEF Phase
  <2>3. Promise!Return
    BY <2>1, <2>2 DEF Promise!Return
  <2> QED BY <2>3 DEF Promise!Next
<1>11. CASE CloseResult
  <2>1. /\ UNCHANGED <<found, outcome>> /\ outcome = "ok" /\ engine \in {"open", "locked"}
        /\ engine' = "closed"
    BY <1>11 DEF CloseResult
  <2>2. Phase = "result" /\ Phase' = "result"
    BY <2>1 DEF Phase
  <2>3. Promise!Close
    BY <2>1, <2>2 DEF Promise!Close
  <2> QED BY <2>3 DEF Promise!Next
<1>12. CASE Cancel \/ UNCHANGED vars
  BY <1>12 DEF Cancel, vars, pipelineVars, Phase, Held, Problems
<1> QED BY <1>2, <1>3, <1>4, <1>5, <1>6, <1>7, <1>8, <1>9, <1>10, <1>11, <1>12 DEF Next, Progress

\* The pipeline implements what its callers take an audit for: nothing fails it once its
\* data is read, it keeps an engine only for a result, the model only adds to what the
\* checks and rules found, and only Verify takes anything out.
THEOREM ImplementsPromise == Spec => PromiseKept
<1>1. Init => Promise!Init
  BY DEF Init, Promise!Init, Phase
<1>2. HeldInv /\ FoundInv /\ FoundInv' /\ [Next]_vars => [Promise!Next]_(Promise!promiseVars)
  BY PromiseStep
<1>3. QED BY <1>1, <1>2, HeldInvariant, FoundInvariant, PTL DEF Spec, PromiseKept, Promise!Spec

-----------------------------------------------------------------------------
(* The catalog.                                                            *)

\* Among a name and its numbered forms there is one that is free, and it is the one given.
LEMMA UniqueIDIsFree ==
    ASSUME NEW base, IsSeq(base), NEW seen, IsFiniteSet(seen)
    PROVE  /\ UniqueID(base, seen) \notin seen
           /\ UniqueID(base, seen) = base \/ \E n \in Nat : UniqueID(base, seen) = base \o <<n>>
<1> DEFINE K == Cardinality(seen)
           Form == [n \in 2..(K + 2) |-> base \o <<n>>]
           Free == {n \in 2..(K + 2) : base \o <<n>> \notin seen}
           Given(n) == base \o <<n>> \notin seen /\ \A m \in 2..(n - 1) : base \o <<m>> \in seen
<1>1. K \in Nat
  BY FS_CardinalityType
<1>2. \A m, n \in Nat : base \o <<m>> = base \o <<n>> => m = n
  <2> DEFINE S == {base[j] : j \in DOMAIN base} \union Nat
  <2>1. base \in Seq(S)
    <3>1. Elements(base, S)
      BY DEF Elements
    <3> HIDE DEF S
    <3> QED BY <3>1, SeqByElements
  <2>2. ASSUME NEW n \in Nat PROVE (base \o <<n>>)[Len(base) + 1] = n
    <3>1. <<n>> \in Seq(S) /\ Len(<<n>>) = 1 /\ <<n>>[1] = n
      OBVIOUS
    <3> HIDE DEF S
    <3>2. Len(base) \in Nat
      BY <2>1
    <3> QED BY <2>1, <3>1, <3>2, ConcatProperties
  <2> QED BY <2>2
<1>3. Free # {}
  <2> SUFFICES ASSUME Free = {} PROVE FALSE
    OBVIOUS
  <2>1. Form \in [2..(K + 2) -> seen]
    OBVIOUS
  <2>2. IsFiniteSet(2..(K + 2)) /\ Cardinality(2..(K + 2)) = K + 1
    <3>1. 2 \in Int /\ K + 2 \in Int /\ ~(2 > K + 2) /\ (K + 2) - 2 + 1 = K + 1
      BY <1>1
    <3> HIDE DEF K
    <3> QED BY <3>1, FS_Interval
  <2>3. K < K + 1
    BY <1>1
  <2>4. \A x, y \in 2..(K + 2) : Form[x] = Form[y] => x = y
    <3>1. \A x \in 2..(K + 2) : Form[x] = base \o <<x>>
      OBVIOUS
    <3>2. \A x \in 2..(K + 2) : x \in Nat
      BY <1>1
    <3> HIDE DEF Form, K
    <3> QED BY <1>2, <3>1, <3>2
  <2>5. \E x, y \in 2..(K + 2) : x # y /\ Form[x] = Form[y]
    <3> DEFINE D == 2..(K + 2)
    <3>1. IsFiniteSet(D) /\ Cardinality(seen) < Cardinality(D) /\ Form \in [D -> seen]
      BY <2>1, <2>2, <2>3
    <3> HIDE DEF Form, D
    <3>2. \E x, y \in D : x # y /\ Form[x] = Form[y]
      BY <3>1, FS_PigeonHole
    <3> QED BY <3>2 DEF D
  <2> QED BY <2>4, <2>5
<1>4. PICK first \in Free : \A n \in Free : first <= n
  <2>1. Free \subseteq Nat
    BY <1>1
  <2> HIDE DEF Free
  <2> QED BY <1>3, <2>1, LeastNat
<1>5. first \in 2..(K + 2) /\ Given(first)
  <2>1. first \in 2..(K + 2) /\ first \in Nat /\ base \o <<first>> \notin seen
    BY <1>1, <1>4
  <2>2. ASSUME NEW m \in 2..(first - 1) PROVE base \o <<m>> \in seen
    <3>1. m \in 2..(K + 2) /\ ~(first <= m)
      BY <1>1, <2>1
    <3> QED BY <1>4, <3>1
  <2> QED BY <2>1, <2>2
<1> DEFINE c == CHOOSE n \in 2..(K + 2) : Given(n)
<1>6. c \in 2..(K + 2) /\ Given(c)
  BY <1>5
<1>7. c \in Nat /\ base \o <<c>> \notin seen
  <2> HIDE DEF c
  <2> QED BY <1>1, <1>6
<1>8. UniqueID(base, seen) = IF base \notin seen THEN base ELSE base \o <<c>>
  BY DEF UniqueID
<1> HIDE DEF c
<1> QED BY <1>7, <1>8

LEMMA FiniteImage ==
    ASSUME NEW n \in Nat, NEW s
    PROVE  IsFiniteSet({s[k] : k \in 1..n})
<1> DEFINE T == {s[k] : k \in 1..n}
           f == [k \in 1..n |-> s[k]]
<1>1. f \in [1..n -> T] /\ \A t \in T : \E k \in 1..n : f[k] = t
  OBVIOUS
<1>2. f \in Surjection(1..n, T)
  <2> HIDE DEF f, T
  <2> QED BY <1>1 DEF Surjection
<1>3. IsFiniteSet(1..n)
  BY FS_Interval
<1> HIDE DEF f, T
<1>4. IsFiniteSet(T)
  BY <1>2, <1>3, FS_Surjection
<1> QED BY <1>4 DEF T

\* What a concatenation is made of, with no word of what either sequence holds.
Joins(u, s, t) ==
    /\ IsSeq(u)
    /\ \A n \in DOMAIN u :
          (\E m \in DOMAIN s : u[n] = s[m]) \/ (\E m \in DOMAIN t : u[n] = t[m])
    /\ \A m \in DOMAIN s : \E n \in DOMAIN u : u[n] = s[m]
    /\ \A m \in DOMAIN t : \E n \in DOMAIN u : u[n] = t[m]

LEMMA ConcatElements ==
    ASSUME NEW s, NEW t, IsSeq(s), IsSeq(t)
    PROVE  Joins(s \o t, s, t)
<1> DEFINE S == {s[j] : j \in DOMAIN s} \union {t[j] : j \in DOMAIN t}
           u == s \o t
<1>1. s \in Seq(S) /\ t \in Seq(S)
  <2>1. Elements(s, S) /\ Elements(t, S)
    BY DEF Elements
  <2> HIDE DEF S
  <2> QED BY <2>1, SeqByElements
<1> HIDE DEF S
<1>2. /\ Len(s) \in Nat /\ DOMAIN s = 1..Len(s)
      /\ Len(t) \in Nat /\ DOMAIN t = 1..Len(t)
  BY <1>1
<1>3. /\ u \in Seq(S) /\ Len(u) = Len(s) + Len(t)
      /\ \A i \in 1..(Len(s) + Len(t)) : u[i] = IF i <= Len(s) THEN s[i] ELSE t[i - Len(s)]
  BY <1>1, ConcatProperties
<1> HIDE DEF u
<1>4. DOMAIN u = 1..(Len(s) + Len(t)) /\ IsSeq(u)
  BY <1>3, SeqIs
<1>5. ASSUME NEW n \in DOMAIN u
      PROVE  (\E m \in DOMAIN s : u[n] = s[m]) \/ (\E m \in DOMAIN t : u[n] = t[m])
  <2>1. CASE n <= Len(s)
    BY <1>2, <1>3, <1>4, <2>1
  <2>2. CASE ~(n <= Len(s))
    <3>1. n - Len(s) \in DOMAIN t
      BY <1>2, <1>4, <2>2
    <3> QED BY <1>3, <1>4, <2>2, <3>1
  <2> QED BY <2>1, <2>2
<1>6. ASSUME NEW m \in DOMAIN s PROVE m \in DOMAIN u /\ u[m] = s[m]
  BY <1>2, <1>3, <1>4
<1>7. ASSUME NEW m \in DOMAIN t PROVE m + Len(s) \in DOMAIN u /\ u[m + Len(s)] = t[m]
  <2>1. /\ m + Len(s) \in 1..(Len(s) + Len(t)) /\ ~(m + Len(s) <= Len(s))
        /\ (m + Len(s)) - Len(s) = m
    BY <1>2
  <2> QED BY <1>3, <1>4, <2>1
<1>8. /\ \A m \in DOMAIN s : \E n \in DOMAIN u : u[n] = s[m]
      /\ \A m \in DOMAIN t : \E n \in DOMAIN u : u[n] = t[m]
  BY <1>6, <1>7
<1>9. Joins(u, s, t)
  BY <1>4, <1>5, <1>8 DEF Joins
<1> QED BY <1>9 DEF u

\* The ids of the documents of a server, one after another: each is told apart from those
\* the catalog has and from those before it.
LEMMA NamedApart ==
    ASSUME NEW i \in DOMAIN Servers, IsFiniteSet(DOMAIN byID)
    PROVE  /\ DOMAIN Named(i) = DOMAIN Listed(i) /\ IsSeq(Named(i))
           /\ \A n \in DOMAIN Named(i) :
                 /\ n \in Nat
                 /\ Named(i)[n] = [id |-> Named(i)[n].id, server |-> i, uri |-> Listed(i)[n].uri]
                 /\ Named(i)[n].id \notin DOMAIN byID
                 /\ \A m \in DOMAIN Named(i) : Named(i)[m].id = Named(i)[n].id => m = n
<1> DEFINE docs == Listed(i)
           N == Len(docs)
           E(g) == [n \in 0..N |->
                      IF n = 0 THEN <<>>
                      ELSE Append(g[n - 1],
                                  UniqueID(docs[n].id,
                                           DOMAIN byID \union {g[n - 1][k] : k \in 1..(n - 1)}))]
           Next1(n, s) == UniqueID(docs[n].id, DOMAIN byID \union {s[k] : k \in 1..(n - 1)})
           Bases == {docs[n].id : n \in 1..N}
           T == Bases \union {b \o <<n>> : b \in Bases, n \in Nat}
           F == [n \in 1..N |-> [s \in Seq(T) |-> Append(s, Next1(n, s))]]
<1>1. N \in Nat /\ DOMAIN docs = 1..N /\ \A n \in 1..N : IsSeq(docs[n].id)
  <2> DEFINE all == Servers[i].docs
             S == {all[j] : j \in DOMAIN all}
             top == IF Len(all) < MaxCatalog THEN Len(all) ELSE MaxCatalog
  <2>1. IsSeq(all) /\ \A n \in DOMAIN all : IsSeq(all[n].id)
    BY ServersAssumption
  <2>2. all \in Seq(S)
    <3>1. Elements(all, S)
      BY DEF Elements
    <3> HIDE DEF S, all
    <3> QED BY <2>1, <3>1, SeqByElements
  <2>3. docs = SubSeq(all, 1, top)
    BY DEF Listed
  <2> HIDE DEF all, S, docs
  <2>4. top \in 0..Len(all) /\ Len(all) \in Nat /\ DOMAIN all = 1..Len(all)
    BY <2>2, ServersAssumption
  <2>5. Len(docs) = top /\ DOMAIN docs = 1..top /\ \A n \in 1..top : docs[n] = all[n]
    BY <2>2, <2>3, <2>4
  <2> QED BY <2>1, <2>4, <2>5
<1> HIDE DEF docs, N, Bases
<1>2. ASSUME NEW n \in 1..N, NEW s
      PROVE  Next1(n, s) \in T /\ Next1(n, s) \notin DOMAIN byID \union {s[k] : k \in 1..(n - 1)}
  <2> DEFINE seen == DOMAIN byID \union {s[k] : k \in 1..(n - 1)}
  <2>1. IsFiniteSet(seen)
    <3>1. n - 1 \in Nat
      BY <1>1
    <3>2. IsFiniteSet({s[k] : k \in 1..(n - 1)})
      BY <3>1, FiniteImage
    <3> QED BY <3>2, FS_Union
  <2>2. docs[n].id \in Bases /\ IsSeq(docs[n].id)
    BY <1>1 DEF Bases
  <2> HIDE DEF seen
  <2>3. /\ UniqueID(docs[n].id, seen) \notin seen
        /\ \/ UniqueID(docs[n].id, seen) = docs[n].id
           \/ \E m \in Nat : UniqueID(docs[n].id, seen) = docs[n].id \o <<m>>
    BY <2>1, <2>2, UniqueIDIsFree
  <2>4. Next1(n, s) = UniqueID(docs[n].id, seen)
    BY DEF seen
  <2> HIDE DEF Next1
  <2>5. Next1(n, s) \in T
    BY <2>2, <2>3, <2>4
  <2>6. Next1(n, s) \notin seen
    BY <2>3, <2>4
  <2> QED BY <2>5, <2>6 DEF seen
<1> HIDE DEF T, Next1
<1>3. StepsWithin(F, N, Seq(T))
  <2>1. \A n \in 1..N : \A s \in Seq(T) : Append(s, Next1(n, s)) \in Seq(T)
    BY <1>2
  <2> QED BY <2>1 DEF StepsWithin
<1>4. PICK g : MadeBy(g, F, N, Seq(T), <<>>)
  <2>1. <<>> \in Seq(T)
    OBVIOUS
  <2> HIDE DEF F
  <2> QED BY <1>1, <1>3, <2>1, StepByStep
<1>5. /\ g \in [0..N -> Seq(T)] /\ g[0] = <<>>
      /\ \A n \in 1..N : g[n] = Append(g[n - 1], Next1(n, g[n - 1]))
  <2>1. g \in [0..N -> Seq(T)] /\ g[0] = <<>> /\ \A n \in 1..N : g[n] = F[n][g[n - 1]]
    BY <1>4 DEF MadeBy
  <2>2. ASSUME NEW n \in 1..N PROVE g[n] = Append(g[n - 1], Next1(n, g[n - 1]))
    <3>1. n - 1 \in 0..N
      BY <1>1
    <3>2. g[n - 1] \in Seq(T)
      BY <2>1, <3>1
    <3> QED BY <2>1, <3>2
  <2> QED BY <2>1, <2>2
<1>a. ASSUME NEW h, NEW n \in 0..N
      PROVE  E(h)[n] = IF n = 0 THEN <<>> ELSE Append(h[n - 1], Next1(n, h[n - 1]))
  BY DEF Next1
<1>6. g = E(g)
  <2>1. E(g) = [n \in 0..N |-> E(g)[n]]
    OBVIOUS
  <2> HIDE DEF E
  <2>2. \A n \in 0..N : n = 0 \/ n \in 1..N
    BY <1>1
  <2>3. \A n \in 0..N : g[n] = E(g)[n]
    BY <1>5, <1>a, <2>2
  <2> QED BY <1>5, <2>1, <2>3
<1> DEFINE ids == CHOOSE h : h = E(h)
<1>7. ids = E(ids)
  BY <1>6
<1>8. Named(i) = [n \in DOMAIN docs |-> [id |-> ids[N][n], server |-> i, uri |-> docs[n].uri]]
  BY DEF Named, docs, N
<1> HIDE DEF ids
<1>9. ids[0] = <<>> /\ \A n \in 1..N : ids[n] = Append(ids[n - 1], Next1(n, ids[n - 1]))
  <2>1. \A n \in 0..N : ids[n] = E(ids)[n]
    BY <1>7
  <2> HIDE DEF E
  <2>2. \A n \in 1..N : n \in 0..N /\ n # 0
    BY <1>1
  <2>3. 0 \in 0..N
    BY <1>1
  <2> QED BY <1>a, <2>1, <2>2, <2>3
<1> HIDE DEF E
\* After n documents there are n ids, which those that follow leave alone.
<1> DEFINE Good == {n \in 0..N : ids[n] \in Seq(T) /\ Len(ids[n]) = n}
<1>10. \A n \in 0..N : n \in Good
  <2>1. 0 \in Good
    <3>1. <<>> \in Seq(T) /\ Len(<<>>) = 0
      OBVIOUS
    <3>2. ids[0] \in Seq(T) /\ Len(ids[0]) = 0
      BY <1>9, <3>1
    <3>3. 0 \in 0..N
      BY <1>1
    <3> QED BY <3>2, <3>3
  <2>2. ASSUME NEW n \in 1..N, n - 1 \in Good PROVE n \in Good
    <3>1. ids[n - 1] \in Seq(T) /\ Len(ids[n - 1]) = n - 1 /\ n \in 0..N /\ n \in Int
      BY <1>1, <2>2
    <3>2. Next1(n, ids[n - 1]) \in T
      BY <1>2
    <3>3. ids[n] = Append(ids[n - 1], Next1(n, ids[n - 1]))
      BY <1>9
    <3>4. ids[n] \in Seq(T) /\ Len(ids[n]) = (n - 1) + 1
      BY <3>1, <3>2, <3>3
    <3> QED BY <3>1, <3>4
  <2> HIDE DEF Good
  <2> QED BY <1>1, <2>1, <2>2, UpTo
<1>11. ASSUME NEW n \in 1..N
       PROVE  /\ ids[n][n] = Next1(n, ids[n - 1])
              /\ \A k \in 1..(n - 1) : ids[n][k] = ids[n - 1][k]
  <2>1. n - 1 \in 0..N /\ n \in Int
    BY <1>1
  <2>2. ids[n - 1] \in Seq(T) /\ Len(ids[n - 1]) = n - 1
    BY <1>10, <2>1
  <2>3. Next1(n, ids[n - 1]) \in T /\ ids[n] = Append(ids[n - 1], Next1(n, ids[n - 1]))
    BY <1>2, <1>9
  <2> QED BY <2>1, <2>2, <2>3
<1>12. \A n \in 0..N : \A k \in 1..n : ids[n][k] = ids[k][k]
  <2> DEFINE Same == {n \in 0..N : \A k \in 1..n : ids[n][k] = ids[k][k]}
  <2>1. 0 \in Same
    BY <1>1
  <2>2. ASSUME NEW n \in 1..N, n - 1 \in Same PROVE n \in Same
    <3>1. ASSUME NEW k \in 1..n, k # n PROVE ids[n][k] = ids[k][k]
      <4>1. k \in 1..(n - 1)
        BY <1>1, <3>1
      <4> QED BY <1>11, <2>2, <4>1
    <3>2. n \in 0..N
      BY <1>1
    <3> QED BY <3>1, <3>2
  <2>3. \A n \in 0..N : n \in Same
    <3> HIDE DEF Same
    <3> QED BY <1>1, <2>1, <2>2, UpTo
  <2> QED BY <2>3
<1>13. ASSUME NEW n \in 1..N
       PROVE  /\ ids[N][n] \notin DOMAIN byID
              /\ \A k \in 1..(n - 1) : ids[N][k] # ids[N][n]
  <2>1. N \in 0..N /\ n - 1 \in 0..N /\ n \in 1..N
    BY <1>1
  <2>2. ids[N][n] = Next1(n, ids[n - 1])
    BY <1>11, <1>12, <2>1
  <2>3. ids[N][n] \notin DOMAIN byID \union {ids[n - 1][k] : k \in 1..(n - 1)}
    BY <1>2, <2>2
  <2>4. \A k \in 1..(n - 1) : ids[n - 1][k] = ids[N][k]
    <3>1. \A k \in 1..(n - 1) : k \in 1..N
      BY <1>1
    <3> QED BY <1>12, <2>1, <3>1
  <2> QED BY <2>3, <2>4
<1>14. \A m, n \in 1..N : ids[N][m] = ids[N][n] => m = n
  <2> SUFFICES ASSUME NEW m \in 1..N, NEW n \in 1..N, ids[N][m] = ids[N][n] PROVE m = n
    OBVIOUS
  <2>1. m \in Int /\ n \in Int /\ m \notin 1..(n - 1) /\ n \notin 1..(m - 1)
    BY <1>1, <1>13
  <2> QED BY <1>1, <2>1
<1>15. DOMAIN Named(i) = 1..N /\ \A n \in 1..N :
          Named(i)[n] = [id |-> ids[N][n], server |-> i, uri |-> docs[n].uri]
  BY <1>1, <1>8
<1>16. IsSeq(Named(i))
  <2> DEFINE d == Named(i)
             S == {d[j] : j \in 1..N}
  <2>1. d \in [1..N -> S]
    BY <1>1, <1>8
  <2>2. d \in Seq(S)
    <3> HIDE DEF d, S
    <3> QED BY <1>1, <2>1, SeqDef
  <2> HIDE DEF S
  <2> QED BY <2>2, SeqIs
<1>17. \A n \in 1..N : n \in Nat /\ Named(i)[n].id = ids[N][n]
  BY <1>1, <1>15
<1> QED BY <1>1, <1>13, <1>14, <1>15, <1>16, <1>17 DEF docs

\* An entry of the catalog is what a read of its id asks for, of the server it names, and
\* is in that server's list; what has been read is what the catalog still says.
InList(server, uri) ==
    server \in DOMAIN Servers
      /\ \E n \in DOMAIN Servers[server].docs : Servers[server].docs[n].uri = uri

Entry(ids, id) == [id |-> id, server |-> ids[id].server, uri |-> ids[id].uri]

CatalogInv ==
    /\ attached \in 0..Len(Servers)
    /\ IsFiniteSet(DOMAIN byID)
    /\ IsSeq(catalog)
    /\ \A n \in DOMAIN catalog :
          catalog[n].id \in DOMAIN byID /\ catalog[n] = Entry(byID, catalog[n].id)
    /\ \A id \in DOMAIN byID :
          InList(byID[id].server, byID[id].uri) /\ \E n \in DOMAIN catalog : catalog[n].id = id
    /\ \A r \in reads : r.id \in DOMAIN byID /\ r = Entry(byID, r.id)
    /\ \A q \in requests : q.method = "read" => InList(q.server, q.uri)

\* What a server lists joins the catalog under ids of its own.
LEMMA AttachCatalog == ASSUME CatalogInv, Attach PROVE CatalogInv'
<1> DEFINE i == attached + 1
           docs == Named(i)
           new == {docs[n].id : n \in DOMAIN docs}
           last(id) == CHOOSE n \in DOMAIN docs :
                          docs[n].id = id /\ \A m \in DOMAIN docs : docs[m].id = id => m <= n
<1>1. i \in DOMAIN Servers
  <2>1. attached < Len(Servers) /\ attached \in 0..Len(Servers)
    BY DEF Attach, CatalogInv
  <2>2. Len(Servers) \in Nat /\ DOMAIN Servers = 1..Len(Servers)
    BY ServersAssumption DEF IsSeq
  <2> QED BY <2>1, <2>2
<1>2. /\ DOMAIN docs = DOMAIN Listed(i) /\ IsSeq(docs)
      /\ \A n \in DOMAIN docs :
            /\ n \in Nat
            /\ docs[n] = [id |-> docs[n].id, server |-> i, uri |-> Listed(i)[n].uri]
            /\ docs[n].id \notin DOMAIN byID
            /\ \A m \in DOMAIN docs : docs[m].id = docs[n].id => m = n
  BY <1>1, NamedApart DEF CatalogInv
<1>3. \A n \in DOMAIN docs : InList(i, docs[n].uri)
  <2> DEFINE all == Servers[i].docs
             S == {all[j] : j \in DOMAIN all}
             top == IF Len(all) < MaxCatalog THEN Len(all) ELSE MaxCatalog
  <2>1. IsSeq(all)
    BY <1>1, ServersAssumption
  <2>2. all \in Seq(S)
    <3>1. Elements(all, S)
      BY DEF Elements
    <3> HIDE DEF S, all
    <3> QED BY <2>1, <3>1, SeqByElements
  <2>3. Listed(i) = SubSeq(all, 1, top)
    BY DEF Listed
  <2>4. top \in 0..Len(all) /\ Len(all) \in Nat /\ DOMAIN all = 1..Len(all)
    <3> HIDE DEF all
    <3> QED BY <2>1, ServersAssumption DEF IsSeq
  <2>5. \A n \in DOMAIN Listed(i) : n \in DOMAIN all /\ Listed(i)[n] = all[n]
    <3> HIDE DEF all, S, top, i
    <3> QED BY <2>2, <2>3, <2>4
  <2>6. \A n \in DOMAIN docs : docs[n].uri = all[n].uri /\ n \in DOMAIN all
    <3> HIDE DEF all, docs
    <3>1. \A n \in DOMAIN docs : docs[n].uri = Listed(i)[n].uri
      BY <1>2
    <3> QED BY <1>2, <2>5, <3>1
  <2> HIDE DEF docs, i
  <2> QED BY <1>1, <2>6 DEF InList
<1>4. /\ attached' = i
      /\ requests' = requests \union {Request(i, "list", "")}
      /\ catalog' = catalog \o docs
      /\ byID' = [id \in DOMAIN byID \union new |->
                     IF id \in new THEN [server |-> docs[last(id)].server, uri |-> docs[last(id)].uri]
                     ELSE byID[id]]
      /\ reads' = reads
  BY DEF Attach
<1> HIDE DEF docs, i
<1>5. \A n \in DOMAIN docs : last(docs[n].id) = n
  <2> SUFFICES ASSUME NEW n \in DOMAIN docs PROVE last(docs[n].id) = n
    OBVIOUS
  <2>1. docs[n].id = docs[n].id /\ \A m \in DOMAIN docs : docs[m].id = docs[n].id => m <= n
    BY <1>2
  <2>2. last(docs[n].id) \in DOMAIN docs /\ docs[last(docs[n].id)].id = docs[n].id
    BY <2>1
  <2> HIDE DEF last
  <2> QED BY <1>2, <2>2
<1> HIDE DEF last
<1>6. /\ DOMAIN byID' = DOMAIN byID \union new
      /\ \A id \in DOMAIN byID : byID'[id] = byID[id]
      /\ \A n \in DOMAIN docs :
            docs[n].id \in DOMAIN byID' /\ byID'[docs[n].id] = [server |-> i, uri |-> docs[n].uri]
  <2>1. \A id \in DOMAIN byID : id \notin new
    BY <1>2
  <2>2. \A n \in DOMAIN docs : docs[n].server = i /\ docs[n].id \in new
    BY <1>2
  <2> HIDE DEF new
  <2> QED BY <1>4, <1>5, <2>1, <2>2
<1> HIDE DEF new
<1>7. \A id \in DOMAIN byID : Entry(byID', id) = Entry(byID, id)
  BY <1>6 DEF Entry
<1>8. \A n \in DOMAIN docs : docs[n] = Entry(byID', docs[n].id)
  <2> SUFFICES ASSUME NEW n \in DOMAIN docs PROVE docs[n] = Entry(byID', docs[n].id)
    OBVIOUS
  <2>1. docs[n] = [id |-> docs[n].id, server |-> i, uri |-> Listed(i)[n].uri]
    BY <1>2
  <2>2. docs[n].uri = Listed(i)[n].uri
    BY <2>1
  <2>3. byID'[docs[n].id] = [server |-> i, uri |-> docs[n].uri]
    BY <1>6
  <2>4. byID'[docs[n].id].server = i /\ byID'[docs[n].id].uri = docs[n].uri
    BY <2>3
  <2> QED BY <2>1, <2>2, <2>4 DEF Entry
<1>9. attached' \in 0..Len(Servers)
  <2>1. Len(Servers) \in Nat /\ DOMAIN Servers = 1..Len(Servers)
    BY ServersAssumption DEF IsSeq
  <2>2. attached' = i
    BY <1>4
  <2>3. i \in 0..Len(Servers)
    BY <1>1, <2>1
  <2> QED BY <2>2, <2>3
<1>10. IsFiniteSet(DOMAIN byID')
  <2>1. DOMAIN docs = 1..Len(docs) /\ Len(docs) \in Nat
    BY <1>2 DEF IsSeq
  <2> DEFINE s == [n \in 1..Len(docs) |-> docs[n].id]
  <2>2. IsFiniteSet({s[n] : n \in 1..Len(docs)})
    <3> HIDE DEF s
    <3> QED BY <2>1, FiniteImage
  <2>3. new = {s[n] : n \in 1..Len(docs)}
    BY <2>1 DEF new
  <2>4. IsFiniteSet(DOMAIN byID) /\ IsFiniteSet(new)
    BY <2>2, <2>3 DEF CatalogInv
  <2>5. IsFiniteSet(DOMAIN byID \union new)
    <3> HIDE DEF new
    <3> QED BY <2>4, FS_Union
  <2> QED BY <1>6, <2>5
<1>11. /\ IsSeq(catalog')
       /\ \A n \in DOMAIN catalog' :
             (\E m \in DOMAIN catalog : catalog'[n] = catalog[m])
               \/ (\E m \in DOMAIN docs : catalog'[n] = docs[m])
       /\ \A m \in DOMAIN catalog : \E n \in DOMAIN catalog' : catalog'[n] = catalog[m]
       /\ \A m \in DOMAIN docs : \E n \in DOMAIN catalog' : catalog'[n] = docs[m]
  <2>1. IsSeq(catalog) /\ IsSeq(docs)
    BY <1>2 DEF CatalogInv
  <2>2. catalog' = catalog \o docs
    BY <1>4
  <2> DEFINE t == catalog \o docs
  <2>3. Joins(t, catalog, docs)
    BY <2>1, ConcatElements, Zenon
  <2>4. catalog' = t
    BY <2>2
  <2> HIDE DEF t
  <2> QED BY <2>3, <2>4 DEF Joins
<1>12. \A n \in DOMAIN catalog' :
          catalog'[n].id \in DOMAIN byID' /\ catalog'[n] = Entry(byID', catalog'[n].id)
  <2> SUFFICES ASSUME NEW n \in DOMAIN catalog'
               PROVE  catalog'[n].id \in DOMAIN byID' /\ catalog'[n] = Entry(byID', catalog'[n].id)
    OBVIOUS
  <2>1. CASE \E m \in DOMAIN catalog : catalog'[n] = catalog[m]
    BY <1>6, <1>7, <2>1 DEF CatalogInv
  <2>2. CASE \E m \in DOMAIN docs : catalog'[n] = docs[m]
    BY <1>6, <1>8, <2>2
  <2> QED BY <1>11, <2>1, <2>2
<1>13. \A id \in DOMAIN byID' :
          InList(byID'[id].server, byID'[id].uri) /\ \E n \in DOMAIN catalog' : catalog'[n].id = id
  <2> SUFFICES ASSUME NEW id \in DOMAIN byID'
               PROVE  InList(byID'[id].server, byID'[id].uri)
                        /\ \E n \in DOMAIN catalog' : catalog'[n].id = id
    OBVIOUS
  <2>1. CASE id \in DOMAIN byID
    BY <1>6, <1>11, <2>1 DEF CatalogInv
  <2>2. CASE id \in new
    <3>1. PICK m \in DOMAIN docs : docs[m].id = id
      BY <2>2 DEF new
    <3>2. byID'[id] = [server |-> i, uri |-> docs[m].uri]
      BY <1>6, <3>1
    <3>3. byID'[id].server = i /\ byID'[id].uri = docs[m].uri
      BY <3>2
    <3>4. \E n \in DOMAIN catalog' : catalog'[n] = docs[m]
      BY <1>11
    <3>5. \E n \in DOMAIN catalog' : catalog'[n].id = id
      BY <3>1, <3>4
    <3> QED BY <1>3, <3>3, <3>5
  <2> QED BY <1>6, <2>1, <2>2
<1>14. \A r \in reads' : r.id \in DOMAIN byID' /\ r = Entry(byID', r.id)
  BY <1>4, <1>6, <1>7 DEF CatalogInv
<1>15. \A q \in requests' : q.method = "read" => InList(q.server, q.uri)
  <2>1. Request(i, "list", "").method # "read"
    BY DEF Request
  <2>2. requests' = requests \union {Request(i, "list", "")}
    BY <1>4
  <2> QED BY <2>1, <2>2 DEF CatalogInv
<1> QED BY <1>9, <1>10, <1>11, <1>12, <1>13, <1>14, <1>15 DEF CatalogInv, InList

LEMMA ConnectCatalog == ASSUME CatalogInv, ConnectOne PROVE CatalogInv'
<1>1. CASE ServerDown \/ ListFails
  <2>1. /\ attached' = attached + 1 /\ attached < Len(Servers)
        /\ UNCHANGED <<catalog, byID, reads>>
        /\ requests' = requests \/ requests' = requests \union {Request(attached + 1, "list", "")}
    BY <1>1 DEF ServerDown, ListFails
  <2>2. attached' \in 0..Len(Servers)
    <3>1. attached \in 0..Len(Servers) /\ Len(Servers) \in Nat
      BY ServersAssumption DEF CatalogInv, IsSeq
    <3>2. attached' = attached + 1 /\ attached < Len(Servers)
      BY <2>1
    <3> QED BY <3>1, <3>2
  <2>3. \A q \in requests' : q.method = "read" => InList(q.server, q.uri)
    <3>1. \A q \in requests' : q \in requests \/ q = Request(attached + 1, "list", "")
      BY <2>1
    <3>2. Request(attached + 1, "list", "").method # "read"
      BY DEF Request
    <3> QED BY <3>1, <3>2 DEF CatalogInv
  <2> QED BY <2>1, <2>2, <2>3 DEF CatalogInv, Entry, InList
<1> QED BY <1>1, AttachCatalog DEF ConnectOne

\* A read asks for what the catalog says.
LEMMA ReadCatalog ==
    ASSUME CatalogInv, NEW id, NEW answer \in BOOLEAN, Read(id, answer)
    PROVE  CatalogInv'
<1>1. /\ id \in DOMAIN byID /\ UNCHANGED <<attached, catalog, byID>>
      /\ requests' = requests \union {Request(byID[id].server, "read", byID[id].uri)}
      /\ reads' \subseteq reads \union {Entry(byID, id)}
  BY DEF Read, Entry
<1>2. \A r \in reads' : r.id \in DOMAIN byID /\ r = Entry(byID, r.id)
  BY <1>1 DEF CatalogInv, Entry
<1>3. \A q \in requests' : q.method = "read" => InList(q.server, q.uri)
  <2>1. LET q == Request(byID[id].server, "read", byID[id].uri) IN InList(q.server, q.uri)
    BY <1>1 DEF CatalogInv, Request
  <2> QED BY <1>1, <2>1 DEF CatalogInv
<1> QED BY <1>1, <1>2, <1>3 DEF CatalogInv, Entry, InList

LEMMA LoopCatalog == ASSUME CatalogInv, LoopStep PROVE CatalogInv'
<1>1. CASE UNCHANGED serverVars
  BY <1>1 DEF serverVars, CatalogInv, Entry, InList
<1>2. ASSUME NEW id, InvokeRead(id) PROVE CatalogInv'
  BY <1>1, <1>2, ReadCatalog DEF InvokeRead, ReadUnknown
<1>3. ASSUME NEW a, NEW n, InvokeRecord(a, n) \/ InvokePropose(a, n) PROVE UNCHANGED serverVars
  BY <1>3 DEF InvokeRecord, InvokePropose
<1>4. ASSUME NEW n, NEW tokens, ReplyCalls(n, tokens) PROVE UNCHANGED serverVars
  BY <1>4 DEF ReplyCalls
<1>5. ASSUME NEW written, NEW refusal, NEW tokens, ReplyText(written, refusal, tokens)
      PROVE  UNCHANGED serverVars
  BY <1>5 DEF ReplyText
<1>6. Top \/ CallFails \/ CallRetried \/ Backoff \/ BackoffCanceled \/ InvokeLook
        => UNCHANGED serverVars
  BY DEF Top, CallFails, CallRetried, Backoff, BackoffCanceled, InvokeLook
<1> QED BY <1>1, <1>2, <1>3, <1>4, <1>5, <1>6 DEF LoopStep

LEMMA CatalogStep == CatalogInv /\ [Next]_vars => CatalogInv'
<1> SUFFICES ASSUME CatalogInv, [Next]_vars PROVE CatalogInv'
  OBVIOUS
<1>1. CASE UNCHANGED <<attached, catalog, byID, requests, reads>>
  BY <1>1 DEF CatalogInv, Entry, InList
<1>2. CASE Context BY <1>2, ConnectCatalog DEF Context
<1>3. CASE Agent BY <1>3, LoopCatalog DEF Agent
<1>4. Discover \/ DiscoverFails \/ OpenEngine \/ OpenFails \/ Load \/ Judge \/ Lockdown
        \/ StageFails \/ ContextReady \/ AgentDone \/ VerifyOne \/ ReturnResult \/ CloseResult
        \/ Cancel \/ UNCHANGED vars
      => UNCHANGED <<attached, catalog, byID, requests, reads>>
  BY DEF Discover, DiscoverFails, OpenEngine, OpenFails, Load, Judge, Lockdown, StageFails,
     ContextReady, AgentDone, VerifyOne, ReturnResult, CloseResult, Cancel, ReturnError, vars,
     serverVars
<1> QED BY <1>1, <1>2, <1>3, <1>4 DEF Next, Progress

\* Whatever the servers list, in whatever order they come and go, under whatever names, a
\* read of an id is answered by the server and with the document the catalog shows there.
THEOREM ReadsAlwaysGoWhereTheCatalogSays == Spec => []ReadsGoWhereTheCatalogSays
<1>1. ASSUME Init PROVE CatalogInv
  <2>1. /\ attached = 0 /\ byID = <<>> /\ catalog = <<>> /\ reads = {} /\ requests = {}
    BY <1>1 DEF Init, InitServers
  <2>2. IsSeq(<<>>) /\ DOMAIN <<>> = {} /\ IsFiniteSet({}) /\ Len(Servers) \in Nat
    BY FS_EmptySet, ServersAssumption DEF IsSeq
  <2>3. attached \in 0..Len(Servers) /\ IsFiniteSet(DOMAIN byID) /\ IsSeq(catalog)
    BY <2>1, <2>2
  <2> QED BY <2>1, <2>2, <2>3 DEF CatalogInv
<1>2. CatalogInv => ReadsGoWhereTheCatalogSays
  BY DEF CatalogInv, ReadsGoWhereTheCatalogSays, InList
<1>3. QED BY <1>1, <1>2, CatalogStep, PTL DEF Spec
=============================================================================
