----------------------------- MODULE AgentLoop -----------------------------
(***************************************************************************)
(* Packages agent and agent/tools: the loop that calls a model, carries    *)
(* out the tool calls of its reply one after another, and stops when the   *)
(* model does, when a budget is spent, when a call cannot be made or when  *)
(* the audit is canceled; and the three tools that change something.       *)
(*                                                                         *)
(* The data never changes, but a query the model wrote may measure time or *)
(* chance: Measures gives the answers a query can have.                    *)
(***************************************************************************)
EXTENDS ContextServers, Findings

CONSTANTS
    MaxSteps,     \* Options.MaxSteps
    TokenBudget,  \* Options.TokenBudget; 0 is none
    MaxReply,     \* tokens a reply says it cost, at most: a server may say none
    MaxCalls,     \* tool calls in a reply at most
    Reports,      \* arguments of record_finding the model may send: see record.go
    Ideas,        \* arguments of propose_rule
    Measures      \* query |-> the counts it can return

maxRetries == 3

\* A report is [rule, at, severity, query, claimed, faulty, rowQuery]; claimed is -1
\* when it is missing, faulty when one of the arguments names nothing there is or the
\* query is no SELECT of one column, rowQuery FALSE when that query is refused.
\* An idea is [asserts, rule, query, claimed, faulty, covered, applies].
ASSUME LoopAssumption ==
    /\ MaxSteps \in Nat \ {0} /\ MaxCalls \in Nat \ {0}
    /\ TokenBudget \in Nat /\ MaxReply \in Nat
    /\ \A q \in DOMAIN Measures : Measures[q] # {} /\ Measures[q] \subseteq Nat
    /\ \A a \in Reports \union Ideas : a.query \in DOMAIN Measures

VARIABLES
    canceled,   \* the context of the audit
    loop,       \* where the loop is: "off", "top", "calling", "waiting", "invoking", "over"
    step,       \* the step under way, from 1
    attempt,    \* of the model call of this step
    usage,      \* tokens spent
    calls,      \* tool calls of the reply still to be carried out
    corrected,  \* whether the model has been told it wrote a call as text
    stopped,    \* Trace.Stopped
    made,       \* World.findings
    proposals,  \* World.proposals
    answered    \* history: how many replies the model gave

loopVars == <<loop, step, attempt, usage, calls, corrected, stopped, made, proposals,
              answered>>
worldVars == <<made, proposals>>

InitLoop ==
    /\ loop = "off"
    /\ step = 1 /\ attempt = 1 /\ usage = 0 /\ calls = 0
    /\ corrected = FALSE
    /\ stopped = "none"
    /\ made = <<>> /\ proposals = <<>>
    /\ answered = 0

Stop(why) == stopped' = why /\ loop' = "over"

\* A plausible bug: the step budget is looked at after the call.
StopsBeforeLate ==
    IF canceled THEN "canceled"
    ELSE IF step > MaxSteps + 1 THEN "step_budget"
    ELSE IF TokenBudget > 0 /\ usage >= TokenBudget THEN "token_budget"
    ELSE "none"

\* The top of the loop: the first of the three that holds stops it.
StopsBefore ==
    IF canceled THEN "canceled"
    ELSE IF step > MaxSteps THEN "step_budget"
    ELSE IF TokenBudget > 0 /\ usage >= TokenBudget THEN "token_budget"
    ELSE "none"

Top ==
    /\ loop = "top"
    /\ IF StopsBefore # "none"
       THEN Stop(StopsBefore)
       ELSE loop' = "calling" /\ UNCHANGED stopped
    /\ UNCHANGED <<step, attempt, usage, calls, corrected, worldVars, answered, serverVars>>

\* The call fails for good: it is not retryable, it ran into request_timeout, it was
\* the last attempt, or the audit is canceled.
CallFails ==
    /\ loop = "calling"
    /\ Stop("provider_error") /\ attempt' = 1
    /\ UNCHANGED <<step, usage, calls, corrected, worldVars, answered, serverVars>>

\* A plausible bug: an attempt that fails is not counted.
CallRetriedUncounted ==
    /\ loop = "calling" /\ ~canceled /\ attempt < maxRetries
    /\ loop' = "waiting" /\ UNCHANGED attempt
    /\ UNCHANGED <<step, usage, calls, corrected, stopped, worldVars, answered, serverVars>>

\* The provider says the failure was about the moment: wait and ask again.
CallRetried ==
    /\ loop = "calling" /\ ~canceled /\ attempt < maxRetries
    /\ loop' = "waiting" /\ attempt' = attempt + 1
    /\ UNCHANGED <<step, usage, calls, corrected, stopped, worldVars, answered, serverVars>>

Backoff ==
    /\ loop = "waiting"
    /\ loop' = "calling"
    /\ UNCHANGED <<step, attempt, usage, calls, corrected, stopped, worldVars, answered,
                   serverVars>>

BackoffCanceled ==
    /\ loop = "waiting" /\ canceled
    /\ Stop("provider_error") /\ attempt' = 1
    /\ UNCHANGED <<step, usage, calls, corrected, worldVars, answered, serverVars>>

\* The reply carries n tool calls.
ReplyCalls(n, tokens) ==
    /\ loop = "calling"
    /\ loop' = "invoking" /\ calls' = n /\ attempt' = 1
    /\ usage' = usage + tokens /\ answered' = answered + 1
    /\ UNCHANGED <<step, corrected, stopped, worldVars, serverVars>>

\* It carries none.  A call written out as text is answered, the first time.
ReplyText(written, refusal, tokens) ==
    /\ loop = "calling" /\ attempt' = 1
    /\ usage' = usage + tokens /\ answered' = answered + 1
    /\ IF written /\ ~corrected
       THEN /\ corrected' = TRUE
            /\ loop' = "top" /\ step' = step + 1
            /\ UNCHANGED stopped
       ELSE /\ Stop(IF refusal THEN "refused" ELSE "model_finished")
            /\ UNCHANGED <<step, corrected>>
    /\ UNCHANGED <<calls, worldVars, serverVars>>

\* The next call of the reply, or the next step when that was the last.
CallDone ==
    /\ loop = "invoking"
    /\ calls' = calls - 1
    /\ IF calls = 1 THEN loop' = "top" /\ step' = step + 1 ELSE UNCHANGED <<loop, step>>
    /\ UNCHANGED <<attempt, usage, corrected, stopped, answered>>

\* A tool that only looks; a tool there is not; a call that is refused for its
\* arguments, or whose query does not run: nothing changes but what the model is told.
InvokeLook == CallDone /\ UNCHANGED <<worldVars, serverVars>>

\* A plausible bug: the number the model claims is not compared with the count.
RecordUnchecked(a, n) ==
    IF a.faulty THEN "error"
    ELSE IF n = 0 THEN "refused"
    ELSE IF a.claimed = -1 \/ ~a.rowQuery THEN "error"
    ELSE "recorded"

\* record_finding: what becomes of a report whose query returned n.
RecordOutcome(a, n) ==
    IF a.faulty THEN "error"
    ELSE IF n = 0 THEN "refused"
    ELSE IF a.claimed = -1 THEN "error"
    ELSE IF a.claimed # n THEN "refused"
    ELSE IF ~a.rowQuery THEN "error"
    ELSE "recorded"

AsFinding(a, n) ==
    [rule |-> a.rule, at |-> a.at, severity |-> a.severity, count |-> n,
     query |-> a.query, claimed |-> a.claimed, verified |-> FALSE]

\* Once the audit is canceled no query runs.
InvokeRecord(a, n) ==
    /\ ~canceled
    /\ CallDone
    /\ made' = IF RecordOutcome(a, n) = "recorded" THEN Append(made, AsFinding(a, n)) ELSE made
    /\ UNCHANGED <<proposals, serverVars>>

\* propose_rule: refused for its arguments, because a rule in force covers it, because
\* it was proposed before, because it applies to nothing, or for a wrong claim.
ProposeOutcome(a, n) ==
    IF a.faulty \/ a.covered THEN "error"
    ELSE IF \E i \in DOMAIN proposals : proposals[i].asserts = a.asserts THEN "error"
    ELSE IF ~a.applies THEN "error"
    ELSE IF a.claimed # n THEN "refused"
    ELSE "proposed"

InvokePropose(a, n) ==
    /\ ~canceled
    /\ CallDone
    /\ proposals' = IF ProposeOutcome(a, n) = "proposed"
                    THEN Append(proposals, [asserts |-> a.asserts, rule |-> a.rule,
                                            violations |-> n])
                    ELSE proposals
    /\ UNCHANGED <<made, serverVars>>

\* read_context: registered only when a context server is configured.
InvokeRead(id) ==
    /\ Servers # <<>>
    /\ CallDone
    /\ \/ ReadUnknown(id)
       \/ \E answer \in BOOLEAN : (answer => ~canceled) /\ Read(id, answer)
    /\ UNCHANGED worldVars

\* Documents the model may ask for: those of the catalog, and one it made up.
AskedFor == DOMAIN byID \union {<<"unheard">>}

LoopStep ==
    \/ Top \/ CallFails \/ CallRetried \/ Backoff \/ BackoffCanceled
    \/ \E tokens \in 0..MaxReply :
          \/ \E n \in 1..MaxCalls : ReplyCalls(n, tokens)
          \/ \E written, refusal \in BOOLEAN : ReplyText(written, refusal, tokens)
    \/ InvokeLook
    \/ \E a \in Reports : \E n \in Measures[a.query] : InvokeRecord(a, n)
    \/ \E a \in Ideas : \E n \in Measures[a.query] : InvokePropose(a, n)
    \/ \E id \in AskedFor : InvokeRead(id)

-----------------------------------------------------------------------------
\* The model is asked once per step at most, never once a budget is spent, and
\* three times for one answer at most.
BudgetsHold ==
    /\ answered <= MaxSteps
    /\ attempt <= maxRetries
    /\ TokenBudget > 0 => usage < TokenBudget + MaxReply
    /\ stopped = "step_budget" => answered = MaxSteps
    /\ stopped = "token_budget" => usage >= TokenBudget /\ answered > 0
=============================================================================
