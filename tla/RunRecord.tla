----------------------------- MODULE RunRecord -----------------------------
(***************************************************************************)
(* What the run store promises a reader about one audit: the row is        *)
(* created pending, becomes running at most once, and settles exactly once *)
(* as succeeded, failed or canceled.  A settled row never changes again,   *)
(* and a report is there exactly when the row says succeeded.              *)
(*                                                                         *)
(* RunLifecycle is the detailed specification that is meant to implement   *)
(* this one.                                                               *)
(***************************************************************************)
CONSTANT Runs

VARIABLES status, report

recordVars == <<status, report>>

Terminal(st) == st \in {"succeeded", "failed", "canceled"}

InFlight(st) == st \in {"pending", "running"}

Init ==
    /\ status = [r \in Runs |-> "none"]
    /\ report = [r \in Runs |-> FALSE]

Create(r) ==
    /\ status[r] = "none"
    /\ status' = [status EXCEPT ![r] = "pending"]
    /\ UNCHANGED report

Begin(r) ==
    /\ status[r] = "pending"
    /\ status' = [status EXCEPT ![r] = "running"]
    /\ UNCHANGED report

\* A run ends well: its report and its status appear in the same step.
Succeed(r) ==
    /\ status[r] = "running"
    /\ status' = [status EXCEPT ![r] = "succeeded"]
    /\ report' = [report EXCEPT ![r] = TRUE]

\* Runs end without a report.  A restart closes several out at once.
GiveUp(S) ==
    /\ \A r \in S : InFlight(status[r])
    /\ \E how \in [S -> {"failed", "canceled"}] :
          status' = [r \in Runs |-> IF r \in S THEN how[r] ELSE status[r]]
    /\ UNCHANGED report

Next ==
    \/ \E r \in Runs : Create(r) \/ Begin(r) \/ Succeed(r)
    \/ \E S \in SUBSET Runs : GiveUp(S)

Spec == Init /\ [][Next]_recordVars
=============================================================================
