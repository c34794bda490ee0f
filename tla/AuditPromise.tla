---------------------------- MODULE AuditPromise ----------------------------
(***************************************************************************)
(* What audit.Run promises its callers (a run of the server, an assistant, *)
(* veritix audit): it fails, with nothing held, or it returns a result     *)
(* whose engine is theirs to close; it may only fail while the data is     *)
(* read, never for what a model or its servers do; and what the data gave  *)
(* is taken from the result by verification alone.                         *)
(*                                                                         *)
(* AuditPipeline is the detailed specification that implements this one.   *)
(***************************************************************************)
CONSTANT Problems    \* what a finding can be about: finding.key

VARIABLES
    phase,      \* "reading", "asking", "verifying", "result", "error"
    held,       \* whether the engine is open
    problems    \* what the findings so far are about

promiseVars == <<phase, held, problems>>

Init ==
    /\ phase = "reading"
    /\ held = FALSE
    /\ problems = {}

Hold ==
    /\ phase = "reading" /\ ~held
    /\ held' = TRUE
    /\ UNCHANGED <<phase, problems>>

\* The checks and the rules, whose findings only add up.
Find ==
    /\ phase = "reading" /\ held
    /\ problems' \in {P \in SUBSET Problems : problems \subseteq P}
    /\ phase' \in {"reading", "asking", "verifying"}
    /\ UNCHANGED held

Fail ==
    /\ phase = "reading"
    /\ phase' = "error"
    /\ held' = FALSE
    /\ UNCHANGED problems

\* The model adds what it found and takes nothing away.
Ask ==
    /\ phase = "asking"
    /\ problems' \in {P \in SUBSET Problems : problems \subseteq P}
    /\ phase' = "verifying"
    /\ UNCHANGED held

Drop ==
    /\ phase = "verifying"
    /\ problems' \in SUBSET problems
    /\ UNCHANGED <<phase, held>>

Return ==
    /\ phase = "verifying"
    /\ phase' = "result"
    /\ UNCHANGED <<held, problems>>

\* Result.Close, by the caller.
Close ==
    /\ phase = "result" /\ held
    /\ held' = FALSE
    /\ UNCHANGED <<phase, problems>>

Next == Hold \/ Find \/ Fail \/ Ask \/ Drop \/ Return \/ Close

Spec == Init /\ [][Next]_promiseVars
=============================================================================
