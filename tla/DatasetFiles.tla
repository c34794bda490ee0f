---------------------------- MODULE DatasetFiles ----------------------------
(***************************************************************************)
(* What Veritix writes beside its database for one dataset, and who takes  *)
(* it away again: the uploaded files, each run's DuckDB file, the rules    *)
(* accepted for the dataset.  The rows that point at these files and the   *)
(* files themselves change in separate steps, by requests that share no    *)
(* lock: audits, the retention sweep, the rows endpoint, the deletion of   *)
(* the dataset, and the acceptance of rules.                               *)
(*                                                                         *)
(* Everything here is keyed by the dataset's id or a run's, so one dataset *)
(* is enough.  Runs are numbered in the order of created_at.               *)
(***************************************************************************)
EXTENDS Naturals, SequencesExt, TLC

CONSTANTS
    Sources,      \* how the dataset may come: see SourceKinds
    MaxRuns,      \* audits of the dataset
    Requests,     \* concurrent requests for a finding's rows, or that accept a rule
    Rules,        \* ids of proposed rules
    MaxRestarts,  \* crashes of the server, each followed by a start
    Mishaps       \* what else goes wrong: see MishapKinds

\* "audit": an audit fails.       "busy": a file that is held cannot be removed.
\* "store": the store refuses a retention write.
MishapKinds == {"audit", "busy", "store"}

\* "operator": a path on the server.       "uploaded": files from a browser.
SourceKinds == {"operator", "uploaded"}

ASSUME BoundsAssumption ==
    /\ Sources \subseteq SourceKinds
    /\ MaxRuns \in Nat /\ MaxRestarts \in Nat
    /\ Mishaps \subseteq MishapKinds

\* No rule is called what a partly written file holds, or what no rule is.
ASSUME RulesAssumption == Rules \intersect {"torn", "none"} = {}

VARIABLES
    dataset,   \* "none", "saving" an upload, "registered", "refused", "deleted"
    source,    \* the files audited: "none", "partial", "uploaded", "operator"
    row,       \* rows of runs: run |-> [status, path]
    done,      \* finished runs, in the order of finished_at
    expired,   \* how many of them are older than the retention cutoff
    audit,     \* where each audit has got to
    disk,      \* each run's directory: "none", "empty" or "data"
    sweep,     \* the retention sweep under way: [at, todo]
    reader,    \* each rows request: [at, run, path, seen]
    delete,    \* the DELETE request: [at, todo, listed, warned]
    rules,     \* the dataset's rules file; {} when there is none
    tmp,       \* the file written beside it; {} when there is none
    rulesDir,  \* whether the directory of the two exists
    accept,    \* each accept request: [at, rule, read]
    restarts

datasetVars == <<dataset, source>>
runVars     == <<row, done, audit>>
ruleVars    == <<rules, tmp, rulesDir, accept>>
vars == <<dataset, source, row, done, expired, audit, disk, sweep, reader, delete,
          rules, tmp, rulesDir, accept, restarts>>

Runs == 1..MaxRuns

Exists(r) == r \in DOMAIN row

\* A rules file that is only partly written.
Torn == {"torn"}

IdleSweep == [at |-> "idle", todo |-> {}]
IdleReader == [at |-> "idle", run |-> 0, path |-> FALSE, seen |-> "none"]
IdleDelete == [at |-> "idle", todo |-> {}, listed |-> {}, warned |-> FALSE]
IdleAccept == [at |-> "idle", rule |-> "none", read |-> {}]

Init ==
    /\ dataset = "none" /\ source = "none"
    /\ row = <<>> /\ done = <<>> /\ expired = 0
    /\ audit = [r \in Runs |-> "none"]
    /\ disk = [r \in Runs |-> "none"]
    /\ sweep = IdleSweep
    /\ reader = [h \in Requests |-> IdleReader]
    /\ delete = IdleDelete
    /\ rules = {} /\ tmp = {} /\ rulesDir = FALSE
    /\ accept = [a \in Requests |-> IdleAccept]
    /\ restarts = 0

-----------------------------------------------------------------------------
(* POST /datasets.                                                         *)

\* A path on the server is registered in place.
Register ==
    /\ "operator" \in Sources /\ dataset = "none"
    /\ dataset' = "registered" /\ source' = "operator"
    /\ UNCHANGED <<runVars, expired, disk, sweep, reader, delete, ruleVars, restarts>>

\* An upload gets a directory of its own before any byte is saved.
UploadDir ==
    /\ "uploaded" \in Sources /\ dataset = "none"
    /\ dataset' = "saving" /\ source' = "partial"
    /\ UNCHANGED <<runVars, expired, disk, sweep, reader, delete, ruleVars, restarts>>

SaveUpload ==
    /\ dataset = "saving" /\ source = "partial"
    /\ source' = "uploaded"
    /\ UNCHANGED <<dataset, runVars, expired, disk, sweep, reader, delete, ruleVars, restarts>>

\* A file or the row cannot be stored: the directory goes.
UploadFails ==
    /\ dataset = "saving"
    /\ dataset' = "refused" /\ source' = "none"
    /\ UNCHANGED <<runVars, expired, disk, sweep, reader, delete, ruleVars, restarts>>

RegisterUpload ==
    /\ dataset = "saving" /\ source = "uploaded"
    /\ dataset' = "registered"
    /\ UNCHANGED <<source, runVars, expired, disk, sweep, reader, delete, ruleVars, restarts>>

Create == Register \/ UploadDir \/ SaveUpload \/ UploadFails \/ RegisterUpload

-----------------------------------------------------------------------------
(* An audit: startRun, then Execute.  A cancellation only ends it sooner.  *)

At(r, here, there) == audit[r] = here /\ audit' = [audit EXCEPT ![r] = there]

\* The row comes first: the file is named after the run.
CreateRun(r) ==
    /\ dataset = "registered"
    /\ \A x \in 1..(r - 1) : audit[x] # "none"
    /\ At(r, "none", "created")
    /\ row' = [x \in DOMAIN row \union {r} |->
                 IF x = r THEN [status |-> "pending", path |-> FALSE] ELSE row[x]]
    /\ UNCHANGED <<datasetVars, done, expired, disk, sweep, reader, delete, ruleVars, restarts>>

\* DatabasePath makes the directory.
MakeRunDir(r) ==
    /\ At(r, "created", "made")
    /\ disk' = [disk EXCEPT ![r] = "empty"]
    /\ UNCHANGED <<datasetVars, row, done, expired, sweep, reader, delete, ruleVars, restarts>>

\* Its update of a row that is gone is an error, and nothing is started.
SetRunDatabase(r) ==
    /\ At(r, "made", IF Exists(r) THEN "ready" ELSE "over")
    /\ row' = IF Exists(r) THEN [row EXCEPT ![r].path = TRUE] ELSE row
    /\ UNCHANGED <<datasetVars, done, expired, disk, sweep, reader, delete, ruleVars, restarts>>

StartRun(r) ==
    /\ At(r, "ready", IF Exists(r) THEN "opening" ELSE "over")
    /\ row' = IF Exists(r) THEN [row EXCEPT ![r].status = "running"] ELSE row
    /\ UNCHANGED <<datasetVars, done, expired, disk, sweep, reader, delete, ruleVars, restarts>>

\* A plausible bug: the engine makes the directory it is given.
OpenEngineMakesDir(r) ==
    /\ At(r, "opening", "writing")
    /\ disk' = [disk EXCEPT ![r] = "data"]
    /\ UNCHANGED <<datasetVars, row, done, expired, sweep, reader, delete, ruleVars, restarts>>

\* DuckDB creates its file, but not the directory of it.
OpenEngine(r) ==
    /\ disk[r] # "none"
    /\ At(r, "opening", "writing")
    /\ disk' = [disk EXCEPT ![r] = "data"]
    /\ UNCHANGED <<datasetVars, row, done, expired, sweep, reader, delete, ruleVars, restarts>>

Finish(r, status) ==
    /\ row' = IF Exists(r) THEN [row EXCEPT ![r].status = status] ELSE row
    /\ done' = IF Exists(r) THEN Append(done, r) ELSE done
    /\ UNCHANGED <<datasetVars, expired, disk, sweep, reader, delete, ruleVars, restarts>>

\* The engine is closed and the outcome stored.  A run that failed or was
\* canceled leaves what it had ingested so far.
AuditSucceeds(r) == At(r, "writing", "over") /\ Finish(r, "succeeded")

AuditFails(r) ==
    /\ \/ "audit" \in Mishaps /\ (At(r, "opening", "over") \/ At(r, "writing", "over"))
       \/ disk[r] = "none" /\ At(r, "opening", "over")
    /\ Finish(r, "failed")

Audit(r) ==
    \/ CreateRun(r) \/ MakeRunDir(r) \/ SetRunDatabase(r)
    \/ StartRun(r) \/ OpenEngine(r) \/ AuditSucceeds(r) \/ AuditFails(r)

-----------------------------------------------------------------------------
(* discard: retention.                                                     *)

\* The cutoff moves over the finished runs in the order they finished.
Expire ==
    /\ expired < Len(done)
    /\ expired' = expired + 1
    /\ UNCHANGED <<datasetVars, runVars, disk, sweep, reader, delete, ruleVars, restarts>>

HoldsPath(r) == Exists(r) /\ row[r].path

\* The most recent run still holding a database, whatever its status.
IsFloor(r) == HoldsPath(r) /\ \A x \in Runs : HoldsPath(x) => x <= r

Expired == {done[i] : i \in 1..expired}

\* A plausible bug: age alone decides, finished or not.
DiscardableByAge ==
    {r \in Runs : HoldsPath(r) /\ ~IsFloor(r)}

\* A plausible bug: a run whose file is not there has nothing to discard.
DiscardableOnDisk ==
    {r \in Expired : HoldsPath(r) /\ ~IsFloor(r) /\ disk[r] # "none"}

Discardable == {r \in Expired : HoldsPath(r) /\ ~IsFloor(r)}

\* A plausible bug: the runs are recorded as discarded before they are.
BeginByClearing ==
    /\ sweep.at = "idle" /\ Discardable # {}
    /\ sweep' = [at |-> "next", todo |-> Discardable]
    /\ row' = [r \in DOMAIN row |-> [row[r] EXCEPT !.path = @ /\ r \notin Discardable]]
    /\ UNCHANGED <<datasetVars, done, audit, expired, disk, reader, delete, ruleVars, restarts>>

BeginDiscard ==
    /\ sweep.at = "idle" /\ Discardable # {}
    /\ sweep' = [at |-> "next", todo |-> Discardable]
    /\ UNCHANGED <<datasetVars, runVars, expired, disk, reader, delete, ruleVars, restarts>>

\* The oldest finished first.
FinishedBefore(x, r) == \E i, j \in DOMAIN done : i < j /\ done[i] = x /\ done[j] = r

Turn(r) == r \in sweep.todo /\ \A x \in sweep.todo : ~FinishedBefore(x, r)

Onwards(r) ==
    [at |-> IF sweep.todo = {r} THEN "idle" ELSE "next", todo |-> sweep.todo \ {r}]

RemoveData(r) ==
    /\ sweep.at = "next" /\ Turn(r)
    /\ disk' = [disk EXCEPT ![r] = "none"]
    /\ sweep' = [sweep EXCEPT !.at = "clear"]
    /\ UNCHANGED <<datasetVars, runVars, expired, reader, delete, ruleVars, restarts>>

\* A plausible bug: what could not be removed is recorded as discarded.
RemoveFailsUnseen ==
    /\ "busy" \in Mishaps
    /\ sweep.at = "next" /\ \E r \in Runs : Turn(r) /\ disk[r] # "none"
    /\ sweep' = [sweep EXCEPT !.at = "clear"]
    /\ UNCHANGED <<datasetVars, runVars, expired, disk, reader, delete, ruleVars, restarts>>

\* The store is not told, and the next sweep tries again.
RemoveFails ==
    /\ "busy" \in Mishaps
    /\ sweep.at = "next"
    /\ \E r \in Runs : Turn(r) /\ disk[r] # "none" /\ sweep' = Onwards(r)
    /\ UNCHANGED <<datasetVars, runVars, expired, disk, reader, delete, ruleVars, restarts>>

ClearRunDatabase(r) ==
    /\ sweep.at = "clear" /\ Turn(r)
    /\ row' = IF Exists(r) THEN [row EXCEPT ![r].path = FALSE] ELSE row
    /\ sweep' = Onwards(r)
    /\ UNCHANGED <<datasetVars, done, audit, expired, disk, reader, delete, ruleVars, restarts>>

ClearFails ==
    /\ "store" \in Mishaps
    /\ sweep.at = "clear"
    /\ \E r \in Runs : Turn(r) /\ sweep' = Onwards(r)
    /\ UNCHANGED <<datasetVars, runVars, expired, disk, reader, delete, ruleVars, restarts>>

Discard ==
    \/ BeginDiscard \/ RemoveFails \/ ClearFails
    \/ \E r \in Runs : RemoveData(r) \/ ClearRunDatabase(r)

-----------------------------------------------------------------------------
(* GET .../findings/{id}/rows.                                             *)

ReadRun(h, r) ==
    /\ reader[h].at = "idle" /\ accept[h].at = "idle" /\ Exists(r)
    /\ reader' = [reader EXCEPT ![h] = [at |-> "run", run |-> r, path |-> row[r].path,
                                        seen |-> row[r].status]]
    /\ UNCHANGED <<datasetVars, runVars, expired, disk, sweep, delete, ruleVars, restarts>>

\* Only a run that succeeded has findings.
ReadFinding(h) ==
    /\ reader[h].at = "run"
    /\ LET r == reader[h].run IN
       reader' = [reader EXCEPT ![h] =
                    IF Exists(r) /\ row[r].status = "succeeded" THEN [@ EXCEPT !.at = "finding"]
                    ELSE IdleReader]
    /\ UNCHANGED <<datasetVars, runVars, expired, disk, sweep, delete, ruleVars, restarts>>

Stat(h) ==
    /\ reader[h].at = "finding"
    /\ reader' = [reader EXCEPT ![h].at =
                    IF reader[h].path /\ disk[reader[h].run] = "data" THEN "stat" ELSE "410"]
    /\ UNCHANGED <<datasetVars, runVars, expired, disk, sweep, delete, ruleVars, restarts>>

\* Removed since: an internal error.  Removed later: the open file can be read.
OpenReadOnly(h) ==
    /\ reader[h].at = "stat"
    /\ reader' = [reader EXCEPT ![h].at = IF disk[reader[h].run] = "data" THEN "200" ELSE "500"]
    /\ UNCHANGED <<datasetVars, runVars, expired, disk, sweep, delete, ruleVars, restarts>>

Rows(h) == ReadFinding(h) \/ Stat(h) \/ OpenReadOnly(h) \/ \E r \in Runs : ReadRun(h, r)

-----------------------------------------------------------------------------
(* DELETE /datasets/{id}.                                                  *)

\* The runs are read before the cascade removes them.
ListRuns ==
    /\ delete.at = "idle" /\ dataset = "registered"
    /\ delete' = [delete EXCEPT !.at = "listed",
                    !.todo = DOMAIN row, !.listed = {r \in DOMAIN row : row[r].path}]
    /\ UNCHANGED <<datasetVars, runVars, expired, disk, sweep, reader, ruleVars, restarts>>

\* By cascade, the runs and their findings go with it.
DeleteRow ==
    /\ delete.at = "listed"
    /\ delete' = [delete EXCEPT !.at = "deleted"]
    /\ dataset' = "deleted" /\ row' = <<>>
    /\ UNCHANGED <<source, done, audit, expired, disk, sweep, reader, ruleVars, restarts>>

\* A removal that fails is logged, and the deletion carries on.
RemovalFails ==
    /\ "busy" \in Mishaps
    /\ \/ \E r \in delete.todo \intersect delete.listed :
            /\ delete.at = "deleted" /\ disk[r] # "none"
            /\ delete' = [delete EXCEPT !.todo = @ \ {r}, !.warned = TRUE]
       \/ /\ delete.at = "deleted" /\ delete.todo = {} /\ rulesDir
          /\ delete' = [delete EXCEPT !.at = "rules", !.warned = TRUE]
       \/ /\ delete.at = "rules" /\ source = "uploaded"
          /\ delete' = [delete EXCEPT !.at = "204", !.warned = TRUE]
    /\ UNCHANGED <<datasetVars, runVars, expired, disk, sweep, reader, ruleVars, restarts>>

\* A run listed without a database has no files to remove.
RemoveRunFiles(r) ==
    /\ delete.at = "deleted" /\ r \in delete.todo
    /\ delete' = [delete EXCEPT !.todo = @ \ {r}]
    /\ disk' = IF r \in delete.listed THEN [disk EXCEPT ![r] = "none"] ELSE disk
    /\ UNCHANGED <<datasetVars, runVars, expired, sweep, reader, ruleVars, restarts>>

\* Without the lock that acceptRule takes.
RemoveRules ==
    /\ delete.at = "deleted" /\ delete.todo = {}
    /\ delete' = [delete EXCEPT !.at = "rules"]
    /\ rules' = {} /\ tmp' = {} /\ rulesDir' = FALSE
    /\ UNCHANGED <<datasetVars, runVars, expired, disk, sweep, reader, accept, restarts>>

\* Only bytes Veritix wrote itself.
RemoveUpload ==
    /\ delete.at = "rules"
    /\ delete' = [delete EXCEPT !.at = "204"]
    /\ source' = IF source = "uploaded" THEN "none" ELSE source
    /\ UNCHANGED <<dataset, runVars, expired, disk, sweep, reader, ruleVars, restarts>>

Delete ==
    \/ ListRuns \/ DeleteRow \/ RemovalFails \/ RemoveRules \/ RemoveUpload
    \/ \E r \in Runs : RemoveRunFiles(r)

-----------------------------------------------------------------------------
(* POST /datasets/{id}/rules: acceptRule.                                  *)

Holding == {a \in Requests : accept[a].at \in {"locked", "writing", "written", "renamed"}}

\* The dataset, the run and its proposal are there, before the lock is taken.
CheckProposal(a, id) ==
    /\ accept[a].at = "idle" /\ reader[a].at = "idle" /\ dataset = "registered"
    /\ \E r \in DOMAIN row : row[r].status = "succeeded"
    /\ accept' = [accept EXCEPT ![a] = [at |-> "checked", rule |-> id, read |-> {}]]
    /\ UNCHANGED <<datasetVars, runVars, expired, disk, sweep, reader, delete,
                   rules, tmp, rulesDir, restarts>>

\* The rules in force, with the lock held; the directory is made.
ReadRules(a) ==
    /\ rulesDir' = TRUE
    /\ LET id == accept[a].rule IN
       accept' = [accept EXCEPT ![a] =
                    [at |-> IF id \in rules THEN "409" ELSE "locked", rule |-> id, read |-> rules]]
    /\ UNCHANGED <<datasetVars, runVars, expired, disk, sweep, reader, delete,
                   rules, tmp, restarts>>

\* A plausible bug: rulesMu is not taken.
NoLock(a) == accept[a].at = "checked" /\ ReadRules(a)

Lock(a) == accept[a].at = "checked" /\ Holding = {} /\ ReadRules(a)

\* A plausible bug: the rules file is written in place.
WriteInPlace(a) ==
    /\ accept[a].at = "locked"
    /\ accept' = [accept EXCEPT ![a].at = "writing"]
    /\ rules' = Torn
    /\ UNCHANGED <<datasetVars, runVars, expired, disk, sweep, reader, delete,
                   tmp, rulesDir, restarts>>

\* Beside the target, not all at once.  It fails if the directory is gone.
BeginWrite(a) ==
    /\ accept[a].at = "locked"
    /\ accept' = [accept EXCEPT ![a].at = IF rulesDir THEN "writing" ELSE "500"]
    /\ tmp' = IF rulesDir THEN Torn ELSE tmp
    /\ UNCHANGED <<datasetVars, runVars, expired, disk, sweep, reader, delete,
                   rules, rulesDir, restarts>>

\* Into a file that may have been unlinked since.
EndWrite(a) ==
    /\ accept[a].at = "writing"
    /\ accept' = [accept EXCEPT ![a].at = "written"]
    /\ tmp' = IF tmp # {} THEN accept[a].read \union {accept[a].rule} ELSE {}
    /\ UNCHANGED <<datasetVars, runVars, expired, disk, sweep, reader, delete,
                   rules, rulesDir, restarts>>

Rename(a) ==
    /\ accept[a].at = "written"
    /\ accept' = [accept EXCEPT ![a].at = IF tmp # {} THEN "renamed" ELSE "500"]
    /\ rules' = IF tmp # {} THEN tmp ELSE rules
    /\ tmp' = {}
    /\ UNCHANGED <<datasetVars, runVars, expired, disk, sweep, reader, delete,
                   rulesDir, restarts>>

\* Loaded again the way an audit loads it.
Reload(a) ==
    /\ accept[a].at = "renamed"
    /\ accept' = [accept EXCEPT ![a].at = IF rules \in {{}, Torn} THEN "500" ELSE "201"]
    /\ UNCHANGED <<datasetVars, runVars, expired, disk, sweep, reader, delete,
                   rules, tmp, rulesDir, restarts>>

Accept(a) ==
    \/ \E id \in Rules : CheckProposal(a, id)
    \/ Lock(a) \/ BeginWrite(a) \/ EndWrite(a) \/ Rename(a) \/ Reload(a)

-----------------------------------------------------------------------------
(* The process.                                                            *)

Unfinished == {r \in DOMAIN row : row[r].status \in {"pending", "running"}}

\* What was under way is gone, what is stored stays; New's MarkInterrupted
\* finishes the runs in flight, all at one time.
Restart ==
    /\ restarts < MaxRestarts
    /\ restarts' = restarts + 1
    /\ dataset' = IF dataset = "saving" THEN "refused" ELSE dataset
    /\ row' = [r \in DOMAIN row |->
                 IF r \in Unfinished THEN [row[r] EXCEPT !.status = "failed"] ELSE row[r]]
    /\ \E order \in SetToSeqs(Unfinished) : done' = done \o order
    /\ audit' = [r \in Runs |-> IF audit[r] = "none" THEN "none" ELSE "over"]
    /\ sweep' = IdleSweep
    /\ reader' = [h \in Requests |-> IdleReader]
    /\ delete' = IF delete.at = "204" THEN delete ELSE IdleDelete
    /\ accept' = [a \in Requests |-> IF accept[a].at = "201" THEN accept[a] ELSE IdleAccept]
    /\ UNCHANGED <<source, expired, disk, rules, tmp, rulesDir>>

Next ==
    \/ Create \/ Expire \/ Discard \/ Delete \/ Restart
    \/ \E r \in Runs : Audit(r)
    \/ \E h \in Requests : Rows(h)
    \/ \E a \in Requests : Accept(a)

\* The clock sweeps on every tick.  A file that is held is let go again, and a
\* store that refuses a write takes a later one.
Fairness ==
    /\ WF_vars(BeginDiscard) /\ WF_vars(Discard)
    /\ \A r \in Runs : SF_vars(RemoveData(r)) /\ SF_vars(ClearRunDatabase(r))

Spec == Init /\ [][Next]_vars

FairSpec == Spec /\ Fairness

-----------------------------------------------------------------------------
(* Properties.                                                             *)

TypeOK ==
    /\ dataset \in {"none", "saving", "registered", "refused", "deleted"}
    /\ source \in {"none", "partial", "uploaded", "operator"}
    /\ DOMAIN row \subseteq Runs
    /\ \A r \in DOMAIN row : row[r].status \in {"pending", "running", "succeeded", "failed"}
                             /\ row[r].path \in BOOLEAN
    /\ done \in Seq(Runs) /\ expired \in 0..Len(done)
    /\ disk \in [Runs -> {"none", "empty", "data"}]
    /\ sweep.at \in {"idle", "next", "clear"} /\ sweep.todo \subseteq Runs
    /\ delete.todo \subseteq Runs /\ delete.listed \subseteq Runs
    /\ rules \subseteq Rules \union Torn /\ tmp \subseteq Rules \union Torn

\* Retention never takes the data of the most recent audit, nor of one that is
\* still under way: however the sweep, audits that overtake each other and
\* restarts interleave, a run that is in flight or the newest to have got a
\* database finds its files where its row says.
LatestKeepsItsFiles ==
    \A r \in DOMAIN row :
        row[r].path /\ (IsFloor(r) \/ audit[r] \in {"ready", "opening", "writing"})
        => disk[r] # "none"

\* The store is told that a run's data is gone only when it is: a run that
\* ran and whose row names no database has none on the disk, out of every
\* later sweep's reach, whichever of removal and record failed and wherever the
\* server died.
ClearedMeansGone ==
    \A r \in DOMAIN row : ~row[r].path => disk[r] # "data"

\* 410 is for data that is gone: once a run has succeeded, no order of the
\* request's four reads, the sweep and a deletion answers 410 while the rows
\* could still be fetched.
GoneMeansGone ==
    \A h \in Requests :
        reader[h].at = "410" /\ reader[h].seen = "succeeded" => disk[reader[h].run] # "data"

\* When a deletion has answered and warned of nothing, no run it found with a
\* database has files, and none comes to have any again, whatever its audit
\* was in the middle of; uploaded files are gone and an operator's are not.
DeleteTakesWhatItListed ==
    delete.at = "204" /\ ~delete.warned =>
        /\ \A r \in delete.listed : disk[r] = "none"
        /\ source \in {"none", "operator"}

\* A rule whose acceptance was answered 201 is in force from then on, whoever
\* else accepts rules and wherever the server crashes, until the dataset goes.
AcceptedStayInForce ==
    \A a \in Requests : accept[a].at = "201" /\ dataset = "registered" => accept[a].rule \in rules

\* An audit can start at any moment: the rules file is absent or whole.
RulesAlwaysLoad == rules \intersect Torn = {}

\* Expired data does go, though a removal or its record fails, or the server
\* dies between the two.
IsExpired(r) == r \in Expired /\ HoldsPath(r) /\ ~IsFloor(r)

ExpiredDataGoes ==
    \A r \in 1..(MaxRuns - 1) : IsExpired(r) ~> ~HoldsPath(r) /\ (Exists(r) => disk[r] = "none")
=============================================================================
