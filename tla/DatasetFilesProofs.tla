------------------------- MODULE DatasetFilesProofs -------------------------
(***************************************************************************)
(* What holds of a dataset's files for any number of requests, audits and  *)
(* crashes.                                                                *)
(*                                                                         *)
(* The rules accepted for it are neither lost nor torn: the lock makes     *)
(* what its holder has read stay what is in force, and nothing is renamed  *)
(* into place before it is whole.                                          *)
(*                                                                         *)
(* What retention and deletion take away, and what they leave: only a run  *)
(* that is over is ever discarded, nothing writes to the files of such a   *)
(* run again, and of the runs a sweep has listed none is the newest that   *)
(* holds a database.                                                       *)
(***************************************************************************)
EXTENDS DatasetFiles, Integers, FiniteSetTheorems, SequenceTheorems, NatLemmas, TLAPS

-----------------------------------------------------------------------------
(* The accepted rules.                                                     *)

Steps == {"idle", "checked", "locked", "writing", "written", "renamed", "201", "409", "500"}

\* What of the requests' types the argument needs.
RulesType ==
    /\ accept \in [Requests -> [at : Steps, rule : Rules \union {"none"}, read : SUBSET Rules]]
    /\ \A a \in Requests : accept[a].at # "idle" => accept[a].rule \in Rules
    /\ rules \in SUBSET Rules

\* rulesMu: one request at a time is between its read and its answer.
OneWriter == \A a, b \in Requests : a \in Holding /\ b \in Holding => a = b

\* The rules directory goes only when the dataset's row is gone.
DirGoesLast == delete.at \in {"deleted", "rules", "204"} => dataset = "deleted"

\* No request gets past its checks before the dataset is there.
NoneBefore ==
    dataset \in {"none", "saving"} => \A a \in Requests : accept[a].at = "idle"

\* While the dataset is there, the holder of the lock has read what is in force.
ReadIsCurrent ==
    dataset = "registered" =>
        \A a \in Requests : accept[a].at \in {"locked", "writing", "written"} =>
            accept[a].read = rules

\* What is about to be renamed over the rules file is whole, if it is still there.
WrittenIsWhole ==
    \A a \in Requests : accept[a].at = "written" =>
        tmp = {} \/ tmp = accept[a].read \union {accept[a].rule}

\* A rule that has been renamed into place stays there.
PlacedStays ==
    dataset = "registered" =>
        \A a \in Requests : accept[a].at \in {"renamed", "201"} => accept[a].rule \in rules

RulesInv ==
    /\ RulesType /\ OneWriter /\ DirGoesLast /\ NoneBefore
    /\ ReadIsCurrent /\ WrittenIsWhole /\ PlacedStays

-----------------------------------------------------------------------------
(* Steps that leave the rules and their requests alone.                    *)

LEMMA RulesInit == Init => RulesInv
  BY DEF Init, RulesInv, RulesType, Steps, OneWriter, Holding, DirGoesLast, NoneBefore,
         ReadIsCurrent, WrittenIsWhole, PlacedStays, IdleAccept, IdleDelete

\* A dataset that was not there yet has no requests; one that goes owes nothing.
LEMMA DatasetMoves ==
    ASSUME RulesInv, UNCHANGED <<rules, tmp, accept>>,
           dataset' = "registered" => dataset \in {"none", "saving", "registered"},
           dataset' \in {"none", "saving"} => dataset \in {"none", "saving"},
           DirGoesLast'
    PROVE  RulesInv'
  <1>1. RulesType' /\ OneWriter' /\ WrittenIsWhole'
    BY DEF RulesInv, RulesType, OneWriter, Holding, WrittenIsWhole
  <1>2. NoneBefore'
    BY DEF RulesInv, NoneBefore
  <1>3. ReadIsCurrent' /\ PlacedStays'
    BY DEF RulesInv, NoneBefore, ReadIsCurrent, PlacedStays
  <1> QED BY <1>1, <1>2, <1>3 DEF RulesInv

LEMMA Untouched ==
    ASSUME RulesInv, UNCHANGED <<dataset, delete, rules, tmp, accept>>
    PROVE  RulesInv'
  <1>1. DirGoesLast' BY DEF RulesInv, DirGoesLast
  <1> QED BY <1>1, DatasetMoves

\* Audits, retention, rows requests and a saved file.
LEMMA AuditUntouched ==
    ASSUME NEW r \in Runs, Audit(r)
    PROVE  UNCHANGED <<dataset, delete, rules, tmp, accept>>
  BY DEF Audit, CreateRun, MakeRunDir, SetRunDatabase, StartRun, OpenEngine, AuditSucceeds,
         AuditFails, Finish, datasetVars, ruleVars

LEMMA DiscardUntouched ==
    ASSUME Discard PROVE UNCHANGED <<dataset, delete, rules, tmp, accept>>
  BY DEF Discard, BeginDiscard, RemoveData, RemoveFails, ClearRunDatabase, ClearFails,
         datasetVars, ruleVars

LEMMA RowsUntouched ==
    ASSUME NEW h \in Requests, Rows(h)
    PROVE  UNCHANGED <<dataset, delete, rules, tmp, accept>>
  BY DEF Rows, ReadRun, ReadFinding, Stat, OpenReadOnly, datasetVars, ruleVars

LEMMA CreateKeeps == ASSUME RulesInv, Create PROVE RulesInv'
  <1>1. UNCHANGED <<delete, rules, tmp, accept>>
    BY DEF Create, Register, UploadDir, SaveUpload, UploadFails, RegisterUpload, ruleVars
  <1>2. dataset \in {"none", "saving"} /\ dataset' \in {"registered", "saving", "refused"}
    BY DEF Create, Register, UploadDir, SaveUpload, UploadFails, RegisterUpload
  <1>3. DirGoesLast' BY <1>1, <1>2 DEF RulesInv, DirGoesLast
  <1> QED BY <1>1, <1>2, <1>3, DatasetMoves

-----------------------------------------------------------------------------
(* The deletion takes the rules when the row is gone.                      *)

LEMMA DeleteKeeps == ASSUME RulesInv, Delete PROVE RulesInv'
  <1>1. CASE ListRuns
    <2>1. UNCHANGED <<dataset, rules, tmp, accept>> BY <1>1 DEF ListRuns, datasetVars, ruleVars
    <2>2. DirGoesLast' BY <1>1 DEF ListRuns, DirGoesLast
    <2> QED BY <2>1, <2>2, DatasetMoves
  <1>2. CASE DeleteRow
    <2>1. UNCHANGED <<rules, tmp, accept>> /\ dataset' = "deleted" BY <1>2 DEF DeleteRow, ruleVars
    <2>2. DirGoesLast' BY <2>1 DEF DirGoesLast
    <2> QED BY <2>1, <2>2, DatasetMoves
  <1>3. CASE RemovalFails \/ RemoveUpload \/ \E r \in Runs : RemoveRunFiles(r)
    <2>1. UNCHANGED <<dataset, rules, tmp, accept>>
      BY <1>3 DEF RemovalFails, RemoveUpload, RemoveRunFiles, datasetVars, ruleVars
    <2>2. delete.at \in {"deleted", "rules"}
      BY <1>3 DEF RemovalFails, RemoveUpload, RemoveRunFiles
    <2>3. DirGoesLast' BY <2>1, <2>2 DEF RulesInv, DirGoesLast
    <2> QED BY <2>1, <2>3, DatasetMoves
  <1>4. CASE RemoveRules
    <2>1. dataset = "deleted" /\ dataset' = "deleted"
      BY <1>4 DEF RemoveRules, datasetVars, RulesInv, DirGoesLast
    <2>2. rules' = {} /\ tmp' = {} /\ UNCHANGED accept
      BY <1>4 DEF RemoveRules
    <2>3. RulesType' /\ OneWriter' BY <2>2 DEF RulesInv, RulesType, OneWriter, Holding
    <2>4. DirGoesLast' /\ NoneBefore' /\ ReadIsCurrent' /\ PlacedStays'
      BY <2>1 DEF DirGoesLast, NoneBefore, ReadIsCurrent, PlacedStays
    <2>5. WrittenIsWhole' BY <2>2 DEF WrittenIsWhole
    <2> QED BY <2>3, <2>4, <2>5 DEF RulesInv
  <1> QED BY <1>1, <1>2, <1>3, <1>4 DEF Delete

-----------------------------------------------------------------------------
(* The acceptance of a rule.                                               *)

Writing == {"locked", "writing", "written", "renamed"}

\* A request moves on without touching the rules file; it is let into the lock
\* only when nobody else is in.
LEMMA Moves ==
    ASSUME RulesInv, NEW a \in Requests, NEW new,
           new \in [at : Steps, rule : Rules, read : SUBSET Rules],
           accept' = [accept EXCEPT ![a] = new],
           UNCHANGED <<dataset, delete, rules>>,
           dataset \notin {"none", "saving"},
           new.at \in Writing => Holding \subseteq {a},
           dataset = "registered" /\ new.at \in {"locked", "writing", "written"}
               => new.read = rules,
           new.at \in {"renamed", "201"} => accept[a].at = "renamed" /\ new.rule = accept[a].rule,
           new.at = "written" => tmp' = {} \/ tmp' = new.read \union {new.rule},
           tmp' = tmp \/ Holding \subseteq {a}
    PROVE  RulesInv'
  <1> USE DEF RulesInv, RulesType, Writing
  <1>1. \A b \in Requests : accept'[b] = IF b = a THEN new ELSE accept[b]
    OBVIOUS
  <1>2. RulesType'
    BY <1>1 DEF Steps
  <1>3. OneWriter'
    BY <1>1 DEF OneWriter, Holding
  <1>4. DirGoesLast' /\ NoneBefore'
    BY DEF DirGoesLast, NoneBefore
  <1>5. ReadIsCurrent'
    BY <1>1 DEF ReadIsCurrent
  <1>6. WrittenIsWhole'
    BY <1>1 DEF WrittenIsWhole, Holding
  <1>7. PlacedStays'
    BY <1>1 DEF PlacedStays
  <1> QED BY <1>2, <1>3, <1>4, <1>5, <1>6, <1>7

LEMMA CheckKeeps ==
    ASSUME RulesInv, NEW a \in Requests, NEW id \in Rules, CheckProposal(a, id)
    PROVE  RulesInv'
  <1> DEFINE new == [at |-> "checked", rule |-> id, read |-> {}]
  <1>2. accept' = [accept EXCEPT ![a] = new] BY DEF CheckProposal
  <1>3. UNCHANGED <<dataset, delete, rules, tmp>> /\ dataset = "registered"
    BY DEF CheckProposal, datasetVars
  <1>4. new \in [at : Steps, rule : Rules, read : SUBSET Rules] BY DEF Steps
  <1>5. new.at = "checked" OBVIOUS
  <1> HIDE DEF new
  <1> QED BY <1>2, <1>3, <1>4, <1>5, Moves DEF Writing

LEMMA LockKeeps ==
    ASSUME RulesInv, NEW a \in Requests, Lock(a)
    PROVE  RulesInv'
  <1> DEFINE step == IF accept[a].rule \in rules THEN "409" ELSE "locked"
  <1> DEFINE new == [at |-> step, rule |-> accept[a].rule, read |-> rules]
  <1>1. /\ accept \in [Requests -> [at : Steps, rule : Rules \union {"none"}, read : SUBSET Rules]]
        /\ accept[a].at = "checked" /\ accept[a].rule \in Rules /\ rules \in SUBSET Rules
    BY DEF RulesInv, RulesType, Lock
  <1>2. accept' = [accept EXCEPT ![a] = new]
    BY <1>1 DEF Lock, ReadRules
  <1>3. UNCHANGED <<dataset, delete, rules, tmp>> /\ dataset \notin {"none", "saving"}
    BY <1>1 DEF Lock, ReadRules, datasetVars, RulesInv, NoneBefore
  <1>4. new \in [at : Steps, rule : Rules, read : SUBSET Rules] BY <1>1 DEF Steps
  <1>5. Holding \subseteq {a} BY DEF Lock
  <1>6. new.at \in {"409", "locked"} /\ new.read = rules OBVIOUS
  <1> HIDE DEF new
  <1> QED BY <1>2, <1>3, <1>4, <1>5, <1>6, Moves DEF Writing

\* The request a is the holder, and goes on with what it has.
LEMMA HolderMoves ==
    ASSUME RulesInv, NEW a \in Requests, a \in Holding, NEW step \in Steps,
           accept' = [accept EXCEPT ![a].at = step],
           UNCHANGED <<dataset, delete, rules>>,
           step \in {"locked", "writing", "written"} => accept[a].at \in {"locked", "writing"},
           step \in {"renamed", "201"} => accept[a].at = "renamed",
           step = "written" => tmp' = {} \/ tmp' = accept[a].read \union {accept[a].rule}
    PROVE  RulesInv'
  <1> DEFINE new == [accept[a] EXCEPT !.at = step]
  <1>1. /\ accept \in [Requests -> [at : Steps, rule : Rules \union {"none"}, read : SUBSET Rules]]
        /\ accept[a].at # "idle" /\ accept[a].rule \in Rules
    BY DEF RulesInv, RulesType, Holding
  <1>2. /\ new \in [at : Steps, rule : Rules, read : SUBSET Rules]
        /\ new.at = step /\ new.rule = accept[a].rule /\ new.read = accept[a].read
    BY <1>1
  <1>3. accept' = [accept EXCEPT ![a] = new]
    BY <1>1
  <1>4. Holding \subseteq {a}
    BY DEF RulesInv, OneWriter, Holding
  <1>5. dataset \notin {"none", "saving"}
    BY <1>1 DEF RulesInv, NoneBefore
  <1>6. dataset = "registered" /\ step \in {"locked", "writing", "written"} => accept[a].read = rules
    BY DEF RulesInv, ReadIsCurrent
  <1> HIDE DEF new
  <1> QED BY <1>2, <1>3, <1>4, <1>5, <1>6, Moves

LEMMA WriteKeeps ==
    ASSUME RulesInv, NEW a \in Requests, BeginWrite(a) \/ EndWrite(a) \/ Reload(a)
    PROVE  RulesInv'
  <1>1. CASE BeginWrite(a)
    <2> DEFINE step == IF rulesDir THEN "writing" ELSE "500"
    <2>1. a \in Holding /\ accept[a].at = "locked" /\ step \in {"writing", "500"}
      BY <1>1 DEF BeginWrite, Holding
    <2>2. accept' = [accept EXCEPT ![a].at = step] /\ UNCHANGED <<dataset, delete, rules>>
      BY <1>1 DEF BeginWrite, datasetVars
    <2> HIDE DEF step
    <2> QED BY <2>1, <2>2, HolderMoves DEF Steps
  <1>2. CASE EndWrite(a)
    <2>1. a \in Holding /\ accept[a].at = "writing"
      BY <1>2 DEF EndWrite, Holding
    <2>2. /\ accept' = [accept EXCEPT ![a].at = "written"] /\ UNCHANGED <<dataset, delete, rules>>
          /\ tmp' = {} \/ tmp' = accept[a].read \union {accept[a].rule}
      BY <1>2 DEF EndWrite, datasetVars
    <2> QED BY <2>1, <2>2, HolderMoves DEF Steps
  <1>3. CASE Reload(a)
    <2> DEFINE step == IF rules \in {{}, Torn} THEN "500" ELSE "201"
    <2>1. a \in Holding /\ accept[a].at = "renamed" /\ step \in {"500", "201"}
      BY <1>3 DEF Reload, Holding
    <2>2. accept' = [accept EXCEPT ![a].at = step] /\ UNCHANGED <<dataset, delete, rules>>
      BY <1>3 DEF Reload, datasetVars
    <2> HIDE DEF step
    <2> QED BY <2>1, <2>2, HolderMoves DEF Steps
  <1> QED BY <1>1, <1>2, <1>3

\* The one step that changes the rules in force, apart from the deletion.
LEMMA RenameKeeps ==
    ASSUME RulesInv, NEW a \in Requests, Rename(a)
    PROVE  RulesInv'
  <1> DEFINE step == IF tmp # {} THEN "renamed" ELSE "500"
  <1>1. /\ accept[a].at = "written" /\ accept' = [accept EXCEPT ![a].at = step]
        /\ rules' = (IF tmp # {} THEN tmp ELSE rules) /\ tmp' = {}
        /\ UNCHANGED <<dataset, delete>>
    BY DEF Rename, datasetVars
  <1>2. /\ accept \in [Requests -> [at : Steps, rule : Rules \union {"none"}, read : SUBSET Rules]]
        /\ accept[a].rule \in Rules /\ accept[a].read \in SUBSET Rules /\ rules \in SUBSET Rules
    BY <1>1 DEF RulesInv, RulesType
  <1>3. /\ accept'[a] = [accept[a] EXCEPT !.at = step]
        /\ accept'[a].at = step /\ accept'[a].rule = accept[a].rule
        /\ accept'[a].read = accept[a].read
        /\ \A b \in Requests \ {a} : accept'[b] = accept[b]
    BY <1>1, <1>2
  <1>4. tmp # {} => tmp = accept[a].read \union {accept[a].rule}
    BY <1>1 DEF RulesInv, WrittenIsWhole
  <1>5. dataset = "registered" => accept[a].read = rules
    BY <1>1 DEF RulesInv, ReadIsCurrent
  <1>6. \A b \in Requests \ {a} : b \notin Holding
    BY <1>1 DEF RulesInv, OneWriter, Holding
  <1>7. step \in {"renamed", "500"} /\ (step = "renamed" => tmp # {})
    OBVIOUS
  <1> HIDE DEF step
  <1>8. RulesType'
    <2>1. rules' \in SUBSET Rules BY <1>1, <1>2, <1>4
    <2>2. accept' \in [Requests -> [at : Steps, rule : Rules \union {"none"}, read : SUBSET Rules]]
      BY <1>1, <1>2, <1>7 DEF Steps
    <2>3. \A b \in Requests : accept'[b].at # "idle" => accept'[b].rule \in Rules
      BY <1>2, <1>3 DEF RulesInv, RulesType
    <2> QED BY <2>1, <2>2, <2>3 DEF RulesType
  <1>9. OneWriter' /\ WrittenIsWhole' /\ ReadIsCurrent'
    BY <1>3, <1>6, <1>7 DEF OneWriter, Holding, WrittenIsWhole, ReadIsCurrent
  <1>10. DirGoesLast' /\ NoneBefore'
    BY <1>1, <1>3 DEF RulesInv, DirGoesLast, NoneBefore
  <1>11. PlacedStays'
    BY <1>1, <1>3, <1>4, <1>5, <1>6, <1>7 DEF RulesInv, PlacedStays, Holding
  <1> QED BY <1>8, <1>9, <1>10, <1>11 DEF RulesInv

LEMMA AcceptKeeps == ASSUME RulesInv, NEW a \in Requests, Accept(a) PROVE RulesInv'
  BY CheckKeeps, LockKeeps, WriteKeeps, RenameKeeps DEF Accept

\* A crash leaves the rules file as it is, and of the requests what was answered.
LEMMA RestartKeeps == ASSUME RulesInv, Restart PROVE RulesInv'
  <1>1. /\ accept' = [a \in Requests |-> IF accept[a].at = "201" THEN accept[a] ELSE IdleAccept]
        /\ UNCHANGED <<rules, tmp>>
        /\ dataset' = (IF dataset = "saving" THEN "refused" ELSE dataset)
        /\ delete' = (IF delete.at = "204" THEN delete ELSE IdleDelete)
    BY DEF Restart
  <1>2. \A a \in Requests :
          \/ accept'[a] = accept[a] /\ accept[a].at = "201"
          \/ accept'[a] = [at |-> "idle", rule |-> "none", read |-> {}]
    BY <1>1 DEF IdleAccept
  <1>3. RulesType'
    <2>1. \A a \in Requests :
            accept'[a] \in [at : Steps, rule : Rules \union {"none"}, read : SUBSET Rules]
      BY <1>2 DEF RulesInv, RulesType, Steps
    <2> QED BY <1>1, <1>2, <2>1 DEF RulesInv, RulesType
  <1>4. OneWriter' /\ ReadIsCurrent' /\ WrittenIsWhole'
    BY <1>2 DEF OneWriter, Holding, ReadIsCurrent, WrittenIsWhole
  <1>5. DirGoesLast'
    BY <1>1 DEF RulesInv, DirGoesLast, IdleDelete
  <1>6. NoneBefore' /\ PlacedStays'
    BY <1>1, <1>2 DEF RulesInv, NoneBefore, PlacedStays
  <1> QED BY <1>3, <1>4, <1>5, <1>6 DEF RulesInv

-----------------------------------------------------------------------------
(* The theorems.                                                           *)

\* RulesInv holds in every state, whatever Requests, Rules, MaxRuns and
\* MaxRestarts are and whatever mishaps there may be.
THEOREM RulesInvariant == Spec => []RulesInv
  <1>1. ASSUME RulesInv, [Next]_vars PROVE RulesInv'
    <2>1. CASE Create BY <1>1, <2>1, CreateKeeps
    <2>2. CASE Delete BY <1>1, <2>2, DeleteKeeps
    <2>3. CASE Discard BY <1>1, <2>3, DiscardUntouched, Untouched
    <2>4. CASE Expire
      <3>1. UNCHANGED <<dataset, delete, rules, tmp, accept>>
        BY <2>4 DEF Expire, datasetVars, ruleVars
      <3> QED BY <1>1, <3>1, Untouched
    <2>5. CASE Restart BY <1>1, <2>5, RestartKeeps
    <2>6. ASSUME NEW r \in Runs, Audit(r) PROVE RulesInv'
      BY <1>1, <2>6, AuditUntouched, Untouched
    <2>7. ASSUME NEW h \in Requests, Rows(h) PROVE RulesInv'
      BY <1>1, <2>7, RowsUntouched, Untouched
    <2>8. ASSUME NEW a \in Requests, Accept(a) PROVE RulesInv'
      BY <1>1, <2>8, AcceptKeeps
    <2>9. CASE UNCHANGED vars
      <3>1. UNCHANGED <<dataset, delete, rules, tmp, accept>> BY <2>9 DEF vars
      <3> QED BY <1>1, <3>1, Untouched
    <2> QED BY <1>1, <2>1, <2>2, <2>3, <2>4, <2>5, <2>6, <2>7, <2>8, <2>9 DEF Next
  <1> QED BY <1>1, RulesInit, PTL DEF Spec

\* A rule whose acceptance was answered 201 stays in force until the dataset
\* goes, however many requests race for the file and wherever the server dies.
THEOREM AcceptedAlwaysInForce == Spec => []AcceptedStayInForce
  <1>1. RulesInv => AcceptedStayInForce
    BY DEF RulesInv, PlacedStays, AcceptedStayInForce
  <1> QED BY <1>1, RulesInvariant, PTL

\* An audit that starts at any moment finds the rules file whole, or none.
THEOREM RulesFileAlwaysLoads == Spec => []RulesAlwaysLoad
  <1>1. RulesInv => RulesAlwaysLoad
    BY RulesAssumption DEF RulesInv, RulesType, RulesAlwaysLoad, Torn
  <1> QED BY <1>1, RulesInvariant, PTL

-----------------------------------------------------------------------------
(* Retention and deletion.                                                 *)

AuditSteps == {"none", "created", "made", "ready", "opening", "writing", "over"}

\* A run whose row may name a database, and one that is about to use it.
Named == {"ready", "opening", "writing", "over"}
Using == {"ready", "opening", "writing"}

Taken == {"deleted", "rules", "204"}

\* What of the types the argument needs.
FilesType ==
    /\ dataset \in {"none", "saving", "registered", "refused", "deleted"}
    /\ DOMAIN row \subseteq Runs
    /\ \A r \in DOMAIN row :
          row[r] \in [status : {"pending", "running", "succeeded", "failed"}, path : BOOLEAN]
    /\ done \in Seq(Runs) /\ expired \in 0..Len(done)
    /\ audit \in [Runs -> AuditSteps]
    /\ disk \in [Runs -> {"none", "empty", "data"}]
    /\ sweep \in [at : {"idle", "next", "clear"}, todo : SUBSET Runs]
    /\ reader \in [Requests -> [at : {"idle", "run", "finding", "stat", "200", "410", "500"},
                                run : Runs \union {0}, path : BOOLEAN,
                                seen : {"none", "pending", "running", "succeeded", "failed"}]]
    /\ delete \in [at : {"idle", "listed"} \union Taken, todo : SUBSET Runs,
                   listed : SUBSET Runs, warned : BOOLEAN]

\* Rows go with the dataset, and before any file does.
RowsGoFirst ==
    /\ dataset # "registered" => DOMAIN row = {}
    /\ delete.at = "listed" => dataset = "registered"
    /\ delete.at \in Taken => dataset = "deleted"

\* A run's row, its directory and the step of its audit agree.
StepsAgree ==
    /\ \A r \in DOMAIN row :
          /\ audit[r] # "none"
          /\ row[r].path => audit[r] \in Named
          /\ audit[r] \in Using => row[r].path
          /\ row[r].status = "succeeded" => audit[r] = "over"
          /\ audit[r] = "made" => disk[r] # "none"
    /\ \A r \in Runs : audit[r] \in {"none", "created", "made"} => disk[r] # "data"
    /\ \A i \in DOMAIN done : audit[done[i]] = "over"

\* What a sweep has listed has finished, and is older than a run it leaves; between the
\* removal and its record there is nothing on the disk.
SweepInv ==
    /\ \A r \in sweep.todo :
          /\ \E i \in DOMAIN done : done[i] = r
          /\ Exists(r) => \E x \in DOMAIN row \ sweep.todo : r < x /\ row[x].path
    /\ sweep.at = "clear" => \A r \in sweep.todo : Turn(r) => disk[r] = "none"

\* A request that has read that its run succeeded asks for the files of a run that is over;
\* one that found none did so when there were none.
ReaderInv ==
    \A h \in Requests : reader[h].seen = "succeeded" =>
        /\ reader[h].run \in Runs /\ audit[reader[h].run] = "over"
        /\ ~reader[h].path \/ reader[h].at = "410" => disk[reader[h].run] # "data"

\* A deletion that has warned of nothing has taken what it has been through.
DeleteInv ==
    /\ \A r \in delete.listed : audit[r] \in Named
    /\ delete.at = "listed" => delete.listed \subseteq delete.todo
    /\ delete.at \in Taken /\ ~delete.warned =>
          \A r \in delete.listed \ delete.todo : disk[r] = "none"
    /\ delete.at \in {"rules", "204"} => delete.todo = {}
    /\ delete.at = "204" /\ ~delete.warned => source \in {"none", "operator"}

\* The source of a dataset that is there, or was, is whole.
SourceInv ==
    /\ source \in {"none", "partial", "uploaded", "operator"}
    /\ dataset \in {"registered", "deleted"} => source # "partial"

FilesInv ==
    /\ FilesType /\ RowsGoFirst /\ StepsAgree /\ SweepInv /\ ReaderInv /\ DeleteInv /\ SourceInv
    /\ LatestKeepsItsFiles /\ ClearedMeansGone

-----------------------------------------------------------------------------
(* The oldest and the newest of a set of runs.                             *)

LEMMA Newest ==
    ASSUME NEW T, T \subseteq Runs, T # {}
    PROVE  \E x \in T : \A y \in T : y <= x
<1>1. MaxRuns \in Nat /\ T \subseteq 0..MaxRuns
  BY BoundsAssumption DEF Runs
<1> QED BY <1>1, GreatestUpTo

-----------------------------------------------------------------------------
LEMMA FilesInit == Init => FilesInv
<1> SUFFICES ASSUME Init PROVE FilesInv
  OBVIOUS
<1>1. DOMAIN row = {} /\ DOMAIN done = {} /\ Len(done) = 0 /\ done \in Seq(Runs) /\ expired = 0
  BY DEF Init
<1>2. FilesType
  BY <1>1 DEF Init, FilesType, AuditSteps, IdleSweep, IdleReader, IdleDelete, Taken
<1>3. RowsGoFirst /\ StepsAgree /\ SweepInv /\ ReaderInv /\ DeleteInv /\ SourceInv
  BY <1>1 DEF Init, RowsGoFirst, StepsAgree, SweepInv, ReaderInv, DeleteInv, SourceInv,
              IdleSweep, IdleReader, IdleDelete, Taken
<1>4. LatestKeepsItsFiles /\ ClearedMeansGone
  BY <1>1 DEF LatestKeepsItsFiles, ClearedMeansGone
<1> QED BY <1>2, <1>3, <1>4 DEF FilesInv

-----------------------------------------------------------------------------
(* Audits.                                                                 *)

\* A row that is added names no database, and its run no file.
LEMMA CreateRunFiles == ASSUME FilesInv, NEW r \in Runs, CreateRun(r) PROVE FilesInv'
<1> USE DEF FilesInv
<1>1. /\ audit[r] = "none" /\ audit' = [audit EXCEPT ![r] = "created"] /\ dataset = "registered"
      /\ UNCHANGED <<dataset, source, done, expired, disk, sweep, reader, delete>>
  BY DEF CreateRun, At, datasetVars
<1>2. r \notin DOMAIN row /\ disk[r] # "data" /\ audit \in [Runs -> AuditSteps]
  BY <1>1 DEF StepsAgree, FilesType
<1>3. /\ DOMAIN row' = DOMAIN row \union {r}
      /\ row'[r] = [status |-> "pending", path |-> FALSE]
      /\ \A x \in DOMAIN row : row'[x] = row[x]
  BY <1>2 DEF CreateRun
<1>4. audit' \in [Runs -> AuditSteps] /\ \A x \in Runs \ {r} : audit'[x] = audit[x]
  BY <1>1, <1>2 DEF AuditSteps
<1>5. FilesType'
  <2>1. row'[r] \in [status : {"pending", "running", "succeeded", "failed"}, path : BOOLEAN]
    BY <1>3
  <2>2. \A x \in DOMAIN row' :
          row'[x] \in [status : {"pending", "running", "succeeded", "failed"}, path : BOOLEAN]
    BY <1>3, <2>1 DEF FilesType
  <2>3. QED BY <1>1, <1>3, <1>4, <2>2 DEF FilesType
<1>6. RowsGoFirst' /\ SourceInv'
  BY <1>1 DEF RowsGoFirst, SourceInv
<1>7. audit'[r] = "created" /\ \A x \in Runs : audit[x] # "none" => x # r
  BY <1>1, <1>2
<1>8. StepsAgree'
  BY <1>1, <1>2, <1>3, <1>4, <1>7 DEF StepsAgree, Named, Using, FilesType
<1>9. SweepInv'
  <2>1. r \notin sweep.todo
    BY <1>1 DEF SweepInv, StepsAgree
  <2>2. QED BY <1>1, <1>2, <1>3, <2>1 DEF SweepInv, Exists, Turn, FinishedBefore
<1>10. ReaderInv' /\ DeleteInv'
  BY <1>1, <1>4 DEF ReaderInv, DeleteInv, Named, FilesType, Taken
<1>11. \A x \in Runs : HoldsPath(x)' <=> HoldsPath(x)
  BY <1>2, <1>3 DEF HoldsPath, Exists
<1>12. LatestKeepsItsFiles'
  BY <1>1, <1>3, <1>4, <1>11 DEF LatestKeepsItsFiles, IsFloor, HoldsPath, Exists, FilesType
<1>13. ClearedMeansGone'
  BY <1>1, <1>2, <1>3 DEF ClearedMeansGone
<1> QED BY <1>5, <1>6, <1>8, <1>9, <1>10, <1>12, <1>13

\* The directory is there when the row comes to name the database in it.
LEMMA SetRunDatabaseFiles == ASSUME FilesInv, NEW r \in Runs, SetRunDatabase(r) PROVE FilesInv'
<1> USE DEF FilesInv
<1>1. audit[r] = "made" /\ UNCHANGED <<dataset, source, done, expired, disk, sweep, reader, delete>>
  BY DEF SetRunDatabase, At, datasetVars
<1>2. CASE Exists(r)
  <2>1. /\ disk[r] # "none" /\ row[r].status # "succeeded"
        /\ row[r] \in [status : {"pending", "running", "succeeded", "failed"}, path : BOOLEAN]
    BY <1>1, <1>2 DEF Exists, StepsAgree, FilesType
  <2>2. /\ DOMAIN row' = DOMAIN row
        /\ row'[r] = [row[r] EXCEPT !.path = TRUE]
        /\ \A x \in DOMAIN row : x # r => row'[x] = row[x]
    BY <1>2 DEF SetRunDatabase, Exists
  <2>3. /\ audit' \in [Runs -> AuditSteps] /\ audit'[r] = "ready"
        /\ \A x \in Runs : x # r => audit'[x] = audit[x]
    BY <1>2 DEF SetRunDatabase, At, FilesType, AuditSteps
  <2>4. /\ row'[r].path /\ row'[r].status = row[r].status
        /\ row'[r] \in [status : {"pending", "running", "succeeded", "failed"}, path : BOOLEAN]
    BY <2>1, <2>2
  <2>5. FilesType'
    <3>1. \A x \in DOMAIN row' :
            row'[x] \in [status : {"pending", "running", "succeeded", "failed"}, path : BOOLEAN]
      BY <2>2, <2>4 DEF FilesType
    <3> QED BY <1>1, <2>2, <2>3, <3>1 DEF FilesType
  <2>6. RowsGoFirst' /\ SourceInv'
    BY <1>1, <2>2 DEF RowsGoFirst, SourceInv
  <2>7. StepsAgree'
    BY <1>1, <2>1, <2>2, <2>3, <2>4 DEF StepsAgree, Named, Using, FilesType
  <2>8. SweepInv'
    BY <1>1, <2>2, <2>4 DEF SweepInv, Exists, Turn, FinishedBefore
  <2>9. ReaderInv' /\ DeleteInv'
    <3>1. delete.listed \subseteq Runs
      BY DEF FilesType
    <3>2. ReaderInv'
      BY <1>1, <2>3 DEF ReaderInv
    <3>3. DeleteInv'
      BY <1>1, <2>3, <3>1 DEF DeleteInv, Named
    <3> QED BY <3>2, <3>3
  <2>10. \A x \in Runs : HoldsPath(x) => HoldsPath(x)'
    BY <2>2, <2>4 DEF HoldsPath, Exists
  <2>11. LatestKeepsItsFiles'
    <3>1. \A x \in DOMAIN row : x # r /\ IsFloor(x)' => IsFloor(x)
      BY <2>2, <2>10 DEF IsFloor, HoldsPath, Exists, FilesType
    <3>2. DOMAIN row \subseteq Runs
      BY DEF FilesType
    <3> QED BY <1>1, <2>1, <2>2, <2>3, <3>1, <3>2 DEF LatestKeepsItsFiles
  <2>12. ClearedMeansGone'
    BY <1>1, <2>2, <2>4 DEF ClearedMeansGone
  <2> QED BY <2>5, <2>6, <2>7, <2>8, <2>9, <2>11, <2>12
<1>3. CASE ~Exists(r)
  BY <1>1, <1>3 DEF SetRunDatabase, At, Exists, FilesType, RowsGoFirst, StepsAgree, SweepInv,
      ReaderInv, DeleteInv, SourceInv, LatestKeepsItsFiles, ClearedMeansGone, AuditSteps,
      Named, Using, Taken, IsFloor, HoldsPath, Turn, FinishedBefore
<1> QED BY <1>2, <1>3

LEMMA AuditStepsFiles ==
    ASSUME FilesInv, NEW r \in Runs, MakeRunDir(r) \/ StartRun(r) \/ OpenEngine(r)
    PROVE  FilesInv'
<1> USE DEF FilesInv, At, Exists, datasetVars, FilesType, RowsGoFirst, StepsAgree, SweepInv,
            ReaderInv, DeleteInv, SourceInv, LatestKeepsItsFiles, ClearedMeansGone, AuditSteps,
            Named, Using, Taken, IsFloor, HoldsPath, Turn, FinishedBefore
<1>1. CASE MakeRunDir(r) BY <1>1 DEF MakeRunDir
<1>2. CASE StartRun(r) BY <1>2 DEF StartRun
<1>3. CASE OpenEngine(r) BY <1>3 DEF OpenEngine
<1> QED BY <1>1, <1>2, <1>3

\* Two runs whose turn it is, of those that have finished, are one.
LEMMA TurnIsOnes ==
    ASSUME FilesType, SweepInv, NEW r \in sweep.todo, NEW x \in sweep.todo, Turn(r), Turn(x)
    PROVE  x = r
<1>1. PICK i, j \in DOMAIN done : done[i] = r /\ done[j] = x
  BY DEF SweepInv
<1>2. i \in Nat /\ j \in Nat
  BY DEF FilesType
<1>3. ~(i < j) /\ ~(j < i)
  BY <1>1 DEF Turn, FinishedBefore
<1> QED BY <1>1, <1>2, <1>3

\* More runs finish: whose turn it is stays so, or is somebody's who has come later.
LEMMA MoreDone ==
    ASSUME SweepInv, UNCHANGED <<sweep, disk>>,
           \A i \in DOMAIN done : i \in DOMAIN done' /\ done'[i] = done[i],
           DOMAIN row' = DOMAIN row, \A r \in DOMAIN row : row'[r].path = row[r].path
    PROVE  SweepInv'
<1>1. \A r \in sweep.todo : \E i \in DOMAIN done' : done'[i] = r
  BY DEF SweepInv
<1>2. \A x, r \in sweep.todo : FinishedBefore(x, r) => FinishedBefore(x, r)'
  BY DEF FinishedBefore
<1>3. \A r \in sweep.todo : Turn(r)' => Turn(r)
  BY <1>2 DEF Turn
<1>4. \A r \in sweep.todo :
        Exists(r)' => \E x \in DOMAIN row' \ sweep.todo : r < x /\ row'[x].path
  BY DEF SweepInv, Exists
<1> QED BY <1>1, <1>3, <1>4 DEF SweepInv

\* An audit ends: it keeps its row's path and its files.
LEMMA Settles ==
    ASSUME FilesInv, NEW r \in Runs, NEW how \in {"succeeded", "failed"},
           audit[r] \in {"opening", "writing"}, audit' = [audit EXCEPT ![r] = "over"],
           Finish(r, how)
    PROVE  FilesInv'
<1> USE DEF FilesInv
<1>1. /\ DOMAIN row' = DOMAIN row
      /\ \A x \in DOMAIN row : row'[x].path = row[x].path
      /\ \A x \in DOMAIN row : row'[x] \in [status : {"pending", "running", "succeeded", "failed"},
                                            path : BOOLEAN]
      /\ \A x \in DOMAIN row : x # r => row'[x] = row[x]
  BY DEF Finish, FilesType, Exists
<1>2. /\ done' \in Seq(Runs) /\ Len(done) <= Len(done') /\ Len(done) \in Nat
      /\ \A i \in DOMAIN done : i \in DOMAIN done' /\ done'[i] = done[i]
      /\ \A i \in DOMAIN done' : i \in DOMAIN done \/ done'[i] = r
  BY DEF Finish, FilesType
<1>3. UNCHANGED <<dataset, source, expired, disk, sweep, reader, delete>>
  BY DEF Finish, datasetVars
<1>4. /\ audit' \in [Runs -> AuditSteps] /\ audit'[r] = "over"
      /\ \A x \in Runs : x # r => audit'[x] = audit[x]
  BY DEF FilesType, AuditSteps
<1>5. FilesType' /\ RowsGoFirst' /\ SourceInv'
  BY <1>1, <1>2, <1>3, <1>4 DEF FilesType, RowsGoFirst, SourceInv
<1>6. StepsAgree'
  BY <1>1, <1>2, <1>3, <1>4 DEF FilesType, StepsAgree, Named, Using
<1>7. SweepInv'
  BY <1>1, <1>2, <1>3, MoreDone
<1>8. ReaderInv' /\ DeleteInv'
  BY <1>3, <1>4 DEF ReaderInv, DeleteInv, Named, FilesType
<1>9. LatestKeepsItsFiles' /\ ClearedMeansGone'
  BY <1>1, <1>3, <1>4 DEF LatestKeepsItsFiles, ClearedMeansGone, IsFloor, HoldsPath, Exists,
                          FilesType
<1> QED BY <1>5, <1>6, <1>7, <1>8, <1>9

LEMMA AuditFiles == ASSUME FilesInv, NEW r \in Runs, Audit(r) PROVE FilesInv'
<1>1. CASE AuditSucceeds(r)
  BY <1>1, Settles DEF AuditSucceeds, At
<1>2. CASE AuditFails(r)
  BY <1>2, Settles DEF AuditFails, At
<1> QED BY <1>1, <1>2, CreateRunFiles, SetRunDatabaseFiles, AuditStepsFiles DEF Audit

-----------------------------------------------------------------------------
(* Retention.                                                              *)

\* A sweep lists what has finished and is not the newest with a database, which it leaves.
LEMMA BeginDiscardFiles == ASSUME FilesInv, BeginDiscard PROVE FilesInv'
<1> USE DEF FilesInv
<1>1. /\ sweep' = [at |-> "next", todo |-> Discardable]
      /\ UNCHANGED <<dataset, source, row, done, expired, audit, disk, reader, delete>>
  BY DEF BeginDiscard, datasetVars, runVars
<1>2. \A r \in Discardable :
        /\ r \in Runs /\ \E i \in DOMAIN done : done[i] = r
        /\ HoldsPath(r) /\ ~IsFloor(r)
  BY DEF Discardable, Expired, FilesType
<1>3. ASSUME NEW r \in Discardable
      PROVE  \E x \in DOMAIN row \ Discardable : r < x /\ row[x].path
  <2> DEFINE Held == {x \in Runs : HoldsPath(x)}
  <2>1. Held \subseteq Runs /\ r \in Held
    BY <1>2
  <2>2. PICK x \in Held : \A y \in Held : y <= x
    BY <2>1, Newest
  <2>3. IsFloor(x) /\ x \in DOMAIN row /\ row[x].path
    BY <2>2 DEF IsFloor, HoldsPath, Exists
  <2>4. x \notin Discardable /\ r # x
    BY <1>2, <2>3
  <2>5. r \in Nat /\ x \in Nat /\ r <= x
    BY <2>1, <2>2, BoundsAssumption DEF Runs
  <2> QED BY <2>3, <2>4, <2>5
<1>4. FilesType' /\ SweepInv'
  BY <1>1, <1>2, <1>3 DEF FilesType, SweepInv
<1>5. RowsGoFirst' /\ StepsAgree' /\ ReaderInv' /\ DeleteInv' /\ SourceInv'
  BY <1>1 DEF RowsGoFirst, StepsAgree, ReaderInv, DeleteInv, SourceInv
<1>6. LatestKeepsItsFiles' /\ ClearedMeansGone'
  BY <1>1 DEF LatestKeepsItsFiles, ClearedMeansGone, IsFloor, HoldsPath, Exists
<1> QED BY <1>4, <1>5, <1>6

\* The files go before the row is told, so that there are none when it is.
LEMMA RemoveDataFiles == ASSUME FilesInv, NEW r \in Runs, RemoveData(r) PROVE FilesInv'
<1> USE DEF FilesInv
<1>1. /\ sweep.at = "next" /\ Turn(r)
      /\ disk' = [disk EXCEPT ![r] = "none"] /\ sweep' = [sweep EXCEPT !.at = "clear"]
      /\ UNCHANGED <<dataset, source, row, done, expired, audit, reader, delete>>
  BY DEF RemoveData, datasetVars, runVars
<1>2. r \in sweep.todo /\ audit[r] = "over"
  BY <1>1 DEF Turn, SweepInv, StepsAgree
<1>3. /\ disk' \in [Runs -> {"none", "empty", "data"}] /\ disk'[r] = "none"
      /\ \A x \in Runs : x # r => disk'[x] = disk[x]
  BY <1>1 DEF FilesType
<1>4. sweep'.at = "clear" /\ sweep'.todo = sweep.todo
      /\ sweep' \in [at : {"idle", "next", "clear"}, todo : SUBSET Runs]
  BY <1>1 DEF FilesType
<1>5. FilesType' /\ RowsGoFirst' /\ SourceInv'
  BY <1>1, <1>3, <1>4 DEF FilesType, RowsGoFirst, SourceInv
<1>6. StepsAgree'
  BY <1>1, <1>2, <1>3 DEF FilesType, StepsAgree
<1>7. SweepInv'
  <2>1. \A x \in sweep.todo : Turn(x)' => x = r
    <3>1. \A x \in sweep.todo : Turn(x)' => Turn(x)
      BY <1>1, <1>4 DEF Turn, FinishedBefore
    <3> QED BY <1>1, <1>2, <3>1, TurnIsOnes
  <2>2. \A x \in sweep.todo : Turn(x)' => disk'[x] = "none"
    BY <1>3, <2>1
  <2>3. \A x \in sweep.todo :
          /\ \E i \in DOMAIN done : done[i] = x
          /\ Exists(x)' => \E y \in DOMAIN row \ sweep.todo : x < y /\ row[y].path
    BY <1>1 DEF SweepInv, Exists
  <2> QED BY <1>1, <1>4, <2>2, <2>3 DEF SweepInv
<1>8. ReaderInv' /\ DeleteInv'
  BY <1>1, <1>3 DEF ReaderInv, DeleteInv, FilesType
<1>9. LatestKeepsItsFiles'
  <2>1. r \in DOMAIN row => ~IsFloor(r)
    BY <1>2 DEF SweepInv, IsFloor, HoldsPath, Exists, FilesType, Runs
  <2>2. DOMAIN row \subseteq Runs
    BY DEF FilesType
  <2>3. QED BY <1>1, <1>2, <1>3, <2>1, <2>2 DEF LatestKeepsItsFiles, IsFloor, HoldsPath, Exists
<1>10. ClearedMeansGone'
  BY <1>1, <1>3 DEF ClearedMeansGone, FilesType
<1> QED BY <1>5, <1>6, <1>7, <1>8, <1>9, <1>10

\* The row is told when there are no files, and it is not the newest's.
LEMMA ClearRunDatabaseFiles == ASSUME FilesInv, NEW r \in Runs, ClearRunDatabase(r) PROVE FilesInv'
<1> USE DEF FilesInv
<1>1. /\ sweep.at = "clear" /\ Turn(r) /\ sweep' = Onwards(r)
      /\ UNCHANGED <<dataset, source, done, audit, expired, disk, reader, delete>>
  BY DEF ClearRunDatabase, datasetVars
<1>2. r \in sweep.todo /\ audit[r] = "over" /\ disk[r] = "none"
  BY <1>1 DEF Turn, SweepInv, StepsAgree
<1>3. /\ DOMAIN row' = DOMAIN row
      /\ \A x \in DOMAIN row :
            /\ row'[x].status = row[x].status
            /\ x # r => row'[x].path = row[x].path
            /\ x = r => ~row'[x].path
            /\ row'[x] \in [status : {"pending", "running", "succeeded", "failed"}, path : BOOLEAN]
  <2>1. CASE Exists(r)
    <3>1. row' = [row EXCEPT ![r].path = FALSE] /\ r \in DOMAIN row
      BY <2>1 DEF ClearRunDatabase, Exists
    <3>2. row[r] \in [status : {"pending", "running", "succeeded", "failed"}, path : BOOLEAN]
      BY <3>1 DEF FilesType
    <3>3. /\ DOMAIN row' = DOMAIN row /\ \A x \in DOMAIN row : x # r => row'[x] = row[x]
          /\ row'[r] = [row[r] EXCEPT !.path = FALSE]
      BY <3>1
    <3>4. ~row'[r].path /\ row'[r].status = row[r].status
          /\ row'[r] \in [status : {"pending", "running", "succeeded", "failed"}, path : BOOLEAN]
      BY <3>2, <3>3
    <3> QED BY <3>3, <3>4 DEF FilesType
  <2>2. CASE ~Exists(r)
    BY <2>2 DEF ClearRunDatabase, Exists, FilesType
  <2> QED BY <2>1, <2>2
<1>4. sweep'.todo = sweep.todo \ {r} /\ sweep'.at \in {"idle", "next"}
      /\ sweep' \in [at : {"idle", "next", "clear"}, todo : SUBSET Runs]
  BY <1>1 DEF FilesType, Onwards
<1>5. FilesType' /\ RowsGoFirst' /\ SourceInv'
  BY <1>1, <1>3, <1>4 DEF FilesType, RowsGoFirst, SourceInv
<1>6. StepsAgree'
  BY <1>1, <1>2, <1>3, <1>4 DEF FilesType, StepsAgree, Named, Using
<1>7. SweepInv'
  BY <1>1, <1>2, <1>3, <1>4 DEF SweepInv, Exists
<1>8. ReaderInv' /\ DeleteInv'
  BY <1>1 DEF ReaderInv, DeleteInv
<1>9. LatestKeepsItsFiles'
  <2>1. ASSUME NEW x \in DOMAIN row, IsFloor(x)', x # r PROVE IsFloor(x)
    <3>1. r \in DOMAIN row => \E y \in DOMAIN row \ sweep.todo : r < y /\ row[y].path
      BY <1>2 DEF SweepInv, Exists
    <3>2. x \in Nat /\ r \in Nat /\ DOMAIN row \subseteq Nat
      BY BoundsAssumption DEF FilesType, Runs
    <3>3. \A y \in DOMAIN row : y # r => (HoldsPath(y)' <=> HoldsPath(y))
      BY <1>3 DEF HoldsPath, Exists
    <3>4. HoldsPath(x) /\ \A y \in DOMAIN row \ {r} : HoldsPath(y) => y <= x
      BY <1>3, <2>1, <3>3 DEF IsFloor, FilesType
    <3>5. r \in DOMAIN row => r <= x
      BY <1>2, <3>1, <3>2, <3>4 DEF HoldsPath, Exists
    <3> QED BY <3>4, <3>5 DEF IsFloor, HoldsPath, Exists
  <2>2. DOMAIN row \subseteq Runs
    BY DEF FilesType
  <2> QED BY <1>1, <1>2, <1>3, <2>1, <2>2 DEF LatestKeepsItsFiles
<1>10. ClearedMeansGone'
  BY <1>1, <1>2, <1>3 DEF ClearedMeansGone
<1> QED BY <1>5, <1>6, <1>7, <1>8, <1>9, <1>10

LEMMA DiscardFiles == ASSUME FilesInv, Discard PROVE FilesInv'
<1>1. CASE RemoveFails \/ ClearFails
  BY <1>1 DEF FilesInv, RemoveFails, ClearFails, datasetVars, runVars, Exists, Onwards, FilesType,
      RowsGoFirst, StepsAgree, SweepInv, ReaderInv, DeleteInv, SourceInv, LatestKeepsItsFiles,
      ClearedMeansGone, AuditSteps, IsFloor, HoldsPath, Turn, FinishedBefore
<1> QED BY <1>1, BeginDiscardFiles, RemoveDataFiles, ClearRunDatabaseFiles DEF Discard

-----------------------------------------------------------------------------
(* The other handlers.                                                     *)

LEMMA CreateFiles == ASSUME FilesInv, Create \/ Expire PROVE FilesInv'
  BY DEF FilesInv, Create, Expire, Register, UploadDir, SaveUpload, UploadFails, RegisterUpload,
      datasetVars, runVars, Exists, FilesType, RowsGoFirst, StepsAgree, SweepInv, ReaderInv,
      DeleteInv, SourceInv, LatestKeepsItsFiles, ClearedMeansGone, AuditSteps, Taken, IsFloor,
      HoldsPath, Turn, FinishedBefore

LEMMA RowsFiles == ASSUME FilesInv, NEW h \in Requests, Rows(h) PROVE FilesInv'
<1> USE DEF FilesInv
<1>1. UNCHANGED <<dataset, source, row, done, expired, audit, disk, sweep, delete>>
  BY DEF Rows, ReadFinding, Stat, OpenReadOnly, ReadRun, datasetVars, runVars
<1>2. RowsGoFirst' /\ StepsAgree' /\ SweepInv' /\ DeleteInv' /\ SourceInv'
  BY <1>1 DEF RowsGoFirst, StepsAgree, SweepInv, DeleteInv, SourceInv, Exists, Turn, FinishedBefore
<1>3. LatestKeepsItsFiles' /\ ClearedMeansGone'
  BY <1>1 DEF LatestKeepsItsFiles, ClearedMeansGone, IsFloor, HoldsPath, Exists
<1> DEFINE Reads == [at : {"idle", "run", "finding", "stat", "200", "410", "500"},
                     run : Runs \union {0}, path : BOOLEAN,
                     seen : {"none", "pending", "running", "succeeded", "failed"}]
<1>4. /\ reader'[h] \in Reads /\ reader' = [reader EXCEPT ![h] = reader'[h]]
      /\ reader'[h].seen = "succeeded" =>
          /\ reader'[h].run \in Runs /\ audit[reader'[h].run] = "over"
          /\ ~reader'[h].path \/ reader'[h].at = "410" => disk[reader'[h].run] # "data"
  <2>1. reader[h] \in Reads
    BY DEF FilesType
  <2>2. CASE ReadFinding(h)
    <3>1. CASE Exists(reader[h].run) /\ row[reader[h].run].status = "succeeded"
      BY <2>1, <2>2, <3>1 DEF ReadFinding, FilesType, ReaderInv
    <3>2. CASE ~(Exists(reader[h].run) /\ row[reader[h].run].status = "succeeded")
      BY <2>1, <2>2, <3>2 DEF ReadFinding, FilesType, IdleReader
    <3> QED BY <3>1, <3>2
  <2>3. CASE Stat(h)
    BY <2>1, <2>3 DEF Stat, FilesType, ReaderInv
  <2>4. CASE OpenReadOnly(h)
    BY <2>1, <2>4 DEF OpenReadOnly, FilesType, ReaderInv
  <2>5. ASSUME NEW r \in Runs, ReadRun(h, r)
        PROVE  /\ reader'[h] \in Reads /\ reader' = [reader EXCEPT ![h] = reader'[h]]
               /\ reader'[h].seen = "succeeded" =>
                  /\ reader'[h].run \in Runs /\ audit[reader'[h].run] = "over"
                  /\ ~reader'[h].path \/ reader'[h].at = "410" => disk[reader'[h].run] # "data"
    BY <2>5 DEF ReadRun, FilesType, Exists, StepsAgree, ClearedMeansGone
  <2> QED BY <2>2, <2>3, <2>4, <2>5 DEF Rows
<1>5. FilesType'
  BY <1>1, <1>4 DEF FilesType
<1>6. ReaderInv'
  BY <1>1, <1>4 DEF ReaderInv, FilesType
<1> QED BY <1>2, <1>3, <1>5, <1>6

\* The rows go, and with them every promise about them.
LEMMA DeleteRowFiles == ASSUME FilesInv, DeleteRow PROVE FilesInv'
<1> USE DEF FilesInv
<1>1. /\ delete.at = "listed" /\ delete' = [delete EXCEPT !.at = "deleted"]
      /\ dataset' = "deleted" /\ row' = <<>>
      /\ UNCHANGED <<source, done, audit, expired, disk, sweep, reader>>
  BY DEF DeleteRow
<1>2. DOMAIN row' = {}
  BY <1>1
<1>3. FilesType'
  BY <1>1, <1>2 DEF FilesType, Taken
<1>4. RowsGoFirst' /\ StepsAgree' /\ ReaderInv' /\ LatestKeepsItsFiles' /\ ClearedMeansGone'
  BY <1>1, <1>2 DEF RowsGoFirst, StepsAgree, ReaderInv, LatestKeepsItsFiles, ClearedMeansGone
<1>5. SweepInv'
  BY <1>1, <1>2 DEF SweepInv, Exists, Turn, FinishedBefore
<1>6. DeleteInv'
  <2>1. /\ delete'.at = "deleted" /\ delete'.todo = delete.todo
        /\ delete'.listed = delete.listed
    BY <1>1 DEF FilesType
  <2> QED BY <1>1, <2>1 DEF DeleteInv, Taken
<1>7. SourceInv'
  BY <1>1 DEF SourceInv, RowsGoFirst
<1> QED BY <1>3, <1>4, <1>5, <1>6, <1>7

\* The steps that follow the deletion of the row leave the rows' promises alone.
LEMMA DeleteFiles == ASSUME FilesInv, Delete PROVE FilesInv'
<1> USE DEF FilesInv
<1>1. CASE ListRuns
  <2>1. /\ delete.at = "idle" /\ dataset = "registered"
        /\ delete' = [delete EXCEPT !.at = "listed", !.todo = DOMAIN row,
                                    !.listed = {r \in DOMAIN row : row[r].path}]
        /\ UNCHANGED <<dataset, source, row, done, expired, audit, disk, sweep, reader>>
    BY <1>1 DEF ListRuns, datasetVars, runVars
  <2>2. FilesType'
    BY <2>1 DEF FilesType
  <2>3. RowsGoFirst' /\ StepsAgree' /\ ReaderInv' /\ SourceInv'
    BY <2>1 DEF RowsGoFirst, StepsAgree, ReaderInv, SourceInv, Taken, FilesType
  <2>4. SweepInv'
    BY <2>1 DEF SweepInv, Exists, Turn, FinishedBefore
  <2>5. DeleteInv'
    BY <2>1 DEF DeleteInv, Taken, FilesType, StepsAgree
  <2>6. LatestKeepsItsFiles' /\ ClearedMeansGone'
    BY <2>1 DEF LatestKeepsItsFiles, ClearedMeansGone, IsFloor, HoldsPath, Exists
  <2> QED BY <2>2, <2>3, <2>4, <2>5, <2>6
<1>2. CASE DeleteRow
  BY <1>2, DeleteRowFiles
<1>3. CASE RemovalFails
  <2>1. UNCHANGED <<dataset, source, row, done, expired, audit, disk, sweep, reader>>
    BY <1>3 DEF RemovalFails, datasetVars, runVars
  <2>2. /\ delete.at \in Taken /\ delete'.at \in Taken /\ delete'.warned = TRUE
        /\ delete'.todo \subseteq delete.todo /\ delete'.listed = delete.listed
        /\ delete' \in [at : {"idle", "listed"} \union Taken, todo : SUBSET Runs,
                        listed : SUBSET Runs, warned : BOOLEAN]
        /\ delete'.at \in {"rules", "204"} => delete.todo = {}
    <3>1. delete \in [at : {"idle", "listed"} \union Taken, todo : SUBSET Runs,
                      listed : SUBSET Runs, warned : BOOLEAN]
      BY DEF FilesType
    <3>2. CASE /\ delete.at = "deleted"
               /\ \E r \in Runs : delete' = [delete EXCEPT !.todo = @ \ {r}, !.warned = TRUE]
      BY <3>1, <3>2 DEF Taken
    <3>3. CASE /\ delete.at = "deleted" /\ delete.todo = {}
               /\ delete' = [delete EXCEPT !.at = "rules", !.warned = TRUE]
      BY <3>1, <3>3 DEF Taken
    <3>4. CASE delete.at = "rules" /\ delete' = [delete EXCEPT !.at = "204", !.warned = TRUE]
      BY <3>1, <3>4 DEF Taken, DeleteInv
    <3> QED BY <1>3, <3>1, <3>2, <3>3, <3>4 DEF RemovalFails
  <2>3. FilesType'
    BY <2>1, <2>2 DEF FilesType
  <2>4. RowsGoFirst' /\ StepsAgree' /\ ReaderInv' /\ SourceInv'
    BY <2>1, <2>2 DEF RowsGoFirst, StepsAgree, ReaderInv, SourceInv, Taken
  <2>5. SweepInv'
    BY <2>1 DEF SweepInv, Exists, Turn, FinishedBefore
  <2>6. DeleteInv'
    BY <2>1, <2>2 DEF DeleteInv, Taken
  <2>7. LatestKeepsItsFiles' /\ ClearedMeansGone'
    BY <2>1 DEF LatestKeepsItsFiles, ClearedMeansGone, IsFloor, HoldsPath, Exists
  <2> QED BY <2>3, <2>4, <2>5, <2>6, <2>7
<1>4. CASE RemoveRules
  <2>1. /\ delete.at = "deleted" /\ delete.todo = {} /\ delete' = [delete EXCEPT !.at = "rules"]
        /\ UNCHANGED <<dataset, source, row, done, expired, audit, disk, sweep, reader>>
    BY <1>4 DEF RemoveRules, datasetVars, runVars
  <2>2. FilesType' /\ RowsGoFirst' /\ StepsAgree' /\ ReaderInv' /\ SourceInv'
    BY <2>1 DEF FilesType, RowsGoFirst, StepsAgree, ReaderInv, SourceInv, Taken
  <2>3. SweepInv' /\ LatestKeepsItsFiles' /\ ClearedMeansGone'
    BY <2>1 DEF SweepInv, Exists, Turn, FinishedBefore, LatestKeepsItsFiles, ClearedMeansGone,
                IsFloor, HoldsPath
  <2>4. DeleteInv'
    BY <2>1 DEF DeleteInv, Taken, FilesType
  <2> QED BY <2>2, <2>3, <2>4
<1>5. CASE RemoveUpload
  BY <1>5 DEF RemoveUpload, datasetVars, runVars, Exists, FilesType, RowsGoFirst, StepsAgree,
      SweepInv, ReaderInv, DeleteInv, SourceInv, LatestKeepsItsFiles, ClearedMeansGone,
      AuditSteps, Taken, IsFloor, HoldsPath, Turn, FinishedBefore
<1>6. ASSUME NEW r \in Runs, RemoveRunFiles(r) PROVE FilesInv'
  BY <1>6 DEF RemoveRunFiles, datasetVars, runVars, Exists, FilesType, RowsGoFirst, StepsAgree,
      SweepInv, ReaderInv, DeleteInv, SourceInv, LatestKeepsItsFiles, ClearedMeansGone,
      AuditSteps, Taken, IsFloor, HoldsPath, Turn, FinishedBefore
<1> QED BY <1>1, <1>2, <1>3, <1>4, <1>5, <1>6 DEF Delete

\* After a crash nothing is under way, and the runs that were have finished.
LEMMA RestartFiles == ASSUME FilesInv, Restart PROVE FilesInv'
<1> USE DEF FilesInv
<1>1. /\ dataset' = IF dataset = "saving" THEN "refused" ELSE dataset
      /\ row' = [r \in DOMAIN row |->
                   IF r \in Unfinished THEN [row[r] EXCEPT !.status = "failed"] ELSE row[r]]
      /\ audit' = [r \in Runs |-> IF audit[r] = "none" THEN "none" ELSE "over"]
      /\ sweep' = IdleSweep /\ reader' = [h \in Requests |-> IdleReader]
      /\ delete' = IF delete.at = "204" THEN delete ELSE IdleDelete
      /\ UNCHANGED <<source, expired, disk>>
  BY DEF Restart
<1>2. \A r \in DOMAIN row :
        row[r] \in [status : {"pending", "running", "succeeded", "failed"}, path : BOOLEAN]
  BY DEF FilesType
<1>3. /\ DOMAIN row' = DOMAIN row
      /\ \A r \in DOMAIN row : row'[r].path = row[r].path
      /\ \A r \in DOMAIN row :
            row'[r] \in [status : {"pending", "running", "succeeded", "failed"}, path : BOOLEAN]
  BY <1>1, <1>2 DEF Unfinished
<1>4. /\ done' \in Seq(Runs) /\ Len(done) <= Len(done')
      /\ \A i \in DOMAIN done' : i \in DOMAIN done \/ done'[i] \in Unfinished
      /\ \A i \in DOMAIN done : done'[i] = done[i]
  <2>1. PICK order \in SetToSeqs(Unfinished) : done' = done \o order
    BY DEF Restart
  <2>2. order \in Seq(Unfinished) /\ Unfinished \subseteq Runs /\ done \in Seq(Runs)
    <3>1. order \in [1..Cardinality(Unfinished) -> Unfinished]
      BY DEF SetToSeqs
    <3>2. Cardinality(Unfinished) \in Nat
      <4>1. IsFiniteSet(Runs)
        BY BoundsAssumption, FS_Interval DEF Runs
      <4>2. Unfinished \subseteq Runs
        BY DEF Unfinished, FilesType
      <4> QED BY <4>1, <4>2, FS_Subset, FS_CardinalityType
    <3>3. order \in Seq(Unfinished)
      BY <3>1, <3>2, SeqDef
    <3> QED BY <3>3 DEF Unfinished, FilesType
  <2>3. order \in Seq(Runs)
    BY <2>2
  <2> QED BY <2>1, <2>2, <2>3
<1>5. expired \in 0..Len(done')
  BY <1>1, <1>4 DEF FilesType
<1>6. \A r \in Unfinished : r \in Runs /\ audit[r] # "none"
  BY DEF Unfinished, FilesType, StepsAgree
<1>7. FilesType'
  BY <1>1, <1>3, <1>4, <1>5 DEF FilesType, IdleSweep, IdleReader, IdleDelete, AuditSteps
<1>8. RowsGoFirst' /\ SourceInv'
  BY <1>1, <1>3 DEF RowsGoFirst, SourceInv, IdleDelete, Taken
<1>9. StepsAgree'
  <2>1. \A i \in DOMAIN done' : audit'[done'[i]] = "over"
    BY <1>1, <1>4, <1>6 DEF StepsAgree, FilesType
  <2>2. \A r \in DOMAIN row' : r \in Runs /\ audit'[r] = "over"
    BY <1>1, <1>3 DEF StepsAgree, FilesType
  <2>3. \A r \in Runs : audit'[r] \in {"none", "created", "made"} => disk'[r] # "data"
    BY <1>1 DEF StepsAgree
  <2> QED BY <2>1, <2>2, <2>3 DEF StepsAgree, Named, Using
<1>10. SweepInv' /\ ReaderInv' /\ DeleteInv'
  BY <1>1 DEF SweepInv, ReaderInv, DeleteInv, IdleSweep, IdleReader, IdleDelete, Taken, Named,
              FilesType
<1>11. LatestKeepsItsFiles'
  BY <1>1, <1>3 DEF LatestKeepsItsFiles, IsFloor, HoldsPath, Exists, FilesType
<1>12. ClearedMeansGone'
  BY <1>1, <1>3 DEF ClearedMeansGone
<1> QED BY <1>7, <1>8, <1>9, <1>10, <1>11, <1>12

-----------------------------------------------------------------------------
(* The theorems.                                                           *)

LEMMA FilesStep == FilesInv /\ [Next]_vars => FilesInv'
<1> SUFFICES ASSUME FilesInv, [Next]_vars PROVE FilesInv'
  OBVIOUS
<1>1. CASE UNCHANGED <<dataset, source, row, done, expired, audit, disk, sweep, reader, delete>>
  BY <1>1 DEF FilesInv, FilesType, RowsGoFirst, StepsAgree, SweepInv, ReaderInv, DeleteInv,
      SourceInv, LatestKeepsItsFiles, ClearedMeansGone, Exists, IsFloor, HoldsPath, Turn,
      FinishedBefore
<1>2. CASE UNCHANGED vars
  BY <1>1, <1>2 DEF vars
<1>3. ASSUME NEW a \in Requests, Accept(a) PROVE FilesInv'
  BY <1>1, <1>3 DEF Accept, CheckProposal, Lock, ReadRules, BeginWrite, EndWrite, Rename, Reload,
                    datasetVars, runVars
<1> QED BY <1>2, <1>3, AuditFiles, CreateFiles, DiscardFiles, DeleteFiles, RestartFiles,
           RowsFiles DEF Next

LEMMA FilesInvariant == Spec => []FilesInv
  BY FilesInit, FilesStep, PTL DEF Spec

\* Retention never takes the files of the newest run that holds a database, nor
\* of a run whose audit is under way, whatever the sweep, the audits and the restarts do.
THEOREM LatestAlwaysKeepsItsFiles == Spec => []LatestKeepsItsFiles
<1>1. FilesInv => LatestKeepsItsFiles
  BY DEF FilesInv
<1> QED BY <1>1, FilesInvariant, PTL

\* A row that names no database is of a run without data: ClearRunDatabase never
\* hides a file from the sweeps to come.
THEOREM ClearedAlwaysMeansGone == Spec => []ClearedMeansGone
<1>1. FilesInv => ClearedMeansGone
  BY DEF FilesInv
<1> QED BY <1>1, FilesInvariant, PTL

\* A rows request that was told 410 of a run that had succeeded was told so of
\* data that is gone, and stays gone.
THEOREM GoneAlwaysMeansGone == Spec => []GoneMeansGone
<1>1. FilesInv => GoneMeansGone
  BY DEF FilesInv, ReaderInv, GoneMeansGone
<1> QED BY <1>1, FilesInvariant, PTL

\* A deletion that warned of nothing left none of the files it was to take, and none come back.
THEOREM DeleteAlwaysTakesWhatItListed == Spec => []DeleteTakesWhatItListed
<1>1. FilesInv => DeleteTakesWhatItListed
  BY DEF FilesInv, DeleteInv, DeleteTakesWhatItListed, Taken
<1> QED BY <1>1, FilesInvariant, PTL
=============================================================================
