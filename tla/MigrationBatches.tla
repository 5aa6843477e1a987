-------------------------- MODULE MigrationBatches --------------------------
(* Packages exported from the old system are validated, previewed, confirmed *)
(* and imported by background workers, several times over when a worker      *)
(* dies, its lease runs out or a row fails.                                  *)
(* (src/apps/data_migration/tasks.py, services.py, execution.py, api.py.)    *)
(*                                                                           *)
(* An action is one transaction. The packages describe the same rows of the  *)
(* same organization, so that they must not import a row twice. Messages to  *)
(* the workers are not modelled: the recovery task sends them every minute,  *)
(* and a task that comes too often finds nothing to do.                      *)
EXTENDS Naturals, FiniteSets

CONSTANTS
    Batches,
    Contents,    \* what a package may say of its rows (content_hash)
    Exports,     \* what the packages say
    RowCount,    \* source rows in each package, imported in this order
    Workers,     \* celery workers; one also stands for the run_token it drew
    MaxMishaps,  \* bound: workers that die or outlive their lease, objects deleted
    MaxChoices,  \* bound: previews in which the user decides something new
    Other,       \* for each row, an object of the organization that no package has made
    None

ASSUME ExportsHaveContents == Exports \subseteq [Batches -> Contents]
ASSUME RowsExist == RowCount \in Nat \ {0}
ASSUME MishapsAreCounted == MaxMishaps \in Nat
ASSUME ChoicesAreCounted == MaxChoices \in Nat
ASSUME OtherIsOther == Other \notin Batches

Rows == 1..RowCount

\* The objects a row may stand for: a package makes at most one, known by the package.
Objects == Batches \cup {Other}
Mapped == [target : Objects, source : Contents]

ASSUME NoneIsNothing == None \notin Workers \cup Objects \cup Mapped

\* What the user decides of a row in a preview: nothing; to keep or update the object
\* it is mapped to (migration_action); to tie it to another one (target_id); or to
\* have it created, whatever it is mapped to (target_id 0).
Decisions == {"none", "use", "tie", "anew"}

VARIABLES
    content,    \* what each package says
    status,     \* MigrationBatch.status
    runToken,   \* MigrationBatch.run_token
    leased,     \* there is a run_token, and heartbeat_at lies less than LEASE back
    decided,    \* MigrationBatch.decisions
    hasRecords, \* batch.records.exists()
    state,      \* MigrationRecord.state, per package and row
    plan,       \* MigrationRecord.prepared: action, mapping_version and target_id
    mapping,    \* MigrationObjectMapping of each row: target_id and source_hash
    targets,    \* how many objects each package has created for each row
    gone,       \* objects that were deleted, with the row they stood for
    asked,      \* rows a user has ever asked a package to create anew (of no table)
    worker,     \* what each worker does
    retrying,   \* the call of retry_batch under way, at most one
    mishaps, choices

claims == <<runToken, leased>>
records == <<hasRecords, state, plan>>
objects == <<mapping, targets>>
wishes == <<gone, asked, choices>>
vars == <<content, status, claims, decided, records, objects, wishes, worker, retrying, mishaps>>

Statuses == {"uploaded", "validating", "awaiting_confirmation", "blocked", "importing",
             "completed", "partial_failed", "failed"}
FinalStates == {"created", "updated", "skipped"}
Mappings == {None} \cup Mapped
Plans ==
    {p \in [action : {"create", "update", "skip"}, version : Mappings, target : {None} \cup Objects] :
        p.action = "create" <=> p.target = None}

Idle == [does |-> "nothing"]
NoPlan == [r \in Rows |-> [action |-> "create", version |-> None, target |-> None]]
NoDecision == [r \in Rows |-> "none"]

\* Nothing has been imported. Packages have been uploaded, or also read and previewed,
\* with some mishaps and choices on the way.
Init ==
    /\ content \in Exports
    /\ status \in [Batches -> {"uploaded", "awaiting_confirmation"}]
    /\ runToken = [b \in Batches |-> None] /\ leased = [b \in Batches |-> FALSE]
    /\ decided = [b \in Batches |-> NoDecision]
    /\ hasRecords = [b \in Batches |-> status[b] # "uploaded"]
    /\ state = [b \in Batches |-> [r \in Rows |-> "pending"]]
    /\ plan = [b \in Batches |-> NoPlan]
    /\ mapping = [r \in Rows |-> None]
    /\ targets = [b \in Batches |-> [r \in Rows |-> 0]]
    /\ gone = {} /\ asked = {}
    /\ worker = [w \in Workers |-> Idle]
    /\ retrying = None
    /\ mishaps \in 0..MaxMishaps /\ choices \in 0..MaxChoices

-----------------------------------------------------------------------------
(* What the handlers share.                                                 *)

Works(w, b) == worker[w] # Idle /\ worker[w].batch = b
SetStatus(b, s) == status' = [status EXCEPT ![b] = s]
Claim(w, b) ==
    /\ runToken' = [runToken EXCEPT ![b] = w]
    /\ leased' = [leased EXCEPT ![b] = TRUE]
Release(b) ==
    /\ runToken' = [runToken EXCEPT ![b] = None]
    /\ leased' = [leased EXCEPT ![b] = FALSE]
SetWorker(w, what) == worker' = [worker EXCEPT ![w] = what]

Missing(o, r) == <<o, r>> \in gone

\* The target_id a preview starts from: the user's, else the mapping's.
Chosen(r, d) ==
    CASE d[r] = "anew" -> None
      [] d[r] = "tie" -> Other
      [] d[r] \in {"none", "use"} -> IF mapping[r] = None THEN None ELSE mapping[r].target

\* preview_batch's plan of a row by the decisions d
Planned(b, r, d) ==
    LET target == IF Missing(Chosen(r, d), r) THEN None ELSE Chosen(r, d)
    IN  [version |-> mapping[r],
         target |-> target,
         action |-> IF target = None THEN "create"
                    ELSE IF mapping[r] # None /\ mapping[r].source = content[b] /\ d[r] # "use"
                    THEN "skip" ELSE "update"]

PlannedAll(b, d) == [r \in Rows |-> Planned(b, r, d)]

\* What blocks a package until the user decides: a target that is no longer there
\* ("invalid_mapping"), or a row that has changed since it was mapped ("source_changed").
Issues(b, d) ==
    \E r \in Rows :
        \/ Missing(Chosen(r, d), r)
        \/ d[r] = "none" /\ mapping[r] # None /\ mapping[r].source # content[b]

\* preview["version"], a hash of the plans and the decisions
Version(b, d) == [plans |-> PlannedAll(b, d), decided |-> d]

\* preview_batch, save that it refuses a package being imported
PreviewAs(b, d) ==
    /\ plan' = [plan EXCEPT ![b] = PlannedAll(b, d)]
    /\ decided' = [decided EXCEPT ![b] = d]
    /\ SetStatus(b, IF Issues(b, d) THEN "blocked" ELSE "awaiting_confirmation")

\* confirm_batch goes ahead: no other import, and the preview as the user saw it
MayConfirm(b, version) ==
    /\ \A c \in Batches \ {b} : status[c] # "importing"
    /\ status[b] \in {"awaiting_confirmation", "partial_failed"}
    /\ ~Issues(b, decided[b]) /\ version = Version(b, decided[b])

ConfirmAs(b) ==
    /\ plan' = [plan EXCEPT ![b] = PlannedAll(b, decided[b])]
    /\ SetStatus(b, "importing")
    /\ Release(b)

-----------------------------------------------------------------------------
(* validate_package.                                                        *)

ClaimValidation(w, b) ==
    /\ worker[w] = Idle
    /\ status[b] \in {"uploaded", "validating"} /\ ~leased[b]
    /\ SetStatus(b, "validating")
    /\ Claim(w, b)
    /\ SetWorker(w, [does |-> "validate", batch |-> b])
    /\ UNCHANGED <<content, decided, records, objects, wishes, retrying, mishaps>>

\* validate_batch looks for the records of an earlier validation, which it previews by
\* the decisions it has read.
LookForRecords(w) ==
    /\ worker[w].does = "validate"
    /\ LET b == worker[w].batch
       IN  SetWorker(w, IF hasRecords[b]
                        THEN [does |-> "preview", batch |-> b, decided |-> decided[b]]
                        ELSE [does |-> "read", batch |-> b])
    /\ UNCHANGED <<content, status, claims, decided, records, objects, wishes, retrying, mishaps>>

\* The heartbeat of whoever holds the batch
Beat(b) == leased' = [leased EXCEPT ![b] = runToken[b] # None]

\* It reads the package with the batch locked, however long it takes ...
ReadPackage(w) ==
    /\ worker[w].does = "read"
    /\ LET b == worker[w].batch
       IN  /\ ~hasRecords[b]
           /\ hasRecords' = [hasRecords EXCEPT ![b] = TRUE]
           /\ SetStatus(b, "validating")
           /\ Beat(b)
           /\ SetWorker(w, [does |-> "preview", batch |-> b, decided |-> NoDecision])
    /\ UNCHANGED <<content, runToken, decided, state, plan, objects, wishes, retrying, mishaps>>

\* ... or finds that another worker has read it meanwhile,
FindRecords(w) ==
    /\ worker[w].does = "read" /\ hasRecords[worker[w].batch]
    /\ SetWorker(w, [does |-> "release", batch |-> worker[w].batch])
    /\ UNCHANGED <<content, status, claims, decided, records, objects, wishes, retrying, mishaps>>

\* ... or cannot read it, and keeps nothing.
ReadFails(w) ==
    /\ worker[w].does = "read" /\ ~hasRecords[worker[w].batch]
    /\ SetWorker(w, [does |-> "fail", batch |-> worker[w].batch])
    /\ UNCHANGED <<content, status, claims, decided, records, objects, wishes, retrying, mishaps>>

\* The preview of a package that is being imported is refused, which ends the task.
PreviewValidated(w) ==
    /\ worker[w].does = "preview"
    /\ LET b == worker[w].batch
       IN  IF status[b] = "importing"
           THEN UNCHANGED <<status, plan, decided>> /\ SetWorker(w, Idle)
           ELSE /\ PreviewAs(b, worker[w].decided)
                /\ SetWorker(w, [does |-> "release", batch |-> b])
    /\ UNCHANGED <<content, claims, hasRecords, state, objects, wishes, retrying, mishaps>>

\* validate_batch's except clause, whatever the batch has become meanwhile
StoreFailed(w) ==
    /\ worker[w].does = "fail"
    /\ LET b == worker[w].batch
       IN  /\ SetStatus(b, "failed")
           /\ Beat(b)
           /\ SetWorker(w, [does |-> "release", batch |-> b])
    /\ UNCHANGED <<content, runToken, decided, records, objects, wishes, retrying, mishaps>>

\* The task's last statement gives its token back.
GiveBack(w) ==
    /\ worker[w].does = "release"
    /\ IF runToken[worker[w].batch] = w THEN Release(worker[w].batch) ELSE UNCHANGED claims
    /\ SetWorker(w, Idle)
    /\ UNCHANGED <<content, status, decided, records, objects, wishes, retrying, mishaps>>

-----------------------------------------------------------------------------
(* The user.                                                                *)

Preview(b, d) ==
    /\ hasRecords[b] /\ status[b] # "importing"
    /\ PreviewAs(b, d)
    /\ IF d = decided[b] THEN UNCHANGED choices
       ELSE choices < MaxChoices /\ choices' = choices + 1
    /\ asked' = asked \cup {<<b, r>> : r \in {q \in Rows : d[q] = "anew"}}
    /\ UNCHANGED <<content, claims, hasRecords, state, objects, gone, worker, retrying, mishaps>>

\* The user deletes an object he finds in the organization.
Delete(o, r) ==
    /\ o \in Batches => targets[o][r] > 0
    /\ ~Missing(o, r)
    /\ mishaps < MaxMishaps /\ mishaps' = mishaps + 1
    /\ gone' = gone \cup {<<o, r>>}
    /\ UNCHANGED <<content, status, claims, decided, records, objects, asked, choices, worker, retrying>>

Confirm(b) ==
    /\ MayConfirm(b, [plans |-> plan[b], decided |-> decided[b]])
    /\ ConfirmAs(b)
    /\ UNCHANGED <<content, decided, hasRecords, state, objects, wishes, worker, retrying, mishaps>>

\* retry_batch of a package that could not be read: the batch as it was read ...
RetryUpload(b) ==
    /\ retrying = None
    /\ status[b] = "failed" /\ ~hasRecords[b]
    /\ retrying' = [step |-> "save", batch |-> b, token |-> runToken[b]]
    /\ UNCHANGED <<content, status, claims, decided, records, objects, wishes, worker, mishaps>>

\* ... is saved, every column of it.
SaveUpload ==
    /\ retrying # None /\ retrying.step = "save"
    /\ LET b == retrying.batch
       IN  /\ SetStatus(b, "uploaded")
           /\ runToken' = [runToken EXCEPT ![b] = retrying.token]
           /\ leased' = [leased EXCEPT ![b] = retrying.token # None]
           /\ decided' = [decided EXCEPT ![b] = NoDecision]
    /\ retrying' = None
    /\ UNCHANGED <<content, records, objects, wishes, worker, mishaps>>

\* retry_batch of an import that failed in part: a preview,
RetryPreview(b) ==
    /\ retrying = None
    /\ status[b] = "partial_failed"
    /\ PreviewAs(b, decided[b])
    /\ retrying' = IF Issues(b, decided[b]) THEN None
                   ELSE [step |-> "reset", batch |-> b, version |-> Version(b, decided[b])]
    /\ UNCHANGED <<content, claims, hasRecords, state, objects, wishes, worker, mishaps>>

\* the failed rows,
ResetFailed ==
    /\ retrying # None /\ retrying.step = "reset"
    /\ state' = [state EXCEPT ![retrying.batch] =
                   [r \in Rows |-> IF @[r] = "failed" THEN "pending" ELSE @[r]]]
    /\ retrying' = [retrying EXCEPT !.step = "confirm"]
    /\ UNCHANGED <<content, status, claims, decided, hasRecords, plan, objects, wishes, worker, mishaps>>

\* and the confirmation, which may be refused, also for what a plan says of fields and
\* members.
RetryConfirm ==
    /\ retrying # None /\ retrying.step = "confirm"
    /\ \/ MayConfirm(retrying.batch, retrying.version) /\ ConfirmAs(retrying.batch)
       \/ UNCHANGED <<plan, status, claims>>
    /\ retrying' = None
    /\ UNCHANGED <<content, decided, hasRecords, state, objects, wishes, worker, mishaps>>

-----------------------------------------------------------------------------
(* execute_batch.                                                           *)

\* Mutation: a batch that some worker has claimed is never claimed again.
ClaimImportOnce(w, b) ==
    /\ worker[w] = Idle
    /\ status[b] = "importing" /\ runToken[b] = None
    /\ Claim(w, b)
    /\ SetWorker(w, [does |-> "import", batch |-> b, row |-> 1])
    /\ UNCHANGED <<content, status, decided, records, objects, wishes, retrying, mishaps>>

ClaimImport(w, b) ==
    /\ worker[w] = Idle
    /\ status[b] = "importing" /\ ~leased[b]
    /\ Claim(w, b)
    /\ SetWorker(w, [does |-> "import", batch |-> b, row |-> 1])
    /\ UNCHANGED <<content, status, decided, records, objects, wishes, retrying, mishaps>>

\* The heartbeat or the token's check tells the worker that it has been replaced.
LeaseLost(w) ==
    /\ worker[w].does = "import" /\ runToken[worker[w].batch] # w
    /\ SetWorker(w, Idle)
    /\ UNCHANGED <<content, status, claims, decided, records, objects, wishes, retrying, mishaps>>

\* Mutation: the mapping is not looked at again after the preview.
ImportedAsByPlan(b, r) ==
    CASE plan[b][r].action = "create" -> "created"
      [] Missing(plan[b][r].target, r) -> "failed"
      [] plan[b][r].action = "update" -> "updated"
      [] OTHER -> "skipped"

\* execute_record: the state a row gets. What another batch has imported since the
\* preview is taken as it is when it says the same, and refused otherwise.
ImportedAs(b, r) ==
    LET p == plan[b][r]
        m == mapping[r]
    IN  CASE p.version = m /\ p.action = "create" -> "created"
          [] p.version = m /\ p.action = "update" /\ ~Missing(p.target, r) -> "updated"
          [] p.version = m /\ p.action = "skip" /\ ~Missing(p.target, r) -> "skipped"
          [] /\ p.version # m /\ p.action = "create"
             /\ m # None /\ m.source = content[b] /\ ~Missing(m.target, r) -> "skipped"
          [] OTHER -> "failed"

\* ... and the object it then stands for
ImportedTo(b, r) ==
    IF plan[b][r].version # mapping[r] THEN mapping[r].target
    ELSE IF plan[b][r].action = "create" THEN b ELSE plan[b][r].target

\* execute_record with its heartbeat and except clause; a row may also fail because of
\* what it refers to, or any error.
ExecuteRecord(w) ==
    /\ worker[w].does = "import" /\ worker[w].row \in Rows
    /\ LET b == worker[w].batch
           r == worker[w].row
       IN  /\ runToken[b] = w
           /\ leased' = [leased EXCEPT ![b] = TRUE]
           /\ IF state[b][r] \in FinalStates
              THEN UNCHANGED <<state, objects>>
              ELSE \E s \in {ImportedAs(b, r), "failed"} :
                      /\ state' = [state EXCEPT ![b][r] = s]
                      /\ targets' = [targets EXCEPT ![b][r] = IF s = "created" THEN @ + 1 ELSE @]
                      /\ mapping' = [mapping EXCEPT ![r] =
                            IF s = "failed" THEN @
                            ELSE [target |-> ImportedTo(b, r), source |-> content[b]]]
    /\ worker' = [worker EXCEPT ![w].row = @ + 1]
    /\ UNCHANGED <<content, status, runToken, decided, hasRecords, plan, wishes, retrying, mishaps>>

\* Mutation: the worker keeps its token when it is done.
FinishHolding(w) ==
    /\ worker[w].does = "import" /\ worker[w].row > RowCount
    /\ LET b == worker[w].batch
       IN  /\ runToken[b] = w
           /\ SetStatus(b, IF \E r \in Rows : state[b][r] \in {"failed", "pending"}
                           THEN "partial_failed" ELSE "completed")
    /\ SetWorker(w, Idle)
    /\ UNCHANGED <<content, claims, decided, records, objects, wishes, retrying, mishaps>>

\* Mutation: only failed rows are counted.
FinishUncounted(w) ==
    /\ worker[w].does = "import" /\ worker[w].row > RowCount
    /\ LET b == worker[w].batch
       IN  /\ runToken[b] = w
           /\ SetStatus(b, IF \E r \in Rows : state[b][r] = "failed"
                           THEN "partial_failed" ELSE "completed")
           /\ Release(b)
    /\ SetWorker(w, Idle)
    /\ UNCHANGED <<content, decided, records, objects, wishes, retrying, mishaps>>

\* The end of execute_batch: refresh_summary and the status, whatever it was.
Finish(w) ==
    /\ worker[w].does = "import" /\ worker[w].row > RowCount
    /\ LET b == worker[w].batch
       IN  /\ runToken[b] = w
           /\ SetStatus(b, IF \E r \in Rows : state[b][r] \in {"failed", "pending"}
                           THEN "partial_failed" ELSE "completed")
           /\ Release(b)
    /\ SetWorker(w, Idle)
    /\ UNCHANGED <<content, decided, records, objects, wishes, retrying, mishaps>>

-----------------------------------------------------------------------------
(* Mishaps.                                                                 *)

Crash(w) ==
    /\ worker[w] # Idle
    /\ mishaps < MaxMishaps /\ mishaps' = mishaps + 1
    /\ SetWorker(w, Idle)
    /\ UNCHANGED <<content, status, claims, decided, records, objects, wishes, retrying>>

\* Fifteen minutes without a heartbeat: the worker is dead, or slow.
LeaseExpires(b) ==
    /\ leased[b] /\ leased' = [leased EXCEPT ![b] = FALSE]
    /\ IF \E w \in Workers : runToken[b] = w /\ Works(w, b)
       THEN mishaps < MaxMishaps /\ mishaps' = mishaps + 1
       ELSE UNCHANGED mishaps
    /\ UNCHANGED <<content, status, runToken, decided, records, objects, wishes, worker, retrying>>

-----------------------------------------------------------------------------

Step(w) ==
    \/ LookForRecords(w) \/ ReadPackage(w) \/ ReadFails(w) \/ FindRecords(w)
    \/ PreviewValidated(w) \/ StoreFailed(w) \/ GiveBack(w)
    \/ LeaseLost(w) \/ ExecuteRecord(w) \/ Finish(w)

Next ==
    \/ \E w \in Workers : Step(w) \/ Crash(w)
    \/ \E w \in Workers, b \in Batches : ClaimValidation(w, b) \/ ClaimImport(w, b)
    \/ \E b \in Batches :
          \/ \E d \in [Rows -> Decisions] : Preview(b, d)
          \/ Confirm(b) \/ RetryUpload(b) \/ RetryPreview(b) \/ LeaseExpires(b)
    \/ \E o \in Objects, r \in Rows : Delete(o, r)
    \/ SaveUpload \/ ResetFailed \/ RetryConfirm

Spec == Init /\ [][Next]_vars

\* A worker goes on until it dies, time passes, and recover_migration_tasks sends what
\* is to be imported again and again.
Fairness ==
    /\ \A w \in Workers : WF_vars(Step(w))
    /\ \A b \in Batches :
          /\ WF_vars(LeaseExpires(b))
          /\ SF_vars(\E w \in Workers : ClaimImport(w, b))

FairSpec == Spec /\ Fairness

-----------------------------------------------------------------------------
(* Properties.                                                              *)

WorkerStates ==
    {Idle}
    \cup [does : {"validate", "read", "fail", "release"}, batch : Batches]
    \cup [does : {"preview"}, batch : Batches, decided : [Rows -> Decisions]]
    \cup [does : {"import"}, batch : Batches, row : 1..(RowCount + 1)]

Versions == [plans : [Rows -> Plans], decided : [Rows -> Decisions]]

RetryStates ==
    {None}
    \cup [step : {"save"}, batch : Batches, token : Workers \cup {None}]
    \cup [step : {"reset", "confirm"}, batch : Batches, version : Versions]

\* Every column holds a value it can hold, and nobody holds a batch that has ended.
TypeOK ==
    /\ content \in Exports
    /\ status \in [Batches -> Statuses]
    /\ runToken \in [Batches -> Workers \cup {None}] /\ leased \in [Batches -> BOOLEAN]
    /\ decided \in [Batches -> [Rows -> Decisions]] /\ hasRecords \in [Batches -> BOOLEAN]
    /\ state \in [Batches -> [Rows -> {"pending", "failed"} \cup FinalStates]]
    /\ plan \in [Batches -> [Rows -> Plans]]
    /\ mapping \in [Rows -> Mappings] /\ targets \in [Batches -> [Rows -> Nat]]
    /\ gone \subseteq Objects \X Rows /\ asked \subseteq Batches \X Rows
    /\ worker \in [Workers -> WorkerStates] /\ retrying \in RetryStates
    /\ mishaps \in 0..MaxMishaps /\ choices \in 0..MaxChoices
    /\ \A b \in Batches : leased[b] => runToken[b] # None
    /\ \A b \in Batches : status[b] \in {"completed", "partial_failed"} => runToken[b] = None

\* What the records say agrees with what was made: a package makes an object of a row
\* at most once, when it counts the row as created, and a row that some package counts
\* as imported is mapped.
Accounted ==
    \A b \in Batches, r \in Rows :
        /\ targets[b][r] = IF state[b][r] = "created" THEN 1 ELSE 0
        /\ state[b][r] \in FinalStates => mapping[r] # None

\* An object is made of a row that has none, unless the user has asked the package for
\* another one, or the object it had, or the one he tied it to, was deleted.
CreatesOnce ==
    \A b \in Batches, r \in Rows :
        targets'[b][r] # targets[b][r] =>
            \/ mapping[r] = None
            \/ <<b, r>> \in asked
            \/ Missing(mapping[r].target, r) \/ Missing(Other, r)

\* A row of the old system becomes one object: not two, by two workers, by an import
\* that is taken over, retried or confirmed again, or by a second package, save when
\* the user wants it; and it has one as soon as some package counts it as imported.
ImportedOnce == []Accounted /\ [][CreatesOnce]_vars

\* A batch called completed has nothing left that failed or waits, although its failed
\* rows may be set back while it runs, and its status written over.
CompletedMeansDone ==
    \A b \in Batches :
        status[b] = "completed" => \A r \in Rows : state[b][r] \in FinalStates

\* Imports do not run for ever, one at a time in the organization: a worker's death, or
\* a lease that runs out, is made good by the next one, and the other package has its
\* turn.
Importing == \E b \in Batches : status[b] = "importing"
ImportEnds == Importing ~> ~Importing
=============================================================================
