----------------------- MODULE MigrationBatches_proofs -----------------------
(* The safety of MigrationBatches, for any number of packages, rows, workers *)
(* and mishaps.                                                              *)
EXTENDS MigrationBatches, TLAPS

\* What the provers need to know of the states of a worker and of a retry.
LEMMA WorkerFacts ==
    ASSUME TypeOK, NEW w \in Workers, worker[w] # Idle
    PROVE  /\ worker[w].batch \in Batches
           /\ worker[w].does = "preview" => worker[w].decided \in [Rows -> Decisions]
           /\ worker[w].does = "import" =>
                 worker[w] \in [does : {"import"}, batch : Batches, row : 1..(RowCount + 1)]
  BY DEF TypeOK, WorkerStates

LEMMA RetryFacts ==
    ASSUME TypeOK, retrying # None
    PROVE  /\ retrying.batch \in Batches
           /\ retrying.step = "save" =>
                 retrying \in [step : {"save"}, batch : Batches, token : Workers \cup {None}]
           /\ retrying.step = "reset" =>
                 retrying \in [step : {"reset"}, batch : Batches, version : Versions]
  BY DEF TypeOK, RetryStates

LEMMA NoDecisionIsOne == NoDecision \in [Rows -> Decisions]
  BY DEF NoDecision, Decisions

\* What a package wants for a row is an object, or nothing.
LEMMA ChosenFacts ==
    ASSUME TypeOK, NEW r \in Rows, NEW d \in [Rows -> Decisions]
    PROVE  Chosen(r, d) \in {None} \cup Objects
<1>1. mapping[r] = None \/ mapping[r].target \in Objects
  BY DEF TypeOK, Mappings, Mapped
<1>2. d[r] \in Decisions
  OBVIOUS
<1> QED
  BY <1>1, <1>2 DEF Chosen, Decisions, Objects

\* A plan is well formed. A planned creation of a row that is mapped is what the user
\* wants, or its object is missing.
LEMMA PlanFacts ==
    ASSUME TypeOK, NEW b \in Batches, NEW d \in [Rows -> Decisions]
    PROVE  /\ PlannedAll(b, d) \in [Rows -> Plans]
           /\ \A r \in Rows :
                 PlannedAll(b, d)[r].action = "create" =>
                    \/ PlannedAll(b, d)[r].version = None
                    \/ d[r] = "anew"
                    \/ Missing(PlannedAll(b, d)[r].version.target, r) \/ Missing(Other, r)
<1> SUFFICES ASSUME NEW r \in Rows
             PROVE  /\ Planned(b, r, d) \in Plans
                    /\ Planned(b, r, d).action = "create" =>
                          \/ Planned(b, r, d).version = None
                          \/ d[r] = "anew"
                          \/ Missing(Planned(b, r, d).version.target, r) \/ Missing(Other, r)
  BY DEF PlannedAll
<1>1. Chosen(r, d) \in {None} \cup Objects /\ mapping[r] \in Mappings /\ d[r] \in Decisions
  BY ChosenFacts DEF TypeOK
<1>2. Planned(b, r, d) \in Plans
  BY <1>1 DEF Planned, Plans
<1>3. ASSUME Planned(b, r, d).action = "create", mapping[r] # None, d[r] # "anew"
      PROVE  Missing(mapping[r].target, r) \/ Missing(Other, r)
  <2>1. Chosen(r, d) = None \/ Missing(Chosen(r, d), r)
    BY <1>3 DEF Planned
  <2>2. Chosen(r, d) \in {Other, mapping[r].target}
    BY <1>1, <1>3 DEF Chosen, Decisions
  <2>3. mapping[r].target # None /\ Other # None
    BY <1>1, <1>3, NoneIsNothing DEF Mappings, Mapped, Objects
  <2> QED
    BY <2>1, <2>2, <2>3
<1> QED
  BY <1>2, <1>3 DEF Planned

-----------------------------------------------------------------------------

\* A preview writes a plan and a status in which nobody holds the batch.
LEMMA PreviewFacts ==
    ASSUME TypeOK, NEW b \in Batches, NEW d \in [Rows -> Decisions], PreviewAs(b, d)
    PROVE  /\ plan' \in [Batches -> [Rows -> Plans]]
           /\ decided' \in [Batches -> [Rows -> Decisions]]
           /\ status' \in [Batches -> Statuses]
           /\ \A c \in Batches : status'[c] \in {"completed", "partial_failed"} => status'[c] = status[c]
<1>1. PlannedAll(b, d) \in [Rows -> Plans]
  BY PlanFacts
<1> QED
  BY <1>1 DEF PreviewAs, TypeOK, SetStatus, Statuses

\* A batch that is given back has no token; no other gets one.
LEMMA ReleaseFacts ==
    ASSUME TypeOK, NEW b \in Batches, Release(b)
    PROVE  /\ runToken' \in [Batches -> Workers \cup {None}]
           /\ leased' \in [Batches -> BOOLEAN]
           /\ \A c \in Batches : leased'[c] => runToken'[c] # None
           /\ \A c \in Batches : runToken[c] = None => runToken'[c] = None
           /\ runToken'[b] = None
  BY DEF TypeOK, Release

\* A batch that is claimed has the worker's token.
LEMMA ClaimFacts ==
    ASSUME TypeOK, NEW b \in Batches, NEW w \in Workers, Claim(w, b)
    PROVE  /\ runToken' \in [Batches -> Workers \cup {None}]
           /\ leased' \in [Batches -> BOOLEAN]
           /\ \A c \in Batches : leased'[c] => runToken'[c] # None
           /\ \A c \in Batches \ {b} : runToken[c] = None => runToken'[c] = None
  BY NoneIsNothing DEF TypeOK, Claim

\* The place in an import one row further on.
LEMMA NextRow ==
    ASSUME NEW x \in [does : {"import"}, batch : Batches, row : 1..(RowCount + 1)],
           x.row + 1 \in 1..(RowCount + 1)
    PROVE  [x EXCEPT !.row = @ + 1] \in [does : {"import"}, batch : Batches, row : 1..(RowCount + 1)]
OBVIOUS

\* What a row stands for, once it is imported, is an object.
LEMMA ImportedToFacts ==
    ASSUME TypeOK, NEW b \in Batches, NEW r \in Rows, ImportedAs(b, r) # "failed"
    PROVE  ImportedTo(b, r) \in Objects
<1>1. plan[b][r] \in Plans /\ mapping[r] \in Mappings
  BY DEF TypeOK
<1> QED
  BY <1>1 DEF ImportedAs, ImportedTo, Plans, Mappings, Mapped, Objects

LEMMA TypesOfSteps ==
    ASSUME TypeOK, NEW w \in Workers, Step(w)
    PROVE  TypeOK'
<1>0. PICK b \in Batches : b = worker[w].batch
  BY WorkerFacts DEF Step, LookForRecords, ReadPackage, ReadFails, FindRecords, PreviewValidated,
     StoreFailed, GiveBack, LeaseLost, ExecuteRecord, Finish, Idle
<1> USE DEF TypeOK, SetStatus, SetWorker, Release, Beat, WorkerStates, Statuses, records,
        objects, wishes, claims
<1>0a. CASE LookForRecords(w)
  <2>1. decided[b] \in [Rows -> Decisions]
    OBVIOUS
  <2> QED
    BY <1>0, <1>0a, <2>1 DEF LookForRecords
<1>1. CASE ReadPackage(w)
  BY <1>0, <1>1, NoDecisionIsOne DEF ReadPackage
<1>2. CASE ReadFails(w)
  BY <1>0, <1>2 DEF ReadFails
<1>3. CASE FindRecords(w)
  BY <1>0, <1>3 DEF FindRecords
<1>4. CASE PreviewValidated(w)
  <2>1. worker[w].decided \in [Rows -> Decisions]
    BY <1>4, WorkerFacts DEF PreviewValidated, Idle
  <2>2. worker' \in [Workers -> WorkerStates]
    <3>1. worker' \in {[worker EXCEPT ![w] = Idle], [worker EXCEPT ![w] = [does |-> "release", batch |-> b]]}
      BY <1>0, <1>4 DEF PreviewValidated
    <3>2. Idle \in WorkerStates /\ [does |-> "release", batch |-> b] \in WorkerStates
      OBVIOUS
    <3> QED
      BY ONLY TypeOK, <3>1, <3>2 DEF TypeOK
  <2>3. CASE status[b] = "importing"
    BY <1>0, <1>4, <2>2, <2>3 DEF PreviewValidated
  <2>4. CASE status[b] # "importing"
    BY <1>0, <1>4, <2>1, <2>2, <2>4, PreviewFacts DEF PreviewValidated
  <2> QED
    BY <2>3, <2>4
<1>5. CASE StoreFailed(w)
  BY <1>0, <1>5 DEF StoreFailed
<1>5a. CASE GiveBack(w)
  BY <1>0, <1>5a, NoneIsNothing DEF GiveBack
<1>6. CASE LeaseLost(w)
  BY <1>6 DEF LeaseLost
<1>7. CASE ExecuteRecord(w)
  <2>1. worker[w] \in [does : {"import"}, batch : Batches, row : 1..(RowCount + 1)]
    BY <1>7, WorkerFacts DEF ExecuteRecord, Idle
  <2>2. content[b] \in Contents
    BY ExportsHaveContents
  <2>3. worker' \in [Workers -> WorkerStates]
    <3>1. worker[w].row + 1 \in 1..(RowCount + 1)
      BY <1>7, <2>1, RowsExist DEF ExecuteRecord, Rows
    <3>2. [worker[w] EXCEPT !.row = @ + 1] \in WorkerStates
      BY <2>1, <3>1, NextRow
    <3> QED
      BY <1>7, <3>2 DEF ExecuteRecord
  <2>4. ImportedAs(b, worker[w].row) \in {"failed"} \cup FinalStates
    BY DEF ImportedAs, FinalStates
  <2>5. /\ state' \in [Batches -> [Rows -> {"pending", "failed"} \cup FinalStates]]
        /\ mapping' \in [Rows -> Mappings] /\ targets' \in [Batches -> [Rows -> Nat]]
    <3> DEFINE r == worker[w].row
    <3>1. r \in Rows
      BY <1>7 DEF ExecuteRecord
    <3>2. CASE state[b][r] \in FinalStates
      BY <1>0, <1>7, <3>2 DEF ExecuteRecord
    <3>3. CASE state[b][r] \notin FinalStates
      <4>1. PICK s \in {ImportedAs(b, r), "failed"} :
               /\ state' = [state EXCEPT ![b][r] = s]
               /\ targets' = [targets EXCEPT ![b][r] = IF s = "created" THEN @ + 1 ELSE @]
               /\ mapping' = [mapping EXCEPT ![r] =
                     IF s = "failed" THEN @
                     ELSE [target |-> ImportedTo(b, r), source |-> content[b]]]
        BY <1>0, <1>7, <3>3 DEF ExecuteRecord
      <4>2. s \in {"failed"} \cup FinalStates
        BY <2>4, <4>1
      <4>3. s # "failed" => [target |-> ImportedTo(b, r), source |-> content[b]] \in Mappings
        BY <2>2, <3>1, <4>1, ImportedToFacts DEF Mappings, Mapped
      <4>4. state' \in [Batches -> [Rows -> {"pending", "failed"} \cup FinalStates]]
        BY <3>1, <4>1, <4>2
      <4>5. targets' \in [Batches -> [Rows -> Nat]]
        BY <3>1, <4>1
      <4>6. mapping' \in [Rows -> Mappings]
        BY <3>1, <4>1, <4>3
      <4> QED
        BY <4>4, <4>5, <4>6
    <3> HIDE DEF r
    <3> QED
      BY <3>2, <3>3
  <2>6. UNCHANGED <<content, status, runToken, decided, hasRecords, plan, wishes, retrying, mishaps>>
    BY <1>7 DEF ExecuteRecord
  <2>7. leased' \in [Batches -> BOOLEAN] /\ \A c \in Batches : leased'[c] => runToken[c] # None
    BY <1>0, <1>7, NoneIsNothing DEF ExecuteRecord
  <2> QED
    BY <2>3, <2>5, <2>6, <2>7
<1>8. CASE Finish(w)
  BY <1>0, <1>8 DEF Finish
<1> QED
  BY <1>0a, <1>1, <1>2, <1>3, <1>4, <1>5, <1>5a, <1>6, <1>7, <1>8 DEF Step

LEMMA TypesOfClaims ==
    ASSUME TypeOK, NEW w \in Workers, NEW b \in Batches,
           ClaimValidation(w, b) \/ ClaimImport(w, b)
    PROVE  TypeOK'
<1>1. worker' \in [Workers -> WorkerStates]
  <2>1. 1 \in 1..(RowCount + 1)
    BY RowsExist
  <2>2. /\ [does |-> "validate", batch |-> b] \in WorkerStates
        /\ [does |-> "import", batch |-> b, row |-> 1] \in WorkerStates
    BY <2>1 DEF WorkerStates
  <2>3. CASE ClaimValidation(w, b)
    BY <2>2, <2>3 DEF TypeOK, ClaimValidation, SetWorker
  <2>4. CASE ClaimImport(w, b)
    BY <2>2, <2>4 DEF TypeOK, ClaimImport, SetWorker
  <2> QED
    BY <2>3, <2>4
<1>2. /\ status' \in [Batches -> Statuses] /\ status'[b] \notin {"completed", "partial_failed"}
      /\ \A c \in Batches \ {b} : status'[c] = status[c]
  BY DEF TypeOK, ClaimValidation, ClaimImport, SetStatus, Statuses
<1>3. Claim(w, b)
  BY DEF ClaimValidation, ClaimImport
<1>4. UNCHANGED <<content, decided, records, objects, wishes, retrying, mishaps>>
  BY DEF ClaimValidation, ClaimImport
<1> QED
  BY <1>1, <1>2, <1>3, <1>4, ClaimFacts DEF TypeOK, records, objects, wishes

\* Only a batch that waits for its import, or failed in part, is given to it.
LEMMA ConfirmFacts ==
    ASSUME TypeOK, NEW b \in Batches, ConfirmAs(b)
    PROVE  /\ plan' \in [Batches -> [Rows -> Plans]]
           /\ status' \in [Batches -> Statuses]
           /\ \A c \in Batches : status'[c] \in {"completed", "partial_failed"} => status'[c] = status[c]
<1>1. PlannedAll(b, decided[b]) \in [Rows -> Plans]
  BY PlanFacts DEF TypeOK
<1> QED
  BY <1>1 DEF ConfirmAs, TypeOK, SetStatus, Statuses

LEMMA TypesOfUser ==
    ASSUME TypeOK, NEW b \in Batches, NEW d \in [Rows -> Decisions],
           Preview(b, d) \/ Confirm(b) \/ RetryUpload(b) \/ RetryPreview(b)
    PROVE  TypeOK'
<1>1. CASE Preview(b, d)
  <2>1. asked' \subseteq Batches \X Rows /\ choices' \in 0..MaxChoices
    BY <1>1, ChoicesAreCounted DEF TypeOK, Preview
  <2> QED
    BY <1>1, <2>1, PreviewFacts DEF TypeOK, Preview, claims, objects
<1>2. CASE Confirm(b)
  <2>1. ConfirmAs(b) /\ Release(b)
    BY <1>2 DEF Confirm, ConfirmAs
  <2> QED
    BY <1>2, <2>1, ConfirmFacts, ReleaseFacts DEF TypeOK, Confirm, objects, wishes
<1>3. CASE RetryUpload(b)
  BY <1>3 DEF TypeOK, RetryUpload, RetryStates, claims, objects, records, wishes
<1>4. CASE RetryPreview(b)
  <2>1. retrying' \in RetryStates
    <3>1. PlannedAll(b, decided[b]) \in [Rows -> Plans] /\ decided[b] \in [Rows -> Decisions]
      BY PlanFacts DEF TypeOK
    <3> QED
      BY <1>4, <3>1 DEF RetryPreview, RetryStates, Version, Versions
  <2>2. PreviewAs(b, decided[b]) /\ decided[b] \in [Rows -> Decisions]
    BY <1>4 DEF RetryPreview, TypeOK
  <2> QED
    BY <1>4, <2>1, <2>2, PreviewFacts DEF TypeOK, RetryPreview, claims, objects, wishes
<1> QED
  BY <1>1, <1>2, <1>3, <1>4

LEMMA TypesOfRetry ==
    ASSUME TypeOK, SaveUpload \/ ResetFailed \/ RetryConfirm
    PROVE  TypeOK'
<1> DEFINE b == retrying.batch
<1>0. retrying # None /\ b \in Batches
  BY RetryFacts DEF SaveUpload, ResetFailed, RetryConfirm
<1>1. CASE SaveUpload
  <2>1. retrying.token \in Workers \cup {None}
    BY <1>0, <1>1, RetryFacts DEF SaveUpload
  <2> QED
    BY <1>0, <1>1, <2>1, NoDecisionIsOne DEF TypeOK, SaveUpload, SetStatus, Statuses, RetryStates, records,
       objects, wishes
<1>2. CASE ResetFailed
  <2>1. retrying' \in RetryStates
    <3>1. retrying' = [step |-> "confirm", batch |-> b, version |-> retrying.version]
          /\ retrying.version \in Versions
      BY <1>0, <1>2, RetryFacts DEF ResetFailed
    <3> QED
      BY <1>0, <3>1 DEF RetryStates
  <2>2. state' \in [Batches -> [Rows -> {"pending", "failed"} \cup FinalStates]]
    BY <1>0, <1>2 DEF TypeOK, ResetFailed
  <2> QED
    BY <1>2, <2>1, <2>2 DEF TypeOK, ResetFailed, claims, objects, wishes
<1>3. CASE RetryConfirm
  <2>1. retrying' \in RetryStates
    BY <1>3 DEF RetryConfirm, RetryStates
  <2>2. CASE UNCHANGED <<plan, status, claims>>
    BY <1>3, <2>1, <2>2 DEF TypeOK, RetryConfirm, claims, objects, wishes
  <2>3. CASE ConfirmAs(b)
    <3>1. Release(b)
      BY <2>3 DEF ConfirmAs
    <3> QED
      BY <1>0, <1>3, <2>1, <2>3, <3>1, ConfirmFacts, ReleaseFacts DEF TypeOK, RetryConfirm, objects, wishes
  <2> QED
    BY <1>3, <2>2, <2>3 DEF RetryConfirm
<1> QED
  BY <1>1, <1>2, <1>3

LEMMA TypesOfCrash ==
    ASSUME TypeOK, NEW w \in Workers, Crash(w)
    PROVE  TypeOK'
  BY MishapsAreCounted DEF TypeOK, Crash, SetWorker, WorkerStates, claims, records, objects, wishes

LEMMA TypesOfLease ==
    ASSUME TypeOK, NEW b \in Batches, LeaseExpires(b)
    PROVE  TypeOK'
  BY MishapsAreCounted DEF TypeOK, LeaseExpires, records, objects, wishes

LEMMA TypesOfDelete ==
    ASSUME TypeOK, NEW o \in Objects, NEW r \in Rows, Delete(o, r)
    PROVE  TypeOK'
<1>1. gone' \subseteq Objects \X Rows /\ mishaps' \in 0..MaxMishaps
  BY MishapsAreCounted DEF TypeOK, Delete
<1> QED
  BY <1>1 DEF TypeOK, Delete, claims, records, objects

LEMMA TypesAtFirst == Init => TypeOK
<1> SUFFICES ASSUME Init PROVE TypeOK
  OBVIOUS
<1>1. NoPlan \in [Rows -> Plans] /\ NoDecision \in [Rows -> Decisions]
  BY NoDecisionIsOne DEF NoPlan, Plans, Mappings
<1> QED
  BY <1>1, ExportsHaveContents DEF Init, TypeOK, Statuses, Mappings, WorkerStates, RetryStates

LEMMA TypesKept == TypeOK /\ [Next]_vars => TypeOK'
<1> SUFFICES ASSUME TypeOK, [Next]_vars PROVE TypeOK'
  OBVIOUS
<1>1. CASE Next
  <2>1. ASSUME NEW w \in Workers, Step(w) PROVE TypeOK'
    BY <2>1, TypesOfSteps
  <2>2. ASSUME NEW w \in Workers, NEW b \in Batches, ClaimValidation(w, b) \/ ClaimImport(w, b)
        PROVE  TypeOK'
    BY <2>2, TypesOfClaims
  <2>3. ASSUME NEW b \in Batches, NEW d \in [Rows -> Decisions],
               Preview(b, d) \/ Confirm(b) \/ RetryUpload(b) \/ RetryPreview(b)
        PROVE  TypeOK'
    BY <2>3, TypesOfUser
  <2>4. CASE SaveUpload \/ ResetFailed \/ RetryConfirm
    BY <2>4, TypesOfRetry
  <2>5. ASSUME NEW w \in Workers, Crash(w) PROVE TypeOK'
    BY <2>5, TypesOfCrash
  <2>6. ASSUME NEW b \in Batches, LeaseExpires(b) PROVE TypeOK'
    BY <2>6, TypesOfLease
  <2>7. ASSUME NEW o \in Objects, NEW r \in Rows, Delete(o, r) PROVE TypeOK'
    BY <2>7, TypesOfDelete
  <2> QED
    BY <1>1, <2>1, <2>2, <2>3, <2>4, <2>5, <2>6, <2>7, NoDecisionIsOne DEF Next
<1>2. CASE UNCHANGED vars
  BY <1>2 DEF vars, claims, records, objects, wishes, TypeOK
<1> QED
  BY <1>1, <1>2

\* Every column holds a value it can hold, and nobody holds a batch that has ended.
THEOREM TypeCorrect == Spec => []TypeOK
  BY TypesAtFirst, TypesKept, PTL DEF Spec

-----------------------------------------------------------------------------

\* A planned creation may be carried out if the mapping is still the one it was planned
\* for. With it, ImportedOnce is inductive: the mapping is compared with the plan's
\* again, in the step that imports the row.
MayCreate(b, r, version) ==
    \/ version = None
    \/ <<b, r>> \in asked
    \/ Missing(version.target, r) \/ Missing(Other, r)

PlansFit ==
    \A b \in Batches, r \in Rows :
        plan[b][r].action = "create" => MayCreate(b, r, plan[b][r].version)

\* What is stored as a user's decision, or read by a validation, was a user's decision.
WishesKept ==
    /\ \A b \in Batches, r \in Rows : decided[b][r] = "anew" => <<b, r>> \in asked
    /\ \A w \in Workers, r \in Rows :
          worker[w].does = "preview" /\ worker[w].decided[r] = "anew" => <<worker[w].batch, r>> \in asked

\* Nothing that was asked or deleted is forgotten.
LEMMA WishesGrow ==
    ASSUME TypeOK, Next
    PROVE  gone \subseteq gone' /\ asked \subseteq asked'
<1>1. ASSUME NEW w \in Workers, Step(w) PROVE UNCHANGED <<gone, asked>>
  BY <1>1 DEF Step, LookForRecords, ReadPackage, ReadFails, FindRecords, PreviewValidated,
     StoreFailed, GiveBack, LeaseLost, ExecuteRecord, Finish, wishes
<1>2. ASSUME NEW b \in Batches, NEW d \in [Rows -> Decisions],
             Preview(b, d) \/ Confirm(b) \/ RetryUpload(b) \/ RetryPreview(b) \/ LeaseExpires(b)
      PROVE  gone \subseteq gone' /\ asked \subseteq asked'
  BY <1>2 DEF Preview, Confirm, RetryUpload, RetryPreview, LeaseExpires, wishes
<1>3. ASSUME NEW w \in Workers, NEW b \in Batches, ClaimValidation(w, b) \/ ClaimImport(w, b)
      PROVE  UNCHANGED <<gone, asked>>
  BY <1>3 DEF ClaimValidation, ClaimImport, wishes
<1>4. ASSUME NEW w \in Workers, Crash(w) PROVE UNCHANGED <<gone, asked>>
  BY <1>4 DEF Crash, wishes
<1>5. CASE SaveUpload \/ ResetFailed \/ RetryConfirm
  BY <1>5 DEF SaveUpload, ResetFailed, RetryConfirm, wishes
<1>6. ASSUME NEW o \in Objects, NEW r \in Rows, Delete(o, r)
      PROVE  gone \subseteq gone' /\ asked \subseteq asked'
  BY <1>6 DEF Delete
<1> QED
  BY <1>1, <1>2, <1>3, <1>4, <1>5, <1>6, NoDecisionIsOne DEF Next

\* The decisions of a batch are those of a user's preview, or of an earlier one of the
\* batch, or none.
LEMMA WishesStay ==
    ASSUME TypeOK, WishesKept, Next
    PROVE  WishesKept'
<1>0. asked \subseteq asked'
  BY WishesGrow
<1>1. ASSUME NEW w \in Workers, Step(w) PROVE WishesKept'
  <2>1. UNCHANGED asked
    BY <1>1 DEF Step, LookForRecords, ReadPackage, ReadFails, FindRecords, PreviewValidated,
       StoreFailed, GiveBack, LeaseLost, ExecuteRecord, Finish, wishes
  <2>2. ASSUME UNCHANGED decided, NEW x, worker' = [worker EXCEPT ![w] = x], x.does # "preview"
        PROVE  WishesKept'
    BY <2>1, <2>2 DEF TypeOK, WishesKept
  <2>3. CASE LookForRecords(w)
    <3>1. worker[w].batch \in Batches
      BY <2>3, WorkerFacts DEF LookForRecords, Idle
    <3>2. CASE hasRecords[worker[w].batch]
      <4>1. worker' = [worker EXCEPT ![w] = [does |-> "preview", batch |-> worker[w].batch,
                                             decided |-> decided[worker[w].batch]]]
        BY <2>3, <3>2 DEF LookForRecords, SetWorker
      <4>2. \A v \in Workers : v # w => worker'[v] = worker[v]
        BY <4>1 DEF TypeOK
      <4>3. worker'[w].batch = worker[w].batch /\ worker'[w].decided = decided[worker[w].batch]
        BY <4>1 DEF TypeOK
      <4>4. UNCHANGED decided
        BY <2>3 DEF LookForRecords
      <4> QED
        BY <2>1, <3>1, <4>2, <4>3, <4>4 DEF WishesKept
    <3>3. CASE ~hasRecords[worker[w].batch]
      <4> DEFINE x == [does |-> "read", batch |-> worker[w].batch]
      <4>1. worker' = [worker EXCEPT ![w] = x] /\ UNCHANGED decided
        BY <2>3, <3>3 DEF LookForRecords, SetWorker
      <4>2. x.does # "preview"
        OBVIOUS
      <4> HIDE DEF x
      <4> QED
        BY <2>2, <4>1, <4>2
    <3> QED
      BY <3>2, <3>3
  <2>4. CASE ReadPackage(w)
    <3>1. worker' = [worker EXCEPT ![w] = [does |-> "preview", batch |-> worker[w].batch,
                                           decided |-> NoDecision]]
      BY <2>4 DEF ReadPackage, SetWorker
    <3> QED
      BY <2>1, <2>4, <3>1 DEF ReadPackage, TypeOK, WishesKept, NoDecision
  <2>5. CASE PreviewValidated(w)
    <3> DEFINE b == worker[w].batch
    <3>1. b \in Batches /\ worker[w].decided \in [Rows -> Decisions]
      BY <2>5, WorkerFacts DEF PreviewValidated, Idle
    <3>2. CASE status[b] = "importing"
      <4>1. UNCHANGED decided /\ worker' = [worker EXCEPT ![w] = Idle] /\ Idle.does # "preview"
        BY <2>5, <3>2 DEF PreviewValidated, SetWorker, Idle
      <4> QED
        BY <2>2, <4>1
    <3>3. CASE status[b] # "importing"
      <4>1. /\ decided' = [decided EXCEPT ![b] = worker[w].decided]
            /\ worker' = [worker EXCEPT ![w] = [does |-> "release", batch |-> b]]
            /\ worker[w].does = "preview"
        BY <2>5, <3>3 DEF PreviewValidated, PreviewAs, SetWorker
      <4> HIDE DEF b
      <4>2. \A c \in Batches, r \in Rows : decided'[c][r] = "anew" => <<c, r>> \in asked
        BY <3>1, <4>1 DEF TypeOK, WishesKept, b
      <4>3. \A v \in Workers : v # w => worker'[v] = worker[v]
        BY <4>1 DEF TypeOK
      <4>4. worker'[w].does # "preview"
        BY <4>1 DEF TypeOK
      <4> QED
        BY <2>1, <4>2, <4>3, <4>4 DEF WishesKept
    <3> QED
      BY <3>2, <3>3
  <2>6. CASE ReadFails(w) \/ FindRecords(w) \/ StoreFailed(w)
    BY <2>2, <2>6 DEF ReadFails, FindRecords, StoreFailed, SetWorker
  <2>7. CASE GiveBack(w) \/ LeaseLost(w) \/ Finish(w)
    BY <2>2, <2>7 DEF GiveBack, LeaseLost, Finish, SetWorker, Idle
  <2>8. CASE ExecuteRecord(w)
    <3>1. /\ worker' = [worker EXCEPT ![w] = [worker[w] EXCEPT !.row = @ + 1]]
          /\ worker[w].does = "import" /\ UNCHANGED decided
      BY <2>8 DEF ExecuteRecord
    <3>2. worker[w] \in [does : {"import"}, batch : Batches, row : 1..(RowCount + 1)]
      BY <3>1, WorkerFacts DEF Idle
    <3>3. [worker[w] EXCEPT !.row = @ + 1].does # "preview"
      BY <3>2
    <3> QED
      BY <2>2, <3>1, <3>3
  <2> QED
    BY <1>1, <2>3, <2>4, <2>5, <2>6, <2>7, <2>8 DEF Step
<1>2. ASSUME NEW b \in Batches, NEW d \in [Rows -> Decisions], Preview(b, d) PROVE WishesKept'
  <2>1. /\ decided' = [decided EXCEPT ![b] = d] /\ UNCHANGED worker
        /\ \A r \in Rows : d[r] = "anew" => <<b, r>> \in asked'
    BY <1>2 DEF Preview, PreviewAs
  <2> QED
    BY <1>0, <2>1 DEF TypeOK, WishesKept
<1>3. ASSUME NEW b \in Batches, Confirm(b) \/ RetryUpload(b) \/ RetryPreview(b) \/ LeaseExpires(b)
      PROVE  WishesKept'
  <2>1. UNCHANGED worker /\ decided' = decided
    BY <1>3 DEF Confirm, RetryUpload, RetryPreview, LeaseExpires, PreviewAs, TypeOK
  <2> QED
    BY <1>0, <2>1 DEF WishesKept
<1>4. ASSUME NEW w \in Workers, NEW b \in Batches, ClaimValidation(w, b) \/ ClaimImport(w, b)
      PROVE  WishesKept'
  <2>1. PICK x \in {[does |-> "validate", batch |-> b], [does |-> "import", batch |-> b, row |-> 1]} :
           worker' = [worker EXCEPT ![w] = x]
    BY <1>4 DEF ClaimValidation, ClaimImport, SetWorker
  <2>2. x.does # "preview"
    OBVIOUS
  <2>3. UNCHANGED decided
    BY <1>4 DEF ClaimValidation, ClaimImport
  <2> QED
    BY <1>0, <2>1, <2>2, <2>3 DEF TypeOK, WishesKept
<1>5. ASSUME NEW w \in Workers, Crash(w) PROVE WishesKept'
  BY <1>0, <1>5 DEF Crash, SetWorker, Idle, TypeOK, WishesKept
<1>6. CASE SaveUpload
  <2>1. retrying.batch \in Batches
    BY <1>6, RetryFacts DEF SaveUpload
  <2> QED
    BY <1>0, <1>6, <2>1 DEF SaveUpload, TypeOK, WishesKept, NoDecision
<1>7. CASE ResetFailed \/ RetryConfirm
  BY <1>0, <1>7 DEF ResetFailed, RetryConfirm, WishesKept
<1>8. ASSUME NEW o \in Objects, NEW r \in Rows, Delete(o, r) PROVE WishesKept'
  BY <1>0, <1>8 DEF Delete, WishesKept
<1> QED
  BY <1>1, <1>2, <1>3, <1>4, <1>5, <1>6, <1>7, <1>8 DEF Next

LEMMA PlansStayFit ==
    ASSUME TypeOK, WishesKept, PlansFit, Next
    PROVE  PlansFit'
<1>0. gone \subseteq gone' /\ asked \subseteq asked'
  BY WishesGrow
<1> DEFINE Replanned(b, d) ==
        /\ plan' = [plan EXCEPT ![b] = PlannedAll(b, d)]
        /\ \A r \in Rows : d[r] = "anew" => <<b, r>> \in asked'
<1>1. ASSUME NEW b \in Batches, NEW d \in [Rows -> Decisions], Replanned(b, d)
      PROVE  PlansFit'
  <2>1. \A r \in Rows : plan'[b][r].action = "create" =>
              \/ plan'[b][r].version = None
              \/ <<b, r>> \in asked'
              \/ <<plan'[b][r].version.target, r>> \in gone' \/ <<Other, r>> \in gone'
    <3>1. plan'[b] = PlannedAll(b, d)
      BY <1>1 DEF TypeOK
    <3> QED
      BY <1>0, <1>1, <3>1, PlanFacts DEF Missing
  <2>2. \A c \in Batches \ {b} : plan'[c] = plan[c]
    BY <1>1 DEF TypeOK
  <2> QED
    BY <1>0, <2>1, <2>2 DEF PlansFit, MayCreate, Missing
<1>2. CASE UNCHANGED plan
  BY <1>0, <1>2 DEF PlansFit, MayCreate, Missing
<1>3. ASSUME NEW b \in Batches, NEW d \in [Rows -> Decisions], d = decided[b],
             plan' = [plan EXCEPT ![b] = PlannedAll(b, d)]
      PROVE  Replanned(b, d)
  BY <1>0, <1>3 DEF WishesKept
<1>4. UNCHANGED plan \/ \E b \in Batches, d \in [Rows -> Decisions] : Replanned(b, d)
  <2>1. ASSUME NEW w \in Workers, Step(w)
        PROVE  UNCHANGED plan \/ \E b \in Batches, d \in [Rows -> Decisions] : Replanned(b, d)
    <3>1. CASE PreviewValidated(w)
      <4>1. worker[w].batch \in Batches /\ worker[w].decided \in [Rows -> Decisions]
        BY <3>1, WorkerFacts DEF PreviewValidated, Idle
      <4>2. \A r \in Rows : worker[w].decided[r] = "anew" => <<worker[w].batch, r>> \in asked'
        BY <1>0, <3>1 DEF PreviewValidated, WishesKept
      <4> QED
        BY <3>1, <4>1, <4>2 DEF PreviewValidated, PreviewAs
    <3> QED
      BY <2>1, <3>1 DEF Step, LookForRecords, ReadPackage, ReadFails, FindRecords, StoreFailed,
         GiveBack, LeaseLost, ExecuteRecord, Finish, records
  <2>2. ASSUME NEW b \in Batches, NEW d \in [Rows -> Decisions], Preview(b, d)
        PROVE  Replanned(b, d)
    BY <2>2 DEF Preview, PreviewAs
  <2>3. ASSUME NEW b \in Batches, Confirm(b) \/ RetryUpload(b) \/ RetryPreview(b) \/ LeaseExpires(b)
        PROVE  UNCHANGED plan \/ \E d \in [Rows -> Decisions] : Replanned(b, d)
    <3>1. decided[b] \in [Rows -> Decisions]
      BY DEF TypeOK
    <3>2. UNCHANGED plan \/ plan' = [plan EXCEPT ![b] = PlannedAll(b, decided[b])]
      BY <2>3 DEF Confirm, RetryUpload, RetryPreview, LeaseExpires, PreviewAs, ConfirmAs, records
    <3> QED
      BY <1>3, <3>1, <3>2
  <2>4. CASE RetryConfirm
    <3>1. retrying.batch \in Batches /\ decided[retrying.batch] \in [Rows -> Decisions]
      BY <2>4, RetryFacts DEF RetryConfirm, TypeOK
    <3>2. UNCHANGED plan
          \/ plan' = [plan EXCEPT ![retrying.batch] = PlannedAll(retrying.batch, decided[retrying.batch])]
      BY <2>4 DEF RetryConfirm, ConfirmAs
    <3> QED
      BY <1>3, <3>1, <3>2
  <2>5. ASSUME NEW w \in Workers, NEW b \in Batches, ClaimValidation(w, b) \/ ClaimImport(w, b)
        PROVE  UNCHANGED plan
    BY <2>5 DEF ClaimValidation, ClaimImport, records
  <2>6. CASE SaveUpload \/ ResetFailed
    BY <2>6 DEF SaveUpload, ResetFailed, records
  <2>7. ASSUME NEW w \in Workers, Crash(w) PROVE UNCHANGED plan
    BY <2>7 DEF Crash, records
  <2>8. ASSUME NEW o \in Objects, NEW r \in Rows, Delete(o, r) PROVE UNCHANGED plan
    BY <2>8 DEF Delete, records
  <2> HIDE DEF Replanned
  <2> QED
    BY <2>1, <2>2, <2>3, <2>4, <2>5, <2>6, <2>7, <2>8 DEF Next
<1> QED
  BY <1>1, <1>2, <1>4

\* What a step may do to the rows: nothing, set failed ones back, or import one.
LEMMA RowSteps ==
    ASSUME TypeOK, Next
    PROVE  \/ UNCHANGED <<state, objects>>
           \/ /\ UNCHANGED objects
              /\ \A b \in Batches, r \in Rows :
                    state'[b][r] = state[b][r] \/ (state[b][r] = "failed" /\ state'[b][r] = "pending")
           \/ \E w \in Workers : ExecuteRecord(w)
<1>1. ASSUME NEW w \in Workers, Step(w)
      PROVE  UNCHANGED <<state, objects>> \/ ExecuteRecord(w)
  BY <1>1 DEF Step, LookForRecords, ReadPackage, ReadFails, FindRecords, PreviewValidated,
     StoreFailed, GiveBack, LeaseLost, Finish, records, objects
<1>2. ASSUME NEW b \in Batches, NEW d \in [Rows -> Decisions],
             Preview(b, d) \/ Confirm(b) \/ RetryUpload(b) \/ RetryPreview(b) \/ LeaseExpires(b)
      PROVE  UNCHANGED <<state, objects>>
  BY <1>2 DEF Preview, Confirm, RetryUpload, RetryPreview, LeaseExpires, records, objects
<1>3. ASSUME NEW w \in Workers, NEW b \in Batches, ClaimValidation(w, b) \/ ClaimImport(w, b)
      PROVE  UNCHANGED <<state, objects>>
  BY <1>3 DEF ClaimValidation, ClaimImport, records, objects
<1>4. ASSUME NEW w \in Workers, Crash(w) PROVE UNCHANGED <<state, objects>>
  BY <1>4 DEF Crash, records, objects
<1>5. CASE SaveUpload \/ RetryConfirm
  BY <1>5 DEF SaveUpload, RetryConfirm, records, objects
<1>6. CASE ResetFailed
  <2>1. retrying.batch \in Batches
    BY <1>6, RetryFacts DEF ResetFailed
  <2> QED
    BY <1>6, <2>1 DEF ResetFailed, TypeOK, objects
<1>7. ASSUME NEW o \in Objects, NEW r \in Rows, Delete(o, r) PROVE UNCHANGED <<state, objects>>
  BY <1>7 DEF Delete, records, objects
<1> QED
  BY <1>1, <1>2, <1>3, <1>4, <1>5, <1>6, <1>7, NoDecisionIsOne DEF Next

\* An object is created only where the plan's creation may be carried out.
LEMMA ImportFacts ==
    ASSUME TypeOK, PlansFit, NEW b \in Batches, NEW r \in Rows
    PROVE  /\ ImportedAs(b, r) \in {"failed"} \cup FinalStates
           /\ ImportedAs(b, r) = "created" => MayCreate(b, r, mapping[r])
  BY DEF ImportedAs, FinalStates, PlansFit

\* What was imported is not set back.
LEMMA FinalStaysFinal ==
    ASSUME TypeOK, Next
    PROVE  \A b \in Batches, r \in Rows : state[b][r] \in FinalStates => state'[b][r] = state[b][r]
<1>1. ASSUME NEW w \in Workers, ExecuteRecord(w)
      PROVE  \A b \in Batches, r \in Rows : state[b][r] \in FinalStates => state'[b][r] = state[b][r]
  <2>1. worker[w].batch \in Batches /\ worker[w].row \in Rows
    BY <1>1, WorkerFacts DEF ExecuteRecord, Idle
  <2>2. \/ state' = state
        \/ /\ state[worker[w].batch][worker[w].row] \notin FinalStates
           /\ \E s : state' = [state EXCEPT ![worker[w].batch][worker[w].row] = s]
    BY <1>1 DEF ExecuteRecord, objects
  <2>3. state \in [Batches -> [Rows -> {"pending", "failed"} \cup FinalStates]]
    BY DEF TypeOK
  <2> SUFFICES ASSUME NEW b \in Batches, NEW r \in Rows, state[b][r] \in FinalStates
               PROVE  state'[b][r] = state[b][r]
    OBVIOUS
  <2>4. ASSUME NEW c \in Batches, NEW q \in Rows, NEW s, c # b \/ q # r
        PROVE  [state EXCEPT ![c][q] = s][b][r] = state[b][r]
    BY <2>3, <2>4
  <2>5. CASE state' = state
    BY <2>5
  <2>6. ASSUME NEW s, state' = [state EXCEPT ![worker[w].batch][worker[w].row] = s],
               state[worker[w].batch][worker[w].row] \notin FinalStates
        PROVE  state'[b][r] = state[b][r]
    <3>1. worker[w].batch # b \/ worker[w].row # r
      BY <2>6
    <3>2. [state EXCEPT ![worker[w].batch][worker[w].row] = s][b][r] = state[b][r]
      BY <2>1, <2>4, <3>1
    <3> QED
      BY <2>6, <3>2
  <2> QED
    BY <2>2, <2>5, <2>6
<1> QED
  BY <1>1, RowSteps DEF FinalStates

\* Only Finish calls a batch completed, when every row is.
LEMMA Completions ==
    ASSUME TypeOK, Next
    PROVE  \A b \in Batches : status'[b] = "completed" =>
              status[b] = "completed" \/ \A r \in Rows : state'[b][r] \in FinalStates
<1> DEFINE Goal == \A b \in Batches : status'[b] = "completed" =>
                      status[b] = "completed" \/ \A r \in Rows : state'[b][r] \in FinalStates
<1> SUFFICES Goal
  OBVIOUS
<1>1. ASSUME NEW w \in Workers, Step(w) PROVE Goal
  <2>1. CASE Finish(w)
    <3>1. worker[w].batch \in Batches
      BY <2>1, WorkerFacts DEF Finish, Idle
    <3> QED
      BY <2>1, <3>1 DEF Finish, SetStatus, TypeOK, records
  <2>2. CASE PreviewValidated(w)
    <3>1. worker[w].batch \in Batches
      BY <2>2, WorkerFacts DEF PreviewValidated, Idle
    <3> QED
      BY <2>2, <3>1 DEF PreviewValidated, PreviewAs, SetStatus, TypeOK
  <2>3. CASE StoreFailed(w)
    BY <2>3 DEF StoreFailed, SetStatus, TypeOK
  <2>4. CASE ReadPackage(w)
    BY <2>4 DEF ReadPackage, SetStatus, TypeOK
  <2> QED
    BY <1>1, <2>1, <2>2, <2>3, <2>4 DEF Step, LookForRecords, ReadFails, FindRecords, GiveBack,
       LeaseLost, ExecuteRecord
<1>2. ASSUME NEW b \in Batches, NEW d \in [Rows -> Decisions],
             Preview(b, d) \/ Confirm(b) \/ RetryUpload(b) \/ RetryPreview(b) \/ LeaseExpires(b)
      PROVE  Goal
  BY <1>2 DEF Preview, Confirm, RetryUpload, RetryPreview, LeaseExpires, PreviewAs, ConfirmAs,
     SetStatus, TypeOK
<1>3. ASSUME NEW w \in Workers, NEW b \in Batches, ClaimValidation(w, b) \/ ClaimImport(w, b)
      PROVE  Goal
  BY <1>3 DEF ClaimValidation, ClaimImport, SetStatus, TypeOK
<1>4. ASSUME NEW w \in Workers, Crash(w) PROVE Goal
  BY <1>4 DEF Crash
<1>5. CASE SaveUpload \/ ResetFailed \/ RetryConfirm
  BY <1>5 DEF SaveUpload, ResetFailed, RetryConfirm, ConfirmAs, SetStatus, TypeOK
<1>6. ASSUME NEW o \in Objects, NEW r \in Rows, Delete(o, r) PROVE Goal
  BY <1>6 DEF Delete
<1> HIDE DEF Goal
<1> QED
  BY <1>1, <1>2, <1>3, <1>4, <1>5, <1>6, NoDecisionIsOne DEF Next

\* What the execution of a row does to it
LEMMA RowImported ==
    ASSUME TypeOK, NEW w \in Workers, ExecuteRecord(w)
    PROVE  \E b \in Batches, r \in Rows :
              \/ UNCHANGED <<state, objects>>
              \/ /\ state[b][r] \notin FinalStates
                 /\ \E s \in {ImportedAs(b, r), "failed"} :
                       /\ state' = [state EXCEPT ![b][r] = s]
                       /\ targets' = [targets EXCEPT ![b][r] = IF s = "created" THEN @ + 1 ELSE @]
                       /\ mapping' = [mapping EXCEPT ![r] =
                             IF s = "failed" THEN @
                             ELSE [target |-> ImportedTo(b, r), source |-> content[b]]]
<1>1. worker[w].batch \in Batches /\ worker[w].row \in Rows
  BY WorkerFacts DEF ExecuteRecord, Idle
<1> QED
  BY <1>1 DEF ExecuteRecord

\* The creation of an object is counted with the row's state, and leaves it mapped.
LEMMA AccountsKept ==
    ASSUME TypeOK, Accounted, Next
    PROVE  Accounted'
<1>1. CASE ~\E w \in Workers : ExecuteRecord(w)
  <2>1. /\ UNCHANGED <<mapping, targets>>
        /\ \A b \in Batches, r \in Rows :
              (state'[b][r] \in FinalStates \/ state[b][r] \in FinalStates) => state'[b][r] = state[b][r]
    BY <1>1, RowSteps DEF FinalStates, objects
  <2> QED
    BY <2>1 DEF Accounted, FinalStates
<1>2. ASSUME NEW w \in Workers, ExecuteRecord(w) PROVE Accounted'
  <2>1. CASE UNCHANGED <<state, objects>>
    BY <2>1 DEF Accounted, objects
  <2>2. ASSUME NEW b \in Batches, NEW r \in Rows, state[b][r] \notin FinalStates,
               NEW s \in {ImportedAs(b, r), "failed"},
               state' = [state EXCEPT ![b][r] = s],
               targets' = [targets EXCEPT ![b][r] = IF s = "created" THEN @ + 1 ELSE @],
               mapping' = [mapping EXCEPT ![r] =
                  IF s = "failed" THEN @
                  ELSE [target |-> ImportedTo(b, r), source |-> content[b]]]
        PROVE  Accounted'
    <3>1. s \in {"failed"} \cup FinalStates
      BY <2>2 DEF ImportedAs, FinalStates
    <3>2. s # "failed" => [target |-> ImportedTo(b, r), source |-> content[b]] # None
      <4>1. s # "failed" => ImportedTo(b, r) \in Objects
        BY <2>2, ImportedToFacts
      <4>2. content[b] \in Contents
        BY ExportsHaveContents DEF TypeOK
      <4> QED
        BY <4>1, <4>2, NoneIsNothing DEF Mapped
    <3>3. \A c \in Batches, q \in Rows : <<c, q>> # <<b, r>> =>
              state'[c][q] = state[c][q] /\ targets'[c][q] = targets[c][q]
      BY <2>2 DEF TypeOK
    <3>4. state'[b][r] = s /\ targets'[b][r] = (IF s = "created" THEN 1 ELSE 0)
      <4>1. targets[b][r] = 0
        BY <2>2 DEF Accounted, FinalStates
      <4> QED
        BY <2>2, <4>1 DEF TypeOK
    <3>5. /\ \A q \in Rows : mapping[q] # None => mapping'[q] # None
          /\ s # "failed" => mapping'[r] # None
      BY <2>2, <3>2 DEF TypeOK
    <3>6. s \in FinalStates => s # "failed"
      BY DEF FinalStates
    <3> QED
      BY <3>1, <3>3, <3>4, <3>5, <3>6 DEF Accounted
  <2> QED
    BY <1>2, <2>1, <2>2, RowImported
<1> QED
  BY <1>1, <1>2

\* An object is created only of a row that has none, or that the user wants anew, or whose
\* object is missing.
LEMMA CreationsAllowed ==
    ASSUME TypeOK, PlansFit, Next
    PROVE  CreatesOnce
<1>1. CASE ~\E w \in Workers : ExecuteRecord(w)
  BY <1>1, RowSteps DEF CreatesOnce, objects
<1>2. ASSUME NEW w \in Workers, ExecuteRecord(w) PROVE CreatesOnce
  <2>1. CASE UNCHANGED <<state, objects>>
    BY <2>1 DEF CreatesOnce, objects
  <2>2. ASSUME NEW b \in Batches, NEW r \in Rows, NEW s \in {ImportedAs(b, r), "failed"},
               targets' = [targets EXCEPT ![b][r] = IF s = "created" THEN @ + 1 ELSE @]
        PROVE  CreatesOnce
    <3>1. \A c \in Batches, q \in Rows : targets'[c][q] # targets[c][q] =>
             c = b /\ q = r /\ s = "created"
      BY <2>2 DEF TypeOK
    <3>2. s = "created" => MayCreate(b, r, mapping[r])
      BY <2>2, ImportFacts
    <3> QED
      BY <3>1, <3>2 DEF CreatesOnce, MayCreate
  <2> QED
    BY <1>2, <2>1, <2>2, RowImported
<1> QED
  BY <1>1, <1>2

\* A row of the old system becomes one object, whatever workers, retries and further
\* packages do, unless the user wants another one or it was deleted; and it has one as
\* soon as some package counts it as imported.
THEOREM RowsImportedOnce == Spec => ImportedOnce
<1> DEFINE IInv == TypeOK /\ WishesKept /\ PlansFit /\ Accounted
<1>1. Init => IInv
  <2> SUFFICES ASSUME Init PROVE WishesKept /\ PlansFit /\ Accounted
    BY TypesAtFirst
  <2>1. WishesKept
    BY DEF Init, WishesKept, NoDecision, Idle
  <2>2. PlansFit
    BY DEF Init, PlansFit, MayCreate, NoPlan
  <2>3. Accounted
    BY DEF Init, Accounted, FinalStates
  <2> QED
    BY <2>1, <2>2, <2>3
<1>2. IInv /\ [Next]_vars => IInv' /\ [CreatesOnce]_vars
  <2> SUFFICES ASSUME IInv, [Next]_vars PROVE IInv' /\ [CreatesOnce]_vars
    OBVIOUS
  <2>1. CASE UNCHANGED vars
    BY <2>1, TypesKept DEF vars, records, objects, wishes, WishesKept, PlansFit, MayCreate, Missing,
       Accounted
  <2>2. CASE Next
    BY <2>2, TypesKept, WishesStay, PlansStayFit, AccountsKept, CreationsAllowed
  <2> QED
    BY <2>1, <2>2
<1>3. IInv => Accounted
  OBVIOUS
<1> QED
  BY <1>1, <1>2, <1>3, PTL DEF Spec, ImportedOnce

\* A batch called completed has nothing left that failed or waits: nothing that was
\* imported is ever set back, and Finish looks at every row.
THEOREM CompletedIsDone == Spec => []CompletedMeansDone
<1> DEFINE IInv == TypeOK /\ CompletedMeansDone
<1>1. Init => IInv
  BY TypesAtFirst DEF Init, CompletedMeansDone
<1>2. IInv /\ [Next]_vars => IInv'
  <2> SUFFICES ASSUME IInv, [Next]_vars PROVE CompletedMeansDone'
    BY TypesKept
  <2>1. CASE UNCHANGED vars
    BY <2>1 DEF vars, records, CompletedMeansDone
  <2>2. CASE Next
    <3>1. \A b \in Batches, r \in Rows : state[b][r] \in FinalStates => state'[b][r] = state[b][r]
      BY <2>2, FinalStaysFinal
    <3>2. \A b \in Batches : status'[b] = "completed" =>
             status[b] = "completed" \/ \A r \in Rows : state'[b][r] \in FinalStates
      BY <2>2, Completions
    <3> QED
      BY <3>1, <3>2 DEF CompletedMeansDone
  <2> QED
    BY <2>1, <2>2
<1> QED
  BY <1>1, <1>2, PTL DEF Spec
=============================================================================
