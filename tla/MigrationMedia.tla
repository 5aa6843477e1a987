--------------------------- MODULE MigrationMedia ---------------------------
(* The pictures of one imported house: each is an asset that workers copy    *)
(* from the old system, and add to the house's field once it is stored, for  *)
(* every package that names it, without undoing what the user has changed.   *)
(* (src/apps/data_migration/tasks.py, execution.py, api.py.)                 *)
(*                                                                           *)
(* Several packages may describe the house: each has its own record of it.   *)
(* An asset stands for the file it was copied to.                            *)
EXTENDS Naturals, FiniteSets

CONSTANTS
    Assets,      \* by their position in the house's list
    RecordCount, \* packages that describe the house, and so records of it
    Workers,     \* celery workers; one also stands for the run_token it drew
    Own,         \* what the user puts into the field
    Limit,       \* how many the field takes
    MaxEvents,   \* bound: edits and retries by the user, and workers that die or
                 \* outlive their lease
    None

ASSUME PositionsOrder == Assets \subseteq Nat /\ Own \notin Assets
ASSUME Bounds == {RecordCount, Limit, MaxEvents} \subseteq Nat
ASSUME NoneIsNothing == None \notin Workers \cup Assets

Records == 1..RecordCount
Refs == Assets \cup {Own}

VARIABLES
    value,      \* the field of the house
    final,      \* records that are imported (state in FINAL_STATES)
    originals,  \* prepared["media_originals"]
    expected,   \* prepared["media_expected"]
    binding,    \* MigrationAssetBinding.state; active unless detached
    asset,      \* MigrationAsset: status and run_token
    worker,     \* what each worker does, and for which asset
    messages,   \* migrate_asset for these is delivered again: its worker was lost
    rereading,  \* assets that retry_batch has read as failed or missing
    finishing,  \* per record: succeeded assets its import has still to attach
    cut,        \* ghost: records whose import died before it had attached them
    kept,       \* ghost: the field as the user left it since, None if he has not
    events      \* how many of what MaxEvents bounds

house == <<value, originals, expected, binding, kept>>
imports == <<final, finishing, cut>>
copies == <<asset, worker, messages, rereading>>
vars == <<house, imports, copies, events>>

Happens == events < MaxEvents /\ events' = events + 1

Idle == [does |-> "nothing", asset |-> None]

Init ==
    /\ value \in {{}, {Own}} /\ kept = None
    /\ final = {} /\ finishing = [r \in Records |-> {}] /\ cut = {}
    /\ originals = [r \in Records |-> {}] /\ expected = [r \in Records |-> None]
    /\ binding = [r \in Records |-> [a \in Assets |-> "pending"]]
    /\ asset = [a \in Assets |-> [status |-> "pending", token |-> None]]
    /\ worker = [w \in Workers |-> Idle] /\ messages = {} /\ rereading = {}
    /\ events = 0

-----------------------------------------------------------------------------
(* attach_asset, one transaction for all records the asset is bound to.     *)

\* Mutation: the field is not compared with what the migration left.
AttachedBlindly(h, r, a, stored, force) ==
    LET old == IF force THEN h.value ELSE h.originals[r]
        adds == {x \in stored : h.binding[r][x] # "detached"}
        new == {x \in adds \ old :
                  Cardinality(old) + Cardinality({y \in adds \ old : y < x}) < Limit}
    IN  IF r \notin final \/ h.binding[r][a] = "detached" THEN h
        ELSE [value |-> old \cup new,
              originals |-> [h.originals EXCEPT ![r] = old],
              expected |-> [h.expected EXCEPT ![r] = old \cup new],
              binding |-> [h.binding EXCEPT ![r] = [x \in Assets |->
                  IF x \notin adds THEN @[x]
                  ELSE IF x \in old \cup new THEN "attached" ELSE "overflow"]]]

\* Mutation: only the asset itself is added.
AttachedAlone(h, r, a, stored, force) ==
    LET old == IF force THEN h.value ELSE h.originals[r]
        adds == {x \in stored : x = a}
        new == {x \in adds \ old :
                  Cardinality(old) + Cardinality({y \in adds \ old : y < x}) < Limit}
    IN  IF r \notin final \/ h.binding[r][a] = "detached" THEN h
        ELSE IF ~force /\ h.expected[r] # h.value
        THEN [h EXCEPT !.binding[r] = [x \in Assets |-> "detached"]]
        ELSE [value |-> old \cup new,
              originals |-> [h.originals EXCEPT ![r] = old],
              expected |-> [h.expected EXCEPT ![r] = old \cup new],
              binding |-> [h.binding EXCEPT ![r] = [x \in Assets |->
                  IF x \notin adds THEN @[x]
                  ELSE IF x \in old \cup new THEN "attached" ELSE "overflow"]]]

\* What becomes of the house for one record: nothing before its import, or once the
\* picture is detached; all its pictures are detached when the field is not as the
\* migration left it; else it becomes what it was plus what is stored, in order.
Attached(h, r, a, stored, force) ==
    LET old == IF force THEN h.value ELSE h.originals[r]
        adds == {x \in stored : h.binding[r][x] # "detached"}
        new == {x \in adds \ old :
                  Cardinality(old) + Cardinality({y \in adds \ old : y < x}) < Limit}
    IN  IF r \notin final \/ h.binding[r][a] = "detached" THEN h
        ELSE IF ~force /\ h.expected[r] # h.value
        THEN [h EXCEPT !.binding[r] = [x \in Assets |-> "detached"]]
        ELSE [value |-> old \cup new,
              originals |-> [h.originals EXCEPT ![r] = old],
              expected |-> [h.expected EXCEPT ![r] = old \cup new],
              binding |-> [h.binding EXCEPT ![r] = [x \in Assets |->
                  IF x \notin adds THEN @[x]
                  ELSE IF x \in old \cup new THEN "attached" ELSE "overflow"]]]

House == [value |-> value, originals |-> originals, expected |-> expected, binding |-> binding]

\* The records in turn, from house h, with the assets in stored succeeded: the house
\* after each of them.
AfterEach(h, a, stored, force) ==
    LET after[r \in 0..RecordCount] ==
            IF r = 0 THEN h ELSE Attached(after[r - 1], r, a, stored, force)
    IN  after

AttachFrom(h, a, stored, force) ==
    LET after == AfterEach(h, a, stored, force)[RecordCount]
    IN  /\ value' = after.value /\ originals' = after.originals
        /\ expected' = after.expected /\ binding' = after.binding

Stored == {a \in Assets : asset[a].status = "succeeded"}

AttachAsset(a) == AttachFrom(House, a, Stored, FALSE) /\ UNCHANGED kept

-----------------------------------------------------------------------------
(* The import of a record, and the end of its batch.                        *)

\* execute_record notes the field as it finds it.
ImportRecord(r) ==
    /\ r \notin final /\ final' = final \cup {r}
    /\ originals' = [originals EXCEPT ![r] = value]
    /\ expected' = [expected EXCEPT ![r] = value]
    /\ finishing' = [finishing EXCEPT ![r] = {None}]
    /\ kept' = None
    /\ UNCHANGED <<value, binding, cut, copies, events>>

\* execute_batch reads the assets' states once,
ListAssets(r) ==
    /\ finishing[r] = {None}
    /\ finishing' = [finishing EXCEPT ![r] = Stored]
    /\ UNCHANGED <<house, final, cut, copies, events>>

\* and attaches those that had succeeded.
AttachListed(r, a) ==
    /\ a \in finishing[r]
    /\ finishing' = [finishing EXCEPT ![r] = @ \ {a}]
    /\ AttachAsset(a)
    /\ UNCHANGED <<final, cut, copies, events>>

\* Its worker dies before that: the batch is no longer importing, and nobody goes on.
CutShort(r) ==
    /\ finishing[r] # {}
    /\ Happens
    /\ finishing' = [finishing EXCEPT ![r] = {}] /\ cut' = cut \cup {r}
    /\ UNCHANGED <<house, final, copies>>

-----------------------------------------------------------------------------
(* migrate_asset.                                                           *)

SetAsset(a, s, t) == asset' = [asset EXCEPT ![a] = [status |-> s, token |-> t]]

Take(w, a) ==
    /\ SetAsset(a, "processing", w)
    /\ worker' = [worker EXCEPT ![w] = [does |-> "copy", asset |-> a]]

\* A message sent by an import, a retry or the recovery task
Claim(w, a) ==
    /\ worker[w] = Idle /\ asset[a].status = "pending"
    /\ Take(w, a)
    /\ UNCHANGED <<house, imports, messages, rereading, events>>

\* ... or one whose worker was lost: it attaches what is stored already.
Redelivered(w, a) ==
    /\ worker[w] = Idle /\ a \in messages
    /\ messages' = messages \ {a}
    /\ CASE asset[a].status = "succeeded" -> AttachAsset(a) /\ UNCHANGED <<asset, worker>>
         [] asset[a].status = "pending" -> Take(w, a) /\ UNCHANGED house
         [] OTHER -> UNCHANGED <<house, asset, worker>>
    /\ UNCHANGED <<imports, rereading, events>>

\* The result of the copy is stored under the token, or not at all.
Result(w, status) ==
    LET a == worker[w].asset
    IN  IF asset[a].token = w THEN SetAsset(a, status, None) ELSE UNCHANGED asset

CopyStored(w) ==
    /\ worker[w].does = "copy"
    /\ Result(w, "succeeded")
    /\ worker' = [worker EXCEPT ![w] = IF asset' # asset THEN [does |-> "attach", asset |-> @.asset]
                                       ELSE Idle]
    /\ UNCHANGED <<house, imports, messages, rereading, events>>

\* Failed for good, "missing" included, or to be tried again: max_retries is not counted.
CopyFails(w) ==
    /\ worker[w].does = "copy"
    /\ \E s \in {"failed", "pending"} : Result(w, s)
    /\ worker' = [worker EXCEPT ![w] = Idle]
    /\ UNCHANGED <<house, imports, messages, rereading, events>>

Attach(w) ==
    /\ worker[w].does = "attach"
    /\ AttachAsset(worker[w].asset)
    /\ worker' = [worker EXCEPT ![w] = Idle]
    /\ UNCHANGED <<imports, asset, messages, rereading, events>>

\* The worker is lost, and its message is delivered again.
Crash(w) ==
    /\ worker[w] # Idle
    /\ Happens
    /\ worker' = [worker EXCEPT ![w] = Idle]
    /\ messages' = messages \cup {worker[w].asset}
    /\ UNCHANGED <<house, imports, asset, rereading>>

\* Mutation: the lost worker's token stays.
RecoverHolding(a) ==
    /\ asset[a].status = "processing"
    /\ IF \E w \in Workers : asset[a].token = w /\ worker[w] = [does |-> "copy", asset |-> a]
       THEN Happens
       ELSE UNCHANGED events
    /\ SetAsset(a, "pending", asset[a].token)
    /\ UNCHANGED <<house, imports, worker, messages, rereading>>

\* recover_migration_tasks: fifteen minutes without a heartbeat
Recover(a) ==
    /\ asset[a].status = "processing"
    /\ IF \E w \in Workers : asset[a].token = w /\ worker[w] = [does |-> "copy", asset |-> a]
       THEN Happens
       ELSE UNCHANGED events
    /\ SetAsset(a, "pending", None)
    /\ UNCHANGED <<house, imports, worker, messages, rereading>>

-----------------------------------------------------------------------------
(* The user.                                                                *)

EditField(v) ==
    /\ Happens
    /\ v # value /\ value' = v
    /\ kept' = IF \E r \in final : expected[r] = v THEN None ELSE v
    /\ UNCHANGED <<originals, expected, binding, imports, copies>>

\* retry_asset: copy it (again), perhaps from another address
RetryCopy(a) ==
    /\ Happens
    /\ asset[a].status # "processing"
    /\ SetAsset(a, "pending", None)
    /\ UNCHANGED <<house, imports, worker, messages, rereading>>

\* What the user asks for is no longer detached. (The code makes the binding active and
\* leaves its state to the attaching, which stores it in the same transaction: only
\* imported records have detached ones.)
Reopened(a) ==
    [r \in Records |-> [binding[r] EXCEPT ![a] = IF @ = "detached" THEN "pending" ELSE @]]

\* ... or attach it, uploaded by hand or stored before, to the field as it is.
ForceAttach(a) ==
    /\ Happens
    /\ asset[a].status # "processing"
    /\ SetAsset(a, "succeeded", None)
    /\ AttachFrom([House EXCEPT !.binding = Reopened(a)], a, Stored \cup {a}, TRUE)
    /\ kept' = None
    /\ UNCHANGED <<imports, worker, messages, rereading>>

\* retry_batch reads the assets that have failed,
RetryFailed ==
    /\ Happens
    /\ rereading = {}
    /\ rereading' = {a \in Assets : asset[a].status = "failed"}
    /\ UNCHANGED <<house, imports, asset, worker, messages>>

\* and saves each as it read it, to be copied again.
SaveFailed(a) ==
    /\ a \in rereading /\ rereading' = rereading \ {a}
    /\ SetAsset(a, "pending", None)
    /\ UNCHANGED <<house, imports, worker, messages, events>>

-----------------------------------------------------------------------------

Step(w) == CopyStored(w) \/ CopyFails(w) \/ Attach(w)

Next ==
    \/ \E r \in Records :
          \/ ImportRecord(r) \/ ListAssets(r) \/ CutShort(r)
          \/ \E a \in Assets : AttachListed(r, a)
    \/ \E w \in Workers : Step(w) \/ Crash(w)
    \/ \E w \in Workers, a \in Assets : Claim(w, a) \/ Redelivered(w, a)
    \/ \E a \in Assets : Recover(a) \/ RetryCopy(a) \/ ForceAttach(a) \/ SaveFailed(a)
    \/ \E v \in SUBSET Refs : v \subseteq value \cup {Own} /\ EditField(v)
    \/ RetryFailed

Spec == Init /\ [][Next]_vars

-----------------------------------------------------------------------------
(* Properties.                                                              *)

\* Every column holds a value it can hold, an asset has a token exactly while it is
\* being copied, and only an imported record has pictures left to attach.
TypeOK ==
    /\ value \subseteq Refs /\ kept \in {None} \cup SUBSET Refs
    /\ final \subseteq Records /\ cut \subseteq final
    /\ finishing \in [Records -> {{None}} \cup SUBSET Assets]
    /\ originals \in [Records -> SUBSET Refs]
    /\ expected \in [Records -> {None} \cup SUBSET Refs]
    /\ binding \in [Records -> [Assets -> {"pending", "attached", "overflow", "detached"}]]
    /\ asset \in [Assets -> [status : {"pending", "processing", "succeeded", "failed"},
                             token : Workers \cup {None}]]
    /\ worker \in [Workers -> {Idle} \cup [does : {"copy", "attach"}, asset : Assets]]
    /\ messages \subseteq Assets /\ rereading \subseteq Assets
    /\ events \in 0..MaxEvents
    /\ \A a \in Assets : asset[a].status = "processing" <=> asset[a].token # None
    /\ \A r \in Records : finishing[r] # {} => r \in final

\* What the user has made of the field since the import stays as it is: no picture that
\* arrives later, for whichever package, is added to it, brought back, or takes
\* something away, until he asks for it or imports another package.
UserEditsKept == kept # None => value = kept

Quiet ==
    /\ \A w \in Workers : worker[w] = Idle
    /\ messages = {} /\ \A r \in Records : finishing[r] = {}

\* Whatever the order in which a record is imported and its pictures are stored, in
\* the end each stored picture is in the field, beyond its limit, or detached: none is
\* forgotten, and none called attached is missing. (Except when the worker of the
\* import dies between the end of the import and the attaching.)
AttachedAtRest ==
    Quiet => \A r \in final \ cut, a \in Stored :
        CASE binding[r][a] = "attached" -> a \in expected[r]
          [] binding[r][a] = "overflow" -> a \notin expected[r]
          [] OTHER -> binding[r][a] = "detached"
=============================================================================
