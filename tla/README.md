# Linkcloud Space in TLA+

Linkcloud Space (`src/`) is a platform for real-estate agencies: a Django 5 backend
(`src/apps`, PostgreSQL, Celery) with an admin web frontend and a WeChat mini-program.
This directory holds TLA+ models of the parts that move money, pass a record from hand to
hand, or keep a client in step with the server. TLC checks them on small instances; TLAPS
proves the most important properties for every value of the constants.

- [1. The system](#1-the-system): components, state, operations, what is hard
- [2. The plan](#2-the-plan): modules and how they are composed
- [3. The models](#3-the-models): how each module corresponds to the code
- [4. What is checked](#4-what-is-checked): runs, bounds, fairness
- [5. What is proved](#5-what-is-proved)
- [6. What the code does that its documents do not say](#6-what-the-code-does-that-its-documents-do-not-say)
- [7. What is not modelled](#7-what-is-not-modelled)

## 1. The system

**Concurrency.** Web requests run in several gunicorn processes; background tasks run in
Celery workers (one process by default, `config/deploy/compose.yml:91`) started by requests or
by the schedule in `config/settings/_base.py:323-365`. They share one PostgreSQL database
at READ COMMITTED. There is no transaction per request: a handler is atomic only where it
opens `transaction.atomic()`, and isolated only from those that take the same
`select_for_update()` rows. Outside it stand WeChat Pay, WeChat messages, SMS, maps,
language models and the object store; calls to them may fail, or succeed with their
answer lost. That is where a model checker finds what a test does not: between two saves
of one handler, between a provider's decision and our record of it, and in long sequences
of legal requests by different people.

Each component, its state, its operations, what is hard about it, and what makes it
correct:

| Component | State | Operations | Hard | Correct when |
|---|---|---|---|---|
| **wallet** (`apps/wallet`) | balances, ledger, withdrawal status | credit, adjust, submit, cancel, review, start, retry, result, sync | `create_withdrawal_payout` runs without lock or transaction around a WeChat call | balances never negative, ledger explains them, a withdrawal is paid once and settled or refunded |
| **payouts** (`apps/payments`) | `PayoutTransaction`, WeChat transfer bill | create, query, mark result, notification | lost answers; a reply saved after the notification | the status is WeChat's; the wallet hears of it once |
| **payments** (`apps/payments`) | `PaymentTransaction`, events | checkout, query, close, mark succeeded, notification | success races close; duplicated notification | money taken is booked exactly once |
| **subscriptions** (`apps/subscriptions`) | `Subscription`, `SaaSOrder`, refunds, invoices | trial, purchase, cancel, fulfil, refund, sweep, expire | late payment of a closed order; sweep against user; order of renewals | order and payment agree, paid time is kept, orders come to an end |
| **entitlements** (`apps/subscriptions`) | none of its own: counts rows | quota and feature checks | count without lock | quota is not exceeded |
| **leases** (`apps/house`) | `Lease`, signing registration | create, register, sign, update, terminate | terms frozen by allocations; one active lease of a house | legal transitions, terms fixed while money depends on them |
| **inquiries, viewings** (`apps/house`) | `Inquiry`, `Viewing`, follow-ups | open, assign, schedule, complete, close, sign | signing reads an inquiry someone else closes | legal transitions, one open inquiry of a customer and house |
| **lease allocations** (`apps/house`, `apps/allocation`) | `AllocationRequest`, shares, `LeaseAllocation`, ledger entries | submit, resubmit, correct, review, withdraw, expire, void | long sequences over a lease that changes | a deal is shared out once; entries follow the decision |
| **distribution** (`apps/allocation`) | none | base amount, weights, rounding | leftover cents | shares sum to the total |
| **messaging** (`apps/messaging`, `apps/house`) | conversations, participants, messages, read positions | open, send, read, revoke, close | first messages at once, resend, sending while closing | one conversation per context, one message per client id |
| **conversation page** (`frontend_miniprogram`, `features/messaging`) | messages shown, outbox, cursor, read position wanted | poll, load history, send, retry, report what was read | answers that come late, after the page, the visit or the account has changed | nothing skipped, nothing lost or sent twice, nothing unseen reported as read |
| **media** (`apps/media`) | files, thumbnail jobs, references | upload, confirm, thumbnail, recover, clean up | worker dies; cleanup against a new reference | a job ends; a referenced file stays |
| **data migration** (`apps/data_migration`) | packages, rows, mappings, pictures, worker leases | upload, validate, preview, confirm, import, retry, copy and attach pictures, recover | two workers with one batch after a lease runs out; pictures that arrive around the import | rows imported once; imports end; no picture forgotten, no edit undone |
| **notifications** (`apps/notifications`) | notifications, deliveries per channel | dispatch, deliver, retry, purge | retry of a delivered message | delivered or given up |
| **organizations, teams** (`apps/organizations`, `apps/teams`) | memberships, owner and primary flags, invitations | invite, accept, leave, remove, transfer, choose primary | two transfers at once | an owner, one primary |
| **team operations** (`apps/team_operations`) | announcements, receipts, tasks, assignments | publish, confirm, assign, accept, submit, review, cancel | task status derived from its assignments | a task ends when its assignments have |
| **referrals** (`apps/referrals`) | invitations, qualifications, rewards | bind, qualify, reward | one event, reported twice | rewarded once |
| **accounts** (`apps/accounts`) | users, bindings, verifications | log in, bind, merge, verify | merging in both directions; reviewing an old submission | one user per phone and per WeChat id |
| **house properties, customers**, **commute**, **ai**, **access**, **analytics**, **geography**, **favourites**, **settings**, **platform operations**, **base** | records | create, read, update, delete | little that is ordered | - |

**How they interact.** The wallet calls `payments.create_payout`; payments reports back by
the Django signals `payout_succeeded`, `payout_failed` and `payment_succeeded`, whose
receivers run inside `mark_payout_result` and `mark_payment_succeeded`, in their
transaction, so that an exception in the wallet or in subscriptions undoes the payment's
own record. Referrals credit the wallet through `apply_wallet_credit` with idempotency
keys; allocations keep a ledger of their own. Leases and allocations share
the organization's row lock; a lease's change ends or is refused by its requests.
Subscriptions queue a Celery task after commit to close a payment at WeChat. Entitlements
are read by organizations, house, media and data migration. Everything that notifies does
so after commit.

`PROJECT.json` lists every component with its status, and under `hazards` each place in
this code that a test would hardly reach, with the properties that watch it or a note
saying why none does.

## 2. The plan

Money first, because that is where an order nobody tested costs something; then work
handed between workers; then shared records.

| | Module | About |
|---|---|---|
| 1 | `WithdrawalPromise` | abstract: what a wallet promises its user |
| 2 | `WalletPayout` | wallet, payouts, WeChat transfers; implements 1 |
| 3 | `WalletPayout_proofs` | types, no overdraft, no money made, truthful payouts, closed requests |
| | `WalletLedger_proofs` | extends it: the sums over the ledger, money conserved |
| | `WalletSerial_proofs` | extends that: with one request at a time no second payout, frozen money backed, and 2 implements 1 |
| 4 | `SaaSOrders` | orders, payments, subscriptions, the sweep |
| 5 | `SaaSOrders_proofs` | all six safety properties |
| 6 | `LeaseAllocations` | leases and the requests made for them |
| 7 | `LeaseAllocations_proofs` | all five safety properties |
| 8 | `Messaging` | the log of a conversation and the page that follows it |
| 9 | `Messaging_proofs` | all four safety properties |
| 10 | `MigrationBatches` | packages, rows, worker leases, the recovery every minute |
| 11 | `MigrationBatches_proofs` | all three safety properties |
| 12 | `MigrationMedia` | pictures copied and attached while their house is imported and edited |
| 13 | `MigrationMedia_proofs` | all three safety properties |

`MC...` modules hold what only TLC needs, symmetry sets and constants that a configuration
cannot write.

Composition: `WalletPayout` contains wallet, payouts and provider, because the receiver of
the payout signals runs in the sender's transaction; `SaaSOrders` contains payments and
subscriptions for the same reason; `Messaging` contains the server's log and the client,
because every hazard of the client is about what the server has done meanwhile.
`MigrationMedia` begins where `MigrationBatches` ends a row.

Worth doing next, in this order: `MediaThumbnails` (jobs, recovery, cleanup),
`Organizations` (owners, primary organization, invitations, quota), `Distribution` (the
rounding of shares), `Inquiries` (composed with the leases that signing connects them
with), `TeamOperations`.

## 3. The models

All models follow the same rules. A handler that runs in one transaction under row
locks that every writer of those rows takes is **one action**, with everything it calls.
A handler that does not is **one action per read, save or provider call**, and everything
else may happen in between. A call that changes nothing (an idempotent replay, a refused
request, a rolled-back transaction) is a stuttering step. Names follow the code.
`PROJECT.json` maps each definition to its lines. Definitions whose comment begins with
"Mutation" are not part of a model: each is a plausible bug by which a property is shown
to be able to fail.

### WalletPayout

One user's wallet. `available`, `frozen`, `income`, `withdrawn` are the columns of
`WalletAccount`; `ledger` holds key and delta of each `WalletLedger` row; `status` and
`amount` are the `WithdrawalRequest`s; `pstatus` and `owner` the `PayoutTransaction`s;
`transfer` and `bill` what WeChat did with each `out_bill_no` (external), `denied` the orders
it took and answered with an error (auxiliary); `pc` and `job` where each admin's request
stands.

| Code | Actions |
|---|---|
| `apply_wallet_credit`, `apply_wallet_adjustment` | `Credit`, `Decrease` |
| `submit_withdrawal`, `cancel_withdrawal`, `approve_withdrawal` | `Submit`, `Cancel`, `Approve`, `Reject` |
| `create_withdrawal_payout` with `payments.create_payout` | `StartPayout` (reads), `ClaimPayout` (save), `CreateRow`, `CallProvider`, `RecordReply`, `SignalRefusal`, `UndoClaim` |
| `retry_withdrawal_payout` | `StartRetry`, `RetryCommits`, `RetryRollsBack`, and `ReplayRetry` for a key that has a row |
| `mark_payout_result`, `handle_payout_result`, the notification | `MarkPayout`, `HandleResult`, `Callback` |
| `sync_processing_withdrawals` | `Sync` |
| WeChat; the process | `Accept`, `Deny`, `ProviderSettle`; `Crash` |

`CallProvider` has five outcomes: accepted, refused, no answer and no order (`"lost"`), no
answer although WeChat took the order (`"timeout"`), and an error status although WeChat took
the order (`"error"`: a gateway's 502 or 504, WeChat's SYSTEM_ERROR), which the code takes for
a refusal like every status but a 2xx (`payments/wechat.py:165,298`). `Faults` says which are
allowed.
Abstractions: the wallets of different users share nothing, so there is one; the fee is
part of the sum; an idempotency key and the transfer number made for it are one
identifier; `Sync` may look at any open payout of a withdrawal where the code takes the
newest (`Callback` can deliver the same result for any).

### WithdrawalPromise

The abstract specification: money is free, held for a withdrawal, or paid out; a held sum
is sent at most once and then settled, or returned unsent. The refinement mapping
(`Promise` in `WalletPayout`) reads `held` from the three statuses that hold money,
`returned` from failed, cancelled and rejected, and `sent` from WeChat's side, so that it
relates our records to what really happened to the money.

### SaaSOrders

`order`, `ostatus`, `reason`, `refunded` are `SaaSOrder` and its refund; `pstatus` is the
`PaymentTransaction`, `wx` and `paidAt` the payment at WeChat (external); `sub` is each
organization's `Subscription`; `sweep` is the order between the query and the closing of
`close_expired_orders`; `now` is a clock that stops at `Horizon`.

| Code | Actions |
|---|---|
| `grant_trial`, `expire_subscriptions` | `GrantTrial`, `ExpireSubscriptions` |
| `create_purchase_order`, `cancel_purchase_order`, `refund_order` | `Purchase`, `Cancel`, `RefundKeep`, `RefundEnd` |
| `initiate_wechat_payment`, `start_checkout` | `Checkout` |
| `mark_payment_succeeded`, `fulfill_saas_order_payment`, `_apply_paid_order` | `Succeed`, `Applied`, by `Notify` or `Reconcile` |
| `refresh_order_payment`, `reconcile_saas_order_payment` | `Refresh`, `Reconcile` |
| `close_expired_saas_orders_task` | `SweepQuery`, `SweepClose`, `SweepDies` |
| `close_saas_order_in_wechat_task` | `CloseAtWechat` |
| WeChat, its user, time | `Pay`, `ExpireAtWechat`, `Tick` |

Abstractions: credits for an upgrade and mismatches of amount, currency or merchant are
left out; the event row of a notification is, too, because booking is idempotent without
it. `Checkout` may follow a cancellation since the handler reads the order before it
calls WeChat and never again. The closing task is retried and then given up, so it comes
any number of times or never. The first loop of the sweep, over orders that have not
expired, does for each of them what `Refresh` does. Two sweeps do not overlap (one worker).

### LeaseAllocations

`lstatus` and `terms` are `Lease`; `rule` the distribution rule in force; `req` the
`AllocationRequest`s with the snapshot they were submitted with; `due` those older than
seven days; `posted` and `reversed` the ledger entries of each share. Every handler first
locks the organization's row, so each is one action, and what is hard is the order people
call them in.

| Code | Actions |
|---|---|
| `create_lease`, `register_signing`, `create_lease_with_allocation`, `update_lease` with `cancel_terminated_lease_allocations` | `CreateLease`, `RegisterSigning`, `SignLease`, `UpdateLease` |
| `submit_lease_allocation` in its three modes | `SubmitAnew`, `Resubmit` |
| `review_lease_allocation` | `ReviewTooLate`, `Approve`, `Reject` |
| `withdraw_`, `void_`, `expire_lease_allocation` | `Withdraw`, `Void`, `Expire` |
| settings; time | `ChangeRule`; `BecomeDue` |

Abstractions: terms and rules are opaque values (a snapshot equals the lease or it does
not); ages are one flag; members, permissions, amounts, manual entries, the status of the
house and the uniqueness of its active lease are left out; deleting a team, which changes
a lease's team behind `update_lease`, is left aside. The preview's hash is compared in the
same locked step that creates the request, so submission uses the lease and rule as they
are.

### Messaging

One conversation of the mini program's user with a peer. On the server `log` is the
`Message` rows by `seq`, `lastRead` the user's `ConversationMember.last_read_seq`, `closed`
the status. On the client `messages`, `outbox` (`pendingByContext`), `receivedSequence`,
`wantedReadSequence` and `conversation` are the controller's fields, `active` and `atBottom`
the page's, `context` the controller's context with the account behind it. `listing`,
`history`, `reading` and `sending` are the calls under way whose answers will be heeded.
`seen` and `base` are ghosts: what the user has had on the screen, and where the first page
began.

| Code | Actions |
|---|---|
| `send_message`, the peer's and the user's; `close_context_conversations` | `PeerSends`, `Store`, `Close` |
| `mark_read` with `markVisible`, `flushRead` | `MarkVisible` (in `Published`), `ReadAnswered`, `ReadFails` |
| `setContext`, `setAccount`, the page's watchers of them, `activate`, `deactivate` | `Enter`, `Leave`, `Activate`, `Deactivate` |
| `refresh`, started by the poller | `Refresh`, `RefreshPage`, `RefreshFails` |
| `loadHistory` | `LoadHistory`, `HistoryPage`, `HistoryFails` |
| `send`, `sendHouse`, `retry`, `sendPending` | `Send`, `Retry`, `Receipt`, `SendFails` |
| the page's `onScroll`, `scrollToBottom`, watchers of `messages` and `pending` | `Scroll`, `Published` |

Abstractions: a request to send stays on its way for ever, so that it arrives late, twice,
or after it was given up. `generation` and `requestEpoch` are not counters: raising one
drops the calls it makes stale, except the report of a read position, which also when stale
keeps the next one waiting (`fresh`). The read of the conversation and the request for the
first listing are one action; the listing may be as old as its request. What a message
shows, the kinds of messages, and participants who lose access are left out.

### MigrationBatches

Packages of one organization that describe the same rows. `status`, `runToken`, `leased`,
`decided` are columns of `MigrationBatch`; `state` and `plan` of `MigrationRecord`, a plan
being an action, the object it is for and the version of the mapping it was made by;
`mapping` is the row's `MigrationObjectMapping`, the object and what was said of it; `targets`
counts the objects each package created for a row, `gone` are the objects the user deleted;
`worker` is where each Celery worker stands, `retrying` the one call of `retry_batch`
under way. `asked` is a ghost: the rows of a package for which the user ever asked for a new
object.

A preview plans by the user's decisions, which stay with the package and are used again by
the next preview that brings none: nothing, to keep or update the mapped object (`"use"`, the
field `migration_action`), to tie the row to another object (`"tie"`, a `target_id`), or to
create it whatever it is mapped to (`"anew"`, the `target_id` 0). A target that is gone plans
a creation too, and blocks the package until the user decides. In each case the plan carries
the mapping's version, so that `execute_record` does not take it for out of date.

| Code | Actions |
|---|---|
| `validate_package`, `validate_batch` | `ClaimValidation`, `LookForRecords`, `ReadPackage`, `ReadFails`, `FindRecords`, `PreviewValidated`, `StoreFailed`, `GiveBack` |
| `preview_batch`, `confirm_batch`; the user deletes an object | `Preview`, `Confirm`; `Delete` |
| `retry_batch` | `RetryUpload`, `SaveUpload`; `RetryPreview`, `ResetFailed`, `RetryConfirm` |
| `execute_batch`, `execute_record` | `ClaimImport`, `ExecuteRecord`, `LeaseLost`, `Finish` |
| `recover_migration_tasks`; the worker | `LeaseExpires`; `Crash` |

Abstractions: what a package says of a row is an opaque content; messages to workers are
not modelled, since the recovery task sends them every minute and a superfluous one finds
nothing to do; an object is known by the package that made it, and there is one other (`Other`)
that a row may be tied to; keeping and updating an object are one action and one final state
(`"updated"`), since neither makes an object; the fields the user fills in, what is wrong
with them, duplicates, and a target that was changed meanwhile are not data of the model, but
the reasons for which the confirmation within a retry may be refused and for which a row may
fail at any time, as are the references of one row to another; rows of teams, staff and
relations, which are never created, are left out; `RetryPreview` reads the package and
previews it in one step; saving the uploaded package again (`SaveUpload`) also rewrites its
manifest and source, which are not modelled. A worker's death, a lease that runs out under a
working worker and a deleted object are counted by `MaxMishaps`, a lease that runs out under
nobody is not; a preview with new decisions is counted by `MaxChoices`.

### MigrationMedia

The pictures of one house that several packages describe, each with its own record of it.
`value` is the house's field; `originals` and `expected` what `prepared` notes of it;
`binding` the `MigrationAssetBinding`s; `asset` status and token of each `MigrationAsset`;
`finishing` what the end of `execute_batch` has still to attach. `kept` and `cut` are
ghosts: the field as the user left it, and the records whose import died too early.

| Code | Actions |
|---|---|
| `attach_asset` | `Attached`, `AttachFrom`, `AttachAsset`, in the actions that call it |
| `execute_record`, the end of `execute_batch` | `ImportRecord`, `ListAssets`, `AttachListed`; `CutShort` |
| `migrate_asset` | `Claim`, `Redelivered`, `CopyStored`, `CopyFails`, `Attach`; `Crash` |
| `recover_migration_tasks` | `Recover` |
| `retry_asset`, `retry_batch`; the user | `RetryCopy`, `ForceAttach`, `RetryFailed`, `SaveFailed`; `EditField` |

Abstractions: an asset stands for the file it was copied to; the field is a set and its
order the assets' positions; attempts are not counted, so that a copy fails for good or for
now at will; "missing" is one way of failing; `media_status`, a summary, is left out.
Every record has a target with pictures: `attach_asset` also passes over a record whose source
was deleted, whose target is missing, or whose target is no house, building or team
(`execution.py:149-161`), and nothing is claimed of such records. `Reopened` calls a binding
pending as soon as it is active again; in the row it stays detached until it is next attached,
which only summaries and a second `retry_asset`, to no effect, read. `SaveFailed` saves a stale asset with all its columns, also
`media_file` and `source_url`, which are not data of the model.

## 4. What is checked

Runs that must pass:

| Run | Instance | Distinct states | Shows |
|---|---|---|---|
| `wallet_serial` | 2 withdrawals, 2 payout keys, 1 admin, sums 1 and 2, orders may be lost | 72,331 | the wallet implements `WithdrawalPromise`; frozen money backs requests; no payout twice; success settles and a first round ends |
| `wallet_races` | as above with 2 admins, one sum, every fault, symmetric keys | 415,218 | what survives everything: no overdraft, no money made, the ledger explains the balance, one settlement, truthful payouts, closed requests stay closed |
| `saas_orders` | 1 organization, 2 orders, 2 plans, cycles of 2, at most 3 ahead, clock to 2 | 111,049 | one pending order, order and payment agree, three-year limit, paid time kept, money of first purchases settles, known orders end |
| `lease_allocations` | 1 lease, 3 requests, 2 terms, 2 rules | 177,916 | nothing shared out twice, terms fixed, entries follow, resubmission faithful, every request ends |
| `messaging` | 1 own message, 3 of the peer's, pages of 2 | 360,167 | stored once and never lost, nothing skipped, nothing unseen reported, what is seen is reported in the end |
| `migration_batches` | 2 packages, 1 row, same or different contents, 2 workers, at most 1 mishap and 1 new decision | 766,500 | one object per row unless the user wants another, completed means done, imports end |
| `migration_media` | 2 pictures, 2 records, 2 symmetric workers, a field of 2, 2 events | 878,731 | the user's edits stay, no stored picture is forgotten |

Runs that must find a violation, each the smallest instance that shows a disagreement of
[section 6](#6-what-the-code-does-that-its-documents-do-not-say): `wallet_two_admins`,
`wallet_timeout`, `wallet_second_failure`, `saas_late_upgrade`, `saas_never_checked_out`.

**Why the bounds are enough.** Wallet: two withdrawals let one be frozen, refused or
retried while the other moves; two keys give a withdrawal two rounds, and two withdrawals
one key; two admins are the least that race; two credits of two sums leave too little for
one of them. SaaS: two orders are the least that supersede, renew, upgrade or arrive out
of order; the limit of three refuses a renewal of two at one moment and allows it at the next; a clock of two
lets an order (life 1) expire and a trial (1) end before a payment is booked, and a
payment wait past both. Leases: three requests allow a correction of a resubmission and a
resubmission of that; two terms and rules are the least that differ; leases share nothing
but the rule. Messaging: four messages on pages of two make a first page with history before
it and a next page that is full; one message of the user's own lies before, on and after
each boundary. Batches: two packages, two workers and a mishap are the least that let one
worker take over from another and a second package import the row in between; one decision
made anew and stored is reused by every later preview and retry; rows are
worked on one by one, so that more of them repeat the same (the proofs cover every
number, and every number of mishaps and decisions). A behaviour begins with both packages
uploaded, the first one previewed, or both (`MCStart`): the further back it begins, the
fewer of the mishap and the decision happen, none when nothing was read, one of them when
one package was, both when both were. Media: two pictures and records are the least that attach in different orders, a
field of two is full when the user adds one of his own; the instance with three events was
run once (6,245,801 states, no error) and is too long to repeat. `Horizon`, `Lifetime`, `MaxLength`, `MaxPeer`, `MaxMishaps`, `MaxChoices`, `MaxEvents` and the sets of
keys and messages are the only bounds;
there are no state constraints, and no starts left out but those of `MCStart`. Deadlock checking is off where a
system stops: when the keys, events or mishaps are used up and nothing is left to do.

**Fairness.** Nobody is assumed to submit, review, start, retry, buy, pay or refresh
anything. Assumed are:

- wallet: weak fairness of the code a started request still has to run, and of WeChat
  finishing what it accepted; strong fairness of the notification, since WeChat repeats it
  until it is answered and the wallet may be locked by a retry each time. The sync task has
  none: no schedule names it. `Crash` is not disabled by fairness, but `wallet_serial`,
  which checks liveness, has no crash among its faults: after a crash a claimed withdrawal
  with no payout stays in payment.
- SaaS: weak fairness of the clock; strong fairness of the sweep's query of an order that
  it reaches (WeChat does not fail every query, and the loop is not ended by an earlier
  order), of its closing (the worker does not die each time), and of the notification.
- leases: weak fairness of time and of the expiry task, which runs every five minutes.
- messaging: weak fairness of the poller's timer; strong fairness of the answers to a
  listing and to a report, which are asked for again and again, while each single one may
  fail. Nobody need write, scroll or stay.
- batches: weak fairness of a worker that has started and of time; strong fairness of the
  claim of a batch to be imported, since `recover_migration_tasks` sends it every minute.
- media: no liveness is claimed, and no fairness assumed.

Every property of every passing run has a mutant in `PROJECT.json`, a plausible bug under
which TLC finds it violated.

## 5. What is proved

TLAPS proves, for every value of the constants:

| Theorem | States |
|---|---|
| `WalletPayout_proofs!TypeCorrect` | the type invariant, which includes that a started request works on a submitted withdrawal (`JobsExist`) and owns its payout row from the call on (`RowsExist`) |
| `WalletPayout_proofs!NeverOverdrawn` | `available` is never negative, with any number of admins and every fault |
| `WalletPayout_proofs!NoMoneyMade` | available, frozen and withdrawn never exceed what was credited |
| `WalletPayout_proofs!StatusTellsTruth` | a payout is stored as succeeded only when it is so at WeChat, and as failed only when no money is under way or arrived under its number, or WeChat itself answered its order with an error |
| `WalletPayout_proofs!ClosedForGood` | a request that was cancelled or rejected stays so (`ClosedStaysClosed`) |
| `WalletLedger_proofs!LedgerIsComplete` | the available balance is the sum of the ledger's entries (`LedgerExplains`) |
| `WalletLedger_proofs!MoneyConserved` | available, frozen and withdrawn add up to what was credited, less what was taken back (`Conservation`) |
| `WalletLedger_proofs!EachWithdrawnOnce` | what is counted as withdrawn is the sum of the settled requests, each once (`WithdrawnOnce`) |
| `WalletSerial_proofs!NobodyPaidTwice`, `SentStaysHeld`, `FrozenIsBacked` | under `OneAtATime`: `SinglePayment`, `MoneySentIsHeld`, `FrozenBacksRequests` |
| `WalletSerial_proofs!NeitherBalanceNegative` | under `OneAtATime`, with what was proved before: neither balance is negative, the property that `wallet_two_admins` refutes for two admins |
| `WalletSerial_proofs!PromiseKept` | under `OneAtATime`: `WalletPayout` implements `WithdrawalPromise` |
| `LeaseAllocations_proofs!TypeCorrect`, `NotSharedTwice`, `ReviewedAsIs`, `EntriesFollowRequests`, `NothingRevived` | the five safety properties of the allocations |
| `SaaSOrders_proofs!TypeCorrect`, `PendingIsSingle`, `MoneyMatchesOrders`, `OrdersStepLegally`, `NeverTooLong`, `PaidTimeIsKept` | the types, `OnePending`, `PaidTogether`, `LegalOrderSteps`, `WithinThreeYears`, `PaidTimeKept` |
| `Messaging_proofs!TypeCorrect`, `DeliveredOnce`, `NothingSkipped`, `ReadsNothingUnseen` | the types, `Delivery`, `CursorComplete`, `ReadCovered` |
| `MigrationBatches_proofs!TypeCorrect`, `RowsImportedOnce`, `CompletedIsDone` | the types, `ImportedOnce`, `CompletedMeansDone` |
| `MigrationMedia_proofs!TypeCorrect`, `EditsStay`, `NothingLeftBehind` | the types, `UserEditsKept`, `AttachedAtRest` |

**The arguments.** `TypeOK` of the wallet is inductive. It has to contain `JobsExist` and
`RowsExist`: without the first a stale handler's blind save of `PAYING` could give a status,
and a settlement, to a withdrawal that has no sum; without the second a refusal could be
signalled to no withdrawal at all. The two properties of balances follow
from one lemma, `StepBalances`, which bounds what any step does to them: note that it holds
although `frozen` may become negative, because every handler that unfreezes gives back or
settles the same sum it takes. For `StatusTellsTruth` the invariant is
`PayoutsTruthful /\ CallsTruthful`: a row has one caller, for only its creator goes on to
call WeChat; while the call is outstanding the row can only be changed by a result; what
WeChat refused is not under way under that number, unless it took the order and answered it
with an error (`denied`), for which the code gives no guarantee at all (section 6). What is
left to prove is that nothing else, no silence, no late or repeated result and no blind save,
makes a payout look failed whose money is under way. The provider's own rules (a number
answers for one withdrawal) are used here, and modelled as external.

`ClosedForGood` needs `ReviewedInv`: whoever is working on a payout, and every row of one,
belongs to a request that was approved. `StepSaves` then goes through the handlers that
store a status without looking at the present one.

*The sums.* A sum over a set is a recursive function on its subsets. That it exists, is
unique, and does not depend on the order of the elements is proved in
`WalletLedger_proofs` by a minimal counterexample (`MinimalSubset`, from the well-founded
order of strict subsets), since an induction rule with a predicate for a parameter cannot
be used. From it come the two facts that the steps need: the sum of the same (`SumOfSame`)
and the sum of one more (`SumOfMore`). The rest says what a step posts (`StepPosts`): no
entry, or exactly one with a key that was not used, moving the three balances accordingly;
and that no step changes the sum of a request that exists (`StepKeepsAmounts`).

*One request at a time.* `OneAtATime` is a hypothesis on the constants: one admin, and
faults among `{"lost"}`, that is, WeChat answers every order it takes, with its acceptance.
The code does not enforce it. Two admins can take `frozen` below
zero (`wallet_two_admins`); an answer lost after WeChat took the order can pay twice
(`wallet_timeout`), and so can an error status in its place; and a process that dies in a retry leaves an order with no row, on which
the argument rests. As long as none of these happens, the five theorems hold for any number
of requests, rounds and sums.
A transfer is `Active` when its result may still change the wallet, or has
paid. `SerialInv` says that an active transfer's request is held, that a request has at
most one, that a paid request has one that arrived, and of the handler that is running
(`QuietJob`) that its request has none until it calls. A transfer that failed stops being
active with the refund, because a later failure finds the refund's key used; this is what
makes a second round safe, and also what strands it (`wallet_second_failure`).
`FrozenInv` follows from what each step does to the money of one request (`MoneyStep`:
nothing, a credit, a hold, a return of what was not sent, a settlement of what was), and the
same classification, with `SentMoves` for WeChat's side, maps each step to a step of
`WithdrawalPromise` or a stutter.

For the allocations the conjunction `IInv` of the five properties is inductive as it
stands. They are proved together because one step disturbs several of them, by one lemma
for each kind of step: a new request (which finds no effective one of its lease, and takes
the lease's terms), a change of a request's status (only a pending request changes, or an
approved one is voided, so that what a resubmission repeats stays ended and is never
voided), and a change of the lease (which keeps the terms while a request is effective and
withdraws what is pending when it terminates).

For the orders, three invariants are each inductive with the types. `OnlyOne` restates
`OnePending` without counting. `PaidTogether` is inductive as it stands. `Lasting` adds to
`WithinThreeYears` that money was taken in the past (`PaidInPast`) and that a trialing
subscription is a trial (`TrialsAreTrials`); with them a running paid subscription is always
extended by a renewal, from which `PaidTimeKept` follows. `Reported` says once what the
notification, the query by the user and the query by the sweep have in common.

For the conversation, `Known` adds to the types what they rest on: a report that is still
wanted belongs to a conversation, and history is asked for only where there are messages.
`Shaped` is the shape of what is shown: the first page's beginning is on the screen and the
history asked for does not lie behind it, up to the cursor nothing is missing, and before
the first page only messages of the user's own are there. `CursorComplete` is part of it.
`Covered` says of each of the four read positions (stored, known, wanted, under way) that
all up to it was seen: it is the shape that lets a position cover everything before it.
`Delivered` needs the shape where a page of history is merged without being confirmed.

For the packages, `ImportedOnce` has two parts, which rest on different facts. `Accounted`,
that no package makes a second object of a row and that an imported row is mapped, is
inductive with the types: a row that is final is passed over by every worker, whatever was
planned for it. `CreatesOnce`, that an object is made only of a row that has none, needs
`PlansFit`: a plan creates only where it saw no mapping, or where it may (`MayCreate`): the
user has asked for it, or the object the row had, or was tied to, is gone. That the user's
wish is known of every decision in store, of those a preview under way has read included, is
`WishesKept`. A worker that was replaced, a second worker or a second package then finds
either the mapping it planned with or one that makes it skip or fail. The exceptions are
those of the property, and none can be spared: without the one for what the user asked for
TLC finds a plan made anew that is carried out although the other package has made the
object; those for deleted objects need a batch whose status a slow validation wrote over,
and are longer than the run's bounds. `CompletedMeansDone` is
inductive with the types, because nothing that was imported is ever set back, and only
`Finish`, which looks at every row, calls a batch completed.

For the pictures, one attaching visits every record of the house, and each visit may change
the field that the next one reads. `AfterEach` is therefore a recursive function over the
records, and what the last visit leaves is proved from what each visit does by the least
record for which it fails (`Least`, `AttachedToAll`): the field changes only where it is as
an import left it, and afterwards each record has noted the picture or has been found
edited. `EditInv` says that while an edit of the user's is to be kept the field is not as any
record expects it, so no attaching touches it. `RestInv` says of every stored picture and every
imported record that was not cut short that the two are settled or that somebody has still to
attach it (`UnderWay`: a worker, a message, or the end of `execute_batch`); at rest nobody
has.

**Assumptions** are those named in the modules: `AmountsPositive`, `WithdrawalIds`,
`NoJobOutside` (wallet); `RequestIds`, `TermsExist` (allocations); `OrderIds`, `Lengths`
(orders: cycles and trials are not longer than the limit, and there is a cycle);
`PageSizeIsPositive`, `MaxPeerIsNatural`, `PeerIsNoId`, `NoneIsNoConversation`
(conversation); `ExportsHaveContents`, `RowsExist`, `MishapsAreCounted`, `OtherIsOther`, `NoneIsNothing`
(packages); `PositionsOrder`, `Bounds`, `NoneIsNothing` (pictures). TLC evaluates them in
every run. The hypothesis `OneAtATime` is stated in the theorems that need it; the run
`wallet_serial` satisfies it.

**Only model-checked**: liveness under fairness, which is beyond the prover
(`SuccessSettles`, `FirstRoundEnds`, `FirstPaymentSettles`, `ExpiredKnownOrdersEnd`,
`PendingEnds`, `ReadCatchesUp`, `ImportEnds`), and the five disagreements of section 6.
Every safety invariant and action property of the passing runs, and the refinement, is a
theorem.

## 6. What the code does that its documents do not say

1. **Frozen balance below zero** (`wallet_two_admins`). Two admins start one withdrawal at
   once. The first is paid; the second, which read `APPROVED` before, saves `PAYING` over
   `PAID`, is refused, and refunds a sum that was already settled.
   The wallet's design says neither balance may be negative. No money is made
   (`NoMoneyMade`): the excess in `available` is the deficit in `frozen`.
2. **Paid twice after a lost answer** (`wallet_timeout`). Any exception of the WeChat call,
   a timeout included, puts the withdrawal back to `APPROVED`; started again under another
   key, it is paid again. The design says one round makes one effective request.
3. **A second failed round is never refunded** (`wallet_second_failure`). The refund's
   ledger key names the withdrawal, not the round, so the second refund is refused by the
   unique key, and the withdrawal stays in payment with its sum frozen.
4. **A late upgrade cannot be booked** (`saas_late_upgrade`). When the subscription it
   upgrades has ended, every notification of its payment raises and is rolled back; the
   order stays closed and the payment pending, although the design says late money is
   still fulfilled.
5. **An order never taken to WeChat is never closed** (`saas_never_checked_out`). The sweep
   queries before it closes, the query of an unknown order fails, and the order is passed
   over, although the design says pending orders are closed after 30 minutes. (The next
   purchase supersedes it.)

Seen while modelling, and stated in the models' properties and comments rather than in
runs of their own:

- *Payouts.* `create_payout` of the WeChat client takes every status but a 2xx for a refusal,
  also one that says nothing of the order (`payments/wechat.py:165,298`): the payout is stored
  as failed and the sum refunded although WeChat took the order
  (`payments/services.py:123,136-139`); when the money arrives, the notification finds a
  payout that is final and is refused for good, and the withdrawal may be
  retried and paid again. It is the exception in `PayoutsTruthful`, a fault of `wallet_races`,
  and outside the hypothesis of `wallet_serial`.
- *Stuck withdrawals.* A process that dies after the claim of a withdrawal is committed
  and before its payout row is leaves it in payment for ever with its sum frozen: nothing
  starts, retries or queries it. No property forbids that; `wallet_races` shows that no money
  is lost by it.
- *Sync.* No schedule runs the wallet's sync task (`wallet/tasks.py:6`), and its loop
  (`wallet/services.py:257`) ends at the first withdrawal whose query raises. No property relies
  on it: what settles in the end does so by the notification alone.
- *Orders.* The business exception of case 4 is caught in neither loop of the sweep, so one
  such order stops the sweep: while it has not expired, before any order is closed; then,
  newest first, for every older order of every organization (`Blocked`, the exception in
  `ExpiredKnownOrdersEnd`). A first purchase paid late starts at its own
  payment and may shorten time paid for by another (the exception in `PaidTimeKept`). A late
  upgrade takes its own plan even when the subscription has moved to a higher one.
- *Conversation.* `loadHistory` merges a page without taking from the outbox what it
  brings: an own message that was stored although its call failed may stand on the screen
  both as sent and as failed, below the first page (the `base` in `Delivery`). The receipt
  of a message that lies far back (its first request arrived long before) leaves a gap above
  it that history, which is asked for before the oldest message shown, never fills (the
  exception in `CursorComplete`).
- *Pictures.* The batch is called completed before the pictures that are stored already are
  attached; a worker that dies in between leaves them out, and no task takes it up (`cut`).
  A picture that was attached and is copied again is missing from the field for a while when
  another one is attached meanwhile. When two packages describe a house, the first one's
  attaching changes the field under the second one's record, whose pictures are then
  detached as if the user had edited it. `update_media_status` takes no lock and may store a
  summary that is out of date.
- *Packages.* `validate_batch` stores FAILED over whatever the batch has become: a batch
  validated by another worker, confirmed and importing is then called failed, another
  package may be confirmed beside it, and `retry_batch` does nothing for a failed batch
  that has records; a preview brings it back. A decision to create a row anew stays in
  `batch.decisions`: a retry, or a preview that a slow validation makes with the decisions it has
  read, uses it again for whatever mapping the row has by then, and the plan carries that
  mapping's version, so that a second object is made which nobody wanted. The plan of a row
  whose object was deleted creates, too. It blocks the package (`invalid_mapping`) until the
  user decides, but a worker that is importing the package at the time, because a slow
  validation wrote over its status, carries it out.
- *Session of the mini program* (read, not modelled: `infra/http/client.ts:94-160`,
  `core/auth/session-recovery.ts`). A 401 that answers a request made with an old token,
  after the session was recovered, starts a second recovery and drops the valid token; a
  late automatic login may replace a manual one made meanwhile.
- Signing does not look at the inquiry's status.

## 7. What is not modelled

- Left for later (section 2): media thumbnails and cleanup, organizations with
  entitlements, distribution, inquiries and viewings, team operations, notifications,
  referrals and accounts. Where `PROJECT.json` lists a hazard of theirs it has no property
  yet. Known beyond those: the wallet's sync task is in no schedule (`wallet/tasks.py:6`);
  two merges of accounts may lock them in opposite orders (`accounts/services.py:222`); a
  review of a verification may overwrite a newer submission (`accounts/services.py:463`);
  signing may close an inquiry that is closed already (`house/services/leases.py:59`); a
  task with a rejected assignment does not end by itself
  (`team_operations/services.py:267`); the preview's hash guards a submission against a rule
  that changed (`house/services/allocations.py:422`); two first messages may create a
  conversation at once (`messaging/services.py:107`).
- Left out: house properties, contacts and customers, geography, favourites, settings,
  access, platform operations and analytics are record keeping or lookups on single rows;
  commute and ai are calls to providers around a calculation or a prompt; base is shared
  plumbing.
- The frontends are, by lines, most of the repository: pages, styles and clients generated
  from the API. They keep no state that outlives a page and follow no protocol, with two
  exceptions in the mini program, the conversation page, which is modelled, and the
  recovery of its session, which is not.
- The Django admin site: its pages write single rows past the handlers. One of them matters to
  a property: `LeaseAdmin` can terminate a lease without withdrawing its pending requests.
- `SaaSOrders` has one organization. An order that raises ends the sweep for the orders of every
  other organization behind it, too, which `ExpiredKnownOrdersEnd` excuses (`Blocked`) and does not
  show.
- Within the modelled components: invoices, sales leads and notifications of
  subscriptions; amounts and permissions of allocations; `reconcile_wallet_state`, which
  counts and changes nothing; participants who lose access to a conversation; rows of a
  package that are never created (teams, staff, relations), and the references between rows.
