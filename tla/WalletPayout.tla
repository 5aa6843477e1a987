---------------------------- MODULE WalletPayout ----------------------------
(* One user's wallet: its balances and ledger, the withdrawal requests made *)
(* against it, the payout transactions that carry them to WeChat, and the   *)
(* admins' requests that start a payout.  (src/apps/wallet/services.py,     *)
(* src/apps/payments/services.py.)                                          *)
(*                                                                          *)
(* A handler that runs in one database transaction under the withdrawal's   *)
(* and the wallet's row locks is one action.  create_withdrawal_payout runs *)
(* in none: each of its reads, saves and calls is an action, and everything *)
(* else may happen between two of them.  retry_withdrawal_payout runs the   *)
(* same code inside one transaction and holds both locks while it waits for *)
(* WeChat: it is two actions, with the locks held in between.               *)
EXTENDS Integers, Functions

CONSTANTS
    Withdrawals,  \* withdrawal requests, as primary keys (the order of the sync task)
    Payouts,      \* idempotency keys of payouts; each with its own out_trade_no
    Admins,       \* requests that may run at the same time
    Amounts,      \* sums of a credit, an adjustment or a withdrawal
    CreditKeys,   \* idempotency keys of credits and of adjustments
    ReviewKeys,   \* idempotency keys of reviews
    Faults,       \* what may go wrong: "lost", "timeout", "error", "crash"
    NoJob         \* the job of an idle admin

ASSUME AmountsPositive == Amounts \subseteq Nat \ {0}
ASSUME WithdrawalIds == Withdrawals \subseteq Nat \ {0}
ASSUME NoJobOutside == NoJob \notin [w : Withdrawals, p : Payouts]

VARIABLES
    available,  \* WalletAccount.available_balance
    frozen,     \* WalletAccount.frozen_balance
    income,     \* WalletAccount.total_income
    withdrawn,  \* WalletAccount.total_withdrawn
    ledger,     \* WalletLedger: idempotency key and amount_delta of each entry
    status,     \* WithdrawalRequest.status, "none" before the request
    amount,     \* WithdrawalRequest.amount, 0 before the request
    pstatus,    \* PayoutTransaction.status, "absent" before the row
    owner,      \* PayoutTransaction.biz_id
    transfer,   \* at WeChat: "none", "accepted", "success" or "fail"
    bill,       \* at WeChat: the withdrawal a transfer was accepted for
    denied,     \* auxiliary: rows whose order WeChat took and answered with an error
    pc,         \* where each admin's request stands
    job         \* the withdrawal and the payout it works on

walletVars == <<available, frozen, income, withdrawn, ledger, status, amount>>
payoutVars == <<pstatus, owner>>
providerVars == <<transfer, bill, denied>>
handlerVars == <<pc, job>>
vars == <<walletVars, payoutVars, providerVars, handlerVars>>

Statuses == {"none", "pending_review", "approved", "paying",
             "paid", "failed", "rejected", "cancelled"}
Holding == {"pending_review", "approved", "paying"}
PayoutStatuses == {"absent", "pending", "processing", "succeeded", "failed"}
Open == {"pending", "processing"}
Transfers == {"none", "accepted", "success", "fail"}
Live == {"accepted", "success"}
Final == {"success", "fail"}
Steps == {"idle", "claim", "create", "call", "accepted", "refused", "signal",
          "undo", "retry"}
Calling == {"call", "accepted", "refused", "signal"}
Jobs == [w : Withdrawals, p : Payouts]
LedgerKeys == ({"credit"} \X CreditKeys) \cup ({"reject"} \X ReviewKeys)
              \cup ({"freeze", "cancel", "settle", "refund"} \X Withdrawals)
              \cup ({"retry"} \X Withdrawals \X Payouts)

Init ==
    /\ available = 0
    /\ frozen = 0
    /\ income = 0
    /\ withdrawn = 0
    /\ ledger = {}
    /\ status = [w \in Withdrawals |-> "none"]
    /\ amount = [w \in Withdrawals |-> 0]
    /\ pstatus = [p \in Payouts |-> "absent"]
    /\ owner = [p \in Payouts |-> 0]
    /\ transfer = [p \in Payouts |-> "none"]
    /\ bill = [p \in Payouts |-> 0]
    /\ denied = {}
    /\ pc = [a \in Admins |-> "idle"]
    /\ job = [a \in Admins |-> NoJob]

-----------------------------------------------------------------------------
(* Helpers.                                                                 *)

Used(key) == \E e \in ledger : e.key = key

\* A new ledger row: a key already there is an IntegrityError, which rolls the
\* handler back, so the handler has no step.
Post(key, delta) ==
    /\ ~Used(key)
    /\ ledger' = ledger \cup {[key |-> key, delta |-> delta]}

\* A retry in progress holds the wallet's row and its withdrawal's.
WalletUnlocked == \A a \in Admins : pc[a] # "retry"
RowUnlocked(w) == \A a \in Admins : pc[a] = "retry" => job[a].w # w

HasRow(p) == pstatus[p] # "absent"

\* Mutation: the balance is not checked.
FreezeUnchecked(a) == available' = available - a /\ frozen' = frozen + a

Freeze(a) ==
    /\ available >= a
    /\ available' = available - a
    /\ frozen' = frozen + a

\* Mutation: the sum is given back and stays frozen.
UnfreezeKeeping(a) == available' = available + a /\ frozen' = frozen

Unfreeze(a) ==
    /\ available' = available + a
    /\ frozen' = frozen - a

SetStatus(w, s) == status' = [status EXCEPT ![w] = s]

Goto(a, step) == pc' = [pc EXCEPT ![a] = step] /\ UNCHANGED job
Leave(a) == pc' = [pc EXCEPT ![a] = "idle"] /\ job' = [job EXCEPT ![a] = NoJob]

-----------------------------------------------------------------------------
(* The wallet alone: one transaction each.                                  *)

\* apply_wallet_credit, and an adjustment upwards.
Credit(k, a) ==
    /\ WalletUnlocked
    /\ Post(<<"credit", k>>, a)
    /\ available' = available + a
    /\ income' = income + a
    /\ UNCHANGED <<frozen, withdrawn, status, amount,
                   payoutVars, providerVars, handlerVars>>

\* An adjustment downwards: total_income stays.
Decrease(k, a) ==
    /\ WalletUnlocked
    /\ available >= a
    /\ Post(<<"credit", k>>, -a)
    /\ available' = available - a
    /\ UNCHANGED <<frozen, income, withdrawn, status, amount,
                   payoutVars, providerVars, handlerVars>>

\* A second submission under the same client_request_id changes nothing.
Submit(w, a) ==
    /\ WalletUnlocked
    /\ status[w] = "none"
    /\ Freeze(a)
    /\ SetStatus(w, "pending_review")
    /\ amount' = [amount EXCEPT ![w] = a]
    /\ Post(<<"freeze", w>>, -a)
    /\ UNCHANGED <<income, withdrawn, payoutVars, providerVars, handlerVars>>

\* Mutation: no ledger entry.
GiveBackUnposted(w, s, key) ==
    /\ WalletUnlocked
    /\ status[w] = "pending_review"
    /\ Unfreeze(amount[w])
    /\ SetStatus(w, s)
    /\ UNCHANGED <<income, withdrawn, ledger, amount,
                   payoutVars, providerVars, handlerVars>>

\* The money of a request under review goes back to the user.
GiveBack(w, s, key) ==
    /\ WalletUnlocked
    /\ status[w] = "pending_review"
    /\ Unfreeze(amount[w])
    /\ SetStatus(w, s)
    /\ Post(key, amount[w])
    /\ UNCHANGED <<income, withdrawn, amount, payoutVars, providerVars, handlerVars>>

Cancel(w) == GiveBack(w, "cancelled", <<"cancel", w>>)

\* The key is the reviewer's own, so two rejections can collide.
Reject(w, rk) == GiveBack(w, "rejected", <<"reject", rk>>)

Approve(w) ==
    /\ WalletUnlocked
    /\ status[w] = "pending_review"
    /\ SetStatus(w, "approved")
    /\ UNCHANGED <<available, frozen, income, withdrawn, ledger, amount,
                   payoutVars, providerVars, handlerVars>>

-----------------------------------------------------------------------------
(* A payout's result reaches the wallet (handle_payout_result).             *)

\* The withdrawal already says so: return.
ResultKnown(w, ok) == status[w] = IF ok THEN "paid" ELSE "failed"

\* Mutations: the sum stays frozen; the key is the submission's; a second
\* settlement is booked.
SettleKeeping(w) ==
    /\ withdrawn' = withdrawn + amount[w]
    /\ SetStatus(w, "paid")
    /\ Post(<<"settle", w>>, 0)
    /\ UNCHANGED <<available, frozen, income, amount>>

SettleWrongKey(w) ==
    /\ frozen' = frozen - amount[w]
    /\ withdrawn' = withdrawn + amount[w]
    /\ SetStatus(w, "paid")
    /\ Post(<<"freeze", w>>, 0)
    /\ UNCHANGED <<available, income, amount>>

SettleAgain(w) ==
    /\ frozen' = frozen - amount[w]
    /\ withdrawn' = withdrawn + amount[w]
    /\ SetStatus(w, "paid")
    /\ ledger' = ledger \cup {[key |-> <<"settle", w>>, delta |-> 0]}
    /\ UNCHANGED <<available, income, amount>>

Settle(w) ==
    /\ frozen' = frozen - amount[w]
    /\ withdrawn' = withdrawn + amount[w]
    /\ SetStatus(w, "paid")
    /\ Post(<<"settle", w>>, 0)
    /\ UNCHANGED <<available, income, amount>>

Refund(w) ==
    /\ Unfreeze(amount[w])
    /\ SetStatus(w, "failed")
    /\ Post(<<"refund", w>>, amount[w])
    /\ UNCHANGED <<income, withdrawn, amount>>

HandleResult(w, ok) ==
    /\ WalletUnlocked
    /\ \/ ResultKnown(w, ok) /\ UNCHANGED walletVars
       \/ status[w] = "paying" /\ ok /\ Settle(w)
       \/ status[w] = "paying" /\ ~ok /\ Refund(w)

\* No branch of it applies: ValueError, or the ledger key is used.
ResultRaises(w, ok) ==
    /\ ~ResultKnown(w, ok)
    /\ status[w] = "paying" => Used(<<IF ok THEN "settle" ELSE "refund", w>>)

\* Mutation: any final state counts as success.
MarkPayoutSucceeded(p) ==
    /\ transfer[p] \in Final
    /\ pstatus[p] \in Open
    /\ pstatus' = [pstatus EXCEPT ![p] = "succeeded"]
    /\ HandleResult(owner[p], TRUE)
    /\ UNCHANGED <<owner, providerVars, handlerVars>>

\* mark_payout_result, with WeChat's final state of the transfer.  The payout
\* is saved and the signal handled in one transaction: if the wallet refuses,
\* the payout keeps its status.
MarkPayout(p) ==
    /\ transfer[p] \in Final
    /\ pstatus[p] \in Open
    /\ LET ok == transfer[p] = "success" IN
        /\ pstatus' = [pstatus EXCEPT ![p] = IF ok THEN "succeeded" ELSE "failed"]
        /\ HandleResult(owner[p], ok)
    /\ UNCHANGED <<owner, providerVars, handlerVars>>

\* WeChat's notification, which may come early, late, twice or never.
Callback(p) == MarkPayout(p)

\* sync_processing_withdrawals asks WeChat about an open payout of each paying
\* withdrawal, in the order of their ids; an exception ends the loop.  (Of
\* several open payouts of w it takes the newest; any may be taken here, as
\* Callback may deliver the same result for any.)
SyncRaises(w) ==
    \E p \in Payouts : /\ owner[p] = w
                       /\ pstatus[p] \in Open
                       /\ transfer[p] \in Final
                       /\ ResultRaises(w, transfer[p] = "success")

Sync(w) ==
    /\ status[w] = "paying"
    /\ \A v \in Withdrawals : v < w /\ status[v] = "paying" => ~SyncRaises(v)
    /\ \E p \in Payouts : owner[p] = w /\ MarkPayout(p)

-----------------------------------------------------------------------------
(* WeChat.  A bill number it holds is answered for the withdrawal it was    *)
(* accepted for; another transfer under the same number is refused.         *)

CanAccept(p, w) == transfer[p] = "none" \/ bill[p] = w
CanRefuse(p, w) == transfer[p] = "none" \/ bill[p] # w

\* The order is taken; taking it again changes nothing.
TakeOrder(p, w) ==
    /\ CanAccept(p, w)
    /\ transfer' = [transfer EXCEPT ![p] = IF @ = "none" THEN "accepted" ELSE @]
    /\ bill' = [bill EXCEPT ![p] = w]

Accept(p, w) == TakeOrder(p, w) /\ UNCHANGED denied

\* The order is taken, and answered with an error status (a gateway's, or
\* WeChat's own SYSTEM_ERROR).
Deny(p, w) == TakeOrder(p, w) /\ denied' = denied \cup {p}

ProviderSettle(p) ==
    /\ transfer[p] = "accepted"
    /\ \E result \in Final : transfer' = [transfer EXCEPT ![p] = result]
    /\ UNCHANGED <<walletVars, payoutVars, bill, denied, handlerVars>>

-----------------------------------------------------------------------------
(* An admin starts a payout (create_withdrawal_payout).  No transaction and *)
(* no lock: what it read may be out of date at the next step.               *)

\* Mutations: a withdrawal in payment, or one under review, is started too.
StartPayoutPaying(a, w, p) ==
    /\ pc[a] = "idle"
    /\ ~HasRow(p)
    /\ status[w] \in {"approved", "paying"}
    /\ pc' = [pc EXCEPT ![a] = "claim"]
    /\ job' = [job EXCEPT ![a] = [w |-> w, p |-> p]]
    /\ UNCHANGED <<walletVars, payoutVars, providerVars>>

StartPayoutUnreviewed(a, w, p) ==
    /\ pc[a] = "idle"
    /\ ~HasRow(p)
    /\ status[w] \in {"approved", "pending_review"}
    /\ pc' = [pc EXCEPT ![a] = "claim"]
    /\ job' = [job EXCEPT ![a] = [w |-> w, p |-> p]]
    /\ UNCHANGED <<walletVars, payoutVars, providerVars>>

\* The key is new and the withdrawal is approved: both are read here.
StartPayout(a, w, p) ==
    /\ pc[a] = "idle"
    /\ ~HasRow(p)
    /\ status[w] = "approved"
    /\ pc' = [pc EXCEPT ![a] = "claim"]
    /\ job' = [job EXCEPT ![a] = [w |-> w, p |-> p]]
    /\ UNCHANGED <<walletVars, payoutVars, providerVars>>

\* Mutation: the claim is not saved before the order is sent.
ClaimPayoutUnsaved(a) ==
    /\ pc[a] = "claim"
    /\ RowUnlocked(job[a].w)
    /\ Goto(a, "create")
    /\ UNCHANGED <<walletVars, payoutVars, providerVars>>

\* save(update_fields=["status"]): whatever the status is by now.
ClaimPayout(a) ==
    /\ pc[a] = "claim"
    /\ RowUnlocked(job[a].w)
    /\ SetStatus(job[a].w, "paying")
    /\ Goto(a, "create")
    /\ UNCHANGED <<available, frozen, income, withdrawn, ledger, amount,
                   payoutVars, providerVars>>

\* Mutation: the row does not name its withdrawal.
CreateRowUnowned(a) ==
    /\ pc[a] = "create"
    /\ ~HasRow(job[a].p)
    /\ pstatus' = [pstatus EXCEPT ![job[a].p] = "pending"]
    /\ Goto(a, "call")
    /\ UNCHANGED <<walletVars, owner, providerVars>>

\* get_or_create: a row that another request made meanwhile is returned as it
\* is, and WeChat is not called for it.
CreateRow(a) ==
    /\ pc[a] = "create"
    /\ LET w == job[a].w
           p == job[a].p
       IN  IF HasRow(p)
           THEN Leave(a) /\ UNCHANGED payoutVars
           ELSE /\ pstatus' = [pstatus EXCEPT ![p] = "pending"]
                /\ owner' = [owner EXCEPT ![p] = w]
                /\ Goto(a, "call")
    /\ UNCHANGED <<walletVars, providerVars>>

\* Mutations: a connection that times out is taken for a refusal; an order that
\* never arrived is not undone.
CallProviderTimeoutRefused(a) ==
    /\ pc[a] = "call"
    /\ Accept(job[a].p, job[a].w)
    /\ Goto(a, "accepted") \/ ("timeout" \in Faults /\ Goto(a, "refused"))
    /\ UNCHANGED <<walletVars, payoutVars>>

CallProviderNoUndo(a) ==
    /\ pc[a] = "call"
    /\ \/ Accept(job[a].p, job[a].w) /\ Goto(a, "accepted")
       \/ "lost" \in Faults /\ Leave(a) /\ UNCHANGED providerVars
    /\ UNCHANGED <<walletVars, payoutVars>>

\* The transfer order.  Accepted or refused, or no answer: the order never
\* arrived ("lost"), or it did and the answer was lost ("timeout").  Every
\* status but a 2xx is taken for a refusal, one that says nothing of the order
\* included ("error").
CallProvider(a) ==
    /\ pc[a] = "call"
    /\ LET w == job[a].w
           p == job[a].p
       IN  \/ Accept(p, w) /\ Goto(a, "accepted")
           \/ CanRefuse(p, w) /\ Goto(a, "refused") /\ UNCHANGED providerVars
           \/ "lost" \in Faults /\ Goto(a, "undo") /\ UNCHANGED providerVars
           \/ "timeout" \in Faults /\ Accept(p, w) /\ Goto(a, "undo")
           \/ "error" \in Faults /\ Deny(p, w) /\ Goto(a, "refused")
    /\ UNCHANGED <<walletVars, payoutVars>>

\* payout.save: whatever a notification has stored meanwhile.
RecordReply(a) ==
    /\ LET p == job[a].p
       IN  \/ /\ pc[a] = "accepted"
              /\ pstatus' = [pstatus EXCEPT ![p] = "processing"]
              /\ Leave(a)
           \/ /\ pc[a] = "refused"
              /\ pstatus' = [pstatus EXCEPT ![p] = "failed"]
              /\ Goto(a, "signal")
    /\ UNCHANGED <<walletVars, owner, providerVars>>

\* payout_failed: the wallet takes the refund, or raises into the handler.
SignalRefusal(a) ==
    /\ pc[a] = "signal"
    /\ LET w == owner[job[a].p]
       IN  \/ HandleResult(w, FALSE) /\ Leave(a)
           \/ /\ WalletUnlocked
              /\ ResultRaises(w, FALSE)
              /\ Goto(a, "undo")
              /\ UNCHANGED walletVars
    /\ UNCHANGED <<payoutVars, providerVars>>

\* except Exception: back to approved, whatever the status is by now.
UndoClaim(a) ==
    /\ pc[a] = "undo"
    /\ RowUnlocked(job[a].w)
    /\ SetStatus(job[a].w, "approved")
    /\ Leave(a)
    /\ UNCHANGED <<available, frozen, income, withdrawn, ledger, amount,
                   payoutVars, providerVars>>

\* The process dies: committed rows stay, an open transaction is rolled back.
Crash(a) ==
    /\ "crash" \in Faults
    /\ pc[a] # "idle"
    /\ Leave(a)
    /\ UNCHANGED <<walletVars, payoutVars, providerVars>>

-----------------------------------------------------------------------------
(* A failed withdrawal is retried (retry_withdrawal_payout).  The sum is    *)
(* frozen again and the payout started, all in one transaction.             *)

RetryKey(w, p) == <<"retry", w, p>>

CanRetry(w, p) ==
    /\ WalletUnlocked
    /\ status[w] = "failed"
    /\ available >= amount[w]
    /\ ~Used(RetryKey(w, p))

\* Mutation: the sum is not frozen again.
CommitRetryUnfrozen(w, p, s) ==
    /\ SetStatus(w, s)
    /\ Post(RetryKey(w, p), -amount[w])
    /\ UNCHANGED <<available, frozen, income, withdrawn, amount>>

CommitRetry(w, p, s) ==
    /\ Freeze(amount[w])
    /\ SetStatus(w, s)
    /\ Post(RetryKey(w, p), -amount[w])
    /\ UNCHANGED <<income, withdrawn, amount>>

\* A key that already has a row starts nothing: the row is returned, and the
\* withdrawal is left approved.
ReplayRetry(w, p) ==
    /\ CanRetry(w, p)
    /\ HasRow(p)
    /\ CommitRetry(w, p, "approved")
    /\ UNCHANGED <<payoutVars, providerVars, handlerVars>>

\* A new key: the transaction goes on with both rows locked.
StartRetry(a, w, p) ==
    /\ pc[a] = "idle"
    /\ CanRetry(w, p)
    /\ ~HasRow(p)
    /\ pc' = [pc EXCEPT ![a] = "retry"]
    /\ job' = [job EXCEPT ![a] = [w |-> w, p |-> p]]
    /\ UNCHANGED <<walletVars, payoutVars, providerVars>>

\* The order is accepted and the reply saved, or the key's row was made by
\* another request meanwhile and is returned.
RetryCommits(a) ==
    /\ pc[a] = "retry"
    /\ LET w == job[a].w
           p == job[a].p
       IN  /\ CommitRetry(w, p, "paying")
           /\ \/ /\ ~HasRow(p)
                 /\ Accept(p, w)
                 /\ pstatus' = [pstatus EXCEPT ![p] = "processing"]
                 /\ owner' = [owner EXCEPT ![p] = w]
              \/ /\ HasRow(p)
                 /\ pstatus[p] # "failed"
                 /\ UNCHANGED <<payoutVars, providerVars>>
    /\ Leave(a)

\* An exception undoes the transaction: a refusal, no answer, or the failed row
\* of another request.  An order WeChat took before the answer was lost or was
\* an error, or before the process died, has no row on our side.  (A refusal's
\* refund was booked under this withdrawal's key before the retry: it raises.)
RetryRollsBack(a) ==
    /\ pc[a] = "retry"
    /\ LET w == job[a].w
           p == job[a].p
       IN  \/ pstatus[p] = "failed" /\ UNCHANGED providerVars
           \/ ~HasRow(p) /\ CanRefuse(p, w) /\ UNCHANGED providerVars
           \/ ~HasRow(p) /\ "lost" \in Faults /\ UNCHANGED providerVars
           \/ ~HasRow(p) /\ {"timeout", "error", "crash"} \cap Faults # {} /\ Accept(p, w)
    /\ Leave(a)
    /\ UNCHANGED <<walletVars, payoutVars>>

-----------------------------------------------------------------------------

\* The code that a started request still has to run.
Continue(a) ==
    \/ ClaimPayout(a)
    \/ CreateRow(a)
    \/ CallProvider(a)
    \/ RecordReply(a)
    \/ SignalRefusal(a)
    \/ UndoClaim(a)
    \/ RetryCommits(a)
    \/ RetryRollsBack(a)

Request(w) ==
    \/ \E a \in Amounts : Submit(w, a)
    \/ Cancel(w)
    \/ Approve(w)
    \/ \E rk \in ReviewKeys : Reject(w, rk)
    \/ \E p \in Payouts : ReplayRetry(w, p)
    \/ \E a \in Admins, p \in Payouts : StartPayout(a, w, p) \/ StartRetry(a, w, p)

Next ==
    \/ \E k \in CreditKeys, a \in Amounts : Credit(k, a) \/ Decrease(k, a)
    \/ \E w \in Withdrawals : Request(w) \/ Sync(w)
    \/ \E a \in Admins : Continue(a) \/ Crash(a)
    \/ \E p \in Payouts : ProviderSettle(p) \/ Callback(p)

Spec == Init /\ [][Next]_vars

\* A request that runs is carried on, WeChat finishes what it accepted, and it
\* repeats a notification until it is answered.  Nobody need submit, review,
\* start or retry anything, and no schedule runs the sync task.
FairSpec ==
    /\ Spec
    /\ \A a \in Admins : WF_vars(Continue(a))
    /\ \A p \in Payouts : WF_vars(ProviderSettle(p)) /\ SF_vars(Callback(p))

-----------------------------------------------------------------------------
(* Properties.                                                              *)

WalletTypeOK ==
    /\ available \in Int /\ frozen \in Int
    /\ income \in Nat /\ withdrawn \in Nat
    /\ ledger \subseteq [key : LedgerKeys, delta : Int]
    /\ status \in [Withdrawals -> Statuses]
    /\ amount \in [Withdrawals -> Amounts \cup {0}]
    /\ \A w \in Withdrawals : status[w] # "none" => amount[w] \in Amounts

PayoutTypeOK ==
    /\ pstatus \in [Payouts -> PayoutStatuses]
    /\ owner \in [Payouts -> Withdrawals \cup {0}]
    /\ \A p \in Payouts : HasRow(p) => owner[p] \in Withdrawals

ProviderTypeOK ==
    /\ transfer \in [Payouts -> Transfers]
    /\ bill \in [Payouts -> Withdrawals \cup {0}]
    /\ \A p \in Payouts : transfer[p] # "none" => bill[p] \in Withdrawals
    /\ denied \subseteq Payouts

HandlerTypeOK ==
    /\ pc \in [Admins -> Steps]
    /\ job \in [Admins -> Jobs \cup {NoJob}]
    /\ \A a \in Admins : pc[a] # "idle" => job[a] \in Jobs

\* A started request works on a withdrawal that was submitted.
JobsExist == \A a \in Admins : pc[a] # "idle" => status[job[a].w] # "none"

\* From its call to WeChat on, it has made the payout's row for its withdrawal.
RowsExist ==
    \A a \in Admins :
        pc[a] \in Calling => HasRow(job[a].p) /\ owner[job[a].p] = job[a].w

\* Every field holds a value its column can hold, a request has its sum, a row
\* and an accepted transfer name a withdrawal, a started request has its job.
\* (frozen may be any integer: see BalancesNonNegative.)
TypeOK == /\ WalletTypeOK /\ PayoutTypeOK /\ ProviderTypeOK /\ HandlerTypeOK
          /\ JobsExist /\ RowsExist

Credits == {e \in ledger : e.key[1] = "credit"}
Settled == {w \in Withdrawals : Used(<<"settle", w>>)}
Backed == {w \in Withdrawals : status[w] \in Holding}

\* What the user may spend is never below zero, however many admins start and
\* retry payouts at once, whatever fails, and however late a result comes.
AvailableNonNegative == available >= 0

\* The money the wallet holds, plus what it paid out, never exceeds what was
\* ever credited: no retry, refund or settlement makes money, even when two
\* handlers settle the same withdrawal against each other.
NothingFromNothing == available + frozen + withdrawn <= income

\* Credits and adjustments are the only entries that change the total, so the
\* total equals their sum at every moment.
Conservation ==
    available + frozen + withdrawn = SumFunction([e \in Credits |-> e.delta])

\* The ledger alone explains the spendable balance: every handler that changes
\* it posts the same change, under a key no other handler used.
LedgerExplains == available = SumFunction([e \in ledger |-> e.delta])

\* A withdrawal counts as withdrawn once, for its sum, whatever order results,
\* retries and stale handlers come in.
WithdrawnOnce == withdrawn = SumFunction([w \in Settled |-> amount[w]])

\* Money of its withdrawal is under way, or arrived, under the payout's number.
MoneySent(p) == bill[p] = owner[p] /\ transfer[p] \in Live

\* A payout's stored status claims only what WeChat did, or said: succeeded only
\* for a transfer that succeeded, failed only when no money of that withdrawal
\* is under way or arrived under its number, unless WeChat itself answered the
\* order with an error.  No silence, no late or repeated result and no blind
\* save makes another payout look failed.
PayoutsTruthful ==
    \A p \in Payouts :
        /\ pstatus[p] = "succeeded" => transfer[p] = "success"
        /\ pstatus[p] = "failed" => p \in denied \/ ~MoneySent(p)

\* Why that holds: a row has one caller; while it waits to call, only a final
\* transfer can have changed the row; and what was refused is not under way,
\* or WeChat answered it with an error.
CallsTruthful ==
    /\ \A a, b \in Admins :
          pc[a] \in Calling /\ pc[b] \in Calling /\ job[a].p = job[b].p => a = b
    /\ \A a \in Admins :
          pc[a] = "call" => pstatus[job[a].p] = "pending" \/ transfer[job[a].p] \in Final
    /\ \A a \in Admins : LET p == job[a].p IN
          pc[a] = "refused" => p \in denied \/ ~MoneySent(p)

\* A request that was cancelled or rejected stays so: no stale payout handler
\* may claim it or put it back.
ClosedStaysClosed ==
    [][\A w \in Withdrawals :
          status[w] \in {"cancelled", "rejected"} => status'[w] = status[w]]_vars

\* frozen_balance is exactly the sums of the requests that hold money.
FrozenBacksRequests == frozen = SumFunction([w \in Backed |-> amount[w]])

\* A user is never sent the sum of one withdrawal twice.
SinglePayment ==
    \A p, q \in Payouts :
        transfer[p] \in Live /\ transfer[q] \in Live /\ bill[p] = bill[q] => p = q

\* While money is under way, and once it arrived, its withdrawal is not free to
\* be cancelled, refunded, retried or started again.
MoneySentIsHeld ==
    \A p \in Payouts : transfer[p] \in Live => status[bill[p]] \in {"paying", "paid"}

\* Balances are never negative (both of them).
BalancesNonNegative == available >= 0 /\ frozen >= 0

\* What each request means to its user, and whose money arrived.
Promised ==
    [w \in Withdrawals |-> CASE status[w] = "none" -> "none"
                             [] status[w] \in Holding -> "held"
                             [] status[w] = "paid" -> "paid"
                             [] OTHER -> "returned"]
Sent == {w \in Withdrawals : \E p \in Payouts : bill[p] = w /\ transfer[p] = "success"}

\* The wallet keeps its promise to the user.
Promise == INSTANCE WithdrawalPromise WITH
    free <- available, paidOut <- withdrawn, state <- Promised, held <- amount, sent <- Sent

KeepsPromise == Promise!Spec

\* Money that reached the user ends up booked as withdrawn.
SuccessSettles ==
    \A w \in Withdrawals :
        (\E p \in Payouts : bill[p] = w /\ transfer[p] = "success") ~> status[w] = "paid"

\* A withdrawal does not stay in payment for ever.
PayingEnds == \A w \in Withdrawals : status[w] = "paying" ~> status[w] # "paying"

\* It does not, as long as it was never refunded before.
FirstRoundEnds ==
    \A w \in Withdrawals :
        status[w] = "paying" /\ ~Used(<<"refund", w>>) ~> status[w] # "paying"
=============================================================================
