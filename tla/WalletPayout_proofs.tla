------------------------ MODULE WalletPayout_proofs ------------------------
(* Theorems about WalletPayout, for every set of withdrawals, payouts,      *)
(* admins and keys, and every set of faults.                                *)
EXTENDS WalletPayout, TLAPS

-----------------------------------------------------------------------------
(* Typing of the helpers.                                                   *)

\* The keys the handlers post under are ledger keys.
LEMMA KeysTyped ==
    /\ \A k \in CreditKeys : <<"credit", k>> \in LedgerKeys
    /\ \A k \in ReviewKeys : <<"reject", k>> \in LedgerKeys
    /\ \A w \in Withdrawals, s \in {"freeze", "cancel", "settle", "refund"} :
          <<s, w>> \in LedgerKeys
    /\ \A w \in Withdrawals, p \in Payouts : RetryKey(w, p) \in LedgerKeys
BY DEF LedgerKeys, RetryKey

\* A posted entry keeps the ledger well typed.
LEMMA PostTyped ==
    ASSUME NEW key \in LedgerKeys, NEW delta \in Int, WalletTypeOK, Post(key, delta)
    PROVE  ledger' \subseteq [key : LedgerKeys, delta : Int]
BY DEF Post, WalletTypeOK

\* The handlers' jobs go on existing: no status returns to "none".
LEMMA JobsExistKept ==
    ASSUME TypeOK, NEW w \in Withdrawals, NEW st \in Statuses \ {"none"},
           SetStatus(w, st) \/ UNCHANGED status,
           \A a \in Admins : pc'[a] # "idle" => pc[a] # "idle" /\ job'[a] = job[a]
    PROVE  JobsExist'
BY DEF TypeOK, JobsExist, WalletTypeOK, HandlerTypeOK, Jobs, SetStatus

\* The rows of the calls under way stay: none is removed, none changes owner.
LEMMA RowsExistKept ==
    ASSUME TypeOK,
           \A p \in Payouts : HasRow(p) => HasRow(p)' /\ owner'[p] = owner[p],
           \A a \in Admins : pc'[a] \in Calling => pc[a] \in Calling /\ job'[a] = job[a]
    PROVE  RowsExist'
BY DEF TypeOK, RowsExist, HandlerTypeOK, Jobs, Calling, HasRow

\* A step of the wallet alone types the rest by leaving it alone.
LEMMA OthersTyped ==
    ASSUME TypeOK, NEW w \in Withdrawals, NEW st \in Statuses \ {"none"},
           SetStatus(w, st) \/ UNCHANGED status,
           WalletTypeOK', UNCHANGED <<payoutVars, providerVars, handlerVars>>
    PROVE  TypeOK'
<1>1. JobsExist'
  BY JobsExistKept DEF handlerVars
<1> QED
  BY <1>1 DEF TypeOK, PayoutTypeOK, ProviderTypeOK, HandlerTypeOK, RowsExist, HasRow,
              payoutVars, providerVars, handlerVars

LEMMA WalletUnchangedTyped ==
    ASSUME WalletTypeOK, UNCHANGED walletVars
    PROVE  WalletTypeOK'
BY DEF WalletTypeOK, walletVars

LEMMA PayoutUnchangedTyped ==
    ASSUME PayoutTypeOK, UNCHANGED payoutVars
    PROVE  PayoutTypeOK'
BY DEF PayoutTypeOK, HasRow, payoutVars

LEMMA ProviderUnchangedTyped ==
    ASSUME ProviderTypeOK, UNCHANGED providerVars
    PROVE  ProviderTypeOK'
BY DEF ProviderTypeOK, providerVars

LEMMA HandlerUnchangedTyped ==
    ASSUME HandlerTypeOK, UNCHANGED handlerVars
    PROVE  HandlerTypeOK'
BY DEF HandlerTypeOK, handlerVars

LEMMA HandleResultTyped ==
    ASSUME WalletTypeOK, NEW w \in Withdrawals, NEW ok \in BOOLEAN, HandleResult(w, ok)
    PROVE  WalletTypeOK'
<1> USE AmountsPositive
<1>1. CASE UNCHANGED walletVars
  BY <1>1, WalletUnchangedTyped
<1>2. CASE status[w] = "paying" /\ Settle(w)
  <2>1. amount[w] \in Nat /\ <<"settle", w>> \in LedgerKeys
    BY <1>2, KeysTyped DEF WalletTypeOK
  <2>2. ledger' \subseteq [key : LedgerKeys, delta : Int]
    BY <1>2, <2>1, PostTyped DEF Settle
  <2> QED
    BY <1>2, <2>1, <2>2 DEF Settle, SetStatus, WalletTypeOK, Statuses
<1>3. CASE status[w] = "paying" /\ Refund(w)
  <2>1. amount[w] \in Nat /\ <<"refund", w>> \in LedgerKeys
    BY <1>3, KeysTyped DEF WalletTypeOK
  <2>2. ledger' \subseteq [key : LedgerKeys, delta : Int]
    BY <1>3, <2>1, PostTyped DEF Refund
  <2> QED
    BY <1>3, <2>1, <2>2 DEF Refund, Unfreeze, SetStatus, WalletTypeOK, Statuses
<1> QED
  BY <1>1, <1>2, <1>3 DEF HandleResult

\* A step of a handler that only moves on, or leaves, keeps the handlers typed.
LEMMA GotoTyped ==
    ASSUME HandlerTypeOK, NEW a \in Admins, NEW step \in Steps,
           pc[a] # "idle", Goto(a, step)
    PROVE  HandlerTypeOK'
BY DEF HandlerTypeOK, Goto

LEMMA LeaveTyped ==
    ASSUME HandlerTypeOK, NEW a \in Admins, Leave(a)
    PROVE  HandlerTypeOK'
BY DEF HandlerTypeOK, Leave, Steps

LEMMA EnterTyped ==
    ASSUME HandlerTypeOK, NEW a \in Admins, NEW w \in Withdrawals, NEW p \in Payouts,
           NEW step \in Steps,
           pc' = [pc EXCEPT ![a] = step],
           job' = [job EXCEPT ![a] = [w |-> w, p |-> p]]
    PROVE  HandlerTypeOK'
BY DEF HandlerTypeOK, Jobs

\* A running handler works on a withdrawal and a payout.
LEMMA JobTyped ==
    ASSUME HandlerTypeOK, NEW a \in Admins, pc[a] # "idle"
    PROVE  job[a].w \in Withdrawals /\ job[a].p \in Payouts
BY DEF HandlerTypeOK, Jobs

LEMMA AcceptTyped ==
    ASSUME ProviderTypeOK, NEW w \in Withdrawals, NEW p \in Payouts, Accept(p, w) \/ Deny(p, w)
    PROVE  ProviderTypeOK'
BY DEF ProviderTypeOK, TakeOrder, Accept, Deny, Transfers

LEMMA StatusTyped ==
    ASSUME WalletTypeOK, NEW w \in Withdrawals, status[w] # "none" \/ amount[w] \in Amounts,
           NEW st \in Statuses, SetStatus(w, st),
           UNCHANGED <<available, frozen, income, withdrawn, ledger, amount>>
    PROVE  WalletTypeOK'
BY DEF WalletTypeOK, SetStatus

LEMMA CommitRetryTyped ==
    ASSUME WalletTypeOK, NEW w \in Withdrawals, NEW p \in Payouts,
           NEW st \in {"approved", "paying"}, status[w] # "none", CommitRetry(w, p, st)
    PROVE  WalletTypeOK'
<1>1. amount[w] \in Nat /\ RetryKey(w, p) \in LedgerKeys
  BY AmountsPositive, KeysTyped DEF WalletTypeOK
<1>2. ledger' \subseteq [key : LedgerKeys, delta : Int]
  BY <1>1, PostTyped DEF CommitRetry
<1> QED
  BY <1>1, <1>2 DEF CommitRetry, Freeze, SetStatus, WalletTypeOK, Statuses

-----------------------------------------------------------------------------
(* The type invariant, action by action.                                    *)

LEMMA CreditTyped ==
    ASSUME TypeOK, NEW k \in CreditKeys, NEW a \in Amounts,
           Credit(k, a) \/ Decrease(k, a)
    PROVE  TypeOK'
<1>1. a \in Nat /\ <<"credit", k>> \in LedgerKeys
  BY AmountsPositive, KeysTyped
<1>2. ledger' \subseteq [key : LedgerKeys, delta : Int]
  BY <1>1, PostTyped DEF Credit, Decrease, TypeOK
<1>3. WalletTypeOK'
  BY <1>1, <1>2 DEF Credit, Decrease, TypeOK, WalletTypeOK
<1> QED
  BY <1>3 DEF Credit, Decrease, TypeOK, PayoutTypeOK, ProviderTypeOK, HandlerTypeOK,
              JobsExist, RowsExist, HasRow, payoutVars, providerVars, handlerVars

LEMMA SubmitTyped ==
    ASSUME TypeOK, NEW w \in Withdrawals, NEW a \in Amounts, Submit(w, a)
    PROVE  TypeOK'
<1>1. a \in Nat /\ <<"freeze", w>> \in LedgerKeys
  BY AmountsPositive, KeysTyped
<1>2. ledger' \subseteq [key : LedgerKeys, delta : Int]
  BY <1>1, PostTyped DEF Submit, TypeOK
<1>3. WalletTypeOK'
  BY <1>1, <1>2 DEF Submit, Freeze, SetStatus, TypeOK, WalletTypeOK, Statuses
<1> QED
  BY <1>3, OthersTyped DEF Submit, Statuses

LEMMA ReviewTyped ==
    ASSUME TypeOK, NEW w \in Withdrawals,
           Cancel(w) \/ Approve(w) \/ (\E rk \in ReviewKeys : Reject(w, rk))
    PROVE  TypeOK'
<1>1. CASE Approve(w)
  <2>1. WalletTypeOK'
    BY <1>1, StatusTyped DEF Approve, TypeOK, Statuses
  <2> QED
    BY <1>1, <2>1, OthersTyped DEF Approve, Statuses
<1>2. ASSUME NEW st \in {"cancelled", "rejected"}, NEW key \in LedgerKeys,
             GiveBack(w, st, key)
      PROVE  TypeOK'
  <2>1. amount[w] \in Nat
    BY <1>2, AmountsPositive DEF GiveBack, TypeOK, WalletTypeOK
  <2>2. ledger' \subseteq [key : LedgerKeys, delta : Int]
    BY <1>2, <2>1, PostTyped DEF GiveBack, TypeOK
  <2>3. WalletTypeOK'
    BY <1>2, <2>1, <2>2 DEF GiveBack, Unfreeze, SetStatus, TypeOK, WalletTypeOK, Statuses
  <2> QED
    BY <1>2, <2>3, OthersTyped DEF GiveBack, Statuses
<1> QED
  BY <1>1, <1>2, KeysTyped DEF Cancel, Reject

LEMMA MarkPayoutTyped ==
    ASSUME TypeOK, NEW p \in Payouts, MarkPayout(p)
    PROVE  TypeOK'
<1> DEFINE ok == transfer[p] = "success"
<1>1. owner[p] \in Withdrawals /\ HandleResult(owner[p], ok)
  BY DEF MarkPayout, TypeOK, PayoutTypeOK, HasRow, Open
<1>2. WalletTypeOK'
  BY <1>1, HandleResultTyped DEF TypeOK
<1>3. PayoutTypeOK'
  BY DEF MarkPayout, TypeOK, PayoutTypeOK, PayoutStatuses, HasRow, Open
<1>4. PICK st \in Statuses \ {"none"} : SetStatus(owner[p], st) \/ UNCHANGED status
  BY <1>1 DEF HandleResult, Settle, Refund, walletVars, Statuses
<1>5. JobsExist'
  BY <1>1, <1>4, JobsExistKept DEF MarkPayout, handlerVars
<1>6. \A q \in Payouts : HasRow(q) => HasRow(q)' /\ owner'[q] = owner[q]
  BY DEF MarkPayout, HasRow, TypeOK, PayoutTypeOK
<1>7. RowsExist'
  BY <1>6, RowsExistKept DEF MarkPayout, handlerVars
<1> QED
  BY <1>2, <1>3, <1>5, <1>7, ProviderUnchangedTyped, HandlerUnchangedTyped
  DEF MarkPayout, TypeOK

LEMMA StartTyped ==
    ASSUME TypeOK, NEW a \in Admins, NEW w \in Withdrawals, NEW p \in Payouts,
           StartPayout(a, w, p) \/ StartRetry(a, w, p)
    PROVE  TypeOK'
<1>1. HandlerTypeOK'
  BY EnterTyped DEF StartPayout, StartRetry, TypeOK, Steps
<1>2. JobsExist'
  BY DEF StartPayout, StartRetry, CanRetry, TypeOK, JobsExist, HandlerTypeOK, walletVars
<1>3. RowsExist'
  BY RowsExistKept DEF StartPayout, StartRetry, TypeOK, HandlerTypeOK, Calling,
                       HasRow, payoutVars
<1> QED
  BY <1>1, <1>2, <1>3, WalletUnchangedTyped, PayoutUnchangedTyped, ProviderUnchangedTyped
  DEF StartPayout, StartRetry, TypeOK

LEMMA ReplayRetryTyped ==
    ASSUME TypeOK, NEW w \in Withdrawals, NEW p \in Payouts, ReplayRetry(w, p)
    PROVE  TypeOK'
<1>1. WalletTypeOK'
  BY CommitRetryTyped DEF ReplayRetry, CanRetry, TypeOK
<1> QED
  BY <1>1, OthersTyped DEF ReplayRetry, CommitRetry, Statuses

\* ClaimPayout and UndoClaim: a blind save of the status.
LEMMA BlindSaveTyped ==
    ASSUME TypeOK, NEW a \in Admins, ClaimPayout(a) \/ UndoClaim(a)
    PROVE  TypeOK'
<1>1. PICK st \in {"paying", "approved"} : SetStatus(job[a].w, st)
  BY DEF ClaimPayout, UndoClaim
<1>2. pc[a] # "idle" /\ job[a].w \in Withdrawals /\ status[job[a].w] # "none"
  BY JobTyped DEF ClaimPayout, UndoClaim, TypeOK, JobsExist
<1>3. WalletTypeOK'
  BY <1>1, <1>2, StatusTyped DEF ClaimPayout, UndoClaim, TypeOK, Statuses
<1>4. HandlerTypeOK'
  BY GotoTyped, LeaveTyped DEF ClaimPayout, UndoClaim, TypeOK, Steps
<1>5. \A b \in Admins : pc'[b] # "idle" => pc[b] # "idle" /\ job'[b] = job[b]
  BY <1>2 DEF ClaimPayout, UndoClaim, Goto, Leave, TypeOK, HandlerTypeOK
<1>6. JobsExist'
  BY <1>1, <1>2, <1>5, JobsExistKept DEF Statuses
<1>7. RowsExist'
  BY RowsExistKept DEF ClaimPayout, UndoClaim, Goto, Leave, TypeOK, HandlerTypeOK,
                       Calling, HasRow, payoutVars
<1> QED
  BY <1>3, <1>4, <1>6, <1>7, PayoutUnchangedTyped, ProviderUnchangedTyped
  DEF ClaimPayout, UndoClaim, TypeOK

\* Steps that leave the wallet alone and move one running handler.
LEMMA MoveTyped ==
    ASSUME TypeOK, NEW a \in Admins, pc[a] # "idle", UNCHANGED walletVars,
           Leave(a) \/ \E step \in Steps : Goto(a, step)
    PROVE  (WalletTypeOK /\ HandlerTypeOK /\ JobsExist)'
<1>1. HandlerTypeOK'
  BY GotoTyped, LeaveTyped DEF TypeOK
<1>2. JobsExist'
  BY DEF Leave, Goto, TypeOK, JobsExist, HandlerTypeOK, walletVars
<1> QED
  BY <1>1, <1>2, WalletUnchangedTyped DEF TypeOK

LEMMA CreateRowTyped ==
    ASSUME TypeOK, NEW a \in Admins, CreateRow(a)
    PROVE  TypeOK'
<1> DEFINE w == job[a].w
           p == job[a].p
<1>1. w \in Withdrawals /\ p \in Payouts /\ pc[a] # "idle"
  BY JobTyped DEF CreateRow, TypeOK
<1>2. PayoutTypeOK'
  <2>1. CASE HasRow(p)
    BY <2>1, PayoutUnchangedTyped DEF CreateRow, TypeOK
  <2>2. CASE ~HasRow(p)
    BY <1>1, <2>2 DEF CreateRow, TypeOK, PayoutTypeOK, HasRow, PayoutStatuses
  <2> QED
    BY <2>1, <2>2
<1>3. Leave(a) \/ \E step \in Steps : Goto(a, step)
  BY DEF CreateRow, Steps
<1>4. UNCHANGED walletVars /\ UNCHANGED providerVars
  BY DEF CreateRow
<1>5. RowsExist'
  <2>1. CASE HasRow(p)
    BY <1>1, <2>1, RowsExistKept DEF CreateRow, Leave, TypeOK, HandlerTypeOK, Calling,
                                     HasRow, payoutVars
  <2>2. CASE ~HasRow(p)
    BY <1>1, <2>2 DEF CreateRow, Goto, TypeOK, HandlerTypeOK, PayoutTypeOK, RowsExist,
                      Calling, HasRow, Jobs
  <2> QED
    BY <2>1, <2>2
<1> QED
  BY <1>1, <1>2, <1>3, <1>4, <1>5, MoveTyped, ProviderUnchangedTyped DEF TypeOK

LEMMA CallProviderTyped ==
    ASSUME TypeOK, NEW a \in Admins, CallProvider(a)
    PROVE  TypeOK'
<1> DEFINE w == job[a].w
           p == job[a].p
<1>1. w \in Withdrawals /\ p \in Payouts /\ pc[a] # "idle"
  BY JobTyped DEF CallProvider, TypeOK
<1>2. ProviderTypeOK'
  BY <1>1, AcceptTyped, ProviderUnchangedTyped DEF CallProvider, TypeOK
<1>3. \E step \in Steps : Goto(a, step)
  BY DEF CallProvider, Steps
<1>4. UNCHANGED walletVars /\ UNCHANGED payoutVars
  BY DEF CallProvider
<1>5. RowsExist'
  BY <1>1, RowsExistKept DEF CallProvider, Goto, TypeOK, HandlerTypeOK, Calling,
                             HasRow, payoutVars
<1> QED
  BY <1>1, <1>2, <1>3, <1>4, <1>5, MoveTyped, PayoutUnchangedTyped DEF TypeOK

LEMMA RecordReplyTyped ==
    ASSUME TypeOK, NEW a \in Admins, RecordReply(a)
    PROVE  TypeOK'
<1> DEFINE p == job[a].p
<1>1. p \in Payouts /\ HasRow(p) /\ pc[a] # "idle"
  BY JobTyped DEF RecordReply, TypeOK, RowsExist, Calling
<1>2. PayoutTypeOK'
  BY <1>1 DEF RecordReply, TypeOK, PayoutTypeOK, HasRow, PayoutStatuses
<1>3. Leave(a) \/ \E step \in Steps : Goto(a, step)
  BY DEF RecordReply, Steps
<1>4. UNCHANGED walletVars /\ UNCHANGED providerVars
  BY DEF RecordReply
<1>5. \A q \in Payouts : HasRow(q) => HasRow(q)' /\ owner'[q] = owner[q]
  BY <1>1 DEF RecordReply, HasRow, TypeOK, PayoutTypeOK
<1>6. RowsExist'
  BY <1>1, <1>5, RowsExistKept DEF RecordReply, Goto, Leave, TypeOK, HandlerTypeOK, Calling
<1> QED
  BY <1>1, <1>2, <1>3, <1>4, <1>6, MoveTyped, ProviderUnchangedTyped DEF TypeOK

LEMMA SignalRefusalTyped ==
    ASSUME TypeOK, NEW a \in Admins, SignalRefusal(a)
    PROVE  TypeOK'
<1> DEFINE w == owner[job[a].p]
<1>1. job[a].p \in Payouts /\ w \in Withdrawals /\ pc[a] = "signal"
  BY JobTyped DEF SignalRefusal, TypeOK, RowsExist, PayoutTypeOK, Calling
<1>2. WalletTypeOK'
  BY <1>1, HandleResultTyped, WalletUnchangedTyped DEF SignalRefusal, TypeOK
<1>3. HandlerTypeOK'
  BY <1>1, GotoTyped, LeaveTyped DEF SignalRefusal, TypeOK, Steps
<1>4. PICK st \in Statuses \ {"none"} : SetStatus(w, st) \/ UNCHANGED status
  <2>1. SetStatus(w, "failed") \/ UNCHANGED status
    BY DEF SignalRefusal, HandleResult, Refund, walletVars
  <2> QED
    BY <2>1 DEF Statuses
<1>5. \A b \in Admins : pc'[b] # "idle" => pc[b] # "idle" /\ job'[b] = job[b]
  BY <1>1 DEF SignalRefusal, Goto, Leave, TypeOK, HandlerTypeOK
<1>6. JobsExist'
  BY <1>1, <1>4, <1>5, JobsExistKept
<1>7. RowsExist'
  BY <1>1, RowsExistKept DEF SignalRefusal, Goto, Leave, TypeOK, HandlerTypeOK, Calling,
                             HasRow, payoutVars
<1> QED
  BY <1>2, <1>3, <1>6, <1>7, PayoutUnchangedTyped, ProviderUnchangedTyped
  DEF SignalRefusal, TypeOK

LEMMA CrashTyped ==
    ASSUME TypeOK, NEW a \in Admins, Crash(a)
    PROVE  TypeOK'
<1>1. RowsExist'
  BY RowsExistKept DEF Crash, Leave, TypeOK, HandlerTypeOK, Calling, HasRow, payoutVars
<1> QED
  BY <1>1, MoveTyped, PayoutUnchangedTyped, ProviderUnchangedTyped DEF Crash, TypeOK

LEMMA RetryCommitsTyped ==
    ASSUME TypeOK, NEW a \in Admins, RetryCommits(a)
    PROVE  TypeOK'
<1> DEFINE w == job[a].w
           p == job[a].p
<1>1. w \in Withdrawals /\ p \in Payouts /\ pc[a] = "retry" /\ status[w] # "none"
  BY JobTyped DEF RetryCommits, TypeOK, JobsExist
<1>2. WalletTypeOK'
  BY <1>1, CommitRetryTyped DEF RetryCommits, TypeOK
<1>3. ProviderTypeOK'
  BY <1>1, AcceptTyped, ProviderUnchangedTyped DEF RetryCommits, TypeOK
<1>4. PayoutTypeOK'
  BY <1>1, PayoutUnchangedTyped
  DEF RetryCommits, TypeOK, PayoutTypeOK, HasRow, PayoutStatuses
<1>5. HandlerTypeOK'
  BY LeaveTyped DEF RetryCommits, TypeOK
<1>6. JobsExist'
  BY <1>1, JobsExistKept DEF RetryCommits, CommitRetry, Leave, TypeOK, HandlerTypeOK, Statuses
<1>7. \A q \in Payouts : HasRow(q) => HasRow(q)' /\ owner'[q] = owner[q]
  BY <1>1 DEF RetryCommits, HasRow, TypeOK, PayoutTypeOK, payoutVars
<1>8. RowsExist'
  BY <1>7, RowsExistKept DEF RetryCommits, Leave, TypeOK, HandlerTypeOK, Calling
<1> QED
  BY <1>2, <1>3, <1>4, <1>5, <1>6, <1>8 DEF TypeOK

LEMMA RetryRollsBackTyped ==
    ASSUME TypeOK, NEW a \in Admins, RetryRollsBack(a)
    PROVE  TypeOK'
<1>1. job[a].w \in Withdrawals /\ job[a].p \in Payouts /\ pc[a] = "retry"
  BY JobTyped DEF RetryRollsBack, TypeOK
<1>2. ProviderTypeOK'
  BY <1>1, AcceptTyped, ProviderUnchangedTyped DEF RetryRollsBack, TypeOK
<1>3. RowsExist'
  BY RowsExistKept DEF RetryRollsBack, Leave, TypeOK, HandlerTypeOK, Calling, HasRow, payoutVars
<1> QED
  BY <1>1, <1>2, <1>3, MoveTyped, PayoutUnchangedTyped DEF RetryRollsBack, TypeOK

LEMMA ProviderSettleTyped ==
    ASSUME TypeOK, NEW p \in Payouts, ProviderSettle(p)
    PROVE  TypeOK'
<1>1. ProviderTypeOK'
  BY DEF ProviderSettle, TypeOK, ProviderTypeOK, Transfers, Final
<1> QED
  BY <1>1, WalletUnchangedTyped, PayoutUnchangedTyped, HandlerUnchangedTyped
  DEF ProviderSettle, TypeOK, JobsExist, RowsExist, HasRow, walletVars, payoutVars, handlerVars

-----------------------------------------------------------------------------
(* Theorems.                                                                *)

LEMMA InitTyped == Init => TypeOK
BY DEF Init, TypeOK, WalletTypeOK, PayoutTypeOK, ProviderTypeOK, HandlerTypeOK,
       JobsExist, RowsExist, HasRow, Statuses, PayoutStatuses, Transfers, Steps, Calling

LEMMA StepTyped == TypeOK /\ [Next]_vars => TypeOK'
<1> SUFFICES ASSUME TypeOK, [Next]_vars PROVE TypeOK'
  OBVIOUS
<1>1. ASSUME NEW k \in CreditKeys, NEW a \in Amounts, Credit(k, a) \/ Decrease(k, a)
      PROVE  TypeOK'
  BY <1>1, CreditTyped
<1>2. ASSUME NEW w \in Withdrawals, Request(w)
      PROVE  TypeOK'
  BY <1>2, SubmitTyped, ReviewTyped, ReplayRetryTyped, StartTyped DEF Request
<1>3. ASSUME NEW w \in Withdrawals, Sync(w)
      PROVE  TypeOK'
  BY <1>3, MarkPayoutTyped DEF Sync
<1>4. ASSUME NEW a \in Admins, Continue(a)
      PROVE  TypeOK'
  BY <1>4, BlindSaveTyped, CreateRowTyped, CallProviderTyped, RecordReplyTyped,
     SignalRefusalTyped, RetryCommitsTyped, RetryRollsBackTyped DEF Continue
<1>5. ASSUME NEW a \in Admins, Crash(a)
      PROVE  TypeOK'
  BY <1>5, CrashTyped
<1>6. ASSUME NEW p \in Payouts, ProviderSettle(p) \/ Callback(p)
      PROVE  TypeOK'
  BY <1>6, ProviderSettleTyped, MarkPayoutTyped DEF Callback
<1>7. CASE UNCHANGED vars
  BY <1>7 DEF vars, TypeOK, WalletTypeOK, PayoutTypeOK, ProviderTypeOK, HandlerTypeOK,
              JobsExist, RowsExist, HasRow, walletVars, payoutVars, providerVars, handlerVars
<1> QED
  BY <1>1, <1>2, <1>3, <1>4, <1>5, <1>6, <1>7 DEF Next

\* The type invariant holds in every state the system reaches, whatever fails.
THEOREM TypeCorrect == Spec => []TypeOK
BY InitTyped, StepTyped, PTL DEF Spec

\* What each step does to the three balances: it keeps the spendable one at or
\* above zero, and adds no money that total_income does not count.
BalanceStep ==
    /\ available' >= 0
    /\ available' + frozen' + withdrawn' - income' <= available + frozen + withdrawn - income

LEMMA StepBalances ==
    ASSUME TypeOK, AvailableNonNegative, [Next]_vars
    PROVE  BalanceStep
<1> USE AmountsPositive DEF BalanceStep, AvailableNonNegative
<1> DEFINE Same == UNCHANGED <<available, frozen, income, withdrawn>>
<1>1. available \in Int /\ frozen \in Int /\ income \in Int /\ withdrawn \in Int
  BY DEF TypeOK, WalletTypeOK
<1>2. \A w \in Withdrawals : amount[w] \in Nat
  <2>1. Amounts \cup {0} \subseteq Nat
    OBVIOUS
  <2> QED
    BY <2>1 DEF TypeOK, WalletTypeOK
<1>3. ASSUME Same PROVE BalanceStep
  BY <1>1, <1>3
<1>4. ASSUME NEW w \in Withdrawals, NEW ok \in BOOLEAN, HandleResult(w, ok)
      PROVE  BalanceStep
  BY <1>1, <1>2, <1>4 DEF HandleResult, Settle, Refund, Unfreeze, walletVars
<1>5. ASSUME NEW k \in CreditKeys, NEW a \in Amounts, Credit(k, a) \/ Decrease(k, a)
      PROVE  BalanceStep
  BY <1>1, <1>5 DEF Credit, Decrease
<1>6. ASSUME NEW w \in Withdrawals, Request(w)
      PROVE  BalanceStep
  <2>1. ASSUME NEW a \in Amounts, Submit(w, a) PROVE BalanceStep
    BY <1>1, <2>1 DEF Submit, Freeze
  <2>2. ASSUME NEW st, NEW key, GiveBack(w, st, key) PROVE BalanceStep
    BY <1>1, <1>2, <2>2 DEF GiveBack, Unfreeze
  <2>3. CASE Approve(w)
    BY <1>3, <2>3 DEF Approve
  <2>4. ASSUME NEW p \in Payouts, ReplayRetry(w, p) PROVE BalanceStep
    BY <1>1, <1>2, <2>4 DEF ReplayRetry, CommitRetry, Freeze
  <2>5. ASSUME NEW a \in Admins, NEW p \in Payouts, StartPayout(a, w, p) \/ StartRetry(a, w, p)
        PROVE  BalanceStep
    BY <1>3, <2>5 DEF StartPayout, StartRetry, walletVars
  <2> QED
    BY <1>6, <2>1, <2>2, <2>3, <2>4, <2>5 DEF Request, Cancel, Reject
<1>7. ASSUME NEW p \in Payouts, MarkPayout(p)
      PROVE  BalanceStep
  <2>1. owner[p] \in Withdrawals
    BY <1>7 DEF MarkPayout, TypeOK, PayoutTypeOK, HasRow, Open
  <2> QED
    BY <1>4, <1>7, <2>1 DEF MarkPayout
<1>8. ASSUME NEW a \in Admins, Continue(a) \/ Crash(a)
      PROVE  BalanceStep
  <2>1. CASE \/ ClaimPayout(a) \/ CreateRow(a) \/ CallProvider(a) \/ RecordReply(a)
             \/ UndoClaim(a) \/ RetryRollsBack(a) \/ Crash(a)
    BY <1>3, <2>1 DEF ClaimPayout, CreateRow, CallProvider, RecordReply, UndoClaim,
                      RetryRollsBack, Crash, walletVars
  <2>2. CASE SignalRefusal(a)
    <3>1. owner[job[a].p] \in Withdrawals
      BY <2>2, JobTyped DEF SignalRefusal, TypeOK, RowsExist, PayoutTypeOK, Calling
    <3> QED
      BY <1>3, <1>4, <2>2, <3>1 DEF SignalRefusal, walletVars
  <2>3. CASE RetryCommits(a)
    <3>1. job[a].w \in Withdrawals
      BY <2>3, JobTyped DEF RetryCommits, TypeOK
    <3> QED
      BY <1>1, <1>2, <2>3, <3>1 DEF RetryCommits, CommitRetry, Freeze
  <2> QED
    BY <1>8, <2>1, <2>2, <2>3 DEF Continue
<1>9. ASSUME NEW p \in Payouts, ProviderSettle(p)
      PROVE  BalanceStep
  BY <1>3, <1>9 DEF ProviderSettle, walletVars
<1> QED
  BY <1>3, <1>5, <1>6, <1>7, <1>8, <1>9 DEF Next, Sync, Callback, vars, walletVars

\* What the user may spend is never negative: no interleaving of admins, no
\* lost answer, crash or late result overdraws the wallet.
THEOREM NeverOverdrawn == Spec => []AvailableNonNegative
<1>1. Init => AvailableNonNegative
  BY DEF Init, AvailableNonNegative
<1>2. TypeOK /\ AvailableNonNegative /\ [Next]_vars => AvailableNonNegative'
  BY StepBalances DEF BalanceStep, AvailableNonNegative
<1> QED
  BY <1>1, <1>2, TypeCorrect, PTL DEF Spec

LEMMA SumsKept ==
    ASSUME NEW a \in Int, NEW b \in Int, NEW c \in Int, NEW d \in Int,
           NEW a1 \in Int, NEW b1 \in Int, NEW c1 \in Int, NEW d1 \in Int,
           a + b + c <= d, a1 + b1 + c1 - d1 <= a + b + c - d
    PROVE  a1 + b1 + c1 <= d1
OBVIOUS

\* No interleaving makes money: what is available, frozen and withdrawn never
\* exceeds what was credited.
THEOREM NoMoneyMade == Spec => []NothingFromNothing
<1> DEFINE Inv == AvailableNonNegative /\ NothingFromNothing
<1>1. Init => Inv
  BY DEF Init, AvailableNonNegative, NothingFromNothing
<1>2. TypeOK /\ TypeOK' /\ Inv /\ [Next]_vars => Inv'
  <2> SUFFICES ASSUME TypeOK, TypeOK', Inv, [Next]_vars PROVE Inv'
    OBVIOUS
  <2>1. BalanceStep
    BY StepBalances
  <2>2. /\ available \in Int /\ frozen \in Int /\ income \in Int /\ withdrawn \in Int
        /\ available' \in Int /\ frozen' \in Int /\ income' \in Int /\ withdrawn' \in Int
    BY DEF TypeOK, WalletTypeOK
  <2>3. available' + frozen' + withdrawn' <= income'
    BY <2>1, <2>2, SumsKept DEF BalanceStep, NothingFromNothing
  <2> QED
    BY <2>1, <2>3 DEF BalanceStep, AvailableNonNegative, NothingFromNothing
<1> QED
  BY <1>1, <1>2, TypeCorrect, PTL DEF Spec

-----------------------------------------------------------------------------
(* A payout's stored status tells the truth.                                *)

TruthInv == PayoutsTruthful /\ CallsTruthful

\* A step that changes no row, no transfer and starts no call keeps it.
LEMMA TruthKept ==
    ASSUME TypeOK, TruthInv, UNCHANGED <<payoutVars, providerVars>>,
           \A a \in Admins : pc'[a] \in Calling \ {"signal"} => pc'[a] = pc[a] /\ job'[a] = job[a],
           \A a \in Admins : pc'[a] \in Calling => pc[a] \in Calling /\ job'[a] = job[a]
    PROVE  TruthInv'
BY DEF TruthInv, PayoutsTruthful, CallsTruthful, MoneySent, Calling, payoutVars, providerVars

LEMMA MarkPayoutTruth ==
    ASSUME TypeOK, TruthInv, NEW p \in Payouts, MarkPayout(p)
    PROVE  TruthInv'
<1>1. PayoutsTruthful'
  BY DEF MarkPayout, TruthInv, PayoutsTruthful, MoneySent, TypeOK, PayoutTypeOK, Live, Final,
         providerVars
<1>2. CallsTruthful'
  BY DEF MarkPayout, TruthInv, CallsTruthful, MoneySent, TypeOK, PayoutTypeOK, HandlerTypeOK, Jobs,
         Calling, providerVars, handlerVars
<1> QED
  BY <1>1, <1>2 DEF TruthInv

LEMMA ProviderSettleTruth ==
    ASSUME TypeOK, TruthInv, NEW p \in Payouts, ProviderSettle(p)
    PROVE  TruthInv'
<1>1. PayoutsTruthful'
  BY DEF ProviderSettle, TruthInv, PayoutsTruthful, MoneySent, TypeOK, ProviderTypeOK, Live, Final,
         payoutVars
<1>2. CallsTruthful'
  BY DEF ProviderSettle, TruthInv, CallsTruthful, MoneySent, TypeOK, ProviderTypeOK, HandlerTypeOK, Jobs,
         Calling, Live, Final, payoutVars, handlerVars
<1> QED
  BY <1>1, <1>2 DEF TruthInv

LEMMA CreateRowTruth ==
    ASSUME TypeOK, TruthInv, NEW a \in Admins, CreateRow(a)
    PROVE  TruthInv'
<1>1. job[a].p \in Payouts /\ job[a].w \in Withdrawals
  BY JobTyped DEF CreateRow, TypeOK
<1>2. CASE HasRow(job[a].p)
  BY <1>2, TruthKept DEF CreateRow, Leave, TypeOK, HandlerTypeOK, Calling
<1>3. CASE ~HasRow(job[a].p)
  <2>1. PayoutsTruthful'
    BY <1>1, <1>3
    DEF CreateRow, TruthInv, PayoutsTruthful, MoneySent, TypeOK, PayoutTypeOK, providerVars
  <2>2. \A b \in Admins : pc[b] \in Calling => job[b].p # job[a].p
    BY <1>3 DEF TypeOK, RowsExist
  <2>3. \A b \in Admins \ {a} : pc[b] \in Calling =>
           job[b].p \in Payouts /\ job[b].p # job[a].p
    BY <2>2, JobTyped DEF TypeOK, Calling
  <2>4. /\ pc' = [pc EXCEPT ![a] = "call"] /\ job' = job
        /\ pstatus' = [pstatus EXCEPT ![job[a].p] = "pending"]
        /\ owner' = [owner EXCEPT ![job[a].p] = job[a].w]
        /\ UNCHANGED providerVars
    BY <1>3 DEF CreateRow, Goto
  <2>5. \A b \in Admins \ {a} : pc'[b] = pc[b] /\ job'[b] = job[b]
    BY <2>4 DEF TypeOK, HandlerTypeOK
  <2>6. pc'[a] = "call" /\ job'[a] = job[a] /\ pstatus'[job[a].p] = "pending"
    BY <1>1, <2>4 DEF TypeOK, HandlerTypeOK, PayoutTypeOK
  <2>7. \A b \in Admins \ {a} : pc[b] \in Calling =>
           pstatus'[job[b].p] = pstatus[job[b].p] /\ owner'[job[b].p] = owner[job[b].p]
    BY <2>3, <2>4 DEF TypeOK, PayoutTypeOK
  <2>8. CallsTruthful'
    BY <2>3, <2>4, <2>5, <2>6, <2>7 DEF TruthInv, CallsTruthful, MoneySent, Calling, providerVars
  <2> QED
    BY <2>1, <2>8 DEF TruthInv
<1> QED
  BY <1>2, <1>3

\* WeChat's answer is about this handler's own row: no other handler waits on it.
LEMMA CallProviderTruth ==
    ASSUME TypeOK, TruthInv, NEW a \in Admins, CallProvider(a)
    PROVE  TruthInv'
<1> DEFINE w == job[a].w
           p == job[a].p
<1>1. /\ p \in Payouts /\ w \in Withdrawals /\ owner[p] = w
      /\ pc[a] = "call" /\ UNCHANGED payoutVars
  BY JobTyped DEF CallProvider, TypeOK, RowsExist, Calling
<1>2. pstatus[p] = "pending" \/ transfer[p] \in Final
  BY <1>1 DEF TruthInv, CallsTruthful
<1>3. \A b \in Admins \ {a} : pc'[b] = pc[b] /\ job'[b] = job[b]
  BY DEF CallProvider, Goto, TypeOK, HandlerTypeOK
<1>4. \A b \in Admins \ {a} : pc[b] \in Calling => job[b].p # p /\ job[b].p \in Payouts
  BY <1>1, JobTyped DEF TypeOK, TruthInv, CallsTruthful, Calling
<1>5. \A q \in Payouts \ {p} : /\ transfer'[q] = transfer[q] /\ bill'[q] = bill[q]
                               /\ q \in denied' <=> q \in denied
  BY <1>1 DEF CallProvider, TakeOrder, Accept, Deny, TypeOK, ProviderTypeOK, providerVars
<1>6. job' = job /\ pc'[a] # "call"
  BY DEF CallProvider, Goto, TypeOK, HandlerTypeOK
<1>7. /\ transfer[p] # "none" => transfer'[p] = transfer[p] /\ bill'[p] = bill[p]
      /\ p \in denied => p \in denied'
  BY <1>1
  DEF CallProvider, TakeOrder, Accept, Deny, CanAccept, TypeOK, ProviderTypeOK, providerVars
<1>8. pc'[a] = "refused" => p \in denied' \/ ~(bill'[p] = owner'[p] /\ transfer'[p] \in Live)
  <2>1. ASSUME pc'[a] = "refused"
        PROVE  (CanRefuse(p, w) /\ UNCHANGED providerVars) \/ p \in denied'
    BY <2>1 DEF CallProvider, Deny, Goto, TypeOK, HandlerTypeOK
  <2> QED
    BY <1>1, <2>1 DEF CanRefuse, Live, payoutVars, providerVars
<1>9. PayoutsTruthful'
  <2> SUFFICES ASSUME NEW q \in Payouts
               PROVE  /\ pstatus'[q] = "succeeded" => transfer'[q] = "success"
                      /\ pstatus'[q] = "failed" => q \in denied' \/ ~MoneySent(q)'
    BY DEF PayoutsTruthful
  <2>1. CASE q # p
    BY <1>1, <1>5, <2>1 DEF TruthInv, PayoutsTruthful, MoneySent, payoutVars
  <2>2. CASE q = p /\ transfer[p] # "none"
    BY <1>1, <1>7, <2>2 DEF TruthInv, PayoutsTruthful, MoneySent, payoutVars
  <2>3. CASE q = p /\ transfer[p] = "none"
    BY <1>1, <1>2, <2>3 DEF Final, payoutVars
  <2> QED
    BY <2>1, <2>2, <2>3
<1>10. CallsTruthful'
  <2>1. \A b, c \in Admins :
          pc'[b] \in Calling /\ pc'[c] \in Calling /\ job'[b].p = job'[c].p => b = c
    BY <1>1, <1>3, <1>4, <1>6 DEF TruthInv, CallsTruthful, Calling
  <2>2. \A b \in Admins : pc'[b] = "call" =>
           pstatus'[job'[b].p] = "pending" \/ transfer'[job'[b].p] \in Final
    BY <1>1, <1>3, <1>4, <1>5, <1>6 DEF TruthInv, CallsTruthful, Calling, payoutVars
  <2>3. \A b \in Admins : pc'[b] = "refused" =>
           job'[b].p \in denied' \/ ~(bill'[job'[b].p] = owner'[job'[b].p]
                                       /\ transfer'[job'[b].p] \in Live)
    BY <1>1, <1>3, <1>4, <1>5, <1>6, <1>8
    DEF TruthInv, CallsTruthful, MoneySent, Calling, payoutVars
  <2> QED
    BY <2>1, <2>2, <2>3 DEF CallsTruthful, MoneySent
<1> QED
  BY <1>9, <1>10 DEF TruthInv

\* The blind save of the reply: it says failed only of a refusal.
LEMMA RecordReplyTruth ==
    ASSUME TypeOK, TruthInv, NEW a \in Admins, RecordReply(a)
    PROVE  TruthInv'
<1> DEFINE p == job[a].p
<1>1. p \in Payouts /\ pc[a] \in {"accepted", "refused"} /\ UNCHANGED <<owner, providerVars>>
  BY JobTyped DEF RecordReply, TypeOK
<1>2. \A b \in Admins \ {a} : pc'[b] = pc[b] /\ job'[b] = job[b]
  BY DEF RecordReply, Goto, Leave, TypeOK, HandlerTypeOK
<1>3. \A b \in Admins \ {a} : pc[b] \in Calling => job[b].p # p /\ job[b].p \in Payouts
  BY <1>1, JobTyped DEF TypeOK, TruthInv, CallsTruthful, Calling
<1>4. \A q \in Payouts \ {p} : pstatus'[q] = pstatus[q]
  BY <1>1 DEF RecordReply, TypeOK, PayoutTypeOK
<1>5. pc'[a] = "idle" \/ (pc'[a] = "signal" /\ job'[a] = job[a])
  BY DEF RecordReply, Goto, Leave, TypeOK, HandlerTypeOK
<1>6. /\ pc[a] = "accepted" => pstatus'[p] = "processing"
      /\ pc[a] = "refused" => pstatus'[p] = "failed"
  BY <1>1 DEF RecordReply, TypeOK, PayoutTypeOK
<1>7. PayoutsTruthful'
  <2>1. pc[a] = "refused" => p \in denied \/ ~MoneySent(p)
    BY DEF TruthInv, CallsTruthful
  <2> QED
    BY <1>1, <1>4, <1>6, <2>1 DEF TruthInv, PayoutsTruthful, MoneySent, providerVars
<1>8. CallsTruthful'
  BY <1>1, <1>2, <1>3, <1>4, <1>5 DEF TruthInv, CallsTruthful, MoneySent, Calling, providerVars
<1> QED
  BY <1>7, <1>8 DEF TruthInv

\* A retry sends an order only for a key that has no row, so no stored status
\* and no handler is about it.
LEMMA RetryTruth ==
    ASSUME TypeOK, TruthInv, NEW a \in Admins, RetryCommits(a) \/ RetryRollsBack(a)
    PROVE  TruthInv'
<1> DEFINE p == job[a].p
           w == job[a].w
<1>1. p \in Payouts /\ w \in Withdrawals /\ Leave(a)
  BY JobTyped DEF RetryCommits, RetryRollsBack, TypeOK
<1>2. \A b \in Admins : pc'[b] # "idle" => pc'[b] = pc[b] /\ job'[b] = job[b]
  BY <1>1 DEF Leave, TypeOK, HandlerTypeOK
<1>3. CASE UNCHANGED <<payoutVars, providerVars>>
  BY <1>2, <1>3, TruthKept DEF Calling
<1>4. CASE ~HasRow(p) /\ Accept(p, w)
  <2>1. \A b \in Admins : pc[b] \in Calling => job[b].p # p /\ job[b].p \in Payouts
    BY <1>4, JobTyped DEF TypeOK, RowsExist, Calling
  <2>2. \A q \in Payouts \ {p} : /\ transfer'[q] = transfer[q] /\ bill'[q] = bill[q]
                                 /\ pstatus'[q] = pstatus[q] /\ owner'[q] = owner[q]
                                 /\ UNCHANGED denied
    BY <1>1, <1>4 DEF TakeOrder, Accept, RetryCommits, RetryRollsBack, TypeOK, ProviderTypeOK,
                      PayoutTypeOK, payoutVars, providerVars
  <2>3. pstatus'[p] \in {"absent", "processing"}
    BY <1>1, <1>4 DEF RetryCommits, RetryRollsBack, HasRow, TypeOK, PayoutTypeOK, payoutVars
  <2>4. PayoutsTruthful'
    BY <2>2, <2>3 DEF TruthInv, PayoutsTruthful, MoneySent
  <2>5. CallsTruthful'
    BY <1>2, <2>1, <2>2 DEF TruthInv, CallsTruthful, MoneySent, Calling
  <2> QED
    BY <2>4, <2>5 DEF TruthInv
<1> QED
  BY <1>3, <1>4 DEF RetryCommits, RetryRollsBack, HasRow

LEMMA StepTruth ==
    ASSUME TypeOK, TruthInv, [Next]_vars
    PROVE  TruthInv'
<1>1. ASSUME UNCHANGED <<payoutVars, providerVars, handlerVars>> PROVE TruthInv'
  BY <1>1, TruthKept DEF handlerVars
<1>2. ASSUME NEW k \in CreditKeys, NEW s \in Amounts, Credit(k, s) \/ Decrease(k, s)
      PROVE  TruthInv'
  BY <1>1, <1>2 DEF Credit, Decrease
<1>3. ASSUME NEW w \in Withdrawals, Request(w)
      PROVE  TruthInv'
  <2>1. ASSUME NEW a \in Admins, NEW p \in Payouts, StartPayout(a, w, p) \/ StartRetry(a, w, p)
        PROVE  TruthInv'
    BY <2>1, TruthKept DEF StartPayout, StartRetry, TypeOK, HandlerTypeOK, Calling
  <2> QED
    BY <1>1, <1>3, <2>1 DEF Request, Submit, Cancel, Reject, GiveBack, Approve, ReplayRetry
<1>4. ASSUME NEW a \in Admins, Continue(a) \/ Crash(a)
      PROVE  TruthInv'
  <2>1. CASE ClaimPayout(a) \/ UndoClaim(a) \/ Crash(a) \/ SignalRefusal(a)
    BY <2>1, TruthKept DEF ClaimPayout, UndoClaim, Crash, SignalRefusal, Goto, Leave,
                           TypeOK, HandlerTypeOK, Calling
  <2> QED
    BY <1>4, <2>1, CreateRowTruth, CallProviderTruth, RecordReplyTruth, RetryTruth DEF Continue
<1>5. ASSUME NEW p \in Payouts, ProviderSettle(p) \/ MarkPayout(p)
      PROVE  TruthInv'
  BY <1>5, ProviderSettleTruth, MarkPayoutTruth
<1> QED
  BY <1>1, <1>2, <1>3, <1>4, <1>5 DEF Next, Sync, Callback, vars

\* A stored payout status claims only what WeChat did or said: nothing is called
\* succeeded that did not arrive, and a payout whose money is under way is called
\* failed only when WeChat answered its order with an error.
THEOREM StatusTellsTruth == Spec => []PayoutsTruthful
<1>1. Init => TruthInv
  BY DEF Init, TruthInv, PayoutsTruthful, CallsTruthful, Calling
<1>2. TypeOK /\ TruthInv /\ [Next]_vars => TruthInv'
  BY StepTruth
<1>3. TruthInv => PayoutsTruthful
  BY DEF TruthInv
<1> QED
  BY <1>1, <1>2, <1>3, TypeCorrect, PTL DEF Spec

-----------------------------------------------------------------------------
(* A closed request stays closed.                                           *)

\* A running request, and every row of a payout, is of a withdrawal that was approved.
Closed == {"cancelled", "rejected"}
Reviewed(w) == status[w] \notin Closed \cup {"none", "pending_review"}

ReviewedInv ==
    /\ \A a \in Admins : pc[a] # "idle" => Reviewed(job[a].w)
    /\ \A p \in Payouts : HasRow(p) => Reviewed(owner[p])

ClosedStep ==
    \A w \in Withdrawals : status[w] \in Closed => status'[w] = status[w]

\* A status saved by a handler: of a withdrawal that is not closed, and reviewed ones
\* stay reviewed.
SavesStatus(w, s) ==
    /\ SetStatus(w, s)
    /\ status[w] \notin Closed
    /\ Reviewed(w) => s \notin Closed \cup {"none", "pending_review"}

LEMMA ResultSaves ==
    ASSUME NEW w \in Withdrawals, NEW ok \in BOOLEAN, HandleResult(w, ok)
    PROVE  UNCHANGED status \/ \E s \in Statuses : SavesStatus(w, s)
BY DEF HandleResult, Settle, Refund, SavesStatus, Reviewed, Closed, Statuses, walletVars

LEMMA StepSaves ==
    ASSUME TypeOK, ReviewedInv, [Next]_vars
    PROVE  UNCHANGED status \/ \E w \in Withdrawals, s \in Statuses : SavesStatus(w, s)
<1>1. ASSUME NEW w \in Withdrawals, Request(w)
      PROVE  UNCHANGED status \/ \E s \in Statuses : SavesStatus(w, s)
  <2>1. ASSUME NEW a \in Amounts, Submit(w, a) PROVE SavesStatus(w, "pending_review")
    BY <2>1 DEF Submit, SavesStatus, Reviewed, Closed
  <2>2. ASSUME NEW s, NEW key, GiveBack(w, s, key) PROVE SavesStatus(w, s)
    BY <2>2 DEF GiveBack, SavesStatus, Reviewed, Closed
  <2>3. CASE Approve(w)
    BY <2>3 DEF Approve, SavesStatus, Reviewed, Closed, Statuses
  <2>4. ASSUME NEW p \in Payouts, ReplayRetry(w, p) PROVE SavesStatus(w, "approved")
    BY <2>4 DEF ReplayRetry, CanRetry, CommitRetry, SavesStatus, Closed
  <2>5. ASSUME NEW a \in Admins, NEW p \in Payouts, StartPayout(a, w, p) \/ StartRetry(a, w, p)
        PROVE  UNCHANGED status
    BY <2>5 DEF StartPayout, StartRetry, walletVars
  <2> QED
    BY <1>1, <2>1, <2>2, <2>3, <2>4, <2>5 DEF Request, Cancel, Reject, Statuses
<1>2. ASSUME NEW p \in Payouts, MarkPayout(p)
      PROVE  UNCHANGED status \/ \E w \in Withdrawals, s \in Statuses : SavesStatus(w, s)
  <2>1. owner[p] \in Withdrawals /\ \E ok \in BOOLEAN : HandleResult(owner[p], ok)
    BY <1>2 DEF MarkPayout, TypeOK, PayoutTypeOK, HasRow, Open
  <2> QED
    BY <2>1, ResultSaves
<1>3. ASSUME NEW a \in Admins, Continue(a) \/ Crash(a)
      PROVE  UNCHANGED status \/ \E w \in Withdrawals, s \in Statuses : SavesStatus(w, s)
  <2> DEFINE w == job[a].w
  <2>1. w \in Withdrawals /\ job[a].p \in Payouts /\ Reviewed(w) /\ pc[a] # "idle"
    BY <1>3, JobTyped
    DEF Continue, ClaimPayout, CreateRow, CallProvider, RecordReply, SignalRefusal,
        UndoClaim, RetryCommits, RetryRollsBack, Crash, TypeOK, ReviewedInv
  <2>2. CASE \/ CreateRow(a) \/ CallProvider(a) \/ RecordReply(a)
             \/ RetryRollsBack(a) \/ Crash(a)
    BY <2>2 DEF CreateRow, CallProvider, RecordReply, RetryRollsBack, Crash, walletVars
  <2>3. CASE ClaimPayout(a) \/ UndoClaim(a) \/ RetryCommits(a)
    <3>1. PICK s \in {"paying", "approved"} : SetStatus(w, s)
      BY <2>3 DEF ClaimPayout, UndoClaim, RetryCommits, CommitRetry
    <3>2. SavesStatus(w, s)
      BY <2>1, <3>1 DEF SavesStatus, Reviewed, Closed
    <3> QED
      BY <2>1, <3>2 DEF Statuses
  <2>4. CASE SignalRefusal(a)
    <3>1. owner[job[a].p] = w
      BY <2>4 DEF SignalRefusal, TypeOK, RowsExist, Calling
    <3>2. HandleResult(w, FALSE) \/ UNCHANGED status
      BY <2>4, <3>1 DEF SignalRefusal, walletVars
    <3> QED
      BY <2>1, <3>2, ResultSaves
  <2> QED
    BY <1>3, <2>2, <2>3, <2>4 DEF Continue
<1>4. CASE \/ UNCHANGED vars
           \/ \E p \in Payouts : ProviderSettle(p)
           \/ \E k \in CreditKeys, a \in Amounts : Credit(k, a) \/ Decrease(k, a)
  BY <1>4 DEF ProviderSettle, Credit, Decrease, vars, walletVars
<1> QED
  BY <1>1, <1>2, <1>3, <1>4 DEF Next, Sync, Callback

\* Where the jobs and the rows of a step come from.
LEMMA StepStarts ==
    ASSUME TypeOK, ReviewedInv, [Next]_vars
    PROVE  /\ \A a \in Admins : pc'[a] # "idle" =>
                 job'[a].w \in Withdrawals /\ Reviewed(job'[a].w)
           /\ \A p \in Payouts : HasRow(p)' =>
                 owner'[p] \in Withdrawals /\ Reviewed(owner'[p])
<1> DEFINE Jobs1 == \A a \in Admins : pc'[a] # "idle" =>
                       job'[a].w \in Withdrawals /\ Reviewed(job'[a].w)
           Rows1 == \A p \in Payouts : HasRow(p)' =>
                       owner'[p] \in Withdrawals /\ Reviewed(owner'[p])
<1>1. /\ \A a \in Admins : pc[a] # "idle" => job[a].w \in Withdrawals /\ Reviewed(job[a].w)
      /\ \A p \in Payouts : HasRow(p) => owner[p] \in Withdrawals /\ Reviewed(owner[p])
  BY JobTyped DEF TypeOK, PayoutTypeOK, ReviewedInv
<1>2. ASSUME UNCHANGED handlerVars PROVE Jobs1
  BY <1>1, <1>2 DEF handlerVars
<1>3. ASSUME UNCHANGED payoutVars PROVE Rows1
  BY <1>1, <1>3 DEF payoutVars, HasRow
<1>4. ASSUME NEW a \in Admins, NEW s, pc[a] # "idle", Goto(a, s) \/ Leave(a) PROVE Jobs1
  BY <1>1, <1>4 DEF Goto, Leave, TypeOK, HandlerTypeOK
<1>5. ASSUME NEW p \in Payouts, HasRow(p), NEW s, pstatus' = [pstatus EXCEPT ![p] = s],
             UNCHANGED owner
      PROVE  Rows1
  BY <1>1, <1>5 DEF HasRow, TypeOK, PayoutTypeOK
<1>6. ASSUME NEW p \in Payouts, NEW w \in Withdrawals, Reviewed(w),
             NEW s, pstatus' = [pstatus EXCEPT ![p] = s], owner' = [owner EXCEPT ![p] = w]
      PROVE  Rows1
  BY <1>1, <1>6 DEF HasRow, TypeOK, PayoutTypeOK
<1>7. ASSUME NEW w \in Withdrawals, Request(w) PROVE Jobs1 /\ Rows1
  <2>1. CASE \/ \E a \in Amounts : Submit(w, a)
             \/ Cancel(w) \/ Approve(w) \/ (\E rk \in ReviewKeys : Reject(w, rk))
             \/ \E p \in Payouts : ReplayRetry(w, p)
    BY <1>2, <1>3, <2>1 DEF Submit, Cancel, Approve, Reject, GiveBack, ReplayRetry
  <2>2. ASSUME NEW a \in Admins, NEW p \in Payouts, StartPayout(a, w, p) \/ StartRetry(a, w, p)
        PROVE  Jobs1 /\ Rows1
    <3>1. Reviewed(w) /\ job' = [job EXCEPT ![a] = [w |-> w, p |-> p]] /\ UNCHANGED payoutVars
          /\ \E s : pc' = [pc EXCEPT ![a] = s]
      BY <2>2 DEF StartPayout, StartRetry, CanRetry, Reviewed, Closed
    <3>2. Jobs1
      BY <1>1, <3>1 DEF TypeOK, HandlerTypeOK
    <3> QED
      BY <1>3, <3>1, <3>2
  <2> QED
    BY <1>7, <2>1, <2>2 DEF Request
<1>8. ASSUME NEW p \in Payouts, MarkPayout(p) PROVE Jobs1 /\ Rows1
  BY <1>2, <1>5, <1>8 DEF MarkPayout, HasRow, Open
<1>9. ASSUME NEW a \in Admins, Continue(a) \/ Crash(a) PROVE Jobs1 /\ Rows1
  <2> DEFINE w == job[a].w
             p == job[a].p
  <2>1. w \in Withdrawals /\ p \in Payouts /\ Reviewed(w) /\ pc[a] # "idle"
    BY <1>1, <1>9, JobTyped
    DEF Continue, ClaimPayout, CreateRow, CallProvider, RecordReply, SignalRefusal,
        UndoClaim, RetryCommits, RetryRollsBack, Crash, TypeOK
  <2>2. Jobs1
    <3>1. Leave(a) \/ \E s \in Steps : Goto(a, s)
      BY <1>9 DEF Continue, ClaimPayout, CreateRow, CallProvider, RecordReply, SignalRefusal,
                  UndoClaim, RetryCommits, RetryRollsBack, Crash, Steps
    <3> QED
      BY <1>4, <2>1, <3>1
  <2>3. CASE CreateRow(a) \/ RetryCommits(a)
    <3>1. \/ UNCHANGED payoutVars
          \/ \E s \in Open : /\ pstatus' = [pstatus EXCEPT ![p] = s]
                              /\ owner' = [owner EXCEPT ![p] = w]
      BY <2>3 DEF CreateRow, RetryCommits, Open
    <3> QED
      BY <1>3, <1>6, <2>1, <2>2, <3>1
  <2>4. CASE RecordReply(a)
    <3>1. HasRow(p) /\ UNCHANGED owner /\ \E s : pstatus' = [pstatus EXCEPT ![p] = s]
      BY <2>4 DEF RecordReply, TypeOK, RowsExist, Calling
    <3> QED
      BY <1>5, <2>1, <2>2, <3>1
  <2>5. CASE \/ ClaimPayout(a) \/ CallProvider(a) \/ SignalRefusal(a) \/ UndoClaim(a)
             \/ RetryRollsBack(a) \/ Crash(a)
    BY <1>3, <2>2, <2>5
    DEF ClaimPayout, CallProvider, SignalRefusal, UndoClaim, RetryRollsBack, Crash
  <2> HIDE DEF Jobs1, Rows1
  <2> QED
    BY <1>9, <2>3, <2>4, <2>5 DEF Continue
<1>10. CASE \/ UNCHANGED vars
            \/ \E p \in Payouts : ProviderSettle(p)
            \/ \E k \in CreditKeys, a \in Amounts : Credit(k, a) \/ Decrease(k, a)
  BY <1>2, <1>3, <1>10 DEF ProviderSettle, Credit, Decrease, vars
<1>11. \/ \E w \in Withdrawals : Request(w)
       \/ \E p \in Payouts : MarkPayout(p)
       \/ \E a \in Admins : Continue(a) \/ Crash(a)
       \/ UNCHANGED vars
       \/ \E p \in Payouts : ProviderSettle(p)
       \/ \E k \in CreditKeys, a \in Amounts : Credit(k, a) \/ Decrease(k, a)
  BY DEF Next, Sync, Callback
<1> QED
  BY <1>7, <1>8, <1>9, <1>10, <1>11

LEMMA StepReviewed ==
    ASSUME TypeOK, ReviewedInv, [Next]_vars
    PROVE  ReviewedInv' /\ ClosedStep
<1>1. \A w \in Withdrawals : Reviewed(w) => Reviewed(w)'
  BY StepSaves DEF SavesStatus, SetStatus, Reviewed, TypeOK, WalletTypeOK
<1>2. ClosedStep
  BY StepSaves DEF SavesStatus, SetStatus, ClosedStep, TypeOK, WalletTypeOK
<1> QED
  BY <1>1, <1>2, StepStarts DEF ReviewedInv, Reviewed, HasRow

\* A request that was cancelled or rejected stays so: no stale handler claims it or puts
\* it back, because none ever works on a request that was not approved.
THEOREM ClosedForGood == Spec => ClosedStaysClosed
<1>1. Init => ReviewedInv
  BY DEF Init, ReviewedInv, HasRow
<1>2. TypeOK /\ ReviewedInv /\ [Next]_vars => ReviewedInv'
  BY StepReviewed
<1>3. TypeOK /\ ReviewedInv /\ [Next]_vars =>
          [\A w \in Withdrawals :
              status[w] \in {"cancelled", "rejected"} => status'[w] = status[w]]_vars
  BY StepReviewed DEF ClosedStep, Closed
<1> QED
  BY <1>1, <1>2, <1>3, TypeCorrect, PTL DEF Spec, ClosedStaysClosed
=============================================================================
