------------------------ MODULE WalletSerial_proofs ------------------------
(* WalletPayout while payouts are started one at a time and WeChat answers  *)
(* every order it takes, with its acceptance: nobody is paid twice, the     *)
(* frozen balance backs the open requests, and the wallet keeps             *)
(* WithdrawalPromise.  The runs wallet_two_admins and wallet_timeout show   *)
(* that it needs both.                                                      *)
EXTENDS WalletLedger_proofs

\* One admin request at a time; an order may be lost before it reaches WeChat.
OneAtATime ==
    /\ \A a, b \in Admins : a = b
    /\ Faults \subseteq {"lost"}

\* A transfer whose result may still change the wallet, or already paid: one under
\* way or arrived, or one that failed before its withdrawal was ever refunded.  (A
\* later failure finds the refund's ledger key used and changes nothing.)
Active(p) ==
    \/ transfer[p] \in Live
    \/ transfer[p] = "fail" /\ ~Used(<<"refund", owner[p]>>)

Dormant(w) == \A p \in Payouts : Active(p) => owner[p] # w

\* Every order WeChat knows has its row, for the same withdrawal.
OrdersHaveRows ==
    \A p \in Payouts : transfer[p] # "none" => HasRow(p) /\ bill[p] = owner[p]

ActiveIsHeld ==
    \A p \in Payouts : Active(p) => status[owner[p]] \in {"paying", "paid"}

ActiveIsAlone ==
    \A p, q \in Payouts : Active(p) /\ Active(q) /\ owner[p] = owner[q] => p = q

PaidArrived ==
    \A w \in Withdrawals :
        status[w] = "paid" => \E p \in Payouts : owner[p] = w /\ transfer[p] = "success"

\* The steps of a request that has no order under way, and the status its
\* withdrawal keeps meanwhile.
Quiet == {"claim", "create", "call", "refused", "signal", "undo", "retry"}
StatusAt(step) ==
    CASE step = "claim" -> "approved" [] step = "retry" -> "failed" [] OTHER -> "paying"

QuietJob(a) ==
    pc[a] \in Quiet =>
        /\ Dormant(job[a].w)
        /\ status[job[a].w] = StatusAt(pc[a])
        /\ pc[a] \in {"claim", "create", "retry"} => ~HasRow(job[a].p)
        /\ pc[a] = "call" => transfer[job[a].p] = "none"

SerialInv ==
    /\ OrdersHaveRows
    /\ ActiveIsHeld
    /\ ActiveIsAlone
    /\ PaidArrived
    /\ \A a \in Admins : QuietJob(a)

-----------------------------------------------------------------------------

\* No step removes a ledger entry.
LEMMA LedgerGrows ==
    ASSUME TypeOK, [Next]_vars
    PROVE  \A key : Used(key) => Used(key)'
BY StepPosts DEF LedgerStep, Posts, PostsNothing, Used

LEMMA RowOwners ==
    ASSUME TypeOK, SerialInv
    PROVE  \A p \in Payouts : Active(p) => owner[p] \in Withdrawals /\ HasRow(p)
BY DEF TypeOK, PayoutTypeOK, SerialInv, OrdersHaveRows, Active, Live

\* Steps that change one status: of a withdrawal that has no transfer and no
\* request under way.
LEMMA StatusChanges ==
    ASSUME TypeOK, SerialInv, \A key : Used(key) => Used(key)',
           UNCHANGED <<payoutVars, providerVars, handlerVars>>,
           NEW w \in Withdrawals, NEW s \in Statuses \ {"paid"}, SetStatus(w, s),
           Dormant(w), \A a \in Admins : pc[a] \in Quiet => job[a].w # w
    PROVE  SerialInv'
<1>1. \A p \in Payouts : Active(p)' => Active(p)
  BY DEF Active, payoutVars, providerVars
<1>2. \A v \in Withdrawals : v # w => status'[v] = status[v]
  BY DEF SetStatus, TypeOK, WalletTypeOK
<1>3. status'[w] # "paid"
  BY DEF SetStatus, TypeOK, WalletTypeOK
<1>4. OrdersHaveRows'
  BY DEF SerialInv, OrdersHaveRows, HasRow, payoutVars, providerVars
<1>5. ActiveIsHeld'
  BY <1>1, <1>2, RowOwners DEF SerialInv, ActiveIsHeld, Dormant, payoutVars
<1>6. ActiveIsAlone'
  BY <1>1 DEF SerialInv, ActiveIsAlone, payoutVars
<1>7. PaidArrived'
  BY <1>2, <1>3 DEF SerialInv, PaidArrived, payoutVars, providerVars
<1>8. ASSUME NEW a \in Admins PROVE QuietJob(a)'
  <2>1. pc[a] \in Quiet => job[a].w \in Withdrawals
    BY JobTyped DEF TypeOK, Quiet
  <2>2. QuietJob(a)
    BY DEF SerialInv
  <2> QED
    BY <1>1, <1>2, <2>1, <2>2 DEF QuietJob, Dormant, HasRow, payoutVars, providerVars, handlerVars
<1> QED
  BY <1>4, <1>5, <1>6, <1>7, <1>8 DEF SerialInv

LEMMA NothingChanges ==
    ASSUME SerialInv, \A key : Used(key) => Used(key)',
           UNCHANGED <<status, payoutVars, providerVars, handlerVars>>
    PROVE  SerialInv'
<1>1. \A p \in Payouts : Active(p)' => Active(p)
  BY DEF Active, payoutVars, providerVars
<1> QED
  BY <1>1 DEF SerialInv, OrdersHaveRows, ActiveIsHeld, ActiveIsAlone, PaidArrived, QuietJob,
              Dormant, HasRow, payoutVars, providerVars, handlerVars

LEMMA RequestSerial ==
    ASSUME OneAtATime, TypeOK, SerialInv, \A key : Used(key) => Used(key)',
           NEW w \in Withdrawals, Request(w)
    PROVE  SerialInv'
<1>1. ASSUME status[w] \notin {"paying", "paid"} PROVE Dormant(w)
  BY <1>1 DEF SerialInv, ActiveIsHeld, Dormant
<1>2. ASSUME status[w] \in {"none", "pending_review"}
      PROVE  \A a \in Admins : pc[a] \in Quiet => job[a].w # w
  BY <1>2 DEF SerialInv, QuietJob, StatusAt
<1>3. CASE \/ \E s \in Amounts : Submit(w, s)
           \/ Cancel(w) \/ Approve(w) \/ \E rk \in ReviewKeys : Reject(w, rk)
  <2>1. status[w] \in {"none", "pending_review"}
    BY <1>3 DEF Submit, Cancel, Approve, Reject, GiveBack
  <2>2. PICK s \in {"pending_review", "cancelled", "approved", "rejected"} : SetStatus(w, s)
    BY <1>3 DEF Submit, Cancel, Approve, Reject, GiveBack
  <2>3. UNCHANGED <<payoutVars, providerVars, handlerVars>>
    BY <1>3 DEF Submit, Cancel, Approve, Reject, GiveBack
  <2> QED
    BY <1>1, <1>2, <2>1, <2>2, <2>3, StatusChanges DEF Statuses
<1>4. ASSUME NEW p \in Payouts, ReplayRetry(w, p) PROVE SerialInv'
  <2>1. \A a \in Admins : pc[a] \in Quiet => job[a].w # w
    BY <1>4 DEF ReplayRetry, CanRetry, WalletUnlocked, SerialInv, QuietJob, StatusAt
  <2> QED
    BY <1>1, <1>4, <2>1, StatusChanges DEF ReplayRetry, CanRetry, CommitRetry, Statuses
<1>5. ASSUME NEW a \in Admins, NEW p \in Payouts, StartPayout(a, w, p) \/ StartRetry(a, w, p)
      PROVE  SerialInv'
  <2>1. /\ UNCHANGED <<walletVars, payoutVars, providerVars>>
        /\ job'[a] = [w |-> w, p |-> p] /\ ~HasRow(p)
        /\ \/ pc'[a] = "claim" /\ status[w] = "approved"
           \/ pc'[a] = "retry" /\ status[w] = "failed"
    BY <1>5 DEF StartPayout, StartRetry, CanRetry, TypeOK, HandlerTypeOK
  <2>2. Dormant(w)
    BY <1>1, <2>1
  <2>3. QuietJob(a)'
    BY <2>1, <2>2 DEF QuietJob, StatusAt, Dormant, Active, Used, HasRow,
                      walletVars, payoutVars, providerVars
  <2>4. \A b \in Admins : QuietJob(b)'
    BY <2>3 DEF OneAtATime
  <2>5. \A q \in Payouts : Active(q)' <=> Active(q)
    BY <2>1 DEF Active, Used, walletVars, payoutVars, providerVars
  <2>6. (OrdersHaveRows /\ PaidArrived)'
    BY <2>1 DEF SerialInv, OrdersHaveRows, PaidArrived, HasRow,
                walletVars, payoutVars, providerVars
  <2>7. (ActiveIsHeld /\ ActiveIsAlone)'
    BY <2>1, <2>5 DEF SerialInv, ActiveIsHeld, ActiveIsAlone, walletVars, payoutVars
  <2> QED
    BY <2>4, <2>6, <2>7 DEF SerialInv
<1> QED
  BY <1>3, <1>4, <1>5 DEF Request

\* A result that changes the wallet is of the one active transfer of its withdrawal.
LEMMA MarkPayoutSerial ==
    ASSUME TypeOK, SerialInv, \A key : Used(key) => Used(key)',
           NEW p \in Payouts, MarkPayout(p)
    PROVE  SerialInv'
<1> DEFINE w == owner[p]
           ok == transfer[p] = "success"
<1>1. /\ w \in Withdrawals /\ transfer[p] \in Final /\ HandleResult(w, ok)
      /\ UNCHANGED <<owner, providerVars, handlerVars>>
  BY DEF MarkPayout, TypeOK, PayoutTypeOK, HasRow, Open
<1>2. \A q \in Payouts : HasRow(q)' <=> HasRow(q)
  BY DEF MarkPayout, HasRow, TypeOK, PayoutTypeOK, Open
<1>3. \A q \in Payouts : Active(q)' => Active(q)
  BY <1>1 DEF Active, providerVars
<1>4. CASE UNCHANGED walletVars
  <2>1. ASSUME NEW a \in Admins PROVE QuietJob(a)'
    <3>1. QuietJob(a) /\ (pc[a] \in Quiet => job[a].p \in Payouts)
      BY JobTyped DEF SerialInv, TypeOK, Quiet
    <3> QED
      BY <1>1, <1>2, <1>3, <1>4, <3>1 DEF QuietJob, Dormant, walletVars, providerVars, handlerVars
  <2> QED
    BY <1>1, <1>2, <1>3, <1>4, <2>1 DEF SerialInv, OrdersHaveRows, ActiveIsHeld, ActiveIsAlone,
          PaidArrived, walletVars, providerVars
<1>5. CASE status[w] = "paying" /\ ((ok /\ Settle(w)) \/ (~ok /\ Refund(w)))
  <2>1. Active(p)
    BY <1>1, <1>5 DEF Active, Live, Final, Refund, Post
  <2>2. \A q \in Payouts : owner[q] = w /\ Active(q) => q = p
    BY <2>1 DEF SerialInv, ActiveIsAlone
  <2>3. \A v \in Withdrawals : v # w => status'[v] = status[v]
    BY <1>5 DEF Settle, Refund, SetStatus, TypeOK, WalletTypeOK
  <2>4. \/ status'[w] = "paid" /\ transfer[p] = "success"
        \/ status'[w] = "failed" /\ ~Active(p)'
    <3>1. CASE ok /\ Settle(w)
      BY <1>1, <3>1 DEF Settle, SetStatus, TypeOK, WalletTypeOK
    <3>2. CASE ~ok /\ Refund(w)
      <4>1. [key |-> <<"refund", w>>, delta |-> amount[w]] \in ledger' /\ owner' = owner
        BY <1>1, <3>2 DEF Refund, Post
      <4>2. status'[w] = "failed" /\ transfer[p] = "fail"
        BY <1>1, <3>2 DEF Refund, SetStatus, Final, TypeOK, WalletTypeOK
      <4> QED
        BY <4>1, <4>2, <1>1 DEF Active, Live, Used, providerVars
    <3> QED
      BY <1>5, <3>1, <3>2
  <2>5. ActiveIsHeld'
    BY <1>1, <1>3, <2>2, <2>3, <2>4, RowOwners DEF SerialInv, ActiveIsHeld
  <2>6. PaidArrived'
    BY <1>1, <2>3, <2>4 DEF SerialInv, PaidArrived, providerVars
  <2>7. ASSUME NEW a \in Admins PROVE QuietJob(a)'
    <3>1. QuietJob(a) /\ (pc[a] \in Quiet => job[a].w \in Withdrawals /\ job[a].p \in Payouts)
      BY JobTyped DEF SerialInv, TypeOK, Quiet
    <3>2. pc[a] \in Quiet => job[a].w # w
      BY <2>1, <3>1 DEF QuietJob, Dormant
    <3> QED
      BY <1>1, <1>2, <1>3, <2>3, <3>1, <3>2 DEF QuietJob, Dormant, providerVars, handlerVars
  <2> QED
    BY <1>1, <1>2, <1>3, <2>5, <2>6, <2>7
    DEF SerialInv, OrdersHaveRows, ActiveIsAlone, providerVars
<1>6. \/ UNCHANGED walletVars
      \/ status[w] = "paying" /\ ((ok /\ Settle(w)) \/ (~ok /\ Refund(w)))
  <2> HIDE DEF w, ok
  <2> QED
    BY <1>1 DEF HandleResult
<1> QED
  BY <1>4, <1>5, <1>6

LEMMA ProviderSettleSerial ==
    ASSUME TypeOK, SerialInv, NEW p \in Payouts, ProviderSettle(p)
    PROVE  SerialInv'
<1>1. \A q \in Payouts : Active(q)' => Active(q)
  BY DEF ProviderSettle, Active, Live, Used, TypeOK, ProviderTypeOK, walletVars, payoutVars
<1>2. \A q \in Payouts : /\ transfer'[q] # "none" <=> transfer[q] # "none"
                         /\ transfer[q] = "success" => transfer'[q] = "success"
  BY DEF ProviderSettle, Final, TypeOK, ProviderTypeOK
<1>3. UNCHANGED <<status, payoutVars, bill, handlerVars>>
  BY DEF ProviderSettle, walletVars
<1>4. ASSUME NEW a \in Admins PROVE QuietJob(a)'
  <2>1. QuietJob(a) /\ (pc[a] \in Quiet => job[a].p \in Payouts)
    BY JobTyped DEF SerialInv, TypeOK, Quiet
  <2> QED
    BY <1>1, <1>2, <1>3, <2>1 DEF QuietJob, Quiet, Dormant, HasRow, payoutVars, handlerVars
<1> QED
  BY <1>1, <1>2, <1>3, <1>4 DEF SerialInv, OrdersHaveRows, ActiveIsHeld, ActiveIsAlone,
        PaidArrived, HasRow, payoutVars

\* The steps of the one request that runs.
LEMMA ContinueSerial ==
    ASSUME OneAtATime, TypeOK, SerialInv, \A key : Used(key) => Used(key)',
           NEW a \in Admins, Continue(a) \/ Crash(a)
    PROVE  SerialInv'
<1> DEFINE w == job[a].w
           p == job[a].p
<1>1. pc[a] # "idle" /\ w \in Withdrawals /\ p \in Payouts
  BY JobTyped DEF Continue, ClaimPayout, CreateRow, CallProvider, RecordReply, SignalRefusal,
                  UndoClaim, RetryCommits, RetryRollsBack, Crash, TypeOK
<1>2. \A b \in Admins : b = a
  BY DEF OneAtATime
<1>3. \A fault \in {"crash", "timeout", "error"} : fault \notin Faults
  BY DEF OneAtATime
<1>4. QuietJob(a)
  BY DEF SerialInv
<1>5. ASSUME UNCHANGED providerVars,
             \A q \in Payouts : HasRow(q) => HasRow(q)' /\ owner'[q] = owner[q],
             \/ UNCHANGED status
             \/ Dormant(w) /\ \E s \in Statuses \ {"paid"} : SetStatus(w, s),
             QuietJob(a)'
      PROVE  SerialInv'
  <2>1. \A q \in Payouts : Active(q)' => Active(q) /\ owner'[q] = owner[q]
    BY <1>5 DEF Active, Live, SerialInv, OrdersHaveRows, providerVars
  <2>2. \A v \in Withdrawals : v # w => status'[v] = status[v]
    BY <1>5 DEF SetStatus, TypeOK, WalletTypeOK
  <2>3. status'[w] # "paid" \/ UNCHANGED status
    BY <1>1, <1>5 DEF SetStatus, TypeOK, WalletTypeOK
  <2>4. OrdersHaveRows'
    BY <1>5 DEF SerialInv, OrdersHaveRows, providerVars
  <2>5. ActiveIsHeld'
    <3> SUFFICES ASSUME NEW q \in Payouts, Active(q)'
                 PROVE  status'[owner'[q]] \in {"paying", "paid"}
      BY DEF ActiveIsHeld
    <3>1. Active(q) /\ owner'[q] = owner[q] /\ owner[q] \in Withdrawals
      BY <2>1, RowOwners
    <3>2. status[owner[q]] \in {"paying", "paid"}
      BY <3>1 DEF SerialInv, ActiveIsHeld
    <3> QED
      BY <1>5, <2>2, <3>1, <3>2 DEF Dormant
  <2>6. ActiveIsAlone'
    BY <2>1 DEF SerialInv, ActiveIsAlone
  <2>7. PaidArrived'
    <3> SUFFICES ASSUME NEW v \in Withdrawals, status'[v] = "paid"
                 PROVE  \E q \in Payouts : owner'[q] = v /\ transfer'[q] = "success"
      BY DEF PaidArrived
    <3>1. status[v] = "paid"
      BY <2>2, <2>3
    <3>2. PICK q \in Payouts : owner[q] = v /\ transfer[q] = "success"
      BY <3>1 DEF SerialInv, PaidArrived
    <3> QED
      BY <1>5, <3>2 DEF SerialInv, OrdersHaveRows, providerVars
  <2> QED
    BY <1>2, <1>5, <2>4, <2>5, <2>6, <2>7 DEF SerialInv
<1>6. ASSUME Dormant(w), UNCHANGED providerVars,
             \A q \in Payouts : HasRow(q) => HasRow(q)' /\ owner'[q] = owner[q],
             job'[a] = job[a]
      PROVE  Dormant(job[a].w)'
  BY <1>6 DEF Dormant, Active, Live, SerialInv, OrdersHaveRows, providerVars
\* An order that WeChat takes for a withdrawal that is dormant and in payment.
<1>7. ASSUME Dormant(w), Accept(p, w), transfer[p] = "none",
             \A q \in Payouts : q # p => (HasRow(q) => HasRow(q)') /\ owner'[q] = owner[q],
             pstatus'[p] # "absent", owner'[p] = w, SetStatus(w, "paying"),
             pc'[a] \in {"idle", "accepted"}
      PROVE  SerialInv'
  <2>1. /\ transfer'[p] = "accepted" /\ bill'[p] = w
        /\ \A q \in Payouts : q # p => transfer'[q] = transfer[q] /\ bill'[q] = bill[q]
    BY <1>1, <1>7 DEF TakeOrder, Accept, TypeOK, ProviderTypeOK
  <2>2. \A q \in Payouts : q # p /\ Active(q)' => Active(q) /\ owner[q] # w
    BY <1>7, <2>1 DEF Active, Dormant
  <2>3. status'[w] = "paying" /\ \A v \in Withdrawals : v # w => status'[v] = status[v]
    BY <1>1, <1>7 DEF SetStatus, TypeOK, WalletTypeOK
  <2>4. OrdersHaveRows'
    <3> SUFFICES ASSUME NEW q \in Payouts, transfer'[q] # "none"
                 PROVE  HasRow(q)' /\ bill'[q] = owner'[q]
      BY DEF OrdersHaveRows
    <3>1. CASE q = p
      BY <1>7, <2>1, <3>1 DEF HasRow
    <3>2. CASE q # p
      BY <1>7, <2>1, <3>2 DEF SerialInv, OrdersHaveRows
    <3> QED
      BY <3>1, <3>2
  <2>5. ActiveIsHeld'
    <3> SUFFICES ASSUME NEW q \in Payouts, Active(q)'
                 PROVE  status'[owner'[q]] \in {"paying", "paid"}
      BY DEF ActiveIsHeld
    <3>1. CASE q = p
      BY <1>7, <2>3, <3>1
    <3>2. CASE q # p
      <4>1. Active(q) /\ owner'[q] = owner[q] /\ owner[q] # w /\ owner[q] \in Withdrawals
        BY <1>7, <2>2, <3>2, RowOwners
      <4> QED
        BY <2>3, <4>1 DEF SerialInv, ActiveIsHeld
    <3> QED
      BY <3>1, <3>2
  <2>6. ActiveIsAlone'
    BY <1>7, <2>2 DEF SerialInv, ActiveIsAlone
  <2>7. PaidArrived'
    <3> SUFFICES ASSUME NEW v \in Withdrawals, status'[v] = "paid"
                 PROVE  \E q \in Payouts : owner'[q] = v /\ transfer'[q] = "success"
      BY DEF PaidArrived
    <3>1. status[v] = "paid"
      BY <2>3
    <3>2. PICK q \in Payouts : owner[q] = v /\ transfer[q] = "success"
      BY <3>1 DEF SerialInv, PaidArrived
    <3> QED
      BY <1>7, <2>1, <3>2
  <2>8. QuietJob(a)'
    BY <1>7 DEF QuietJob, Quiet
  <2> QED
    BY <1>2, <2>4, <2>5, <2>6, <2>7, <2>8 DEF SerialInv
<1>8. CASE ClaimPayout(a)
  <2>1. /\ pc[a] = "claim" /\ SetStatus(w, "paying")
        /\ pc'[a] = "create" /\ job'[a] = job[a]
        /\ UNCHANGED <<payoutVars, providerVars>>
    BY <1>8 DEF ClaimPayout, Goto, TypeOK, HandlerTypeOK
  <2>2. \A q \in Payouts : HasRow(q) => HasRow(q)' /\ owner'[q] = owner[q]
    BY <2>1 DEF HasRow, payoutVars
  <2>3. Dormant(w) /\ ~HasRow(p)
    BY <1>4, <2>1 DEF QuietJob, Quiet
  <2>4. status'[w] = "paying"
    BY <1>1, <2>1 DEF SetStatus, TypeOK, WalletTypeOK
  <2>5. QuietJob(a)'
    BY <1>6, <2>1, <2>2, <2>3, <2>4 DEF QuietJob, StatusAt, HasRow, payoutVars
  <2> QED
    BY <1>5, <2>1, <2>2, <2>3, <2>5 DEF Statuses
<1>9. CASE CreateRow(a)
  <2>1. pc[a] = "create" /\ UNCHANGED <<walletVars, providerVars>>
    BY <1>9 DEF CreateRow
  <2>2. Dormant(w) /\ ~HasRow(p) /\ status[w] = "paying"
    BY <1>4, <2>1 DEF QuietJob, Quiet, StatusAt
  <2>3. /\ pstatus' = [pstatus EXCEPT ![p] = "pending"] /\ owner' = [owner EXCEPT ![p] = w]
        /\ pc'[a] = "call" /\ job'[a] = job[a]
    BY <1>9, <2>2 DEF CreateRow, Goto, TypeOK, HandlerTypeOK
  <2>4. \A q \in Payouts : HasRow(q) => HasRow(q)' /\ owner'[q] = owner[q]
    BY <2>2, <2>3 DEF HasRow, TypeOK, PayoutTypeOK
  <2>5. transfer'[p] = "none"
    BY <1>1, <2>1, <2>2 DEF SerialInv, OrdersHaveRows, providerVars
  <2>6. QuietJob(a)'
    BY <1>6, <2>1, <2>2, <2>3, <2>4, <2>5 DEF QuietJob, StatusAt, walletVars
  <2> QED
    BY <1>5, <2>1, <2>4, <2>6 DEF walletVars
<1>10. CASE CallProvider(a)
  <2>1. /\ pc[a] = "call" /\ UNCHANGED <<walletVars, payoutVars>> /\ job'[a] = job[a]
        /\ \/ Accept(p, w) /\ pc'[a] = "accepted"
           \/ UNCHANGED providerVars /\ pc'[a] \in {"refused", "undo"}
    BY <1>3, <1>10 DEF CallProvider, Goto, TypeOK, HandlerTypeOK
  <2>2. Dormant(w) /\ status[w] = "paying" /\ transfer[p] = "none"
    BY <1>4, <2>1 DEF QuietJob, Quiet, StatusAt
  <2>3. HasRow(p) /\ owner[p] = w
    BY <2>1 DEF TypeOK, RowsExist, Calling
  <2>4. \A q \in Payouts : HasRow(q) => HasRow(q)' /\ owner'[q] = owner[q]
    BY <2>1 DEF HasRow, payoutVars
  <2>5. CASE Accept(p, w) /\ pc'[a] = "accepted"
    <3>1. SetStatus(w, "paying")
      BY <2>1, <2>2 DEF SetStatus, TypeOK, WalletTypeOK, walletVars
    <3>2. /\ pstatus'[p] # "absent" /\ owner'[p] = w
          /\ \A q \in Payouts : q # p => (HasRow(q) => HasRow(q)') /\ owner'[q] = owner[q]
      BY <2>1, <2>3 DEF HasRow, payoutVars
    <3>3. pc'[a] \in {"idle", "accepted"}
      BY <2>5
    <3> QED
      BY <1>7, <2>2, <2>5, <3>1, <3>2, <3>3
  <2>6. CASE UNCHANGED providerVars /\ pc'[a] \in {"refused", "undo"}
    <3>1. QuietJob(a)'
      BY <1>6, <2>1, <2>2, <2>4, <2>6 DEF QuietJob, StatusAt, walletVars
    <3> QED
      BY <1>5, <2>1, <2>4, <2>6, <3>1 DEF walletVars
  <2> QED
    BY <2>1, <2>5, <2>6
<1>11. CASE RecordReply(a)
  <2>1. /\ UNCHANGED <<walletVars, owner, providerVars>>
        /\ \E s \in {"processing", "failed"} : pstatus' = [pstatus EXCEPT ![p] = s]
        /\ \/ pc'[a] = "idle"
           \/ pc[a] = "refused" /\ pc'[a] = "signal" /\ job'[a] = job[a]
    BY <1>11 DEF RecordReply, Goto, Leave, TypeOK, HandlerTypeOK
  <2>2. \A q \in Payouts : HasRow(q) => HasRow(q)' /\ owner'[q] = owner[q]
    BY <2>1 DEF HasRow, TypeOK, PayoutTypeOK
  <2>3. QuietJob(a)'
    BY <1>4, <1>6, <2>1, <2>2 DEF QuietJob, Quiet, StatusAt, walletVars
  <2> QED
    BY <1>5, <2>1, <2>2, <2>3 DEF walletVars
<1>12. CASE SignalRefusal(a)
  <2>1. pc[a] = "signal" /\ owner[p] = w /\ UNCHANGED <<payoutVars, providerVars>>
    BY <1>12 DEF SignalRefusal, TypeOK, RowsExist, Calling
  <2>2. Dormant(w) /\ status[w] = "paying"
    BY <1>4, <2>1 DEF QuietJob, Quiet, StatusAt
  <2>3. \A q \in Payouts : HasRow(q) => HasRow(q)' /\ owner'[q] = owner[q]
    BY <2>1 DEF HasRow, payoutVars
  <2>4. \/ Refund(w) /\ pc'[a] = "idle"
        \/ UNCHANGED walletVars /\ pc'[a] = "undo" /\ job'[a] = job[a]
    BY <1>12, <2>1, <2>2
    DEF SignalRefusal, HandleResult, ResultKnown, Goto, Leave, TypeOK, HandlerTypeOK
  <2>5. QuietJob(a)'
    BY <1>6, <2>1, <2>2, <2>3, <2>4 DEF QuietJob, Quiet, StatusAt, walletVars
  <2> QED
    BY <1>5, <2>1, <2>2, <2>3, <2>4, <2>5 DEF Refund, Statuses, walletVars
<1>13. CASE UndoClaim(a)
  <2>1. /\ pc[a] = "undo" /\ SetStatus(w, "approved") /\ pc'[a] = "idle"
        /\ UNCHANGED <<payoutVars, providerVars>>
    BY <1>13 DEF UndoClaim, Leave, TypeOK, HandlerTypeOK
  <2>2. Dormant(w)
    BY <1>4, <2>1 DEF QuietJob, Quiet
  <2>3. \A q \in Payouts : HasRow(q) => HasRow(q)' /\ owner'[q] = owner[q]
    BY <2>1 DEF HasRow, payoutVars
  <2>4. QuietJob(a)'
    BY <2>1 DEF QuietJob, Quiet
  <2> QED
    BY <1>5, <2>1, <2>2, <2>3, <2>4 DEF Statuses
<1>14. CASE RetryCommits(a)
  <2>1. pc[a] = "retry" /\ SetStatus(w, "paying") /\ pc'[a] = "idle"
    BY <1>14 DEF RetryCommits, CommitRetry, Leave, TypeOK, HandlerTypeOK
  <2>2. Dormant(w) /\ ~HasRow(p)
    BY <1>4, <2>1 DEF QuietJob, Quiet
  <2>3. /\ Accept(p, w) /\ pstatus' = [pstatus EXCEPT ![p] = "processing"]
        /\ owner' = [owner EXCEPT ![p] = w]
    BY <1>14, <2>2 DEF RetryCommits
  <2>4. transfer[p] = "none"
    BY <1>1, <2>2 DEF SerialInv, OrdersHaveRows
  <2>5. pstatus'[p] # "absent" /\ owner'[p] = w
    BY <1>1, <2>3 DEF TypeOK, PayoutTypeOK
  <2>6. \A q \in Payouts : q # p => (HasRow(q) => HasRow(q)') /\ owner'[q] = owner[q]
    BY <2>3 DEF HasRow, TypeOK, PayoutTypeOK
  <2>7. pc'[a] \in {"idle", "accepted"}
    BY <2>1
  <2> QED
    BY <2>6, <2>7, <1>7, <2>1, <2>2, <2>3, <2>4, <2>5
<1>15. CASE RetryRollsBack(a)
  <2>1. pc[a] = "retry" /\ pc'[a] = "idle" /\ UNCHANGED <<walletVars, payoutVars>>
    BY <1>15 DEF RetryRollsBack, Leave, TypeOK, HandlerTypeOK
  <2>2. UNCHANGED providerVars
    BY <1>3, <1>15 DEF RetryRollsBack
  <2>3. \A q \in Payouts : HasRow(q) => HasRow(q)' /\ owner'[q] = owner[q]
    BY <2>1 DEF HasRow, payoutVars
  <2>4. QuietJob(a)'
    BY <2>1 DEF QuietJob, Quiet
  <2> QED
    BY <1>5, <2>1, <2>2, <2>3, <2>4 DEF walletVars
<1> QED
  BY <1>3, <1>8, <1>9, <1>10, <1>11, <1>12, <1>13, <1>14, <1>15 DEF Continue, Crash

LEMMA StepSerial ==
    ASSUME OneAtATime, TypeOK, SerialInv, [Next]_vars
    PROVE  SerialInv'
<1>1. \A key : Used(key) => Used(key)'
  BY LedgerGrows
<1>2. ASSUME NEW k \in CreditKeys, NEW s \in Amounts, Credit(k, s) \/ Decrease(k, s)
      PROVE  SerialInv'
  BY <1>1, <1>2, NothingChanges DEF Credit, Decrease
<1>3. CASE UNCHANGED vars
  BY <1>1, <1>3, NothingChanges DEF vars, walletVars
<1> QED
  BY <1>1, <1>2, <1>3, RequestSerial, MarkPayoutSerial, ContinueSerial, ProviderSettleSerial
  DEF Next, Sync, Callback

LEMMA InitSerial == Init => SerialInv
BY DEF Init, SerialInv, OrdersHaveRows, ActiveIsHeld, ActiveIsAlone, PaidArrived, QuietJob,
       Active, Live, Quiet

LEMMA SerialInvariant ==
    ASSUME OneAtATime
    PROVE  Spec => []SerialInv
BY InitSerial, StepSerial, TypeCorrect, PTL DEF Spec

\* A user is never sent the sum of one withdrawal twice.
THEOREM NobodyPaidTwice ==
    ASSUME OneAtATime
    PROVE  Spec => []SinglePayment
<1>1. SerialInv => SinglePayment
  BY DEF SerialInv, OrdersHaveRows, ActiveIsAlone, Active, Live, SinglePayment
<1> QED
  BY <1>1, SerialInvariant, PTL

\* While money is under way, and once it arrived, its withdrawal is in payment or paid.
THEOREM SentStaysHeld ==
    ASSUME OneAtATime
    PROVE  Spec => []MoneySentIsHeld
<1>1. SerialInv => MoneySentIsHeld
  BY DEF SerialInv, OrdersHaveRows, ActiveIsHeld, Active, Live, MoneySentIsHeld
<1> QED
  BY <1>1, SerialInvariant, PTL

-----------------------------------------------------------------------------
(* What each step does to the money, in the words of WithdrawalPromise.     *)

Kind(s) == CASE s = "none" -> "none"
             [] s \in Holding -> "held"
             [] s = "paid" -> "paid"
             [] OTHER -> "returned"

Moves(w, from, to) ==
    /\ Kind(status[w]) \in from
    /\ \E s \in Statuses : Kind(s) = to /\ SetStatus(w, s)

MovesNothing ==
    /\ UNCHANGED <<available, frozen, withdrawn, amount>>
    /\ \A w \in Withdrawals : Kind(status'[w]) = Kind(status[w])

Adds(d) ==
    /\ available' = available + d \/ (available >= d /\ available' = available - d)
    /\ UNCHANGED <<frozen, withdrawn, status, amount>>

HoldsSum(w, d) ==
    /\ Moves(w, {"none", "returned"}, "held")
    /\ status[w] = "none" \/ amount[w] = d
    /\ Freeze(d)
    /\ amount' = [amount EXCEPT ![w] = d]
    /\ UNCHANGED withdrawn

ReturnsSum(w) ==
    /\ Moves(w, {"held"}, "returned")
    /\ w \notin Sent
    /\ Unfreeze(amount[w])
    /\ UNCHANGED <<withdrawn, amount>>

SettlesSum(w) ==
    /\ Moves(w, {"held"}, "paid")
    /\ w \in Sent
    /\ frozen' = frozen - amount[w]
    /\ withdrawn' = withdrawn + amount[w]
    /\ UNCHANGED <<available, amount>>

MoneyStep ==
    \/ MovesNothing
    \/ \E d \in Amounts : Adds(d)
    \/ \E w \in Withdrawals : \/ \E d \in Amounts : HoldsSum(w, d)
                              \/ ReturnsSum(w)
                              \/ SettlesSum(w)

LEMMA Kinds ==
    /\ Kind("none") = "none" /\ Kind("paid") = "paid"
    /\ \A s \in Holding : Kind(s) = "held"
    /\ \A s \in {"failed", "rejected", "cancelled"} : Kind(s) = "returned"
BY DEF Kind, Holding

\* Money that arrived belongs to an active transfer of the withdrawal.
LEMMA SentIsActive ==
    ASSUME SerialInv
    PROVE  Sent = {w \in Withdrawals : \E p \in Payouts : owner[p] = w /\ transfer[p] = "success"}
BY DEF SerialInv, OrdersHaveRows, Sent

\* The status of a dormant withdrawal, or of one not in payment: nothing was sent.
LEMMA NotSent ==
    ASSUME SerialInv, NEW w \in Withdrawals, Dormant(w) \/ status[w] \notin {"paying", "paid"}
    PROVE  w \notin Sent
BY SentIsActive DEF SerialInv, ActiveIsHeld, Dormant, Active, Live

\* A status set within its kind.
LEMMA KindKept ==
    ASSUME TypeOK, NEW w \in Withdrawals, NEW s, SetStatus(w, s), Kind(s) = Kind(status[w]),
           UNCHANGED <<available, frozen, withdrawn, amount>>
    PROVE  MoneyStep
<1>1. status'[w] = s /\ \A v \in Withdrawals : v # w => status'[v] = status[v]
  BY DEF SetStatus, TypeOK, WalletTypeOK
<1>2. \A v \in Withdrawals : Kind(status'[v]) = Kind(status[v])
  BY <1>1
<1> QED
  BY <1>2 DEF MoneyStep, MovesNothing

LEMMA RefundMoves ==
    ASSUME NEW w \in Withdrawals, status[w] = "paying", w \notin Sent, Refund(w)
    PROVE  MoneyStep
<1>1. Moves(w, {"held"}, "returned")
  BY Kinds DEF Refund, Moves, Holding, Statuses
<1> QED
  BY <1>1 DEF Refund, MoneyStep, ReturnsSum

LEMMA RetryMoves ==
    ASSUME TypeOK, NEW w \in Withdrawals, NEW p \in Payouts, status[w] = "failed",
           NEW s \in {"approved", "paying"}, CommitRetry(w, p, s)
    PROVE  MoneyStep
<1>1. Moves(w, {"none", "returned"}, "held")
  BY Kinds DEF CommitRetry, Moves, Holding, Statuses
<1>2. amount[w] \in Amounts /\ amount' = [amount EXCEPT ![w] = amount[w]]
  BY DEF CommitRetry, TypeOK, WalletTypeOK
<1>3. HoldsSum(w, amount[w])
  BY <1>1, <1>2 DEF CommitRetry, HoldsSum
<1> QED
  BY <1>2, <1>3 DEF MoneyStep

LEMMA StepMovesMoney ==
    ASSUME OneAtATime, TypeOK, SerialInv, [Next]_vars
    PROVE  MoneyStep
<1>1. ASSUME UNCHANGED <<available, frozen, withdrawn, amount, status>> PROVE MoneyStep
  BY <1>1 DEF MoneyStep, MovesNothing
<1>2. ASSUME NEW k \in CreditKeys, NEW d \in Amounts, Credit(k, d) \/ Decrease(k, d)
      PROVE  MoneyStep
  <2>1. Adds(d)
    BY <1>2 DEF Credit, Decrease, Adds
  <2> QED
    BY <2>1 DEF MoneyStep
<1>3. ASSUME NEW w \in Withdrawals, Request(w) PROVE MoneyStep
  <2>1. ASSUME NEW d \in Amounts, Submit(w, d) PROVE MoneyStep
    <3>1. Moves(w, {"none", "returned"}, "held")
      BY <2>1, Kinds DEF Submit, Moves, Holding, Statuses
    <3>2. HoldsSum(w, d)
      BY <2>1, <3>1 DEF Submit, HoldsSum
    <3> QED
      BY <3>2 DEF MoneyStep
  <2>2. ASSUME NEW s \in {"cancelled", "rejected"}, NEW key, GiveBack(w, s, key) PROVE MoneyStep
    <3>1. Moves(w, {"held"}, "returned")
      BY <2>2, Kinds DEF GiveBack, Moves, Holding, Statuses
    <3>2. w \notin Sent
      BY <2>2, NotSent DEF GiveBack
    <3>3. ReturnsSum(w)
      BY <2>2, <3>1, <3>2 DEF GiveBack, ReturnsSum
    <3> QED
      BY <3>3 DEF MoneyStep
  <2>3. CASE Approve(w)
    BY <2>3, Kinds, KindKept DEF Approve, Holding
  <2>4. ASSUME NEW p \in Payouts, ReplayRetry(w, p) PROVE MoneyStep
    BY <2>4, RetryMoves DEF ReplayRetry, CanRetry
  <2>5. ASSUME NEW a \in Admins, NEW p \in Payouts, StartPayout(a, w, p) \/ StartRetry(a, w, p)
        PROVE  MoneyStep
    BY <1>1, <2>5 DEF StartPayout, StartRetry, walletVars
  <2> QED
    BY <1>3, <2>1, <2>2, <2>3, <2>4, <2>5 DEF Request, Cancel, Reject
<1>4. ASSUME NEW p \in Payouts, MarkPayout(p) PROVE MoneyStep
  <2> DEFINE w == owner[p]
             ok == transfer[p] = "success"
  <2>1. w \in Withdrawals /\ transfer[p] \in Final /\ HandleResult(w, ok)
    BY <1>4 DEF MarkPayout, TypeOK, PayoutTypeOK, HasRow, Open
  <2>2. CASE UNCHANGED walletVars
    BY <1>1, <2>2 DEF walletVars
  <2>3. CASE status[w] = "paying" /\ ok /\ Settle(w)
    <3>1. Moves(w, {"held"}, "paid")
      BY <2>3, Kinds DEF Settle, Moves, Holding, Statuses
    <3>2. w \in Sent
      BY <2>1, <2>3, SentIsActive
    <3>3. SettlesSum(w)
      BY <2>3, <3>1, <3>2 DEF Settle, SettlesSum
    <3> QED
      BY <2>1, <3>3 DEF MoneyStep
  <2>4. CASE status[w] = "paying" /\ ~ok /\ Refund(w)
    <3>1. Active(p)
      BY <2>1, <2>4 DEF Active, Final, Refund, Post
    <3>2. w \notin Sent
      BY <2>4, <3>1, SentIsActive DEF SerialInv, ActiveIsAlone, Active, Live
    <3> QED
      BY <2>1, <2>4, <3>2, RefundMoves
  <2> HIDE DEF w, ok
  <2> QED
    BY <2>1, <2>2, <2>3, <2>4 DEF HandleResult
<1>5. ASSUME NEW a \in Admins, Continue(a) PROVE MoneyStep
  <2> DEFINE w == job[a].w
             p == job[a].p
  <2>1. pc[a] # "idle" /\ w \in Withdrawals /\ p \in Payouts /\ QuietJob(a)
    BY <1>5, JobTyped
    DEF Continue, ClaimPayout, CreateRow, CallProvider, RecordReply, SignalRefusal,
        UndoClaim, RetryCommits, RetryRollsBack, TypeOK, SerialInv
  <2>2. CASE CreateRow(a) \/ CallProvider(a) \/ RecordReply(a) \/ RetryRollsBack(a)
    BY <1>1, <2>2 DEF CreateRow, CallProvider, RecordReply, RetryRollsBack, walletVars
  <2>3. CASE ClaimPayout(a) \/ UndoClaim(a)
    <3>1. status[w] \in Holding
      BY <2>1, <2>3 DEF ClaimPayout, UndoClaim, QuietJob, Quiet, StatusAt, Holding
    <3>2. PICK s \in {"paying", "approved"} : SetStatus(w, s)
      BY <2>3 DEF ClaimPayout, UndoClaim
    <3>3. Kind(s) = Kind(status[w])
      BY <3>1, Kinds DEF Holding
    <3> QED
      BY <2>1, <2>3, <3>2, <3>3, KindKept DEF ClaimPayout, UndoClaim
  <2>4. CASE SignalRefusal(a)
    <3>1. owner[p] = w /\ pc[a] = "signal"
      BY <2>4 DEF SignalRefusal, TypeOK, RowsExist, Calling
    <3>2. Dormant(w) /\ status[w] = "paying"
      BY <2>1, <3>1 DEF QuietJob, Quiet, StatusAt
    <3>3. UNCHANGED walletVars \/ Refund(w)
      BY <2>4, <3>1 DEF SignalRefusal, HandleResult
    <3>4. w \notin Sent
      BY <2>1, <3>2, NotSent
    <3> QED
      BY <1>1, <2>1, <3>2, <3>3, <3>4, RefundMoves DEF walletVars
  <2>5. CASE RetryCommits(a)
    <3>1. status[w] = "failed"
      BY <2>1, <2>5 DEF RetryCommits, QuietJob, Quiet, StatusAt
    <3>2. CommitRetry(w, p, "paying")
      BY <2>5 DEF RetryCommits
    <3> QED
      BY <2>1, <3>1, <3>2, RetryMoves
  <2> QED
    BY <1>5, <2>2, <2>3, <2>4, <2>5 DEF Continue
<1>6. CASE \/ UNCHANGED vars
           \/ \E p \in Payouts : ProviderSettle(p)
           \/ \E a \in Admins : Crash(a)
  BY <1>1, <1>6 DEF ProviderSettle, Crash, vars, walletVars
<1> QED
  BY <1>2, <1>3, <1>4, <1>5, <1>6 DEF Next, Sync, Callback

-----------------------------------------------------------------------------
(* The frozen balance.                                                      *)

FrozenInv == IsFiniteSet(Backed) /\ FrozenBacksRequests

LEMMA HeldKinds ==
    \A s \in Statuses : s \in Holding <=> Kind(s) = "held"
BY DEF Kind, Statuses, Holding

\* The backed requests after a status moved.
LEMMA BackedAfter ==
    ASSUME TypeOK, TypeOK', NEW w \in Withdrawals, NEW from, NEW to, Moves(w, from, to)
    PROVE  Backed' = IF to = "held" THEN Backed \cup {w} ELSE Backed \ {w}
<1>1. /\ status'[w] \in Statuses /\ Kind(status'[w]) = to
      /\ \A v \in Withdrawals : v # w => status'[v] = status[v]
  BY DEF Moves, SetStatus, TypeOK, WalletTypeOK
<1>2. w \in Backed' <=> to = "held"
  BY <1>1, HeldKinds DEF Backed
<1>3. \A v \in Withdrawals : v # w => (v \in Backed' <=> v \in Backed)
  BY <1>1 DEF Backed
<1> QED
  BY <1>2, <1>3 DEF Backed

LEMMA StepFrozen ==
    ASSUME TypeOK, TypeOK', FrozenInv, MoneyStep
    PROVE  FrozenInv'
<1> DEFINE f == [v \in Backed |-> amount[v]]
           g == [v \in Backed' |-> amount'[v]]
<1>1. /\ \A v \in Withdrawals : amount[v] \in Int /\ amount'[v] \in Int
      /\ Backed \subseteq Withdrawals /\ frozen \in Int /\ frozen' \in Int
  <2>1. Amounts \cup {0} \subseteq Int
    BY AmountsPositive
  <2> QED
    BY <2>1 DEF TypeOK, WalletTypeOK, Backed
<1>2. frozen = SumFunction(f) /\ IsFiniteSet(Backed)
  BY DEF FrozenInv, FrozenBacksRequests
<1>3. SUFFICES IsFiniteSet(Backed') /\ frozen' = SumFunction(g)
  BY DEF FrozenInv, FrozenBacksRequests
<1>4. ASSUME Backed' = Backed, UNCHANGED <<frozen, amount>>
      PROVE  IsFiniteSet(Backed') /\ frozen' = SumFunction(g)
  BY <1>2, <1>4
<1>5. CASE MovesNothing
  <2>1. \A v \in Withdrawals : status[v] \in Holding <=> status'[v] \in Holding
    BY <1>5, HeldKinds DEF MovesNothing, TypeOK, WalletTypeOK
  <2>2. Backed' = Backed
    BY <2>1 DEF Backed
  <2> QED
    BY <1>4, <1>5, <2>2 DEF MovesNothing
<1>6. ASSUME NEW d \in Amounts, Adds(d) PROVE IsFiniteSet(Backed') /\ frozen' = SumFunction(g)
  BY <1>4, <1>6 DEF Adds, Backed
<1>7. ASSUME NEW w \in Withdrawals, NEW d \in Amounts, HoldsSum(w, d)
      PROVE  IsFiniteSet(Backed') /\ frozen' = SumFunction(g)
  <2>1. w \notin Backed /\ Backed' = Backed \cup {w}
    <3>1. Kind(status[w]) # "held"
      BY <1>7 DEF HoldsSum, Moves
    <3> QED
      BY <1>7, <3>1, BackedAfter, HeldKinds DEF HoldsSum, Backed, TypeOK, WalletTypeOK
  <2>2. amount'[w] = d /\ d \in Int /\ \A v \in Withdrawals : v # w => amount'[v] = amount[v]
    BY <1>7, AmountsPositive DEF HoldsSum, TypeOK, WalletTypeOK
  <2>3. /\ DOMAIN f = Backed /\ DOMAIN g = Backed \cup {w} /\ g[w] = d
        /\ \A v \in Backed : f[v] \in Int /\ g[v] = f[v]
    BY <1>1, <2>1, <2>2
  <2>4. frozen' = frozen + d
    BY <1>7 DEF HoldsSum, Freeze
  <2> HIDE DEF f, g
  <2>5. SumFunction(g) = SumFunction(f) + d
    BY <1>2, <2>1, <2>2, <2>3, SumAdds
  <2>6. IsFiniteSet(Backed')
    BY <1>2, <2>1, FS_AddElement
  <2> QED
    BY <1>2, <2>4, <2>5, <2>6
<1>8. ASSUME NEW w \in Withdrawals, ReturnsSum(w) \/ SettlesSum(w)
      PROVE  IsFiniteSet(Backed') /\ frozen' = SumFunction(g)
  <2>1. w \in Backed /\ Backed' = Backed \ {w}
    <3>1. Kind(status[w]) = "held"
      BY <1>8 DEF ReturnsSum, SettlesSum, Moves
    <3>2. PICK to \in {"returned", "paid"} : Moves(w, {"held"}, to)
      BY <1>8 DEF ReturnsSum, SettlesSum
    <3> QED
      BY <3>1, <3>2, BackedAfter, HeldKinds DEF Backed, TypeOK, WalletTypeOK
  <2>2. amount' = amount /\ frozen' = frozen - amount[w]
    BY <1>8 DEF ReturnsSum, SettlesSum, Unfreeze
  <2>3. /\ DOMAIN f = Backed' \cup {w} /\ DOMAIN g = Backed' /\ f[w] = amount[w]
        /\ \A v \in Backed' : g[v] \in Int /\ f[v] = g[v]
    BY <1>1, <2>1, <2>2
  <2>4. IsFiniteSet(Backed') /\ w \notin Backed' /\ amount[w] \in Int
    BY <1>1, <1>2, <2>1, FS_RemoveElement
  <2> HIDE DEF f, g
  <2>5. SumFunction(f) = SumFunction(g) + amount[w]
    BY <2>3, <2>4, SumAdds
  <2>6. SumFunction(g) \in Int
    BY <2>3, <2>4, SumFacts DEF SumFunction
  <2> QED
    BY <1>1, <1>2, <2>2, <2>4, <2>5, <2>6
<1> QED
  BY <1>5, <1>6, <1>7, <1>8 DEF MoneyStep

LEMMA FrozenInvariant ==
    ASSUME OneAtATime
    PROVE  Spec => []FrozenInv
<1>1. Init => FrozenInv
  <2> SUFFICES ASSUME Init PROVE FrozenInv
    OBVIOUS
  <2>1. Backed = {} /\ frozen = 0
    BY DEF Init, Backed, Holding
  <2> QED
    BY <2>1, FS_EmptySet, SumOfNothing DEF FrozenInv, FrozenBacksRequests
<1>2. TypeOK /\ TypeOK' /\ SerialInv /\ FrozenInv /\ [Next]_vars => FrozenInv'
  BY StepMovesMoney, StepFrozen
<1> QED
  BY <1>1, <1>2, TypeCorrect, SerialInvariant, PTL DEF Spec

\* frozen_balance is exactly the sums of the requests that hold money.
THEOREM FrozenIsBacked ==
    ASSUME OneAtATime
    PROVE  Spec => []FrozenBacksRequests
<1>1. FrozenInv => FrozenBacksRequests
  BY DEF FrozenInv
<1> QED
  BY <1>1, FrozenInvariant, PTL

\* Naturals sum to a natural.
LEMMA SumOfNats ==
    ASSUME NEW S, IsFiniteSet(S), NEW f, \A x \in S : f[x] \in Nat
    PROVE  SumFunctionOnSet(f, S) \in Nat
<1> DEFINE B == {T \in SUBSET S : SumFunctionOnSet(f, T) \notin Nat}
<1>1. SUFFICES ASSUME B # {} PROVE FALSE
  OBVIOUS
<1>2. PICK T \in B : \A U \in SUBSET T : U \in B => U = T
  <2>1. B \subseteq SUBSET S
    OBVIOUS
  <2> HIDE DEF B
  <2> QED
    BY <1>1, <2>1, MinimalSubset
<1>3. IsFiniteSet(T) /\ \A x \in T : f[x] \in Nat
  BY FS_Subset
<1>4. /\ SumFunctionOnSet(f, {}) = 0
      /\ \A x \in T : SumFunctionOnSet(f, T) = f[x] + SumFunctionOnSet(f, T \ {x})
  BY <1>3, SumFacts
<1>5. PICK x : x \in T
  BY <1>4
<1>6. SumFunctionOnSet(f, T \ {x}) \in Nat
  BY <1>2, <1>5
<1>7. SumFunctionOnSet(f, T) \in Nat
  BY <1>3, <1>4, <1>5, <1>6
<1> QED
  BY <1>7

\* Neither balance is ever negative.
THEOREM NeitherBalanceNegative ==
    ASSUME OneAtATime
    PROVE  Spec => []BalancesNonNegative
<1>1. TypeOK /\ FrozenInv /\ AvailableNonNegative => BalancesNonNegative
  <2> SUFFICES ASSUME TypeOK, FrozenInv, AvailableNonNegative PROVE BalancesNonNegative
    OBVIOUS
  <2> DEFINE f == [w \in Backed |-> amount[w]]
  <2>1. DOMAIN f = Backed /\ \A w \in Backed : f[w] \in Nat
    <3>1. Amounts \cup {0} \subseteq Nat
      BY AmountsPositive
    <3> QED
      BY <3>1 DEF TypeOK, WalletTypeOK, Backed
  <2>2. frozen = SumFunction(f)
    BY DEF FrozenInv, FrozenBacksRequests
  <2> HIDE DEF f
  <2>3. SumFunction(f) \in Nat
    BY <2>1, SumOfNats DEF FrozenInv, SumFunction
  <2> QED
    BY <2>2, <2>3 DEF BalancesNonNegative, AvailableNonNegative
<1> QED
  BY <1>1, TypeCorrect, FrozenInvariant, NeverOverdrawn, PTL

-----------------------------------------------------------------------------
(* The promise.                                                             *)

LEMMA PromisedIs ==
    /\ Promised = [w \in Withdrawals |-> Kind(status[w])]
    /\ Promised' = [w \in Withdrawals |-> Kind(status'[w])]
BY DEF Promised, Kind

\* Money arrives only by WeChat's settlement of an accepted order.
LEMMA SentMoves ==
    ASSUME TypeOK, [Next]_vars, \A p \in Payouts : ~ProviderSettle(p)
    PROVE  Sent' = Sent
<1>1. ASSUME NEW p \in Payouts, NEW w \in Withdrawals, TakeOrder(p, w)
      PROVE  Sent' = Sent
  <2>1. ASSUME NEW q \in Payouts
        PROVE  /\ (transfer'[q] = "success") <=> (transfer[q] = "success")
               /\ transfer[q] = "success" => bill'[q] = bill[q]
    BY <1>1 DEF TakeOrder, CanAccept, TypeOK, ProviderTypeOK
  <2> QED
    BY <2>1 DEF Sent
<1>2. ASSUME UNCHANGED providerVars PROVE Sent' = Sent
  BY <1>2 DEF Sent, providerVars
<1>3. ASSUME NEW a \in Admins, CallProvider(a) \/ RetryCommits(a) \/ RetryRollsBack(a)
      PROVE  Sent' = Sent
  <2>1. job[a].w \in Withdrawals /\ job[a].p \in Payouts
    BY <1>3, JobTyped DEF CallProvider, RetryCommits, RetryRollsBack, TypeOK
  <2> QED
    BY <1>1, <1>2, <1>3, <2>1 DEF CallProvider, RetryCommits, RetryRollsBack, Accept, Deny
<1>4. ASSUME NEW p \in Payouts, MarkPayout(p) PROVE Sent' = Sent
  BY <1>2, <1>4 DEF MarkPayout
<1>5. ASSUME NEW w \in Withdrawals, Request(w) PROVE Sent' = Sent
  BY <1>2, <1>5 DEF Request, Submit, Cancel, Reject, GiveBack, Approve, ReplayRetry,
                    StartPayout, StartRetry
<1>6. ASSUME NEW a \in Admins, ClaimPayout(a) \/ CreateRow(a) \/ RecordReply(a)
                              \/ SignalRefusal(a) \/ UndoClaim(a) \/ Crash(a)
      PROVE  Sent' = Sent
  BY <1>2, <1>6 DEF ClaimPayout, CreateRow, RecordReply, SignalRefusal, UndoClaim, Crash
<1>7. ASSUME NEW k \in CreditKeys, NEW d \in Amounts, Credit(k, d) \/ Decrease(k, d)
      PROVE  Sent' = Sent
  BY <1>2, <1>7 DEF Credit, Decrease
<1>8. CASE UNCHANGED vars
  BY <1>2, <1>8 DEF vars
<1> QED
  BY <1>3, <1>4, <1>5, <1>6, <1>7, <1>8 DEF Next, Sync, Callback, Continue

\* What WeChat settles is a sum still held, and for the first time.
LEMMA SettlesHeld ==
    ASSUME TypeOK, SerialInv, NEW p \in Payouts, ProviderSettle(p)
    PROVE  Sent' = Sent \/ \E w \in Withdrawals : /\ status[w] = "paying" /\ w \notin Sent
                                                  /\ Sent' = Sent \cup {w}
<1> DEFINE w == owner[p]
<1>1. Active(p) /\ bill[p] = w /\ w \in Withdrawals
  BY RowOwners DEF ProviderSettle, Active, Live, SerialInv, OrdersHaveRows
<1>2. w \notin Sent
  <2>1. \A q \in Payouts : owner[q] = w /\ transfer[q] = "success" => q = p
    BY <1>1 DEF SerialInv, ActiveIsAlone, Active, Live
  <2> QED
    BY <2>1, SentIsActive DEF ProviderSettle
<1>3. status[w] = "paying"
  <2>1. status[w] \in {"paying", "paid"}
    BY <1>1 DEF SerialInv, ActiveIsHeld
  <2>2. status[w] # "paid"
    BY <1>1, <1>2, SentIsActive DEF SerialInv, PaidArrived
  <2> QED
    BY <2>1, <2>2
<1>4. /\ \A q \in Payouts : q # p => transfer'[q] = transfer[q]
      /\ bill' = bill /\ transfer[p] = "accepted" /\ transfer'[p] \in Final
  BY DEF ProviderSettle, TypeOK, ProviderTypeOK
<1>5. CASE transfer'[p] = "success"
  <2>1. Sent' = Sent \cup {w}
    BY <1>1, <1>4, <1>5 DEF Sent
  <2> QED
    BY <1>1, <1>2, <1>3, <2>1
<1>6. CASE transfer'[p] # "success"
  <2>1. Sent' = Sent
    BY <1>4, <1>6 DEF Sent
  <2> QED
    BY <2>1
<1> QED
  BY <1>5, <1>6

\* A status that moves is the promise's state of that withdrawal moving.
LEMMA PromisedMoves ==
    ASSUME TypeOK, NEW w \in Withdrawals, NEW from, NEW to, Moves(w, from, to)
    PROVE  Promised[w] \in from /\ Promised' = [Promised EXCEPT ![w] = to]
<1>1. /\ Kind(status'[w]) = to
      /\ \A v \in Withdrawals : v # w => status'[v] = status[v]
  BY DEF Moves, SetStatus, TypeOK, WalletTypeOK
<1>2. Promised' = [v \in Withdrawals |-> Kind(status'[v])]
  BY PromisedIs
<1> QED
  BY <1>1, <1>2, PromisedIs DEF Moves

LEMMA StepPromises ==
    ASSUME OneAtATime, TypeOK, SerialInv, [Next]_vars
    PROVE  Promise!Next \/ UNCHANGED <<available, withdrawn, Promised, amount, Sent>>
<1>1. CASE \E p \in Payouts : ProviderSettle(p)
  <2>1. UNCHANGED <<available, withdrawn, Promised, amount>>
    BY <1>1, PromisedIs DEF ProviderSettle, walletVars, Promised
  <2>2. ASSUME NEW w \in Withdrawals, status[w] = "paying", w \notin Sent, Sent' = Sent \cup {w}
        PROVE  Promise!Send(w)
    <3>1. Promised[w] = "held"
      BY <2>2, PromisedIs, Kinds DEF Holding
    <3> QED
      BY <2>1, <2>2, <3>1 DEF Promise!Send
  <2> QED
    BY <1>1, <2>1, <2>2, SettlesHeld DEF Promise!Next
<1>2. CASE ~\E p \in Payouts : ProviderSettle(p)
  <2>1. Sent' = Sent /\ MoneyStep
    BY <1>2, SentMoves, StepMovesMoney
  <2>2. CASE MovesNothing
    <3>1. Promised' = Promised
      BY <2>2, PromisedIs DEF MovesNothing
    <3> QED
      BY <2>1, <2>2, <3>1 DEF MovesNothing
  <2>3. ASSUME NEW d \in Amounts, Adds(d) PROVE Promise!Deposit(d) \/ Promise!Debit(d)
    <3>1. Promised' = Promised
      BY <2>3 DEF Adds, Promised
    <3> QED
      BY <2>1, <2>3, <3>1 DEF Adds, Promise!Deposit, Promise!Debit
  <2>4. ASSUME NEW w \in Withdrawals, NEW d \in Amounts, HoldsSum(w, d) PROVE Promise!Hold(w, d)
    <3>1. Promised[w] \in {"none", "returned"} /\ Promised' = [Promised EXCEPT ![w] = "held"]
      BY <2>4, PromisedMoves DEF HoldsSum
    <3>2. Promised[w] = "returned" => amount[w] = d
      BY <2>4, PromisedIs, Kinds DEF HoldsSum
    <3> QED
      BY <2>1, <2>4, <3>1, <3>2 DEF HoldsSum, Freeze, Promise!Hold
  <2>5. ASSUME NEW w \in Withdrawals, ReturnsSum(w) PROVE Promise!Return(w)
    <3>1. Promised[w] = "held" /\ Promised' = [Promised EXCEPT ![w] = "returned"]
      BY <2>5, PromisedMoves DEF ReturnsSum
    <3> QED
      BY <2>1, <2>5, <3>1 DEF ReturnsSum, Unfreeze, Promise!Return
  <2>6. ASSUME NEW w \in Withdrawals, SettlesSum(w) PROVE Promise!Settle(w)
    <3>1. Promised[w] = "held" /\ Promised' = [Promised EXCEPT ![w] = "paid"]
      BY <2>6, PromisedMoves DEF SettlesSum
    <3> QED
      BY <2>1, <2>6, <3>1 DEF SettlesSum, Promise!Settle
  <2> QED
    BY <2>1, <2>2, <2>3, <2>4, <2>5, <2>6 DEF MoneyStep, Promise!Next
<1> QED
  BY <1>1, <1>2

LEMMA InitPromises == Init => Promise!Init
<1> SUFFICES ASSUME Init PROVE Promise!Init
  OBVIOUS
<1>1. Promised = [w \in Withdrawals |-> "none"]
  BY Kinds, PromisedIs DEF Init
<1>2. Sent = {}
  BY DEF Init, Sent
<1> QED
  BY <1>1, <1>2 DEF Init, Promise!Init

\* The wallet keeps its promise: every step it takes is a step of WithdrawalPromise,
\* or changes nothing of it.
THEOREM PromiseKept ==
    ASSUME OneAtATime
    PROVE  Spec => KeepsPromise
<1>1. TypeOK /\ SerialInv /\ [Next]_vars => [Promise!Next]_(Promise!promiseVars)
  BY StepPromises DEF Promise!promiseVars
<1> QED
  BY <1>1, InitPromises, TypeCorrect, SerialInvariant, PTL DEF Spec, KeepsPromise, Promise!Spec
=============================================================================
