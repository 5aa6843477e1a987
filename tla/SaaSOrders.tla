----------------------------- MODULE SaaSOrders -----------------------------
(* Organizations buy subscriptions: orders, their WeChat payments, the sweep *)
(* that recovers lost payments and closes expired orders, refunds, trials    *)
(* and the end of subscriptions.  (src/apps/subscriptions/services.py,       *)
(* src/apps/subscriptions/tasks.py, src/apps/payments/services.py.)          *)
(*                                                                           *)
(* A handler is one action when it is one transaction under the rows' locks. *)
(* Three are not.  A checkout reads the order first and never again, so that *)
(* it may follow a cancellation.  The closing of an order at WeChat is a     *)
(* queued task, retried and then given up: it comes any number of times,     *)
(* late or never.  The sweep queries an expired order at WeChat, then closes *)
(* it in a transaction of its own.                                           *)
EXTENDS Integers, FiniteSets

CONSTANTS
    Orgs,        \* organizations
    Orders,      \* SaaSOrder primary keys, given in the order of creation
    Plans,       \* Plan.display_order of the paid plans
    Cycles,      \* billing cycles
    Length,      \* the length of each cycle
    TrialPlan,   \* the plan of a trial
    TrialLength,
    Lifetime,    \* ORDER_EXPIRY_MINUTES
    MaxLength,   \* MAX_SUBSCRIPTION_DAYS
    Horizon,     \* the clock stops here (a bound of the model)
    NoOrder, NoOrg

ASSUME OrderIds == Orders \subseteq Nat \ {0} /\ NoOrder \notin Orders
ASSUME Lengths ==
    /\ Length \in [Cycles -> Nat \ {0}]
    /\ \A c \in Cycles : Length[c] <= MaxLength
    /\ {TrialLength, Lifetime, MaxLength, Horizon} \subseteq Nat \ {0}
    /\ TrialLength <= MaxLength
    /\ TrialPlan \in Plans /\ Plans \subseteq Nat /\ Cycles # {}

VARIABLES
    now,       \* the clock
    order,     \* SaaSOrder: what never changes after creation
    ostatus,   \* SaaSOrder.status, "none" before creation
    reason,    \* SaaSOrder.close_reason
    refunded,  \* the orders with a refund
    pstatus,   \* PaymentTransaction.status of each order's payment
    wx,        \* the payment at WeChat: "none", "open", "paid" or "closed"
    paidAt,    \* when WeChat took the money (success_time)
    sub,       \* Subscription of each organization
    sweep      \* the expired order that the sweep has queried and closes next

orderVars == <<order, ostatus, reason, refunded>>
wxVars == <<wx, paidAt>>
vars == <<now, orderVars, pstatus, wxVars, sub, sweep>>

OrderStatuses == {"none", "pending_payment", "paid", "closed", "payment_failed"}
CloseReasons == {"", "timeout", "superseded", "provider_failed", "user_cancelled"}
PaymentStatuses == {"pending", "succeeded", "failed", "exception"}
Times == 0..Horizon
OrderFacts == [org : Orgs \cup {NoOrg}, type : {"initial", "renewal", "upgrade"},
               plan : Plans, cycle : Cycles, expires : 0..(Horizon + Lifetime)]
NoSubscription == [status |-> "none", kind |-> "trial", plan |-> TrialPlan,
                   cycle |-> "", ends |-> 0, source |-> NoOrder]

\* What an order not yet created holds; nothing reads it.
Blank == [org |-> NoOrg, type |-> "initial", plan |-> TrialPlan,
          cycle |-> CHOOSE c \in Cycles : TRUE, expires |-> 0]

Init ==
    /\ now = 0
    /\ order = [o \in Orders |-> Blank]
    /\ ostatus = [o \in Orders |-> "none"]
    /\ reason = [o \in Orders |-> ""]
    /\ refunded = {}
    /\ pstatus = [o \in Orders |-> "pending"]
    /\ wx = [o \in Orders |-> "none"]
    /\ paidAt = [o \in Orders |-> 0]
    /\ sub = [g \in Orgs |-> NoSubscription]
    /\ sweep = NoOrder

-----------------------------------------------------------------------------
(* Subscriptions.                                                           *)

Running(s, t) == s.status \in {"trialing", "active"} /\ s.ends > t

\* _order_type_and_credit; a plan that is not higher, or another cycle, is
\* refused and has no type.  (The credit is left out.)
OrderType(s, plan, cycle, type) ==
    IF ~Running(s, now) \/ s.kind # "paid" THEN type = "initial"
    ELSE \/ s.plan = plan /\ type = "renewal"
         \/ plan > s.plan /\ cycle = s.cycle /\ type = "upgrade"

\* _assert_subscription_length
LengthAllowed(s, cycle, type) ==
    type = "renewal" => s.ends + Length[cycle] <= now + MaxLength

Extends(s, f, t) == f.type = "renewal" /\ s.status = "active" /\ s.ends > t

\* When _apply_paid_order does not raise.
CanApply(s, f, t) ==
    /\ f.type = "upgrade" => s.status = "active" /\ s.ends > t
    /\ Extends(s, f, t) => s.ends + Length[f.cycle] <= t + MaxLength

\* Mutation: time is added to a running subscription whatever the order's type,
\* and the order is not recorded as its source.
AppliedExtending(s, o, f, t) ==
    [status |-> "active", kind |-> "paid", plan |-> f.plan, cycle |-> f.cycle,
     source |-> s.source,
     ends |-> (IF Running(s, t) THEN s.ends ELSE t) + Length[f.cycle]]

\* The subscription after _apply_paid_order, for money taken at t.
Applied(s, o, f, t) ==
    [status |-> "active", kind |-> "paid", plan |-> f.plan, cycle |-> f.cycle,
     source |-> o,
     ends |-> IF f.type = "upgrade" THEN s.ends
              ELSE (IF Extends(s, f, t) THEN s.ends ELSE t) + Length[f.cycle]]

\* grant_trial: for an organization without a subscription row.
GrantTrial(g) ==
    /\ sub[g].status = "none"
    /\ sub' = [sub EXCEPT ![g] =
                 [NoSubscription EXCEPT !.status = "trialing", !.ends = now + TrialLength]]
    /\ UNCHANGED <<now, orderVars, pstatus, wxVars, sweep>>

\* expire_subscriptions: all that have run out.
ExpireSubscriptions ==
    /\ \E g \in Orgs : sub[g].status \in {"trialing", "active"} /\ sub[g].ends <= now
    /\ sub' = [g \in Orgs |->
                 IF sub[g].status \in {"trialing", "active"} /\ sub[g].ends <= now
                 THEN [sub[g] EXCEPT !.status = "ended"] ELSE sub[g]]
    /\ UNCHANGED <<now, orderVars, pstatus, wxVars, sweep>>

-----------------------------------------------------------------------------
(* Orders.                                                                  *)

PendingOf(g) == {p \in Orders : ostatus[p] = "pending_payment" /\ order[p].org = g}
Expired(o) == order[o].expires <= now

\* Mutation: the pending order is left as it is.
SupersededNone(g) == {}
Superseded(g) == PendingOf(g)

\* create_purchase_order, under the organization's lock.  (A repeated
\* idempotency key returns the first order.)
Purchase(g, o, plan, cycle) ==
    /\ ostatus[o] = "none"
    /\ \A p \in Orders : p < o => ostatus[p] # "none"
    /\ \E type \in {"initial", "renewal", "upgrade"} :
          /\ OrderType(sub[g], plan, cycle, type)
          /\ LengthAllowed(sub[g], cycle, type)
          /\ order' = [order EXCEPT ![o] =
                         [org |-> g, type |-> type, plan |-> plan, cycle |-> cycle,
                          expires |-> now + Lifetime]]
    /\ ostatus' = [p \in Orders |-> IF p = o THEN "pending_payment"
                                    ELSE IF p \in Superseded(g) THEN "closed" ELSE ostatus[p]]
    /\ reason' = [p \in Orders |-> IF p \in Superseded(g) THEN "superseded" ELSE reason[p]]
    /\ UNCHANGED <<now, refunded, pstatus, wxVars, sub, sweep>>

\* Mutation: the status is not read again under the lock.
CancelUnchecked(o) ==
    /\ ostatus[o] \in {"pending_payment", "paid"}
    /\ ostatus' = [ostatus EXCEPT ![o] = "closed"]
    /\ reason' = [reason EXCEPT ![o] = "user_cancelled"]
    /\ UNCHANGED <<now, order, refunded, pstatus, wxVars, sub, sweep>>

\* cancel_purchase_order
Cancel(o) ==
    /\ ostatus[o] = "pending_payment"
    /\ ostatus' = [ostatus EXCEPT ![o] = "closed"]
    /\ reason' = [reason EXCEPT ![o] = "user_cancelled"]
    /\ UNCHANGED <<now, order, refunded, pstatus, wxVars, sub, sweep>>

\* start_checkout, which looks at the payment only.
MayCheckout(o) == pstatus[o] = "pending" /\ ~Expired(o)

\* initiate_wechat_payment reads the order, which was pending when it was
\* created, and then calls start_checkout.
Checkout(o) ==
    /\ ostatus[o] # "none"
    /\ MayCheckout(o)
    /\ wx[o] = "none"
    /\ wx' = [wx EXCEPT ![o] = "open"]
    /\ UNCHANGED <<now, orderVars, pstatus, paidAt, sub, sweep>>

\* refund_order with subscription_action "keep".
RefundKeep(o) ==
    /\ ostatus[o] = "paid" \/ (ostatus[o] = "closed" /\ pstatus[o] = "exception")
    /\ o \notin refunded
    /\ refunded' = refunded \cup {o}
    /\ UNCHANGED <<now, order, ostatus, reason, pstatus, wxVars, sub, sweep>>

EndNow(s) == [s EXCEPT !.status = "ended", !.ends = now]

\* Mutation: any running subscription is ended.
RefundEndAny(o) ==
    LET g == order[o].org
    IN  /\ ostatus[o] = "paid" /\ o \notin refunded
        /\ refunded' = refunded \cup {o}
        /\ sub' = IF sub[g].status \in {"trialing", "active"}
                  THEN [sub EXCEPT ![g] = EndNow(@)] ELSE sub
        /\ UNCHANGED <<now, order, ostatus, reason, pstatus, wxVars, sweep>>

\* ... with "end": only the order that the subscription came from may end it.
RefundEnd(o) ==
    LET g == order[o].org
        live == sub[g].status \in {"trialing", "active"}
    IN  /\ ostatus[o] = "paid" /\ o \notin refunded
        /\ live => sub[g].source = o
        /\ refunded' = refunded \cup {o}
        /\ sub' = IF live THEN [sub EXCEPT ![g] = EndNow(@)] ELSE sub
        /\ UNCHANGED <<now, order, ostatus, reason, pstatus, wxVars, sweep>>

-----------------------------------------------------------------------------
(* Payments: what WeChat reports, by notification or by query.              *)

\* fulfill_saas_order_payment leaves a superseded or cancelled order closed ...
KeptClosed(o) == ostatus[o] = "closed" /\ reason[o] \in {"superseded", "user_cancelled"}

\* Mutation: an order closed by its timeout is not fulfilled any more.
PayablePending(o) == ostatus[o] = "pending_payment"

\* ... and fulfils a pending one, or one closed by the sweep.
Payable(o) == ostatus[o] = "pending_payment" \/ (ostatus[o] = "closed" /\ reason[o] = "timeout")

Fulfils(o) == Payable(o) /\ CanApply(sub[order[o].org], order[o], paidAt[o])

Settled(o) == pstatus[o] \in {"succeeded", "exception"}

\* mark_payment_succeeded raises, and everything it did is rolled back.
SuccessRaises(o) == wx[o] = "paid" /\ ~Settled(o) /\ ~KeptClosed(o) /\ ~Fulfils(o)

\* mark_payment_succeeded and fulfill_saas_order_payment in one transaction;
\* a report of what is settled already changes nothing.
Succeed(o) ==
    \/ /\ KeptClosed(o)
       /\ pstatus' = [pstatus EXCEPT ![o] = "exception"]
       /\ UNCHANGED <<ostatus, reason, sub>>
    \/ /\ ~KeptClosed(o)
       /\ Fulfils(o)
       /\ pstatus' = [pstatus EXCEPT ![o] = "succeeded"]
       /\ ostatus' = [ostatus EXCEPT ![o] = "paid"]
       /\ reason' = [reason EXCEPT ![o] = ""]
       /\ LET g == order[o].org
          IN  sub' = [sub EXCEPT ![g] = Applied(@, o, order[o], paidAt[o])]

\* wechat_payment_notify
Notify(o) ==
    /\ wx[o] = "paid" /\ ~Settled(o)
    /\ Succeed(o)
    /\ UNCHANGED <<now, order, refunded, wxVars, sweep>>

\* query_payment asks about a pending payment only, and learns of a success.
QuerySucceeds(o) == pstatus[o] = "pending" /\ wx[o] = "paid"

\* reconcile_saas_order_payment of an order WeChat knows: a success is booked;
\* a closed payment fails, and so does its order, unless the process dies in
\* between: then the next call does it.
Reconcile(o) ==
    CASE QuerySucceeds(o) -> Succeed(o)
      [] wx[o] = "closed" /\ (pstatus[o] = "pending" \/ ostatus[o] = "pending_payment") ->
           /\ pstatus' = [pstatus EXCEPT ![o] = "failed"]
           /\ \/ /\ ostatus[o] = "pending_payment"
                 /\ ostatus' = [ostatus EXCEPT ![o] = "payment_failed"]
                 /\ reason' = [reason EXCEPT ![o] = "provider_failed"]
              \/ /\ ostatus[o] # "pending_payment" \/ pstatus[o] = "pending"
                 /\ UNCHANGED <<ostatus, reason>>
           /\ UNCHANGED sub
      [] OTHER -> UNCHANGED <<pstatus, ostatus, reason, sub>>

\* query_payment raises for an order WeChat was never told of.
Known(o) == wx[o] # "none"

\* refresh_order_payment
Refresh(o) ==
    /\ ostatus[o] # "none"
    /\ Known(o) /\ ~SuccessRaises(o)
    /\ Reconcile(o)
    /\ UNCHANGED <<now, order, refunded, wxVars, sweep>>

-----------------------------------------------------------------------------
(* close_expired_saas_orders_task.                                          *)

\* close_expired_orders names no order, so the model's own holds: newest first (each
\* order expires Lifetime after it is made).
Before(p, o) == order[p].expires > order[o].expires \/ (order[p].expires = order[o].expires /\ p >= o)

\* An order raises when its money is taken and cannot be booked, and neither loop
\* catches that: in the first, over the orders that have not expired, it ends the task
\* before any is closed; in the second it ends it for the older ones.
Blocked(o) ==
    \E p \in Orders : /\ ostatus[p] = "pending_payment" /\ pstatus[p] = "pending" /\ SuccessRaises(p)
                     /\ (~Expired(p) \/ Before(p, o))

\* Mutation: only orders whose payment has failed are closed.
SweepQueryFailedOnly(o) ==
    /\ sweep = NoOrder
    /\ ostatus[o] = "pending_payment" /\ Expired(o)
    /\ Known(o) /\ ~SuccessRaises(o)
    /\ Reconcile(o)
    /\ sweep' = IF pstatus'[o] = "failed" THEN o ELSE NoOrder
    /\ UNCHANGED <<now, order, refunded, wxVars>>

\* close_expired_orders asks WeChat first; when WeChat does not answer, or does
\* not know the order, it goes on to the next one.  (The first loop, over the
\* orders that have not expired, does what Refresh does.)
SweepQuery(o) ==
    /\ sweep = NoOrder
    /\ ostatus[o] = "pending_payment" /\ Expired(o)
    /\ \/ /\ pstatus[o] = "pending" /\ Known(o) /\ ~SuccessRaises(o)
          /\ Reconcile(o)
       \/ /\ pstatus[o] # "pending"
          /\ UNCHANGED <<pstatus, ostatus, reason, sub>>
    /\ sweep' = o
    /\ UNCHANGED <<now, order, refunded, wxVars>>

\* The worker dies between the query and the closing.
SweepDies ==
    /\ sweep # NoOrder
    /\ sweep' = NoOrder
    /\ UNCHANGED <<now, orderVars, pstatus, wxVars, sub>>

\* Mutation: the order is closed without a second look.
SweepCloseBlind ==
    /\ sweep # NoOrder
    /\ ostatus' = [ostatus EXCEPT ![sweep] = "closed"]
    /\ reason' = [reason EXCEPT ![sweep] = "timeout"]
    /\ sweep' = NoOrder
    /\ UNCHANGED <<now, order, refunded, pstatus, wxVars, sub>>

\* The order is read again under its lock, and closed when still pending.
SweepClose ==
    /\ sweep # NoOrder
    /\ IF ostatus[sweep] = "pending_payment"
       THEN /\ ostatus' = [ostatus EXCEPT ![sweep] = "closed"]
            /\ reason' = [reason EXCEPT ![sweep] = "timeout"]
       ELSE UNCHANGED <<ostatus, reason>>
    /\ sweep' = NoOrder
    /\ UNCHANGED <<now, order, refunded, pstatus, wxVars, sub>>

\* close_saas_order_in_wechat_task, queued by whatever closes an order.
CloseAtWechat(o) ==
    /\ ostatus[o] = "closed"
    /\ pstatus[o] = "pending" /\ wx[o] = "open"
    /\ wx' = [wx EXCEPT ![o] = "closed"]
    /\ UNCHANGED <<now, orderVars, pstatus, paidAt, sub, sweep>>

-----------------------------------------------------------------------------
(* WeChat, its user and the clock.                                          *)

\* time_expire is the order's expires_at.
Pay(o) ==
    /\ wx[o] = "open" /\ now <= order[o].expires
    /\ wx' = [wx EXCEPT ![o] = "paid"]
    /\ paidAt' = [paidAt EXCEPT ![o] = now]
    /\ UNCHANGED <<now, orderVars, pstatus, sub, sweep>>

ExpireAtWechat(o) ==
    /\ wx[o] = "open" /\ Expired(o)
    /\ wx' = [wx EXCEPT ![o] = "closed"]
    /\ UNCHANGED <<now, orderVars, pstatus, paidAt, sub, sweep>>

Tick ==
    /\ now < Horizon
    /\ now' = now + 1
    /\ UNCHANGED <<orderVars, pstatus, wxVars, sub, sweep>>

-----------------------------------------------------------------------------

Next ==
    \/ \E g \in Orgs : GrantTrial(g)
    \/ \E g \in Orgs, o \in Orders, plan \in Plans, cycle \in Cycles : Purchase(g, o, plan, cycle)
    \/ \E o \in Orders :
          \/ Cancel(o) \/ Checkout(o)
          \/ RefundKeep(o) \/ RefundEnd(o)
          \/ Notify(o) \/ Refresh(o) \/ CloseAtWechat(o)
          \/ SweepQuery(o)
          \/ Pay(o) \/ ExpireAtWechat(o)
    \/ SweepClose \/ SweepDies
    \/ ExpireSubscriptions
    \/ Tick

Spec == Init /\ [][Next]_vars

\* The clock runs; the scheduler starts the sweep every five minutes, WeChat does
\* not fail every query of an order for ever, and the worker does not die every
\* time; WeChat repeats a notification until it is accepted.  No user need do
\* anything.
FairSpec ==
    /\ Spec
    /\ WF_vars(Tick)
    /\ \A o \in Orders : SF_vars(SweepQuery(o) /\ ~Blocked(o))
    /\ SF_vars(SweepClose)
    /\ \A o \in Orders : SF_vars(Notify(o))

-----------------------------------------------------------------------------
(* Properties.                                                              *)

Subscriptions ==
    [status : {"none", "trialing", "active", "ended"}, kind : {"trial", "paid"}, plan : Plans,
     cycle : Cycles \cup {""}, ends : Nat, source : Orders \cup {NoOrder}]

\* Every column holds a value it can hold; what has been created names its
\* organization; an active subscription was paid for and names its order.
TypeOK ==
    /\ now \in Times
    /\ order \in [Orders -> OrderFacts]
    /\ ostatus \in [Orders -> OrderStatuses]
    /\ reason \in [Orders -> CloseReasons]
    /\ refunded \subseteq Orders
    /\ pstatus \in [Orders -> PaymentStatuses]
    /\ wx \in [Orders -> {"none", "open", "paid", "closed"}]
    /\ paidAt \in [Orders -> Times]
    /\ sub \in [Orgs -> Subscriptions]
    /\ \A g \in Orgs : sub[g].status = "active" => sub[g].kind = "paid" /\ sub[g].source \in Orders
    /\ sweep \in Orders \cup {NoOrder}
    /\ \A o \in Orders : ostatus[o] # "none" => order[o].org \in Orgs

\* An organization has one pending order at most: buying again closes the last,
\* so that the table's unique constraint never refuses a purchase.
OnePending == \A g \in Orgs : Cardinality(PendingOf(g)) <= 1

\* The payment and the order agree: money is booked as received exactly for paid
\* orders, and marked for a manual refund only on an order closed for good.
PaidTogether ==
    \A o \in Orders :
        /\ pstatus[o] = "succeeded" <=> ostatus[o] = "paid"
        /\ pstatus[o] = "exception" => KeptClosed(o)

\* No sequence of renewals, late payments included, reaches further than three
\* years from the day it is at.
WithinThreeYears == \A g \in Orgs : sub[g].ends <= now + MaxLength

\* A paid order stays paid; of the closed ones only a timed-out order may still
\* become paid; what the user cancelled or replaced is never fulfilled.
LegalOrderSteps ==
    [][\A o \in Orders :
          /\ ostatus[o] = "paid" => ostatus'[o] = "paid"
          /\ ostatus[o] # "paid" /\ ostatus'[o] = "paid" =>
                ostatus[o] = "pending_payment" \/ reason[o] = "timeout"]_vars

\* Time that was paid for is lost only by a refund of the order it came from, or
\* to a first purchase paid late: that one starts at its own payment.
PaidTimeKept ==
    [][\A g \in Orgs :
          /\ Running(sub[g], now) /\ sub[g].kind = "paid"
          /\ sub'[g].status = "ended" \/ sub'[g].ends < sub[g].ends
          => \/ sub[g].source \in refunded' \ refunded
             \/ \E o \in Orders : /\ sub'[g].source = o /\ ostatus[o] # "paid"
                                  /\ order[o].type = "initial"]_vars

\* The money of a first purchase is never lost: it becomes a subscription or is
\* marked for refund, whatever happened to the order meanwhile.
FirstPaymentSettles ==
    \A o \in Orders :
        wx[o] = "paid" /\ order[o].type = "initial" ~> Settled(o)

\* An order that WeChat knows does not stay pending after its time, unless some
\* order's money is taken and cannot be booked, which stops the sweep.
ExpiredKnownOrdersEnd ==
    \A o \in Orders :
        ostatus[o] = "pending_payment" /\ Expired(o) /\ Known(o)
            ~> ostatus[o] # "pending_payment" \/ \E p \in Orders : SuccessRaises(p)

\* Pending orders are closed by the scheduled task after 30 minutes.
ExpiredOrdersClose ==
    \A o \in Orders :
        ostatus[o] = "pending_payment" /\ Expired(o) /\ wx[o] # "paid"
            ~> ostatus[o] # "pending_payment"

\* An order closed by its timeout is still fulfilled when WeChat took the money.
LatePaymentFulfilled ==
    \A o \in Orders :
        ostatus[o] = "closed" /\ reason[o] = "timeout" /\ wx[o] = "paid" ~> ostatus[o] = "paid"
=============================================================================
