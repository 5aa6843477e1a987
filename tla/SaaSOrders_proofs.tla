-------------------------- MODULE SaaSOrders_proofs --------------------------
(* The safety of SaaSOrders, for any number of organizations, orders and     *)
(* plans, and cycles of any length within the limit.                         *)
EXTENDS SaaSOrders, FiniteSetTheorems, TLAPS

\* What a report of WeChat's that a payment failed does.
Failing(o) ==
    /\ pstatus[o] = "pending" \/ ostatus[o] = "pending_payment"
    /\ pstatus' = [pstatus EXCEPT ![o] = "failed"]
    /\ \/ /\ ostatus[o] = "pending_payment"
          /\ ostatus' = [ostatus EXCEPT ![o] = "payment_failed"]
          /\ reason' = [reason EXCEPT ![o] = "provider_failed"]
       \/ UNCHANGED <<ostatus, reason>>
    /\ UNCHANGED sub

\* The three ways in which a report reaches us end alike: money is booked, a
\* failure is stored, or nothing changes.
Reported(o) ==
    /\ \/ wx[o] = "paid" /\ ~Settled(o) /\ Succeed(o)
       \/ Failing(o)
       \/ UNCHANGED <<pstatus, ostatus, reason, sub>>
    /\ sweep' \in {sweep, o}
    /\ UNCHANGED <<now, order, refunded, wxVars>>

LEMMA ReportFacts ==
    ASSUME NEW o \in Orders, Notify(o) \/ Refresh(o) \/ SweepQuery(o)
    PROVE  Reported(o)
<1>1. ASSUME Reconcile(o)
      PROVE  \/ wx[o] = "paid" /\ ~Settled(o) /\ Succeed(o)
             \/ Failing(o)
             \/ UNCHANGED <<pstatus, ostatus, reason, sub>>
  <2>1. CASE QuerySucceeds(o)
    BY <1>1, <2>1 DEF Reconcile, QuerySucceeds, Settled
  <2>2. CASE ~QuerySucceeds(o)
    BY <1>1, <2>2 DEF Reconcile, Failing
  <2> QED
    BY <2>1, <2>2
<1>2. CASE Notify(o)
  BY <1>2 DEF Notify, Reported
<1>3. CASE Refresh(o)
  BY <1>1, <1>3 DEF Refresh, Reported
<1>4. CASE SweepQuery(o)
  BY <1>1, <1>4 DEF SweepQuery, Reported
<1> QED
  BY <1>2, <1>3, <1>4

\* The subscription that a paid order leaves.
LEMMA AppliedFacts ==
    ASSUME NEW s \in Subscriptions, NEW o \in Orders, NEW f \in OrderFacts, NEW t \in Times
    PROVE  /\ Applied(s, o, f, t) \in Subscriptions
           /\ Applied(s, o, f, t).status = "active"
           /\ Applied(s, o, f, t).kind = "paid"
           /\ Applied(s, o, f, t).source = o
           /\ Applied(s, o, f, t).ends =
                 IF f.type = "upgrade" THEN s.ends
                 ELSE (IF Extends(s, f, t) THEN s.ends ELSE t) + Length[f.cycle]
<1>1. /\ t \in Nat
      /\ s.ends \in Nat
      /\ f.cycle \in Cycles /\ f.plan \in Plans
      /\ Length[f.cycle] \in Nat
  <2>1. f.cycle \in Cycles /\ f.plan \in Plans
    BY DEF OrderFacts
  <2>2. Length[f.cycle] \in Nat
    BY <2>1, Lengths
  <2>3. t \in Nat
    BY Lengths DEF Times
  <2>4. s.ends \in Nat
    BY DEF Subscriptions
  <2> QED
    BY <2>1, <2>2, <2>3, <2>4
<1>2. (IF f.type = "upgrade" THEN s.ends
       ELSE (IF Extends(s, f, t) THEN s.ends ELSE t) + Length[f.cycle]) \in Nat
  BY <1>1
<1> QED
  BY <1>1, <1>2 DEF Applied, Subscriptions

\* Booking: the order was not paid, and only its organization's subscription
\* changes.
LEMMA SucceedFacts ==
    ASSUME TypeOK, NEW o \in Orders, ~KeptClosed(o), Succeed(o)
    PROVE  LET g == order[o].org
           IN  /\ g \in Orgs
               /\ Payable(o) /\ CanApply(sub[g], order[o], paidAt[o])
               /\ sub' = [sub EXCEPT ![g] = Applied(sub[g], o, order[o], paidAt[o])]
               /\ Applied(sub[g], o, order[o], paidAt[o]) \in Subscriptions
<1>1. Payable(o) /\ CanApply(sub[order[o].org], order[o], paidAt[o])
  BY DEF Succeed, Fulfils
<1>2. order[o].org \in Orgs
  BY <1>1 DEF TypeOK, Payable
<1>3. sub[order[o].org] \in Subscriptions /\ order[o] \in OrderFacts /\ paidAt[o] \in Times
  BY <1>2 DEF TypeOK
<1>4. Applied(sub[order[o].org], o, order[o], paidAt[o]) \in Subscriptions
  BY <1>3, AppliedFacts
<1>5. sub' = [sub EXCEPT ![order[o].org] = Applied(sub[order[o].org], o, order[o], paidAt[o])]
  BY DEF Succeed
<1> QED
  BY <1>1, <1>2, <1>4, <1>5

-----------------------------------------------------------------------------

LEMMA TypesInit == Init => TypeOK
<1> SUFFICES ASSUME Init PROVE TypeOK
  OBVIOUS
<1>1. Blank \in OrderFacts
  BY Lengths DEF Blank, OrderFacts
<1>2. NoSubscription \in Subscriptions /\ NoSubscription.status = "none"
  BY Lengths DEF NoSubscription, Subscriptions
<1>3. 0 \in Times
  BY Lengths DEF Times
<1> QED
  BY <1>1, <1>2, <1>3 DEF Init, TypeOK, OrderStatuses, CloseReasons, PaymentStatuses

LEMMA TypesOfReports ==
    ASSUME TypeOK, NEW o \in Orders, Reported(o)
    PROVE  TypeOK'
<1> USE DEF TypeOK, OrderStatuses, CloseReasons, PaymentStatuses, wxVars
<1>1. sweep' \in Orders \cup {NoOrder}
  BY DEF Reported
<1>2. UNCHANGED <<now, order, refunded, wx, paidAt>>
  BY DEF Reported
<1>3. CASE wx[o] = "paid" /\ ~Settled(o) /\ Succeed(o)
  <2>1. CASE KeptClosed(o)
    BY <1>1, <1>2, <1>3, <2>1 DEF Succeed
  <2>2. CASE ~KeptClosed(o)
    <3> DEFINE g == order[o].org
               s == Applied(sub[g], o, order[o], paidAt[o])
    <3>1. g \in Orgs /\ Payable(o) /\ sub' = [sub EXCEPT ![g] = s] /\ s \in Subscriptions
      BY <1>3, <2>2, SucceedFacts
    <3>2. s.kind = "paid" /\ s.source \in Orders
      BY DEF Applied
    <3>3. /\ pstatus' = [pstatus EXCEPT ![o] = "succeeded"]
          /\ ostatus' = [ostatus EXCEPT ![o] = "paid"]
          /\ reason' = [reason EXCEPT ![o] = ""]
      BY <1>3, <2>2 DEF Succeed
    <3> HIDE DEF s
    <3>4. /\ sub' \in [Orgs -> Subscriptions]
          /\ \A h \in Orgs : sub'[h].status = "active" => sub'[h].kind = "paid" /\ sub'[h].source \in Orders
      BY <3>1, <3>2
    <3>5. \A p \in Orders : ostatus'[p] # "none" => order'[p].org \in Orgs
      BY <1>2, <3>1, <3>3
    <3> QED
      BY <1>1, <1>2, <3>3, <3>4, <3>5
  <2> QED
    BY <2>1, <2>2
<1>4. CASE Failing(o)
  BY <1>1, <1>2, <1>4 DEF Failing
<1>5. CASE UNCHANGED <<pstatus, ostatus, reason, sub>>
  BY <1>1, <1>2, <1>5
<1> QED
  BY <1>3, <1>4, <1>5 DEF Reported

LEMMA TypesOfPurchase ==
    ASSUME TypeOK, NEW g \in Orgs, NEW o \in Orders, NEW p \in Plans, NEW c \in Cycles,
           Purchase(g, o, p, c)
    PROVE  TypeOK'
<1>1. PICK type \in {"initial", "renewal", "upgrade"} :
        order' = [order EXCEPT ![o] = [org |-> g, type |-> type, plan |-> p, cycle |-> c,
                                       expires |-> now + Lifetime]]
  BY DEF Purchase
<1>2. now + Lifetime \in 0..(Horizon + Lifetime)
  BY Lengths DEF TypeOK, Times
<1>3. [org |-> g, type |-> type, plan |-> p, cycle |-> c, expires |-> now + Lifetime] \in OrderFacts
  BY <1>2 DEF OrderFacts
<1>4. order' \in [Orders -> OrderFacts]
  BY <1>1, <1>3 DEF TypeOK
<1>5. \A q \in Orders : ostatus'[q] # "none" => order'[q].org \in Orgs
  <2> SUFFICES ASSUME NEW q \in Orders, ostatus'[q] # "none" PROVE order'[q].org \in Orgs
    OBVIOUS
  <2>1. CASE q = o
    BY <1>1, <2>1 DEF TypeOK
  <2>2. CASE q # o
    <3>1. ostatus[q] # "none"
      BY <2>2 DEF Purchase, Superseded, PendingOf
    <3> QED
      BY <1>1, <2>2, <3>1 DEF TypeOK
  <2> QED
    BY <2>1, <2>2
<1>6. ostatus' \in [Orders -> OrderStatuses] /\ reason' \in [Orders -> CloseReasons]
  BY DEF Purchase, TypeOK, OrderStatuses, CloseReasons
<1> QED
  BY <1>4, <1>5, <1>6 DEF Purchase, TypeOK, wxVars

\* No step breaks the types.
LEMMA TypesOfSteps == TypeOK /\ [Next]_vars => TypeOK'
<1> SUFFICES ASSUME TypeOK, [Next]_vars PROVE TypeOK'
  OBVIOUS
<1>1. ASSUME NEW g \in Orgs, GrantTrial(g) PROVE TypeOK'
  <2> DEFINE s == [NoSubscription EXCEPT !.status = "trialing", !.ends = now + TrialLength]
  <2>1. s \in Subscriptions /\ s.status = "trialing"
    <3>1. NoSubscription \in Subscriptions
      BY Lengths DEF NoSubscription, Subscriptions
    <3>2. now + TrialLength \in Nat
      BY Lengths DEF TypeOK, Times
    <3> QED
      BY <3>1, <3>2 DEF Subscriptions
  <2>2. sub' = [sub EXCEPT ![g] = s]
    BY <1>1 DEF GrantTrial
  <2> HIDE DEF s
  <2> QED
    BY <1>1, <2>1, <2>2 DEF GrantTrial, TypeOK, orderVars, wxVars
<1>2. ASSUME NEW g \in Orgs, NEW o \in Orders, NEW p \in Plans, NEW c \in Cycles,
             Purchase(g, o, p, c)
      PROVE  TypeOK'
  BY <1>2, TypesOfPurchase
<1>3. ASSUME NEW o \in Orders, Notify(o) \/ Refresh(o) \/ SweepQuery(o) PROVE TypeOK'
  BY <1>3, ReportFacts, TypesOfReports
<1>4. ASSUME NEW o \in Orders, Cancel(o) PROVE TypeOK'
  BY <1>4 DEF Cancel, TypeOK, OrderStatuses, CloseReasons, wxVars
<1>5. ASSUME NEW o \in Orders, Checkout(o) \/ CloseAtWechat(o) \/ ExpireAtWechat(o) PROVE TypeOK'
  BY <1>5 DEF Checkout, CloseAtWechat, ExpireAtWechat, TypeOK, orderVars
<1>6. ASSUME NEW o \in Orders, RefundKeep(o) PROVE TypeOK'
  BY <1>6 DEF RefundKeep, TypeOK, wxVars
<1>7. ASSUME NEW o \in Orders, RefundEnd(o) PROVE TypeOK'
  <2> DEFINE g == order[o].org
  <2>1. g \in Orgs
    BY <1>7 DEF RefundEnd, TypeOK
  <2>2. EndNow(sub[g]) \in Subscriptions /\ EndNow(sub[g]).status = "ended"
    <3>1. sub[g] \in Subscriptions /\ now \in Nat
      BY <2>1 DEF TypeOK, Times
    <3> HIDE DEF g
    <3> QED
      BY <3>1 DEF EndNow, Subscriptions
  <2>3. sub' = sub \/ sub' = [sub EXCEPT ![g] = EndNow(sub[g])]
    BY <1>7 DEF RefundEnd
  <2> HIDE DEF g
  <2> QED
    BY <1>7, <2>1, <2>2, <2>3 DEF RefundEnd, TypeOK, wxVars
<1>8. ASSUME NEW o \in Orders, Pay(o) PROVE TypeOK'
  BY <1>8 DEF Pay, TypeOK, orderVars
<1>9. ASSUME SweepClose \/ SweepDies PROVE TypeOK'
  BY <1>9 DEF SweepClose, SweepDies, TypeOK, OrderStatuses, CloseReasons, orderVars, wxVars
<1>10. ASSUME ExpireSubscriptions PROVE TypeOK'
  <2>1. \A g \in Orgs : /\ [sub[g] EXCEPT !.status = "ended"] \in Subscriptions
                        /\ [sub[g] EXCEPT !.status = "ended"].status = "ended"
    <3>1. \A s \in Subscriptions : /\ [s EXCEPT !.status = "ended"] \in Subscriptions
                                  /\ [s EXCEPT !.status = "ended"].status = "ended"
      BY DEF Subscriptions
    <3>2. \A g \in Orgs : sub[g] \in Subscriptions
      BY DEF TypeOK
    <3> QED
      BY <3>1, <3>2
  <2>2. \A g \in Orgs : \/ sub'[g] = sub[g]
                        \/ sub'[g] = [sub[g] EXCEPT !.status = "ended"]
    BY <1>10 DEF ExpireSubscriptions
  <2>3. sub' \in [Orgs -> Subscriptions]
    BY <1>10, <2>1 DEF ExpireSubscriptions, TypeOK
  <2>4. \A g \in Orgs : sub'[g].status = "active" => sub'[g].kind = "paid" /\ sub'[g].source \in Orders
    BY <2>1, <2>2 DEF TypeOK
  <2> QED
    BY <1>10, <2>3, <2>4 DEF ExpireSubscriptions, TypeOK, orderVars, wxVars
<1>11. ASSUME Tick PROVE TypeOK'
  BY <1>11, Lengths DEF Tick, TypeOK, Times, orderVars, wxVars
<1>12. ASSUME UNCHANGED vars PROVE TypeOK'
  BY <1>12 DEF vars, TypeOK, orderVars, wxVars
<1> QED
  BY <1>1, <1>2, <1>3, <1>4, <1>5, <1>6, <1>7, <1>8, <1>9, <1>10, <1>11, <1>12 DEF Next

\* Every column holds a value it can hold (TypeOK).
THEOREM TypeCorrect == Spec => []TypeOK
<1>1. Init => TypeOK
  BY TypesInit
<1>2. TypeOK /\ [Next]_vars => TypeOK'
  BY TypesOfSteps
<1> QED
  BY <1>1, <1>2, PTL DEF Spec

-----------------------------------------------------------------------------
(* One pending order.                                                       *)

OnlyOne ==
    \A p, q \in Orders :
        /\ ostatus[p] = "pending_payment" /\ ostatus[q] = "pending_payment"
        /\ order[p].org = order[q].org
        => p = q

\* Only a purchase makes an order pending, or changes what an order is.
LEMMA NoNewPending ==
    ASSUME TypeOK, [Next]_vars
    PROVE  \/ \E g \in Orgs, o \in Orders, p \in Plans, c \in Cycles : Purchase(g, o, p, c)
           \/ /\ order' = order
              /\ \A o \in Orders : ostatus'[o] = "pending_payment" => ostatus[o] = "pending_payment"
<1> DEFINE Fine == /\ order' = order
                   /\ \A o \in Orders : ostatus'[o] = "pending_payment" => ostatus[o] = "pending_payment"
<1>1. ASSUME NEW o \in Orders, Notify(o) \/ Refresh(o) \/ SweepQuery(o) PROVE Fine
  <2>1. Reported(o)
    BY <1>1, ReportFacts
  <2> QED
    BY <2>1 DEF Reported, Succeed, Failing, TypeOK
<1>2. ASSUME NEW o \in Orders, Cancel(o) PROVE Fine
  BY <1>2 DEF Cancel, TypeOK
<1>3. ASSUME NEW o \in Orders, \/ Checkout(o) \/ CloseAtWechat(o) \/ ExpireAtWechat(o) \/ Pay(o)
                               \/ RefundKeep(o) \/ RefundEnd(o)
      PROVE  Fine
  BY <1>3 DEF Checkout, CloseAtWechat, ExpireAtWechat, Pay, RefundKeep, RefundEnd, orderVars
<1>4. ASSUME SweepClose PROVE Fine
  BY <1>4 DEF SweepClose, TypeOK
<1>5. ASSUME \/ \E g \in Orgs : GrantTrial(g)
             \/ SweepDies \/ ExpireSubscriptions \/ Tick \/ UNCHANGED vars
      PROVE  Fine
  BY <1>5 DEF GrantTrial, SweepDies, ExpireSubscriptions, Tick, vars, orderVars
<1> QED
  BY <1>1, <1>2, <1>3, <1>4, <1>5 DEF Next

\* A purchase closes the organization's other pending order.
LEMMA PurchaseReplaces ==
    ASSUME TypeOK, OnlyOne, NEW g \in Orgs, NEW o \in Orders, NEW p \in Plans, NEW c \in Cycles,
           Purchase(g, o, p, c)
    PROVE  OnlyOne'
<1>1. \A q \in Orders : order'[q] = order[q] \/ (q = o /\ order'[q].org = g)
  BY DEF Purchase, TypeOK
<1>2. order'[o].org = g
  BY DEF Purchase, TypeOK
<1>3. \A q \in Orders \ {o} : ostatus'[q] = "pending_payment" =>
          ostatus[q] = "pending_payment" /\ order[q].org # g
  BY DEF Purchase, Superseded, PendingOf
<1> QED
  BY <1>1, <1>2, <1>3 DEF OnlyOne

\* An organization has one pending order at most (OnePending).
THEOREM PendingIsSingle == Spec => []OnePending
<1>1. Init => OnlyOne
  BY DEF Init, OnlyOne
<1>2. TypeOK /\ OnlyOne /\ [Next]_vars => OnlyOne'
  BY NoNewPending, PurchaseReplaces DEF OnlyOne
<1>3. OnlyOne => OnePending
  <2> SUFFICES ASSUME OnlyOne, NEW g \in Orgs PROVE Cardinality(PendingOf(g)) <= 1
    BY DEF OnePending
  <2>1. CASE PendingOf(g) = {}
    BY <2>1, FS_EmptySet
  <2>2. CASE PendingOf(g) # {}
    <3>1. PICK o : PendingOf(g) = {o}
      BY <2>2 DEF OnlyOne, PendingOf
    <3>2. Cardinality({o}) = 1
      BY FS_Singleton
    <3> QED
      BY <3>1, <3>2
  <2> QED
    BY <2>1, <2>2
<1> QED
  BY <1>1, <1>2, <1>3, TypeCorrect, PTL DEF Spec

-----------------------------------------------------------------------------
(* Money and orders.                                                        *)

\* An order whose payment is settled is in the state the payment says.
LEMMA PaidTogetherKept ==
    ASSUME TypeOK, PaidTogether, [Next]_vars
    PROVE  PaidTogether'
<1> USE DEF PaidTogether, KeptClosed, TypeOK
<1>1. ASSUME NEW o \in Orders, Notify(o) \/ Refresh(o) \/ SweepQuery(o) PROVE PaidTogether'
  <2>1. Reported(o)
    BY <1>1, ReportFacts
  <2>2. CASE wx[o] = "paid" /\ ~Settled(o) /\ Succeed(o)
    <3>1. refunded' = refunded
      BY <2>1 DEF Reported
    <3>2. CASE KeptClosed(o)
      <4>1. pstatus' = [pstatus EXCEPT ![o] = "exception"] /\ UNCHANGED <<ostatus, reason>>
        BY <2>2, <3>2 DEF Succeed
      <4>2. ostatus[o] # "paid"
        BY <2>2, <3>2 DEF Settled
      <4> QED
        BY <3>1, <3>2, <4>1, <4>2
    <3>3. CASE ~KeptClosed(o)
      <4>1. /\ pstatus' = [pstatus EXCEPT ![o] = "succeeded"]
            /\ ostatus' = [ostatus EXCEPT ![o] = "paid"]
            /\ reason' = [reason EXCEPT ![o] = ""]
        BY <2>2, <3>3 DEF Succeed
      <4> QED
        BY <3>1, <4>1
    <3> QED
      BY <3>2, <3>3
  <2>3. CASE Failing(o)
    BY <2>1, <2>3 DEF Reported, Failing, PaymentStatuses
  <2>4. CASE UNCHANGED <<pstatus, ostatus, reason, sub>>
    BY <2>4
  <2> QED
    BY <2>1, <2>2, <2>3, <2>4 DEF Reported
<1>2. ASSUME NEW g \in Orgs, NEW o \in Orders, NEW p \in Plans, NEW c \in Cycles,
             Purchase(g, o, p, c)
      PROVE  PaidTogether'
  BY <1>2 DEF Purchase, Superseded, PendingOf
<1>3. ASSUME NEW o \in Orders, Cancel(o) PROVE PaidTogether'
  BY <1>3 DEF Cancel
<1>4. ASSUME NEW o \in Orders, \/ Checkout(o) \/ CloseAtWechat(o) \/ ExpireAtWechat(o) \/ Pay(o)
                               \/ RefundKeep(o) \/ RefundEnd(o)
      PROVE  PaidTogether'
  BY <1>4 DEF Checkout, CloseAtWechat, ExpireAtWechat, Pay, RefundKeep, RefundEnd, orderVars
<1>5. ASSUME SweepClose PROVE PaidTogether'
  BY <1>5 DEF SweepClose
<1>6. ASSUME \/ \E g \in Orgs : GrantTrial(g)
             \/ SweepDies \/ ExpireSubscriptions \/ Tick \/ UNCHANGED vars
      PROVE  PaidTogether'
  BY <1>6 DEF GrantTrial, SweepDies, ExpireSubscriptions, Tick, vars, orderVars
<1> QED
  BY <1>1, <1>2, <1>3, <1>4, <1>5, <1>6 DEF Next

\* Money is booked as received exactly for paid orders, and marked for a refund
\* only on an order closed for good (PaidTogether).
THEOREM MoneyMatchesOrders == Spec => []PaidTogether
<1>1. Init => PaidTogether
  BY DEF Init, PaidTogether
<1>2. TypeOK /\ PaidTogether /\ [Next]_vars => PaidTogether'
  BY PaidTogetherKept
<1> QED
  BY <1>1, <1>2, TypeCorrect, PTL DEF Spec

\* A paid order stays paid, and only a pending or a timed-out order becomes paid
\* (LegalOrderSteps).
THEOREM OrdersStepLegally == Spec => LegalOrderSteps
<1> DEFINE Legal == \A o \in Orders :
                      /\ ostatus[o] = "paid" => ostatus'[o] = "paid"
                      /\ ostatus[o] # "paid" /\ ostatus'[o] = "paid" =>
                            ostatus[o] = "pending_payment" \/ reason[o] = "timeout"
<1>1. TypeOK /\ PaidTogether /\ [Next]_vars => Legal
  <2> SUFFICES ASSUME TypeOK, PaidTogether, [Next]_vars PROVE Legal
    OBVIOUS
  <2> USE DEF TypeOK
  <2>1. ASSUME NEW o \in Orders, Notify(o) \/ Refresh(o) \/ SweepQuery(o) PROVE Legal
    <3>1. Reported(o)
      BY <2>1, ReportFacts
    <3> QED
      BY <3>1 DEF Reported, Succeed, Failing, Fulfils, Payable, Settled, PaidTogether
  <2>2. ASSUME NEW g \in Orgs, NEW o \in Orders, NEW p \in Plans, NEW c \in Cycles,
               Purchase(g, o, p, c)
        PROVE  Legal
    BY <2>2 DEF Purchase, Superseded, PendingOf
  <2>3. ASSUME NEW o \in Orders, Cancel(o) PROVE Legal
    BY <2>3 DEF Cancel
  <2>4. ASSUME NEW o \in Orders, \/ Checkout(o) \/ CloseAtWechat(o) \/ ExpireAtWechat(o) \/ Pay(o)
                                 \/ RefundKeep(o) \/ RefundEnd(o)
        PROVE  Legal
    BY <2>4 DEF Checkout, CloseAtWechat, ExpireAtWechat, Pay, RefundKeep, RefundEnd, orderVars
  <2>5. ASSUME SweepClose PROVE Legal
    BY <2>5 DEF SweepClose
  <2>6. ASSUME \/ \E g \in Orgs : GrantTrial(g)
               \/ SweepDies \/ ExpireSubscriptions \/ Tick \/ UNCHANGED vars
        PROVE  Legal
    BY <2>6 DEF GrantTrial, SweepDies, ExpireSubscriptions, Tick, vars, orderVars
  <2> QED
    BY <2>1, <2>2, <2>3, <2>4, <2>5, <2>6 DEF Next
<1> QED
  BY <1>1, TypeCorrect, MoneyMatchesOrders, PTL DEF Spec, LegalOrderSteps

-----------------------------------------------------------------------------
(* How long a subscription runs.                                            *)

\* Money is taken in the past, and a trial is not a paid subscription.
PaidInPast == \A o \in Orders : paidAt[o] <= now
TrialsAreTrials == \A g \in Orgs : sub[g].status = "trialing" => sub[g].kind = "trial"
Lasting == PaidInPast /\ TrialsAreTrials /\ WithinThreeYears

\* How any step changes one organization's subscription.
SubscriptionStep(g) ==
    \/ sub'[g] = sub[g]
    \/ /\ sub[g].status = "none"
       /\ sub'[g].status = "trialing" /\ sub'[g].kind = "trial"
       /\ sub'[g].ends = now + TrialLength
    \/ /\ sub[g].ends <= now
       /\ sub'[g].status = "ended" /\ sub'[g].ends = sub[g].ends
    \/ /\ sub[g].source \in refunded' \ refunded
       /\ sub'[g].status = "ended" /\ sub'[g].ends = now
    \/ \E o \in Orders :
          /\ Payable(o) /\ order[o].org = g
          /\ CanApply(sub[g], order[o], paidAt[o])
          /\ sub'[g] = Applied(sub[g], o, order[o], paidAt[o])

LEMMA SubscriptionSteps ==
    ASSUME TypeOK, [Next]_vars, NEW g \in Orgs
    PROVE  SubscriptionStep(g)
<1> USE DEF TypeOK
<1>0. sub[g] \in Subscriptions
  OBVIOUS
<1>1. ASSUME NEW o \in Orders, Notify(o) \/ Refresh(o) \/ SweepQuery(o) PROVE SubscriptionStep(g)
  <2>1. Reported(o)
    BY <1>1, ReportFacts
  <2>2. CASE UNCHANGED sub
    BY <2>2 DEF SubscriptionStep
  <2>3. CASE ~UNCHANGED sub
    <3>1. ~KeptClosed(o) /\ Succeed(o)
      BY <2>1, <2>3 DEF Reported, Succeed, Failing
    <3>2. CASE order[o].org = g
      <4>1. /\ Payable(o) /\ CanApply(sub[g], order[o], paidAt[o])
            /\ sub' = [sub EXCEPT ![g] = Applied(sub[g], o, order[o], paidAt[o])]
        BY <3>1, <3>2, SucceedFacts
      <4>2. sub'[g] = Applied(sub[g], o, order[o], paidAt[o])
        BY <4>1
      <4> QED
        BY <3>2, <4>1, <4>2 DEF SubscriptionStep
    <3>3. CASE order[o].org # g
      <4>1. sub'[g] = sub[g]
        BY <3>1, <3>3, SucceedFacts
      <4> QED
        BY <4>1 DEF SubscriptionStep
    <3> QED
      BY <3>2, <3>3
  <2> QED
    BY <2>2, <2>3
<1>2. ASSUME NEW h \in Orgs, GrantTrial(h) PROVE SubscriptionStep(g)
  <2> DEFINE s == [NoSubscription EXCEPT !.status = "trialing", !.ends = now + TrialLength]
  <2>1. s.status = "trialing" /\ s.kind = "trial" /\ s.ends = now + TrialLength
    BY DEF NoSubscription
  <2>2. sub[h].status = "none" /\ sub' = [sub EXCEPT ![h] = s]
    BY <1>2 DEF GrantTrial
  <2> HIDE DEF s
  <2> QED
    BY <2>1, <2>2 DEF SubscriptionStep
<1>3. ASSUME NEW o \in Orders, RefundEnd(o) PROVE SubscriptionStep(g)
  <2> DEFINE h == order[o].org
  <2>1. CASE sub' = sub
    BY <2>1 DEF SubscriptionStep
  <2>2. CASE sub' # sub
    <3>1. /\ sub[h].source = o /\ o \in refunded' \ refunded
          /\ sub' = [sub EXCEPT ![h] = EndNow(sub[h])]
      BY <1>3, <2>2 DEF RefundEnd
    <3>2. EndNow(sub[g]).status = "ended" /\ EndNow(sub[g]).ends = now
      BY <1>0 DEF EndNow, Subscriptions
    <3> HIDE DEF h
    <3> QED
      BY <3>1, <3>2 DEF SubscriptionStep
  <2> QED
    BY <2>1, <2>2
<1>4. ASSUME ExpireSubscriptions PROVE SubscriptionStep(g)
  <2>1. /\ [sub[g] EXCEPT !.status = "ended"].status = "ended"
        /\ [sub[g] EXCEPT !.status = "ended"].ends = sub[g].ends
    BY <1>0 DEF Subscriptions
  <2>2. \/ sub'[g] = sub[g]
        \/ sub[g].ends <= now /\ sub'[g] = [sub[g] EXCEPT !.status = "ended"]
    BY <1>4 DEF ExpireSubscriptions
  <2> QED
    BY <2>1, <2>2 DEF SubscriptionStep
<1>5. ASSUME \/ \E h \in Orgs, o \in Orders, p \in Plans, c \in Cycles : Purchase(h, o, p, c)
             \/ \E o \in Orders : \/ Cancel(o) \/ Checkout(o) \/ RefundKeep(o) \/ CloseAtWechat(o)
                                  \/ Pay(o) \/ ExpireAtWechat(o)
             \/ SweepClose \/ SweepDies \/ Tick \/ UNCHANGED vars
      PROVE  SubscriptionStep(g)
  BY <1>5 DEF Purchase, Cancel, Checkout, RefundKeep, CloseAtWechat, Pay, ExpireAtWechat,
     SweepClose, SweepDies, Tick, vars, SubscriptionStep
<1> QED
  BY <1>1, <1>2, <1>3, <1>4, <1>5 DEF Next

\* The clock never goes back, and money is taken at the time it shows.
LEMMA PaidInPastKept ==
    ASSUME TypeOK, PaidInPast, [Next]_vars
    PROVE  PaidInPast' /\ now <= now'
<1> USE DEF PaidInPast, TypeOK, Times
<1>1. ASSUME NEW o \in Orders, Pay(o) PROVE PaidInPast' /\ now <= now'
  BY <1>1, Lengths DEF Pay
<1>2. ASSUME Tick PROVE PaidInPast' /\ now <= now'
  <2>1. paidAt' = paidAt /\ now' = now + 1 /\ now \in Nat /\ \A o \in Orders : paidAt[o] \in Nat
    BY <1>2, Lengths DEF Tick, wxVars
  <2> QED
    BY <2>1
<1>3. ASSUME now' = now, paidAt' = paidAt PROVE PaidInPast' /\ now <= now'
  BY <1>3, Lengths
<1>4. ASSUME \/ \E g \in Orgs : GrantTrial(g)
             \/ \E g \in Orgs, o \in Orders, p \in Plans, c \in Cycles : Purchase(g, o, p, c)
             \/ \E o \in Orders : \/ Cancel(o) \/ Checkout(o) \/ RefundKeep(o) \/ RefundEnd(o)
                                  \/ CloseAtWechat(o) \/ ExpireAtWechat(o)
                                  \/ Notify(o) \/ Refresh(o) \/ SweepQuery(o)
             \/ SweepClose \/ SweepDies \/ ExpireSubscriptions \/ UNCHANGED vars
      PROVE  now' = now /\ paidAt' = paidAt
  BY <1>4 DEF GrantTrial, Purchase, Cancel, Checkout, RefundKeep, RefundEnd, CloseAtWechat,
     ExpireAtWechat, Notify, Refresh, SweepQuery, SweepClose, SweepDies, ExpireSubscriptions,
     vars, wxVars
<1> QED
  BY <1>1, <1>2, <1>3, <1>4 DEF Next

\* What booking does to the end of a subscription.
LEMMA AppliedEnds ==
    ASSUME TypeOK, PaidInPast, NEW g \in Orgs, NEW o \in Orders,
           CanApply(sub[g], order[o], paidAt[o]), sub[g].ends <= now + MaxLength
    PROVE  Applied(sub[g], o, order[o], paidAt[o]).ends <= now + MaxLength
<1> DEFINE s == sub[g]
           f == order[o]
           t == paidAt[o]
<1>1. s \in Subscriptions /\ f \in OrderFacts /\ t \in Times /\ t <= now
  BY DEF TypeOK, PaidInPast
<1>2. t \in Nat /\ now \in Nat /\ MaxLength \in Nat
  BY <1>1, Lengths DEF TypeOK, Times
<1>3. f.cycle \in Cycles
  BY <1>1 DEF OrderFacts
<1>4. Length[f.cycle] \in Nat /\ Length[f.cycle] <= MaxLength
  BY <1>3, Lengths
<1>5. s.ends \in Nat
  BY <1>1 DEF Subscriptions
<1>6. Extends(s, f, t) => s.ends + Length[f.cycle] <= t + MaxLength
  BY DEF CanApply
<1>7. Applied(s, o, f, t).ends =
        IF f.type = "upgrade" THEN s.ends
        ELSE (IF Extends(s, f, t) THEN s.ends ELSE t) + Length[f.cycle]
  BY <1>1, AppliedFacts
<1>8. s.ends <= now + MaxLength
  OBVIOUS
<1>9. CASE f.type = "upgrade"
  BY <1>7, <1>8, <1>9
<1>10. CASE f.type # "upgrade" /\ Extends(s, f, t)
  <2>1. s.ends + Length[f.cycle] <= now + MaxLength
    BY <1>1, <1>2, <1>4, <1>5, <1>6, <1>10
  <2> QED
    BY <1>7, <1>10, <2>1
<1>11. CASE f.type # "upgrade" /\ ~Extends(s, f, t)
  <2>1. t + Length[f.cycle] <= now + MaxLength
    BY <1>1, <1>2, <1>4
  <2> QED
    BY <1>7, <1>11, <2>1
<1> QED
  BY <1>9, <1>10, <1>11

LEMMA LastingKept ==
    ASSUME TypeOK, TypeOK', Lasting, [Next]_vars
    PROVE  Lasting'
<1>1. PaidInPast' /\ now <= now'
  BY PaidInPastKept DEF Lasting
<1>2. /\ now \in Nat /\ now' \in Nat
      /\ MaxLength \in Nat /\ TrialLength \in Nat /\ TrialLength <= MaxLength
  BY Lengths DEF TypeOK, Times
<1>3. ASSUME NEW g \in Orgs
      PROVE  /\ sub'[g].status = "trialing" => sub'[g].kind = "trial"
             /\ sub'[g].ends <= now' + MaxLength
  <2>1. SubscriptionStep(g)
    BY SubscriptionSteps
  <2>2. sub[g] \in Subscriptions /\ sub[g].ends \in Nat /\ sub[g].ends <= now + MaxLength
    BY DEF TypeOK, Subscriptions, Lasting, WithinThreeYears
  <2>3. sub[g].ends <= now' + MaxLength
    BY <1>1, <1>2, <2>2
  <2>4. CASE sub'[g] = sub[g]
    BY <2>3, <2>4 DEF Lasting, TrialsAreTrials
  <2>5. CASE sub'[g].status = "trialing" /\ sub'[g].kind = "trial" /\ sub'[g].ends = now + TrialLength
    <3>1. now + TrialLength <= now' + MaxLength
      <4>1. now <= now'
        BY <1>1
      <4>2. \A a, b, c, d \in Nat : a <= b /\ c <= d => a + c <= b + d
        OBVIOUS
      <4> QED
        BY <1>2, <4>1, <4>2
    <3> QED
      BY <2>5, <3>1
  <2>6. CASE sub'[g].status = "ended" /\ sub'[g].ends \in {sub[g].ends, now}
    BY <1>1, <1>2, <2>3, <2>6
  <2>7. ASSUME NEW o \in Orders, CanApply(sub[g], order[o], paidAt[o]),
               sub'[g] = Applied(sub[g], o, order[o], paidAt[o])
        PROVE  sub'[g].status = "active" /\ sub'[g].ends <= now' + MaxLength
    <3>1. order[o] \in OrderFacts /\ paidAt[o] \in Times
      BY DEF TypeOK
    <3>2. sub'[g].status = "active"
      BY <2>2, <2>7, <3>1, AppliedFacts
    <3>3. sub'[g].ends <= now + MaxLength
      BY <2>2, <2>7, AppliedEnds DEF Lasting
    <3>4. sub'[g].ends \in Nat
      BY DEF TypeOK, Subscriptions
    <3> QED
      BY <1>1, <1>2, <3>2, <3>3, <3>4
  <2> QED
    BY <2>1, <2>4, <2>5, <2>6, <2>7 DEF SubscriptionStep
<1> QED
  BY <1>1, <1>3 DEF Lasting, TrialsAreTrials, WithinThreeYears

LEMMA AlwaysLasting == Spec => []Lasting
<1>1. Init => Lasting
  <2> SUFFICES ASSUME Init PROVE Lasting
    OBVIOUS
  <2>1. \A g \in Orgs : sub[g].status = "none" /\ sub[g].ends = 0
    BY DEF Init, NoSubscription
  <2>2. MaxLength \in Nat
    BY Lengths
  <2>3. now = 0 /\ \A o \in Orders : paidAt[o] = 0
    BY DEF Init
  <2>4. WithinThreeYears
    <3>1. 0 <= 0 + MaxLength
      BY <2>2
    <3> QED
      BY <2>1, <2>3, <3>1 DEF WithinThreeYears
  <2> QED
    BY <2>1, <2>3, <2>4 DEF Lasting, PaidInPast, TrialsAreTrials
<1>2. TypeOK /\ TypeOK' /\ Lasting /\ [Next]_vars => Lasting'
  BY LastingKept
<1> QED
  BY <1>1, <1>2, TypeCorrect, PTL DEF Spec

\* No subscription ever reaches further than three years (WithinThreeYears).
THEOREM NeverTooLong == Spec => []WithinThreeYears
<1>1. Lasting => WithinThreeYears
  BY DEF Lasting
<1> QED
  BY <1>1, AlwaysLasting, PTL

\* Time that was paid for is lost only by a refund of the order it came from, or
\* to a first purchase paid late (PaidTimeKept).
THEOREM PaidTimeIsKept == Spec => PaidTimeKept
<1> DEFINE Kept(g) ==
      /\ Running(sub[g], now) /\ sub[g].kind = "paid"
      /\ sub'[g].status = "ended" \/ sub'[g].ends < sub[g].ends
      => \/ sub[g].source \in refunded' \ refunded
         \/ \E o \in Orders : /\ sub'[g].source = o /\ ostatus[o] # "paid"
                              /\ order[o].type = "initial"
<1>1. ASSUME TypeOK, Lasting, [Next]_vars, NEW g \in Orgs PROVE Kept(g)
  <2> SUFFICES ASSUME Running(sub[g], now), sub[g].kind = "paid",
                      sub'[g].status = "ended" \/ sub'[g].ends < sub[g].ends
               PROVE  \/ sub[g].source \in refunded' \ refunded
                      \/ \E o \in Orders : /\ sub'[g].source = o /\ ostatus[o] # "paid"
                                           /\ order[o].type = "initial"
    OBVIOUS
  <2>0. sub[g] \in Subscriptions /\ now \in Nat
    BY <1>1, Lengths DEF TypeOK, Times
  <2>1. sub[g] \in Subscriptions /\ sub[g].ends \in Nat /\ now \in Nat
    BY <2>0 DEF Subscriptions
  <2>2. sub[g].status = "active" /\ sub[g].ends > now
    BY <1>1 DEF Running, Lasting, TrialsAreTrials
  <2>3. ASSUME NEW o \in Orders, Payable(o), sub'[g] = Applied(sub[g], o, order[o], paidAt[o])
        PROVE  sub'[g].source = o /\ ostatus[o] # "paid" /\ order[o].type = "initial"
    <3>1. order[o] \in OrderFacts /\ paidAt[o] \in Times /\ paidAt[o] \in Nat /\ paidAt[o] <= now
      BY <1>1, Lengths DEF TypeOK, Times, Lasting, PaidInPast
    <3>2. /\ sub'[g].source = o /\ sub'[g].status = "active"
          /\ sub'[g].ends = IF order[o].type = "upgrade" THEN sub[g].ends
                            ELSE (IF Extends(sub[g], order[o], paidAt[o]) THEN sub[g].ends
                                  ELSE paidAt[o]) + Length[order[o].cycle]
      BY <2>1, <2>3, <3>1, AppliedFacts
    <3>3. order[o].cycle \in Cycles /\ order[o].type \in {"initial", "renewal", "upgrade"}
      BY <3>1 DEF OrderFacts
    <3>4. Length[order[o].cycle] \in Nat
      BY <3>3, Lengths
    <3>5. order[o].type # "upgrade"
      BY <2>1, <3>2
    <3>6. order[o].type # "renewal"
      <4>1. SUFFICES ASSUME order[o].type = "renewal" PROVE FALSE
        OBVIOUS
      <4>2. Extends(sub[g], order[o], paidAt[o])
        BY <2>1, <2>2, <3>1, <4>1 DEF Extends
      <4> QED
        BY <2>1, <3>2, <3>4, <4>1, <4>2
    <3> QED
      BY <2>3, <3>2, <3>3, <3>5, <3>6 DEF Payable
  <2> QED
    BY <1>1, <2>1, <2>2, <2>3, SubscriptionSteps DEF SubscriptionStep
<1>2. TypeOK /\ Lasting /\ [Next]_vars => \A g \in Orgs : Kept(g)
  BY <1>1
<1> QED
  BY <1>2, TypeCorrect, AlwaysLasting, PTL DEF Spec, PaidTimeKept
=============================================================================
