\* One admin; the answer to an order may be lost.
SPECIFICATION Spec
CONSTANTS
    Withdrawals = {1}
    Payouts = {p1, p2}
    Admins = {a1}
    Amounts = {1}
    CreditKeys = {k1, k2}
    ReviewKeys = {r1}
    Faults = {"timeout"}
    NoJob = NoJob
INVARIANT
    SinglePayment
\* The system stops when every key is used and every request is closed.
CHECK_DEADLOCK FALSE
