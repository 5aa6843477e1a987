\* Two admins start the same payout at once; nothing fails.
SPECIFICATION Spec
CONSTANTS
    Withdrawals = {1}
    Payouts = {p1, p2}
    Admins = {a1, a2}
    Amounts = {1}
    CreditKeys = {k1, k2}
    ReviewKeys = {r1}
    Faults = {}
    NoJob = NoJob
INVARIANT
    BalancesNonNegative
\* The system stops when every key is used and every request is closed.
CHECK_DEADLOCK FALSE
