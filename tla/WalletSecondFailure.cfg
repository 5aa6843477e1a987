\* One admin, no fault but a transfer that fails twice.
SPECIFICATION FairSpec
CONSTANTS
    Withdrawals = {1}
    Payouts = {p1, p2}
    Admins = {a1}
    Amounts = {1}
    CreditKeys = {k1, k2}
    ReviewKeys = {r1}
    Faults = {}
    NoJob = NoJob
PROPERTY
    PayingEnds
\* The system stops when every key is used and every request is closed.
CHECK_DEADLOCK FALSE
