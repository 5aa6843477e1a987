\* Payouts issued one at a time, every order WeChat takes is answered.
SPECIFICATION FairSpec
CONSTANTS
    Withdrawals = {1, 2}
    Payouts = {p1, p2}
    Admins = {a1}
    Amounts = {1, 2}
    CreditKeys = {k1, k2}
    ReviewKeys = {r1}
    Faults = {"lost"}
    NoJob = NoJob
INVARIANTS
    TypeOK
    FrozenBacksRequests
    SinglePayment
    MoneySentIsHeld
PROPERTIES
    KeepsPromise
    SuccessSettles
    FirstRoundEnds
\* The system stops when every key is used and every request is closed.
CHECK_DEADLOCK FALSE
