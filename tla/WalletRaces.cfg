\* Two admins at once, and every fault.
SPECIFICATION Spec
CONSTANTS
    Withdrawals = {1, 2}
    Payouts = {p1, p2}
    Admins = {a1, a2}
    Amounts = {1}
    CreditKeys = {k1, k2}
    ReviewKeys = {r1}
    Faults = {"lost", "timeout", "error", "crash"}
    NoJob = NoJob
SYMMETRY Interchangeable
INVARIANTS
    AvailableNonNegative
    NothingFromNothing
    Conservation
    LedgerExplains
    WithdrawnOnce
    PayoutsTruthful
PROPERTIES
    ClosedStaysClosed
\* The system stops when every key is used and every request is closed.
CHECK_DEADLOCK FALSE
