\* One lease with a history of three requests.
SPECIFICATION FairSpec
CONSTANTS
    Leases = {l1}
    Requests = {1, 2, 3}
    Terms = {t1, t2}
    Rules = {u1, u2}
    NoLease = NoLease
    NoRequest = 0
INVARIANTS
    TypeOK
    OneEffective
    EffectiveMatchesLease
    LedgerFollows
    ResubmissionRepeats
PROPERTY
    PendingEnds
\* The requests are used up in the end.
CHECK_DEADLOCK FALSE
