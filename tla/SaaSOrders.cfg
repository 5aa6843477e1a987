\* One organization, two orders.
SPECIFICATION FairSpec
CONSTANTS
    Orgs = {g1}
    Orders = {1, 2}
    Plans = {1, 2}
    Cycles = {"month"}
    Length <- MCLength
    TrialPlan = 2
    TrialLength = 1
    Lifetime = 1
    MaxLength = 3
    Horizon = 2
    NoOrder = 0
    NoOrg = NoOrg
INVARIANTS
    TypeOK
    OnePending
    PaidTogether
    WithinThreeYears
PROPERTIES
    LegalOrderSteps
    PaidTimeKept
    FirstPaymentSettles
    ExpiredKnownOrdersEnd
\* The system stops when every order is used and the clock has stopped.
CHECK_DEADLOCK FALSE
