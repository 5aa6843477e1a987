\* A first purchase and its upgrade, which is paid when the first runs out.
SPECIFICATION FairSpec
CONSTANTS
    Orgs = {g1}
    Orders = {1, 2}
    Plans = {1, 2}
    Cycles = {"month"}
    Length <- MCLength
    TrialPlan = 2
    TrialLength = 1
    Lifetime = 1
    MaxLength = 3
    Horizon = 2
    NoOrder = 0
    NoOrg = NoOrg
PROPERTY LatePaymentFulfilled
CHECK_DEADLOCK FALSE
