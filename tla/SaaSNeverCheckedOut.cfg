\* One order, never taken to WeChat.
SPECIFICATION FairSpec
CONSTANTS
    Orgs = {g1}
    Orders = {1}
    Plans = {1, 2}
    Cycles = {"month"}
    Length <- MCLength
    TrialPlan = 2
    TrialLength = 1
    Lifetime = 1
    MaxLength = 3
    Horizon = 2
    NoOrder = 0
    NoOrg = NoOrg
PROPERTY ExpiredOrdersClose
CHECK_DEADLOCK FALSE
