CONSTANTS
    p1 = p1
    d1 = d1
    d2 = d2
    Subs = {s1}
    Tick = Tick
    Desk = {d1, d2}
    Handles <- MCHandles
    Mixes <- MCMixes
    Payments = {p1}
    PaidSub <- MCPaidSub
    Plans <- MCPlans
    FirstPlan <- Low
    GRACE = 1
    MaxNow = 2
SPECIFICATION FairSpec
INVARIANTS TypeOK PeriodsBilled SettledOnce
PROPERTIES DunningSettles RenewalsCatchUp
CHECK_DEADLOCK FALSE
