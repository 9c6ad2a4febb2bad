CONSTANTS
    p1 = p1
    d1 = d1
    d2 = d2
    Subs = {s1}
    Tick = Tick
    Desk = {d1, d2}
    Handles <- ChargeHandles
    Mixes <- TwoCharges
    Payments = {p1}
    PaidSub <- MCPaidSub
    Plans <- MCPlans
    FirstPlan <- Low
    GRACE = 1
    MaxNow = 0
SPECIFICATION Spec
INVARIANT SettledOnce
CHECK_DEADLOCK FALSE
