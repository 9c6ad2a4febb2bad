CONSTANTS
    e1 = e1
    e2 = e2
    v1 = v1
    v2 = v2
    Events = {e1}
    Requests = {r1, r2}
    Runner = Runner
    Leads = {l1, l2}
    Customers = {}
    None = None
    LeverIdOf <- MCLeverIdOf
    MAX_ATTEMPTS = 2
    MaxFaults = 1
    MaxRestarts = 1
SPECIFICATION Spec
INVARIANTS TypeOK ProcessedIsOnTimeline
PROPERTY ImplementsEventLog
CHECK_DEADLOCK FALSE
