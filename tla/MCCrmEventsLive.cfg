CONSTANTS
    e1 = e1
    e2 = e2
    v1 = v1
    v2 = v2
    Events = {e1}
    Requests = {r1}
    Runner = Runner
    Leads = {}
    Customers = {c1}
    None = None
    LeverIdOf <- MCLeverIdOf
    MAX_ATTEMPTS = 2
    MaxFaults = 1
    MaxRestarts = 1
SPECIFICATION FairSpec
PROPERTY EveryEventIsClosed
CHECK_DEADLOCK FALSE
