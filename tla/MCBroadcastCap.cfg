CONSTANTS
    c1 = c1
    c2 = c2
    Campaigns = {c1, c2}
    Leads = {l1, l2}
    Slots = {}
    Operations <- NoOperations
    Serial = TRUE
    Channel <- AllWhatsapp
    PER_TICK <- TwoPerTick
    BREAKER_MIN <- LowBreaker
    CAP = 3
    MaxDay = 2
    MaxFaults = 2
    MaxBounces = 0
    MaxRestarts = 1
SPECIFICATION FairSpec
INVARIANTS TypeOK 
PROPERTY Drains
CHECK_DEADLOCK FALSE
