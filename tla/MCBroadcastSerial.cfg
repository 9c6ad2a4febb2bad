CONSTANTS
    c1 = c1
    c2 = c2
    Campaigns = {c1}
    Leads = {l1, l2}
    Slots = {q1}
    Operations = {"enqueue", "pause", "resume", "unqueue", "mark", "progress", "webhook"}
    Serial = TRUE
    Channel <- AllBoth
    PER_TICK <- TwoPerTick
    BREAKER_MIN <- NoBreaker
    CAP = 9
    MaxDay = 1
    MaxFaults = 1
    MaxBounces = 1
    MaxRestarts = 1
SYMMETRY SameLeads
CONSTRAINT OneMishap
SPECIFICATION Spec
INVARIANTS  DoneHasNoQueue
CHECK_DEADLOCK FALSE
