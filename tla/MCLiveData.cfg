CONSTANTS
    Writers = {w1}
    Pollers = {p1}
    Tabs = {t1}
    MaxWrites = 1
    MaxQuiet = 1
    MaxFaults = 1
    MaxRestarts = 1
    MaxDrops = 1
    MaxBusy = 1
SPECIFICATION FairSpec
INVARIANTS TypeOK 
 
CHECK_DEADLOCK FALSE
