CONSTANTS
    Messages = {m1}
    Notes = {n1}
    Pushers = {p1}
    MAX_ATTEMPTS = 2
    MaxWrites = 1
    MaxRemote = 1
    MaxFaults = 1
SPECIFICATION Spec
INVARIANTS TypeOK SentOnce ToldOnce AgreeAtRest 
CHECK_DEADLOCK FALSE
