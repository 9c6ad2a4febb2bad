CONSTANTS
    N = 2
    MAX_PARTS = 2
    DAILY_CAP = 2
    Mixes <- MCMixes
SPECIFICATION FairSpec
INVARIANTS TypeOK AnsweredOnce TurnIsKept 
PROPERTIES  ErrorIsRetried
CHECK_DEADLOCK FALSE
