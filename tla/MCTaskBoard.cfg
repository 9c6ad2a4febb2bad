CONSTANTS
    t1 = t1
    t2 = t2
    t3 = t3
    c1 = c1
    c2 = c2
    c3 = c3
    None = None
    Calls = {c1, c2, c3}
    Keys = {t1, t2, t3, c1, c2, c3}
    Boards <- MCBoards
    Mixes <- MCMixes
    MAX_DEPTH = 3
    MaxRestarts = 1
SPECIFICATION Spec
INVARIANTS TypeOK NobodyIsStuck CommentsStayUnderLock  TreeKept 
PROPERTIES ImplementsFifoLock
CHECK_DEADLOCK FALSE
