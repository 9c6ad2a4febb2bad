CONSTANTS
    t1 = t1
    t2 = t2
    t3 = t3
    c1 = c1
    c2 = c2
    c3 = c3
    None = None
    Calls = {c1, c2, c3}
    Keys = {t1, t2, t3, c1, c2, c3}
    Boards <- MCBoards
    Mixes <- JustComments
    MAX_DEPTH = 3
    MaxRestarts = 0
SPECIFICATION Spec
INVARIANT CommentsStay
CHECK_DEADLOCK FALSE
