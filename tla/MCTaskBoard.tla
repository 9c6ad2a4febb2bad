---------------------------- MODULE MCTaskBoard ----------------------------
(* Small instances of the task board.                                       *)
EXTENDS TaskBoardProps

CONSTANTS t1, t2, t3, c1, c2, c3

Task(parent, blockedBy, recurrence) ==
    [parent |-> parent, blockedBy |-> blockedBy, comments |-> {}, completed |-> FALSE,
     inDone |-> FALSE, recurrence |-> recurrence]
Board(doc1, doc2, doc3) ==
    [k \in {t1, t2, t3, c1, c2, c3} |->
        CASE k = t1 -> doc1 [] k = t2 -> doc2 [] k = t3 -> doc3 [] OTHER -> None]

(* A recurring task, its subtask and a task that waits for the subtask.     *)
MCBoards == {Board(Task(None, {}, TRUE), Task(t1, {}, FALSE), Task(None, {t2}, FALSE))}

Mix(a, b, c) == [k \in {c1, c2, c3} |-> CASE k = c1 -> a [] k = c2 -> b [] k = c3 -> c]
MCMixes == {
    Mix("comment", "comment", "move"), Mix("comment", "comment", "delete"),
    Mix("complete", "reopen", "complete"), Mix("complete", "reopen", "move"),
    Mix("move", "complete", "delete"), Mix("convert", "convert", "convert"),
    Mix("convert", "create", "delete"), Mix("block", "block", "delete"),
    Mix("block", "unblock", "move"), Mix("create", "complete", "convert")}

(* Two comments, and a task that goes.                                      *)
JustComments == {Mix("comment", "comment", "delete")}
=============================================================================
