-------------------------- MODULE TaskBoardProps --------------------------
(***************************************************************************)
(* What the task board is expected to keep.                                *)
(***************************************************************************)
EXTENDS TaskBoard

(* The values each variable may hold; who is inside the lock is who has    *)
(* started and not ended, and a completed task is history: it no longer    *)
(* recurs (tasks-core.js:610-611).                                         *)
TypeOK ==
    /\ docs \in [Keys -> Doc \cup {None}]
    /\ mix \in [Calls -> Kinds]
    /\ \A c \in Calls : op[c].pc \in {"idle", "queued", "list", "put", "insert", "get", "set",
                                      "remove", "end", "refused", "over"}
    /\ \A c \in Calls : Active(c) /\ op[c].kind # "create" =>
           stage[c] = IF op[c].pc = "queued" THEN "queued" ELSE "running"
    /\ \A t \in Listed(Links) : docs[t].completed => ~docs[t].recurrence
    /\ next \in [DOMAIN next -> Nat] /\ DOMAIN next \subseteq Keys /\ restarts \in 0..MaxRestarts
    /\ excused \subseteq {"crossed", "torn", "cut"}

(* tasks-core.js:11: whatever a task is written by goes through its lock:  *)
(* of the requests for one task, one at a time is past its first read.     *)
Inside(c) == Active(c) /\ op[c].kind # "create" /\ op[c].pc # "queued"

OneWriter ==
    \A c, d \in Calls : Inside(c) /\ Inside(d) /\ op[c].task = op[d].task => c = d

(* tasks-core.js:11-13: comments written at the same time no longer run    *)
(* each other over: a stored comment stays on its task ...                 *)
CommentsStay ==
    \A s \in said : docs[s[1]] # None => s[2] \in docs[s[1]].comments

(* ... as long as no write without the lock put an old copy back.          *)
CommentsStayUnderLock == "torn" \notin excused => CommentsStay

AtRest == \A c \in Calls : ~Active(c)

(* tasks-core.js:610-611: completing a recurring task creates the next one *)
(* and reopening does not create another: a task that no longer recurs has *)
(* exactly one successor, unless an old copy came back or a restart came   *)
(* between the two writes.                                                 *)
OneSuccessor ==
    \A t \in DOMAIN next :
        /\ "torn" \notin excused => next[t] <= 1
        /\ AtRest /\ excused = {} /\ docs[t] # None =>
               next[t] = IF docs[t].recurrence THEN 0 ELSE 1

(* assertParentOk: no task is above itself and none is deeper than the     *)
(* limit, unless the tree changed between a check and its write.           *)
TreeKept == excused = {} => TreeOk(Links)

(* deleteTask and setBlocker: at rest every parent and every blocker a     *)
(* task names exists, and no two tasks block each other, unless what an    *)
(* operation had read changed before it wrote.                             *)
LinksResolve == AtRest /\ excused = {} => Resolves(Links)
=============================================================================
