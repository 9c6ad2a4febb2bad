----------------------------- MODULE TaskBoard -----------------------------
(***************************************************************************)
(* The task board (tasks/tasks-core.js): requests that write tasks, each   *)
(* under the lock of its own task (TaskLock), each reading the other       *)
(* tasks it needs without theirs.  Every query is a step.  A call names    *)
(* the task it creates.  A column is either the one of the completed tasks *)
(* or another.                                                             *)
(***************************************************************************)
EXTENDS TaskLock, Naturals, FiniteSets

CONSTANTS
    Boards,        \* boards to start from: id -> document, or None
    Mixes,         \* what the calls do: call -> kind of operation
    MAX_DEPTH,     \* levels of subtasks (5)
    MaxRestarts    \* bound: restarts of the process

Kinds == {"comment", "complete", "reopen", "move", "convert", "block", "unblock",
          "create", "delete"}

Doc == [parent : Keys \cup {None}, blockedBy : SUBSET Keys, comments : SUBSET Calls,
        completed : BOOLEAN, inDone : BOOLEAN, recurrence : BOOLEAN]
LinkDoc == [parent : Keys \cup {None}, blockedBy : SUBSET Keys, inDone : BOOLEAN]

ASSUME BoardAssumption ==
    /\ Calls \subseteq Keys /\ Mixes \subseteq [Calls -> Kinds]
    /\ Boards \subseteq [Keys -> Doc \cup {None}] /\ None \notin Doc \cup LinkDoc
    /\ \A b \in Boards :
          /\ \A c \in Calls : b[c] = None
          /\ \A t \in Keys : b[t] # None /\ b[t].completed => ~b[t].recurrence
    /\ MAX_DEPTH \in Nat \ {0} /\ MaxRestarts \in Nat

-----------------------------------------------------------------------------
(* A list of the tasks: id -> document, or as much of it as an operation   *)
(* looks at.                                                               *)
Listed(l) == {t \in Keys : l[t] # None}
Parent(l, t) == IF t = None \/ l[t] = None THEN None ELSE l[t].parent
Tree(l) == [t \in Listed(l) |-> l[t].parent]

(* The ancestors of a task, and its descendants.                           *)
Up(l, t) ==
    LET up[n \in 0..Cardinality(Keys)] == IF n = 0 THEN t ELSE Parent(l, up[n - 1])
    IN  up
Lineage(l, t) == {Up(l, t)[n] : n \in 1..Cardinality(Keys)} \ {None}

(* A slip: the children only.                                              *)
ChildrenOf(l, t) == {d \in Listed(l) : l[d].parent = t}
DescendantsOf(l, t) == {d \in Listed(l) : t \in Lineage(l, d)}

(* A slip: the ancestors of the parent are not looked at.                  *)
OnlyOtherParents(l, t, p) == p # None => p # t /\ p \in Listed(l)

(* assertParentOk: no cycle, and no deeper than the limit.  With a cycle   *)
(* already in place below t it never returns an answer.                    *)
ParentOk(l, t, p) ==
    p # None =>
        LET below == DescendantsOf(l, t) \cup {t}
            above == Lineage(l, p) \cup {p}
        IN  /\ p # t /\ p \in Listed(l) /\ t \notin above /\ t \notin Lineage(l, t)
            /\ \A d \in below : Cardinality(above) + 1 + Cardinality(Lineage(l, d) \cap below) <= MAX_DEPTH

-----------------------------------------------------------------------------
(* No task is above itself and none is deeper than the limit.              *)
TreeOk(l) ==
    \A t \in Listed(l) : t \notin Lineage(l, t) /\ Cardinality(Lineage(l, t)) < MAX_DEPTH

(* Parents and blockers exist, and no two tasks block each other.          *)
Resolves(l) ==
    \A t \in Listed(l) :
        /\ l[t].parent # None => l[t].parent \in Listed(l)
        /\ l[t].blockedBy \subseteq Listed(l)
        /\ \A b \in l[t].blockedBy : t \notin l[b].blockedBy

(* The boards to start from are boards the routes let people make.         *)
ASSUME StartAssumption ==
    IsFiniteSet(Keys) /\ \A b \in Boards : TreeOk(b) /\ Resolves(b)

VARIABLES
    docs,      \* id -> its document, or None
    mix,       \* the kinds of this behaviour
    op,        \* call -> where it is and what it has read
    said,      \* auxiliary: <<task, call>> for every comment stored
    next,      \* auxiliary: recurring task -> occurrences created after it
    restarts,
    excused    \* auxiliary: what has by now undone a promise

boardVars == <<docs, mix, op, said, next, restarts, excused>>
vars == <<lockVars, boardVars>>

(* A list of the tasks, as far as an operation looks at it.                *)
Links == [t \in Keys |-> IF docs[t] = None THEN None
              ELSE [parent |-> docs[t].parent, blockedBy |-> docs[t].blockedBy, inDone |-> docs[t].inDone]]

-----------------------------------------------------------------------------
Idle == [pc |-> "idle", kind |-> "comment", task |-> None, arg |-> None, cur |-> None,
         links |-> None, todo |-> {}, gone |-> {}, other |-> None, copy |-> None, spawn |-> FALSE]
Over == [Idle EXCEPT !.pc = "over"]
Active(c) == op[c].pc \notin {"idle", "over"}

Init ==
    /\ LockInit
    /\ docs \in Boards
    /\ mix \in Mixes
    /\ op = [c \in Calls |-> Idle]
    /\ said = {}
    /\ next = [t \in {k \in Keys : docs[k] # None /\ docs[k].recurrence} |-> 0]
    /\ restarts = 0
    /\ excused = {}

Put(c, s) == op' = [op EXCEPT ![c] = s]
Goto(c, pc) == op' = [op EXCEPT ![c].pc = pc]
Excuse(e, when) == excused' = IF when THEN excused \cup {e} ELSE excused

(* What a request asks for besides the task: the parent, the blocker, or   *)
(* whether to move into the column of the completed tasks.                 *)
Arguments(kind, t) ==
    LET others == Listed(Links) \ {t}
    IN  CASE kind \in {"convert", "create"} -> others \cup {None}
          [] kind \in {"block", "unblock"}  -> others
          [] kind = "move"                  -> BOOLEAN
          [] OTHER                          -> {None}

Request(c) ==
    /\ op[c].pc = "idle"
    /\ \E t \in IF mix[c] = "create" THEN {c} ELSE Listed(Links) :
         \E a \in Arguments(mix[c], t) :
            /\ Put(c, [Idle EXCEPT !.pc = IF mix[c] = "create" THEN "list" ELSE "queued",
                                   !.kind = mix[c], !.task = t, !.arg = a])
            /\ IF mix[c] = "create" THEN UNCHANGED lockVars ELSE Enter(c, t)
    /\ UNCHANGED <<docs, mix, said, next, restarts, excused>>

(* The task is read under its lock; some requests have nothing to do.      *)
NothingToDo(s, cur) ==
    \/ cur = None
    \/ s.kind \in {"complete", "reopen"} /\ cur.completed = (s.kind = "complete")
    \/ s.kind = "block" /\ s.arg \in cur.blockedBy
    \/ s.kind = "unblock" /\ s.arg \notin cur.blockedBy
    \/ s.kind = "convert" /\ s.arg = cur.parent

AfterRead(s, cur) ==
    IF NothingToDo(s, cur) THEN "end"
    ELSE IF s.kind \in {"move", "convert", "block", "delete"} THEN "list" ELSE "put"

Read(c) ==
    /\ op[c].pc = "queued"
    /\ Run(c)
    /\ LET cur == docs[op[c].task]
       IN  Put(c, [op[c] EXCEPT !.pc = AfterRead(op[c], cur), !.cur = cur])
    /\ UNCHANGED <<docs, mix, said, next, restarts, excused>>

(* The other tasks are read, and what the request asks for may be refused. *)
Refused(s, l) ==
    \/ s.kind = "convert" /\ ~ParentOk(l, s.task, s.arg)
    \/ s.kind = "block" /\ (l[s.arg] = None \/ s.task \in l[s.arg].blockedBy)

(* The cards of the list the task is moved in.                             *)
SiblingsOf(l, s) ==
    {t \in Listed(l) \ {s.task} :
        l[t].parent = s.cur.parent /\ (s.cur.parent = None => l[t].inDone = s.arg)}

List(c) ==
    LET s == op[c]
        l == Links
        To(pc, todo) == Put(c, [s EXCEPT !.pc = pc, !.links = l, !.todo = todo, !.gone = todo])
    IN  /\ s.pc = "list" /\ ~s.spawn
        /\ \/ s.kind = "create" /\ To(IF ParentOk(l, c, s.arg) THEN "insert" ELSE "refused", {})
           \/ s.kind \in {"convert", "block"} /\ To(IF Refused(s, l) THEN "refused" ELSE "put", {})
           \/ s.kind = "move" /\ (To("put", {}) \/ To("refused", {}))
           \/ s.kind = "move" /\ SiblingsOf(l, s) # {} /\ To("get", SiblingsOf(l, s))
           \/ s.kind = "delete" /\ To("remove", DescendantsOf(l, s.task) \cup {s.task})
        /\ UNCHANGED <<lockVars, docs, mix, said, next, restarts, excused>>

-----------------------------------------------------------------------------
(* The document an operation writes, whole, from the copy it read.         *)
(* A slip: the recurrence stays on the completed task.                     *)
CompletedStillRecurs(doc) == [doc EXCEPT !.completed = TRUE, !.inDone = TRUE]
Completed(doc) == [doc EXCEPT !.completed = TRUE, !.inDone = TRUE, !.recurrence = FALSE]
Reopened(doc) == [doc EXCEPT !.completed = FALSE, !.inDone = FALSE]

Moved(doc, done) ==
    IF doc.inDone = done THEN doc
    ELSE IF done # doc.completed THEN IF done THEN Completed(doc) ELSE Reopened(doc)
    ELSE [doc EXCEPT !.inDone = done]

Written(c) ==
    LET s == op[c]
    IN  CASE s.kind = "comment"  -> [s.cur EXCEPT !.comments = @ \cup {c}]
          [] s.kind = "complete" -> Completed(s.cur)
          [] s.kind = "reopen"   -> Reopened(s.cur)
          [] s.kind = "move"     -> Moved(s.cur, s.arg)
          [] s.kind = "convert"  -> [s.cur EXCEPT !.parent = s.arg,
                                        !.inDone = IF s.arg = None THEN @ ELSE s.links[s.arg].inDone]
          [] s.kind = "block"    -> [s.cur EXCEPT !.blockedBy = @ \cup {s.arg}]
          [] s.kind = "unblock"  -> [s.cur EXCEPT !.blockedBy = @ \ {s.arg}]

(* What the operation decided on has changed since it was read.            *)
Outdated(s) ==
    \/ docs[s.task] # s.cur
    \/ s.kind = "convert" /\ Tree(Links) # Tree(s.links)
    \/ s.kind = "block" /\ Links[s.arg] # s.links[s.arg]

(* Completing a recurring task creates the next one.  A row that is gone   *)
(* stores nothing and is an error, or is not, if it went during the query. *)
Save(c) ==
    LET s == op[c]
        doc == Written(c)
        recurs == doc.completed /\ ~s.cur.completed /\ s.cur.recurrence
        After == IF recurs THEN Put(c, [s EXCEPT !.pc = "list", !.spawn = TRUE]) ELSE Goto(c, "end")
    IN  /\ s.pc = "put"
        /\ IF docs[s.task] = None
           THEN (After \/ Goto(c, "refused")) /\ UNCHANGED <<docs, said, excused>>
           ELSE /\ docs' = [docs EXCEPT ![s.task] = doc]
                /\ said' = IF s.kind = "comment" THEN said \cup {<<s.task, c>>} ELSE said
                /\ Excuse("crossed", Outdated(s))
                /\ After
        /\ UNCHANGED <<lockVars, mix, next, restarts>>

(* createTask, for a request or for the next occurrence (spawnNext).       *)
SpawnList(c) ==
    LET s == op[c]
    IN  /\ s.pc = "list" /\ s.spawn
        /\ Put(c, [s EXCEPT !.pc = IF ParentOk(Links, c, s.cur.parent) THEN "insert" ELSE "refused",
                            !.links = Links])
        /\ UNCHANGED <<lockVars, docs, mix, said, next, restarts, excused>>

Insert(c) ==
    LET s == op[c]
        parent == IF s.spawn THEN s.cur.parent ELSE s.arg
    IN  /\ s.pc = "insert"
        /\ docs' = [docs EXCEPT ![c] = [parent |-> parent, blockedBy |-> {}, comments |-> {},
                        completed |-> FALSE, inDone |-> FALSE, recurrence |-> s.spawn]]
        /\ next' = IF s.spawn THEN [t \in DOMAIN next \cup {c} |->
                       IF t = c THEN 0 ELSE IF t = s.task THEN next[t] + 1 ELSE next[t]] ELSE next
        /\ Excuse("crossed", parent # None /\ Tree(Links) # Tree(s.links))
        /\ Goto(c, "end")
        /\ UNCHANGED <<lockVars, mix, said, restarts>>

-----------------------------------------------------------------------------
(* repo.update of another task, without its lock: the row is read ...      *)
SilentGet(c) ==
    LET s == op[c]
    IN  /\ s.pc = "get"
        /\ \E t \in s.todo : Put(c, [s EXCEPT !.pc = "set", !.other = t, !.copy = docs[t]])
        /\ UNCHANGED <<lockVars, docs, mix, said, next, restarts, excused>>

(* ... and written whole: a new `order` for moveTask, and for deleteTask   *)
(* the blockers its list has, without the removed ones.                    *)
SilentSet(c) ==
    LET s == op[c]
        t == s.other
        rest == s.todo \ {t}
        doc == IF s.kind = "move" THEN s.copy
               ELSE [s.copy EXCEPT !.blockedBy = s.links[t].blockedBy \ s.gone]
    IN  /\ s.pc = "set"
        /\ Put(c, [s EXCEPT !.todo = rest, !.other = None, !.copy = None,
               !.pc = IF rest # {} THEN "get" ELSE IF s.kind = "move" THEN "put" ELSE "end"])
        /\ IF s.copy = None \/ docs[t] = None THEN UNCHANGED <<docs, excused>>
           ELSE /\ docs' = [docs EXCEPT ![t] = doc]
                /\ excused' = excused \cup {e \in {"torn"} : docs[t] # s.copy}
                       \cup {e \in {"crossed"} : s.kind = "delete" /\ Links[t] # s.links[t]}
        /\ UNCHANGED <<lockVars, mix, said, next, restarts>>

(* deleteTask: the task and its descendants, then who they blocked.        *)
Remove(c) ==
    LET s == op[c]
    IN  /\ s.pc = "remove"
        /\ \E t \in s.todo :
             LET l == [s.links EXCEPT ![t] = None]
                 rest == s.todo \ {t}
                 blocked == {d \in Listed(l) : l[d].blockedBy \cap s.gone # {}}
             IN  /\ docs' = [docs EXCEPT ![t] = None]
                 /\ Put(c, [s EXCEPT !.links = l,
                        !.todo = IF rest = {} THEN blocked ELSE rest,
                        !.pc = IF rest # {} THEN "remove" ELSE IF blocked = {} THEN "end" ELSE "get"])
        /\ Excuse("crossed", Links # s.links)
        /\ UNCHANGED <<lockVars, mix, said, next, restarts>>

-----------------------------------------------------------------------------
(* The function under the lock returns or throws.                          *)
End(c) ==
    /\ op[c].pc \in {"end", "refused"}
    /\ Put(c, Over)
    /\ IF op[c].kind = "create" THEN UNCHANGED lockVars ELSE Settle(c)
    /\ UNCHANGED <<docs, mix, said, next, restarts, excused>>

Release(c) == Forget(c) /\ UNCHANGED boardVars

Restart ==
    /\ restarts < MaxRestarts /\ \E c \in Calls : Active(c)
    /\ LockStop
    /\ restarts' = restarts + 1
    /\ op' = [c \in Calls |-> IF Active(c) THEN Over ELSE op[c]]
    /\ Excuse("cut", \E c \in Calls : Active(c) /\ (op[c].spawn \/ op[c].kind = "delete"))
    /\ UNCHANGED <<docs, mix, said, next>>

Step(c) ==
    \/ Read(c) \/ List(c) \/ Save(c) \/ SpawnList(c) \/ Insert(c)
    \/ SilentGet(c) \/ SilentSet(c) \/ Remove(c) \/ End(c) \/ Release(c)

Next == (\E c \in Calls : Request(c) \/ Step(c)) \/ Restart

Spec == Init /\ [][Next]_vars
=============================================================================
