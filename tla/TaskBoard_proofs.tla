-------------------------- MODULE TaskBoard_proofs --------------------------
(***************************************************************************)
(* The board goes through the lock, so one request at a time writes a task *)
(* from what it read of it, and a stored comment stays; a recurring task   *)
(* gets one successor, the tree stays a tree within its depth, and at rest *)
(* no parent or blocker is missing: for any tasks, calls, mixes of         *)
(* operations and restarts.                                                *)
(***************************************************************************)
EXTENDS TaskBoardProps, FiniteSetTheorems, WellFoundedInduction, TLAPS

-----------------------------------------------------------------------------
(* The lock of TaskLock excludes and is fair for every set of calls and    *)
(* keys.  The invariant reads the line of a key off the promises: the      *)
(* call a call is chained behind is the last of those before it.           *)
Stages == {"new", "queued", "running", "settled", "gone"}

LockTypes ==
    /\ locks \in [Keys -> Calls \cup {None}]
    /\ prev \in [Calls -> Calls \cup {None}]
    /\ stage \in [Calls -> Stages]
    /\ key \in [Calls -> Keys \cup {None}]
    /\ before \in [Calls -> SUBSET Calls]

(* A call that was made has a key; those before it have the same key, and  *)
(* of two calls of one key one is before the other.                        *)
Line ==
    \A c \in Calls :
        /\ stage[c] = "new" <=> key[c] = None
        /\ c \notin before[c]
        /\ \A d \in before[c] : key[d] = key[c] /\ key[d] # None
        /\ \A d \in Calls :
               key[d] = key[c] /\ key[c] # None => d = c \/ d \in before[c] \/ c \in before[d]

(* A queued call is chained behind the last of those before it, or all of  *)
(* them have settled.                                                      *)
Chain ==
    \A c \in Calls : stage[c] = "queued" =>
        IF prev[c] = None
        THEN \A d \in before[c] : Settled(d)
        ELSE /\ before[c] = before[prev[c]] \cup {prev[c]}
             /\ stage[prev[c]] # "new"

(* Whoever runs or ran did so after all before it.                         *)
Turns ==
    \A c \in Calls : stage[c] = "running" \/ Settled(c) => \A d \in before[c] : Settled(d)

(* The map holds the last of the line; without an entry all have settled.  *)
Tail ==
    \A k \in Keys :
        IF locks[k] = None
        THEN \A c \in Calls : key[c] = k => Settled(c)
        ELSE /\ key[locks[k]] = k
             /\ \A c \in Calls : key[c] = k <=> c \in before[locks[k]] \cup {locks[k]}

LockInv == LockTypes /\ Line /\ Chain /\ Turns /\ Tail

-----------------------------------------------------------------------------
(* The invariant holds at the start.                                       *)
LEMMA LockInitInv == LockInit => LockInv
BY LockAssumption DEF LockInit, LockInv, LockTypes, Stages, Line, Chain, Turns, Tail, Settled

(* A call that enters is the last of its line, chained behind the one that *)
(* was, or behind nobody when all have settled.                            *)
LEMMA EnterInv ==
    ASSUME LockInv, NEW c \in Calls, NEW k \in Keys, Enter(c, k)
    PROVE  LockInv'
<1> USE DEF LockInv, Settled
<1>0. /\ k \in Keys /\ \A l \in Keys : l # None
      /\ \A d \in Calls : d # None
  BY LockAssumption
<1>1. LockTypes'
  BY DEF LockTypes, Enter, Stages
<1>2. /\ stage[c] = "new" /\ key[c] = None
      /\ stage' = [stage EXCEPT ![c] = "queued"]
      /\ prev' = [prev EXCEPT ![c] = locks[k]]
      /\ locks' = [locks EXCEPT ![k] = c]
      /\ key' = [key EXCEPT ![c] = k]
      /\ before' = [before EXCEPT ![c] = {d \in Calls : key[d] = k}]
      /\ \A d \in Calls : c \notin before[d]
  BY DEF Enter, Line
<1>3. Line'
  BY <1>0, <1>1, <1>2 DEF LockTypes, Line
<1>4. Chain'
  <2> SUFFICES ASSUME NEW d \in Calls, stage'[d] = "queued"
               PROVE  IF prev'[d] = None
                      THEN \A e \in before'[d] : stage'[e] \in {"settled", "gone"}
                      ELSE /\ before'[d] = before'[prev'[d]] \cup {prev'[d]}
                           /\ stage'[prev'[d]] # "new"
    BY DEF Chain
  <2>1. CASE d = c
    BY <2>1, <1>0, <1>2 DEF LockTypes, Line, Tail
  <2>2. CASE d # c
    BY <2>2, <1>0, <1>2 DEF LockTypes, Chain
  <2> QED BY <2>1, <2>2
<1>5. Turns'
  BY <1>0, <1>2 DEF LockTypes, Turns
<1>6. Tail'
  <2>1. locks'[k] = c /\ key'[c] = k /\ c \in Calls
    BY <1>2 DEF LockTypes
  <2>2. \A d \in Calls : key'[d] = k <=> d \in before'[c] \cup {c}
    BY <1>0, <1>2 DEF LockTypes
  <2>3. ASSUME NEW l \in Keys, l # k, locks[l] = None
        PROVE  locks'[l] = None /\ \A d \in Calls : key'[d] = l => stage'[d] \in {"settled", "gone"}
    BY <2>3, <1>0, <1>2 DEF LockTypes, Tail
  <2>4. ASSUME NEW l \in Keys, l # k, locks[l] # None
        PROVE  /\ locks'[l] = locks[l] /\ locks[l] # c /\ key'[locks[l]] = l
               /\ \A d \in Calls : key'[d] = l <=> d \in before'[locks[l]] \cup {locks[l]}
    BY <2>4, <1>0, <1>2 DEF LockTypes, Tail
  <2> SUFFICES ASSUME NEW l \in Keys
               PROVE  IF locks'[l] = None
                      THEN \A d \in Calls : key'[d] = l => stage'[d] \in {"settled", "gone"}
                      ELSE /\ key'[locks'[l]] = l
                           /\ \A d \in Calls :
                                  key'[d] = l <=> d \in before'[locks'[l]] \cup {locks'[l]}
    BY DEF Tail
  <2>5. CASE l = k
    BY <2>5, <1>0, <2>1, <2>2
  <2>6. CASE l # k
    BY <2>6, <2>3, <2>4
  <2> QED BY <2>5, <2>6
<1> QED BY <1>1, <1>3, <1>4, <1>5, <1>6

(* A call that starts has everyone before it settled.                      *)
LEMMA RunInv ==
    ASSUME LockInv, NEW c \in Calls, Run(c)
    PROVE  LockInv'
<1> USE DEF LockInv, Settled
<1>1. /\ stage[c] = "queued" /\ stage' = [stage EXCEPT ![c] = "running"]
      /\ UNCHANGED <<locks, prev, key, before>>
  BY DEF Run
<1>2. \A d \in before[c] : d # c /\ Settled(d)
  BY DEF Run, Free, LockTypes, Line, Chain, Turns
<1>3. LockTypes' /\ Line'
  BY <1>1 DEF LockTypes, Line, Stages
<1>4. Chain' /\ Turns' /\ Tail'
  BY <1>1, <1>2 DEF LockTypes, Chain, Turns, Tail
<1> QED BY <1>3, <1>4

(* A call that settles keeps what is said of the others.                   *)
LEMMA SettleInv ==
    ASSUME LockInv, NEW c \in Calls, Settle(c)
    PROVE  LockInv'
<1> USE DEF LockInv, Settled, Settle
<1>1. LockTypes' /\ Line'
  BY DEF LockTypes, Line, Stages
<1>2. Chain' /\ Turns' /\ Tail'
  BY DEF LockTypes, Chain, Turns, Tail
<1> QED BY <1>1, <1>2

(* The entry that is removed was of the last of a line that has settled.   *)
LEMMA ForgetInv ==
    ASSUME LockInv, NEW c \in Calls, Forget(c)
    PROVE  LockInv'
<1> USE DEF LockInv, Settled
<1>1. /\ stage[c] = "settled" /\ stage' = [stage EXCEPT ![c] = "gone"]
      /\ key[c] \in Keys /\ UNCHANGED <<prev, key, before>>
      /\ locks' = IF locks[key[c]] = c THEN [locks EXCEPT ![key[c]] = None] ELSE locks
  BY DEF Forget, LockTypes, Line
<1>2. LockTypes' /\ Line'
  BY <1>1 DEF LockTypes, Line, Stages
<1>3. Chain' /\ Turns'
  BY <1>1 DEF LockTypes, Chain, Turns
<1>4. Tail'
  BY <1>1, LockAssumption DEF LockTypes, Turns, Tail
<1> QED BY <1>2, <1>3, <1>4

(* After a restart the map is empty and every call is over.                *)
LEMMA StopInv ==
    ASSUME LockInv, LockStop
    PROVE  LockInv'
<1> USE DEF LockInv, Settled, LockStop
<1>1. LockTypes' /\ Line'
  BY DEF LockTypes, Line, Stages
<1>2. \A c \in Calls : stage[c] # "new" => Settled(c)'
  BY DEF LockTypes
<1>3. Chain' /\ Turns'
  BY <1>2 DEF LockTypes, Line, Chain, Turns, Stages
<1>4. Tail'
  BY <1>2, LockAssumption DEF LockTypes, Line, Tail
<1> QED BY <1>1, <1>3, <1>4

LEMMA LockStep == LockInv /\ [LockNext]_lockVars => LockInv'
<1> SUFFICES ASSUME LockInv, [LockNext]_lockVars PROVE LockInv'
  OBVIOUS
<1>1. CASE UNCHANGED lockVars
  BY <1>1 DEF LockInv, LockTypes, Line, Chain, Turns, Tail, Settled, lockVars
<1>2. ASSUME NEW c \in Calls, NEW k \in Keys, Enter(c, k) PROVE LockInv'
  BY <1>2, EnterInv
<1>3. ASSUME NEW c \in Calls, Run(c) PROVE LockInv'
  BY <1>3, RunInv
<1>4. ASSUME NEW c \in Calls, Settle(c) PROVE LockInv'
  BY <1>4, SettleInv
<1>5. ASSUME NEW c \in Calls, Forget(c) PROVE LockInv'
  BY <1>5, ForgetInv
<1>6. CASE LockStop
  BY <1>6, StopInv
<1> QED BY <1>1, <1>2, <1>3, <1>4, <1>5, <1>6 DEF LockNext

(* The invariant of the lock holds in every state, for any calls and keys. *)
THEOREM LockInvariance == LockSpec => []LockInv
BY LockInitInv, LockStep, PTL DEF LockSpec

LEMMA LockInvExcludes == LockInv => MutualExclusion
BY DEF LockInv, LockTypes, Line, Turns, MutualExclusion, Settled, Stages

(* tasks-core.js: "uma escrita numa tarefa passa por withTaskLock": no two *)
(* functions under the lock of one key are ever under way together.        *)
THEOREM LockExcludes == LockSpec => []MutualExclusion
BY LockInvariance, LockInvExcludes, PTL

LEMMA LockInvFrees == LockInv => NobodyIsStuck
BY DEF LockInv, LockTypes, Chain, NobodyIsStuck, Free, Settled

(* prev.then(fn, fn): once those before it are over, whatever they came    *)
(* to, nothing keeps a call from starting.                                 *)
THEOREM LockFrees == LockSpec => []NobodyIsStuck
BY LockInvariance, LockInvFrees, PTL

-----------------------------------------------------------------------------
(* The stage of each call, as the abstract queue sees it.                  *)
LEMMA FifoInit == LockInit => Fifo!Init
BY DEF LockInit, Fifo!Init, Settled

LEMMA FifoStep == LockInv /\ [LockNext]_lockVars => [Fifo!Next]_(Fifo!vars)
<1> DEFINE State == [c \in Calls |-> IF stage[c] = "queued" THEN "waiting"
                                  ELSE IF Settled(c) THEN "over" ELSE stage[c]]
<1> SUFFICES ASSUME LockInv, [LockNext]_lockVars
             PROVE  Fifo!Next \/ UNCHANGED <<State, key, before>>
  BY DEF Fifo!vars
<1> USE DEF LockInv, LockTypes, Settled, Stages
<1>1. CASE UNCHANGED lockVars
  BY <1>1 DEF lockVars
<1>2. ASSUME NEW c \in Calls, NEW k \in Keys, Enter(c, k) PROVE Fifo!Join(c, k)
  BY <1>2 DEF Enter, Fifo!Join
<1>3. ASSUME NEW c \in Calls, Run(c) PROVE Fifo!Start(c)
  <2>1. \A d \in before[c] : Settled(d)
    BY <1>3 DEF Run, Free, Line, Chain, Turns
  <2> QED BY <1>3, <2>1 DEF Run, Fifo!Start
<1>4. ASSUME NEW c \in Calls, Settle(c) PROVE Fifo!Finish(c)
  BY <1>4 DEF Settle, Fifo!Finish
<1>5. ASSUME NEW c \in Calls, Forget(c) PROVE UNCHANGED <<State, key, before>>
  BY <1>5 DEF Forget
<1>6. CASE LockStop
  <2>1. Fifo!Stop
    BY <1>6 DEF LockStop, Fifo!Stop
  <2> QED BY <2>1 DEF Fifo!Next
<1> QED BY <1>1, <1>2, <1>3, <1>4, <1>5, <1>6 DEF LockNext, Fifo!Next

(* The chain of promises implements the fair queue: who was made first     *)
(* runs first, and nobody waits for a call that is over.                   *)
THEOREM LockIsFifo == LockSpec => ImplementsFifoLock
BY LockInvariance, FifoInit, FifoStep, PTL DEF LockSpec, ImplementsFifoLock, Fifo!Spec

-----------------------------------------------------------------------------
(* Every step of the board is a step of the lock or leaves it alone.       *)
LEMMA BoardLockStep == [Next]_vars => [LockNext]_lockVars
<1> SUFFICES ASSUME [Next]_vars PROVE LockNext \/ UNCHANGED lockVars
  OBVIOUS
<1> USE DEF LockNext
<1>1. ASSUME NEW c \in Calls, Request(c) PROVE LockNext \/ UNCHANGED lockVars
  <2>1. PICK t \in IF mix[c] = "create" THEN {c} ELSE Listed(Links) :
            IF mix[c] = "create" THEN UNCHANGED lockVars ELSE Enter(c, t)
    BY <1>1 DEF Request
  <2> QED BY <2>1 DEF Listed
<1>2. ASSUME NEW c \in Calls, Read(c) PROVE LockNext
  BY <1>2 DEF Read
<1>3. ASSUME NEW c \in Calls, List(c) PROVE UNCHANGED lockVars
  BY <1>3 DEF List
<1>4. ASSUME NEW c \in Calls, Save(c) PROVE UNCHANGED lockVars
  BY <1>4 DEF Save
<1>5. ASSUME NEW c \in Calls, SpawnList(c) PROVE UNCHANGED lockVars
  BY <1>5 DEF SpawnList
<1>6. ASSUME NEW c \in Calls, Insert(c) PROVE UNCHANGED lockVars
  BY <1>6 DEF Insert
<1>7. ASSUME NEW c \in Calls, SilentGet(c) PROVE UNCHANGED lockVars
  BY <1>7 DEF SilentGet
<1>8. ASSUME NEW c \in Calls, SilentSet(c) PROVE UNCHANGED lockVars
  BY <1>8 DEF SilentSet
<1>9. ASSUME NEW c \in Calls, Remove(c) PROVE UNCHANGED lockVars
  BY <1>9 DEF Remove
<1>10. ASSUME NEW c \in Calls, End(c) PROVE LockNext \/ UNCHANGED lockVars
  BY <1>10 DEF End
<1>11. ASSUME NEW c \in Calls, Release(c) PROVE LockNext
  BY <1>11 DEF Release
<1>12. CASE Restart
  BY <1>12 DEF Restart
<1>13. CASE UNCHANGED vars
  BY <1>13 DEF vars
<1> QED
  BY <1>1, <1>2, <1>3, <1>4, <1>5, <1>6, <1>7, <1>8, <1>9, <1>10, <1>11, <1>12, <1>13
     DEF Next, Step

(* The board uses withTaskLock as it is meant to be used.                  *)
THEOREM BoardKeepsTheLock == Spec => LockSpec
<1>1. Init => LockInit
  BY DEF Init
<1> QED BY <1>1, BoardLockStep, PTL DEF Spec, LockSpec

(* All that holds of the lock holds of the board.                          *)
THEOREM BoardIsFifo == Spec => ImplementsFifoLock /\ []NobodyIsStuck /\ []LockInv
BY BoardKeepsTheLock, LockIsFifo, LockFrees, LockInvariance, PTL

(* tasks-core.js:103-110: a request whose turn has come may start: it does *)
(* not wait for one that was made later, nor for an entry of the map.      *)
THEOREM BoardNobodyIsStuck == Spec => []NobodyIsStuck
BY BoardIsFifo, PTL

-----------------------------------------------------------------------------
(* The types, and what each phase of an operation has in hand.             *)
PCs == {"idle", "queued", "list", "put", "insert", "get", "set", "remove", "end", "refused", "over"}
LinkTables == [Keys -> LinkDoc \cup {None}]

OpRecord ==
    [pc : PCs, kind : Kinds, task : Keys \cup {None}, arg : Keys \cup {None} \cup BOOLEAN,
     cur : Doc \cup {None}, links : LinkTables \cup {None}, todo : SUBSET Keys, gone : SUBSET Keys,
     other : Keys \cup {None}, copy : Doc \cup {None}, spawn : BOOLEAN]

Asked(s) ==
    /\ s.task \in Keys
    /\ s.kind \in {"block", "unblock"} => s.arg \in Keys
    /\ s.kind = "move" => s.arg \in BOOLEAN
    /\ s.kind \in {"convert", "create"} => s.arg \in Keys \cup {None}

InHand(s) ==
    /\ s.pc \notin {"idle", "over"} => Asked(s)
    /\ s.pc \in {"queued", "put", "get", "set", "remove"} => s.kind # "create" /\ ~s.spawn
    /\ s.spawn => s.kind # "create"
    /\ s.kind # "create" /\ s.pc \in {"list", "put", "insert", "get", "set", "remove"} => s.cur \in Doc
    /\ s.pc \in {"get", "set", "remove"} => s.links \in LinkTables
    /\ s.pc = "put" => s.kind \notin {"create", "delete"}
    /\ s.pc = "put" /\ s.kind = "convert" /\ s.arg # None => s.links \in LinkTables /\ s.links[s.arg] # None
    /\ s.pc = "insert" /\ ~s.spawn => s.kind = "create"
    /\ s.pc \in {"get", "set"} => s.kind \in {"move", "delete"}
    /\ s.pc \in {"get", "set"} /\ s.kind = "delete" => s.todo \subseteq Listed(s.links)
    /\ s.pc = "set" => s.other \in s.todo
    /\ s.pc = "remove" => s.kind = "delete"

BoardTypes ==
    /\ docs \in [Keys -> Doc \cup {None}]
    /\ mix \in [Calls -> Kinds]
    /\ op \in [Calls -> OpRecord]
    /\ said \subseteq Keys \X Calls
    /\ \A c \in Calls : InHand(op[c])

(* Completed tasks are history, also in the copies that may be written.    *)
Past(doc) == doc # None /\ doc.completed => ~doc.recurrence

History ==
    /\ \A t \in Keys : Past(docs[t])
    /\ \A c \in Calls : Past(op[c].cur) /\ Past(op[c].copy)

(* Where a request is in the lock.                                         *)
InLock ==
    \A c \in Calls : Active(c) /\ op[c].kind # "create" =>
        /\ key[c] = op[c].task
        /\ stage[c] = IF op[c].pc = "queued" THEN "queued" ELSE "running"

BoardInv == BoardTypes /\ History /\ InLock

LEMMA LinksType == BoardTypes => Links \in LinkTables /\ \A t \in Listed(Links) : docs[t] \in Doc
BY DEF BoardTypes, Links, LinkTables, LinkDoc, Listed, Doc

LEMMA BoardInit == Init => BoardInv
<1> SUFFICES ASSUME Init PROVE BoardInv
  OBVIOUS
<1> USE BoardAssumption DEF Init
<1>1. Idle \in OpRecord /\ Idle.pc = "idle" /\ Idle.spawn = FALSE /\ Idle.kind = "comment"
      /\ Idle.cur = None /\ Idle.copy = None
  BY DEF Idle, OpRecord, PCs, Kinds
<1>2. docs \in [Keys -> Doc \cup {None}] /\ mix \in [Calls -> Kinds] /\ op \in [Calls -> OpRecord]
  BY <1>1
<1>3. \A c \in Calls : InHand(op[c])
  BY <1>1 DEF InHand
<1>4. BoardTypes
  BY <1>2, <1>3 DEF BoardTypes
<1>5. History
  BY <1>1 DEF History, Past
<1>6. InLock
  BY <1>1 DEF InLock, Active
<1> QED BY <1>4, <1>5, <1>6 DEF BoardInv

(* A step that gives one request a new record and keeps its place in the   *)
(* lock.                                                                   *)
LEMMA PutInv ==
    ASSUME BoardInv, NEW c \in Calls, NEW s \in OpRecord, Put(c, s), InHand(s),
           Past(s.cur), Past(s.copy),
           docs' \in [Keys -> Doc \cup {None}], \A t \in Keys : Past(docs'[t]),
           mix' = mix, said' \subseteq Keys \X Calls,
           UNCHANGED lockVars,
           s.kind = op[c].kind, s.task = op[c].task, s.pc \notin {"idle", "queued", "over"},
           op[c].pc \notin {"idle", "queued", "over"}
    PROVE  BoardInv'
<1>1. op' = [op EXCEPT ![c] = s] /\ op \in [Calls -> OpRecord]
  BY DEF Put, BoardInv, BoardTypes
<1>2. BoardTypes'
  BY <1>1 DEF BoardInv, BoardTypes
<1>3. History'
  BY <1>1 DEF BoardInv, History
<1>4. InLock'
  BY <1>1 DEF BoardInv, InLock, Active, lockVars
<1> QED BY <1>2, <1>3, <1>4 DEF BoardInv

LEMMA RequestInv == ASSUME BoardInv, LockTypes, NEW c \in Calls, Request(c) PROVE BoardInv'
<1>1. PICK t \in IF mix[c] = "create" THEN {c} ELSE Listed(Links) :
          \E a \in Arguments(mix[c], t) :
            /\ Put(c, [Idle EXCEPT !.pc = IF mix[c] = "create" THEN "list" ELSE "queued",
                                   !.kind = mix[c], !.task = t, !.arg = a])
            /\ IF mix[c] = "create" THEN UNCHANGED lockVars ELSE Enter(c, t)
  BY DEF Request
<1>2. PICK a \in Arguments(mix[c], t) :
            /\ Put(c, [Idle EXCEPT !.pc = IF mix[c] = "create" THEN "list" ELSE "queued",
                                   !.kind = mix[c], !.task = t, !.arg = a])
            /\ IF mix[c] = "create" THEN UNCHANGED lockVars ELSE Enter(c, t)
  BY <1>1
<1> DEFINE s == [Idle EXCEPT !.pc = IF mix[c] = "create" THEN "list" ELSE "queued",
                             !.kind = mix[c], !.task = t, !.arg = a]
<1>3. /\ op[c].pc = "idle" /\ UNCHANGED <<docs, mix, said>>
      /\ op' = [op EXCEPT ![c] = s]
  BY <1>2 DEF Request, Put
<1>4. t \in Keys /\ mix[c] \in Kinds
  BY BoardAssumption DEF Listed, BoardInv, BoardTypes
<1>5. /\ mix[c] \in {"block", "unblock"} => a \in Keys
      /\ mix[c] = "move" => a \in BOOLEAN
      /\ mix[c] \in {"convert", "create"} => a \in Keys \cup {None}
      /\ a \in Keys \cup {None} \cup BOOLEAN
  <2>1. CASE mix[c] \in {"convert", "create"}
    BY <2>1 DEF Arguments, Listed
  <2>2. CASE mix[c] \in {"block", "unblock"}
    BY <2>2 DEF Arguments, Listed
  <2>3. CASE mix[c] = "move"
    BY <2>3 DEF Arguments
  <2>4. CASE mix[c] \in {"comment", "complete", "reopen", "delete"}
    BY <2>4 DEF Arguments
  <2> QED BY <2>1, <2>2, <2>3, <2>4, <1>4 DEF Kinds
<1>6. /\ s \in OpRecord /\ s.pc = (IF mix[c] = "create" THEN "list" ELSE "queued")
      /\ s.kind = mix[c] /\ s.task = t /\ s.arg = a /\ s.spawn = FALSE
      /\ s.cur = None /\ s.copy = None
  BY <1>4, <1>5 DEF Idle, OpRecord, PCs, Kinds
<1>7. InHand(s)
  BY <1>4, <1>5, <1>6 DEF InHand, Asked
<1>8. BoardTypes'
  BY <1>3, <1>6, <1>7 DEF BoardInv, BoardTypes
<1>9. History'
  BY <1>3, <1>6 DEF BoardInv, BoardTypes, History, Past
<1>10. InLock'
  <2>1. CASE mix[c] = "create"
    BY <2>1, <1>2, <1>3, <1>6 DEF BoardInv, BoardTypes, InLock, Active, lockVars
  <2>2. CASE mix[c] # "create"
    <3>1. Enter(c, t)
      BY <2>2, <1>2
    <3>2. stage[c] = "new" /\ stage' = [stage EXCEPT ![c] = "queued"] /\ key' = [key EXCEPT ![c] = t]
      BY <3>1 DEF Enter
    <3> HIDE DEF s
    <3> QED BY <2>2, <3>2, <1>3, <1>6 DEF BoardInv, BoardTypes, InLock, Active, LockTypes
  <2> QED BY <2>1, <2>2
<1> QED BY <1>8, <1>9, <1>10 DEF BoardInv

LEMMA ReadInv == ASSUME BoardInv, LockTypes, NEW c \in Calls, Read(c) PROVE BoardInv'
<1> DEFINE cur == docs[op[c].task]
           s == [op[c] EXCEPT !.pc = AfterRead(op[c], cur), !.cur = cur]
<1>1. op[c].pc = "queued" /\ Run(c) /\ UNCHANGED <<docs, mix, said>> /\ op' = [op EXCEPT ![c] = s]
  BY DEF Read, Put
<1>2. op[c] \in OpRecord /\ InHand(op[c]) /\ op[c].task \in Keys /\ op[c].kind # "create"
      /\ ~op[c].spawn /\ cur \in Doc \cup {None} /\ Past(cur) /\ Past(op[c].copy)
  BY <1>1 DEF BoardInv, BoardTypes, History, InHand, Asked
<1>3. /\ AfterRead(op[c], cur) \in {"end", "list", "put"}
      /\ cur = None => AfterRead(op[c], cur) = "end"
      /\ AfterRead(op[c], cur) = "put" => op[c].kind \notin {"convert", "delete"}
  BY <1>2 DEF AfterRead, NothingToDo
<1>4. /\ s \in OpRecord /\ s.pc = AfterRead(op[c], cur) /\ s.cur = cur /\ s.copy = op[c].copy
      /\ s.kind = op[c].kind /\ s.task = op[c].task /\ s.arg = op[c].arg /\ s.spawn = op[c].spawn
  BY <1>2, <1>3 DEF OpRecord, PCs
<1>5. InHand(s)
  BY <1>1, <1>2, <1>3, <1>4 DEF InHand, Asked
<1>6. BoardTypes' /\ History'
  BY <1>1, <1>2, <1>4, <1>5 DEF BoardInv, BoardTypes, History
<1>7. InLock'
  <2> HIDE DEF s
  <2>1. stage' = [stage EXCEPT ![c] = "running"] /\ key' = key
    BY <1>1 DEF Run
  <2>2. key[c] = op[c].task
    BY <1>1, <1>2 DEF BoardInv, InLock, Active
  <2> QED BY <1>1, <1>3, <1>4, <2>1, <2>2 DEF BoardInv, BoardTypes, InLock, Active, LockTypes
<1> QED BY <1>6, <1>7 DEF BoardInv

LEMMA ListInv == ASSUME BoardInv, NEW c \in Calls, List(c) PROVE BoardInv'
<1> DEFINE To(pc, todo) == [op[c] EXCEPT !.pc = pc, !.links = Links, !.todo = todo, !.gone = todo]
<1>1. /\ op[c].pc = "list" /\ ~op[c].spawn
      /\ UNCHANGED lockVars /\ UNCHANGED <<docs, mix, said>>
  BY DEF List
<1>2. op[c] \in OpRecord /\ InHand(op[c]) /\ Asked(op[c]) /\ Past(op[c].cur) /\ Past(op[c].copy)
      /\ docs \in [Keys -> Doc \cup {None}] /\ said \subseteq Keys \X Calls /\ \A t \in Keys : Past(docs[t])
  BY <1>1 DEF BoardInv, BoardTypes, History, InHand
<1>3. Links \in LinkTables
  BY LinksType DEF BoardInv
<1>4. ASSUME NEW pc \in {"insert", "refused", "put", "get", "remove"}, NEW todo \in SUBSET Keys
      PROVE  /\ To(pc, todo) \in OpRecord
             /\ To(pc, todo).pc = pc /\ To(pc, todo).links = Links /\ To(pc, todo).todo = todo
             /\ To(pc, todo).kind = op[c].kind /\ To(pc, todo).task = op[c].task
             /\ To(pc, todo).arg = op[c].arg /\ To(pc, todo).cur = op[c].cur
             /\ To(pc, todo).copy = op[c].copy /\ To(pc, todo).spawn = op[c].spawn
  <2>1. pc \in PCs
    BY DEF PCs
  <2> QED BY <1>2, <1>3, <2>1 DEF OpRecord
<1>5. PICK pc \in {"insert", "refused", "put", "get", "remove"}, todo \in SUBSET Keys :
          /\ Put(c, To(pc, todo))
          /\ pc = "insert" => op[c].kind = "create"
          /\ pc = "put" => op[c].kind \in {"convert", "block", "move"}
          /\ pc = "put" /\ op[c].kind = "convert" => ~Refused(op[c], Links)
          /\ pc = "get" => op[c].kind = "move"
          /\ pc = "remove" => op[c].kind = "delete"
  <2> HIDE DEF To
  <2>1. CASE op[c].kind = "create" /\ Put(c, To(IF ParentOk(Links, c, op[c].arg) THEN "insert" ELSE "refused", {}))
    <3>1. CASE ParentOk(Links, c, op[c].arg)
      BY <2>1, <3>1
    <3>2. CASE ~ParentOk(Links, c, op[c].arg)
      BY <2>1, <3>2
    <3> QED BY <3>1, <3>2
  <2>2. CASE op[c].kind \in {"convert", "block"} /\ Put(c, To(IF Refused(op[c], Links) THEN "refused" ELSE "put", {}))
    <3>1. CASE Refused(op[c], Links)
      BY <2>2, <3>1
    <3>2. CASE ~Refused(op[c], Links)
      BY <2>2, <3>2
    <3> QED BY <3>1, <3>2
  <2>3. CASE op[c].kind = "move" /\ (Put(c, To("put", {})) \/ Put(c, To("refused", {})))
    BY <2>3
  <2>4. CASE op[c].kind = "move" /\ Put(c, To("get", SiblingsOf(Links, op[c])))
    <3>1. SiblingsOf(Links, op[c]) \in SUBSET Keys
      BY DEF SiblingsOf, Listed
    <3> QED BY <2>4, <3>1
  <2>5. CASE op[c].kind = "delete" /\ Put(c, To("remove", DescendantsOf(Links, op[c].task) \cup {op[c].task}))
    <3>1. DescendantsOf(Links, op[c].task) \cup {op[c].task} \in SUBSET Keys
      BY <1>2 DEF DescendantsOf, Listed, Asked
    <3> QED BY <2>5, <3>1
  <2> QED BY <2>1, <2>2, <2>3, <2>4, <2>5 DEF List, To
<1> DEFINE s == To(pc, todo)
<1>6. op[c].kind = "convert" /\ pc = "put" /\ op[c].arg # None => Links[op[c].arg] # None
  BY <1>5 DEF Refused, ParentOk, Listed
<1> HIDE DEF To
<1>7. InHand(s)
  BY <1>1, <1>2, <1>3, <1>4, <1>5, <1>6 DEF InHand, Asked
<1> QED BY <1>1, <1>2, <1>4, <1>5, <1>7, PutInv

-----------------------------------------------------------------------------
(* What an operation writes is a document, keeps the comments of its copy  *)
(* and adds its own, and does not bring a recurrence back.                 *)
LEMMA WrittenDoc ==
    ASSUME BoardInv, NEW c \in Calls, op[c].pc = "put"
    PROVE  /\ Written(c) \in Doc /\ Past(Written(c))
           /\ op[c].cur.comments \subseteq Written(c).comments
           /\ op[c].kind = "comment" => c \in Written(c).comments
<1> DEFINE s == op[c]
           cur == s.cur
<1>1. /\ s.kind \in Kinds \ {"create", "delete"} /\ cur \in Doc /\ Past(cur) /\ Asked(s)
      /\ s.kind = "convert" /\ s.arg # None => s.links[s.arg].inDone \in BOOLEAN /\ s.arg \in Keys
  <2>1. s \in OpRecord /\ InHand(s) /\ Past(cur)
    BY DEF BoardInv, BoardTypes, History
  <2>2. s.kind \in Kinds \ {"create", "delete"} /\ cur \in Doc /\ Asked(s)
    BY <2>1 DEF InHand, OpRecord
  <2>3. ASSUME s.kind = "convert", s.arg # None
        PROVE  s.links[s.arg].inDone \in BOOLEAN /\ s.arg \in Keys
    <3>1. s.links \in LinkTables /\ s.links[s.arg] # None /\ s.arg \in Keys
      BY <2>1, <2>2, <2>3 DEF InHand, Asked
    <3> QED BY <3>1 DEF LinkTables, LinkDoc
  <2> QED BY <2>1, <2>2, <2>3
<1>2. Completed(cur) \in Doc /\ Past(Completed(cur)) /\ Completed(cur).comments = cur.comments
  BY <1>1 DEF Completed, Doc, Past
<1>3. Reopened(cur) \in Doc /\ Past(Reopened(cur)) /\ Reopened(cur).comments = cur.comments
  BY <1>1 DEF Reopened, Doc, Past
<1>4. CASE s.kind = "comment"
  <2>1. Written(c) = [cur EXCEPT !.comments = @ \cup {c}]
    BY <1>4 DEF Written
  <2> QED BY <1>1, <1>4, <2>1, BoardAssumption DEF Doc, Past
<1>5. CASE s.kind = "complete"
  <2>1. Written(c) = Completed(cur)
    BY <1>5 DEF Written
  <2> QED BY <1>2, <1>5, <2>1
<1>6. CASE s.kind = "reopen"
  <2>1. Written(c) = Reopened(cur)
    BY <1>6 DEF Written
  <2> QED BY <1>3, <1>6, <2>1
<1>7. CASE s.kind = "move"
  <2>1. Written(c) = Moved(cur, s.arg) /\ s.arg \in BOOLEAN
    BY <1>1, <1>7 DEF Written, Asked
  <2>2. [cur EXCEPT !.inDone = s.arg] \in Doc /\ Past([cur EXCEPT !.inDone = s.arg])
        /\ [cur EXCEPT !.inDone = s.arg].comments = cur.comments
    BY <1>1, <2>1, BoardAssumption DEF Doc, Past
  <2> QED BY <1>1, <1>2, <1>3, <1>7, <2>1, <2>2 DEF Moved
<1>8. CASE s.kind = "convert"
  <2>1. Written(c) = [cur EXCEPT !.parent = s.arg, !.inDone = IF s.arg = None THEN @ ELSE s.links[s.arg].inDone]
    BY <1>8 DEF Written
  <2>2. CASE s.arg = None
    BY <1>1, <1>8, <2>1, <2>2, BoardAssumption DEF Doc, Past
  <2>3. CASE s.arg # None
    BY <1>1, <1>8, <2>1, <2>3, BoardAssumption DEF Doc, Past
  <2> QED BY <2>2, <2>3
<1>9. CASE s.kind = "block"
  <2>1. Written(c) = [cur EXCEPT !.blockedBy = @ \cup {s.arg}] /\ s.arg \in Keys
    BY <1>1, <1>9 DEF Written, Asked
  <2> QED BY <1>1, <1>9, <2>1, BoardAssumption DEF Doc, Past
<1>10. CASE s.kind = "unblock"
  <2>1. Written(c) = [cur EXCEPT !.blockedBy = @ \ {s.arg}]
    BY <1>10 DEF Written
  <2> QED BY <1>1, <1>10, <2>1, BoardAssumption DEF Doc, Past
<1> QED BY <1>1, <1>4, <1>5, <1>6, <1>7, <1>8, <1>9, <1>10 DEF Kinds

LEMMA SaveInv == ASSUME BoardInv, NEW c \in Calls, Save(c) PROVE BoardInv'
<1> DEFINE t == op[c].task
           spawned == [op[c] EXCEPT !.pc = "list", !.spawn = TRUE]
           ended == [op[c] EXCEPT !.pc = "end"]
           refused == [op[c] EXCEPT !.pc = "refused"]
<1>1. op[c].pc = "put" /\ mix' = mix /\ UNCHANGED lockVars
  BY DEF Save
<1>2. /\ op[c] \in OpRecord /\ InHand(op[c]) /\ Asked(op[c]) /\ t \in Keys /\ op[c].kind # "create"
      /\ op[c].cur \in Doc /\ Past(op[c].cur) /\ Past(op[c].copy)
  BY <1>1 DEF BoardInv, BoardTypes, History, InHand, Asked
<1>3. PICK s \in {spawned, ended, refused} : Put(c, s)
  BY DEF Save, Put, Goto
<1>4. /\ s \in OpRecord /\ s.pc \in {"list", "end", "refused"} /\ (s.pc # "list" => ~s.spawn)
      /\ s.kind = op[c].kind /\ s.task = t /\ s.arg = op[c].arg /\ s.cur = op[c].cur
      /\ s.copy = op[c].copy
  <2>1. ~op[c].spawn
    BY <1>1, <1>2 DEF InHand
  <2>2. CASE s = spawned
    BY <1>2, <2>2 DEF OpRecord, PCs
  <2>3. CASE s = ended
    BY <1>2, <2>1, <2>3 DEF OpRecord, PCs
  <2>4. CASE s = refused
    BY <1>2, <2>1, <2>4 DEF OpRecord, PCs
  <2> QED BY <1>3, <2>2, <2>3, <2>4
<1> HIDE DEF spawned, ended, refused
<1>5. InHand(s)
  BY <1>2, <1>4 DEF InHand, Asked
<1>6. docs' \in [Keys -> Doc \cup {None}] /\ (\A k \in Keys : Past(docs'[k])) /\ said' \subseteq Keys \X Calls
  <2>1. CASE UNCHANGED <<docs, said>>
    BY <2>1 DEF BoardInv, BoardTypes, History
  <2>2. CASE docs' = [docs EXCEPT ![t] = Written(c)] /\ said' \subseteq said \cup {<<t, c>>}
    BY <1>1, <1>2, <2>2, WrittenDoc DEF BoardInv, BoardTypes, History
  <2> QED BY <2>1, <2>2 DEF Save
<1> QED BY <1>1, <1>2, <1>3, <1>4, <1>5, <1>6, PutInv

LEMMA SpawnListInv == ASSUME BoardInv, NEW c \in Calls, SpawnList(c) PROVE BoardInv'
<1>1. PICK pc \in {"insert", "refused"} :
          Put(c, [op[c] EXCEPT !.pc = pc, !.links = Links])
  BY DEF SpawnList
<1> DEFINE s == [op[c] EXCEPT !.pc = pc, !.links = Links]
<1>2. op[c].pc = "list" /\ op[c].spawn /\ UNCHANGED lockVars /\ UNCHANGED <<docs, mix, said>>
  BY DEF SpawnList
<1>3. /\ op[c] \in OpRecord /\ InHand(op[c]) /\ Asked(op[c]) /\ Past(op[c].cur) /\ Past(op[c].copy)
      /\ docs \in [Keys -> Doc \cup {None}] /\ said \subseteq Keys \X Calls /\ \A t \in Keys : Past(docs[t])
  BY <1>2 DEF BoardInv, BoardTypes, History, InHand
<1>4. /\ s \in OpRecord /\ s.pc = pc /\ s.spawn = op[c].spawn
      /\ s.kind = op[c].kind /\ s.task = op[c].task /\ s.arg = op[c].arg /\ s.cur = op[c].cur
      /\ s.copy = op[c].copy
  BY <1>3, LinksType, SMTT(20), ZenonT(40) DEF OpRecord, PCs, BoardInv
<1> HIDE DEF s
<1>5. InHand(s)
  BY <1>2, <1>3, <1>4 DEF InHand, Asked
<1>6. Put(c, s)
  BY <1>1 DEF s
<1> QED BY <1>2, <1>3, <1>4, <1>5, <1>6, PutInv

LEMMA InsertInv == ASSUME BoardInv, NEW c \in Calls, Insert(c) PROVE BoardInv'
<1> DEFINE s == [op[c] EXCEPT !.pc = "end"]
           parent == IF op[c].spawn THEN op[c].cur.parent ELSE op[c].arg
           doc == [parent |-> parent, blockedBy |-> {}, comments |-> {},
                   completed |-> FALSE, inDone |-> FALSE, recurrence |-> op[c].spawn]
<1>1. /\ op[c].pc = "insert" /\ UNCHANGED lockVars /\ mix' = mix /\ said' = said
      /\ docs' = [docs EXCEPT ![c] = doc] /\ Put(c, s)
  BY DEF Insert, Put, Goto
<1>2. /\ op[c] \in OpRecord /\ InHand(op[c]) /\ Asked(op[c]) /\ Past(op[c].cur) /\ Past(op[c].copy)
      /\ docs \in [Keys -> Doc \cup {None}] /\ said \subseteq Keys \X Calls /\ \A t \in Keys : Past(docs[t])
  BY <1>1 DEF BoardInv, BoardTypes, History, InHand
<1>3. parent \in Keys \cup {None} /\ op[c].spawn \in BOOLEAN
  <2>1. CASE op[c].spawn
    BY <1>1, <1>2, <2>1 DEF InHand, Doc, OpRecord
  <2>2. CASE ~op[c].spawn
    BY <1>1, <1>2, <2>2 DEF InHand, Asked, OpRecord
  <2> QED BY <2>1, <2>2
<1>4. doc \in Doc /\ Past(doc)
  <2> HIDE DEF parent
  <2> QED BY <1>3 DEF Doc, Past
<1>5. /\ s \in OpRecord /\ s.pc = "end" /\ s.kind = op[c].kind /\ s.task = op[c].task
      /\ s.arg = op[c].arg /\ s.cur = op[c].cur /\ s.copy = op[c].copy /\ s.spawn = op[c].spawn
  BY <1>2 DEF OpRecord, PCs
<1> HIDE DEF s, doc
<1>6. InHand(s)
  BY <1>2, <1>5 DEF InHand, Asked
<1>7. docs' \in [Keys -> Doc \cup {None}] /\ \A t \in Keys : Past(docs'[t])
  BY <1>1, <1>2, <1>4
<1> QED BY <1>1, <1>2, <1>5, <1>6, <1>7, PutInv

LEMMA SilentGetInv == ASSUME BoardInv, NEW c \in Calls, SilentGet(c) PROVE BoardInv'
<1>1. PICK t \in op[c].todo : Put(c, [op[c] EXCEPT !.pc = "set", !.other = t, !.copy = docs[t]])
  BY DEF SilentGet
<1> DEFINE s == [op[c] EXCEPT !.pc = "set", !.other = t, !.copy = docs[t]]
<1>2. op[c].pc = "get" /\ UNCHANGED lockVars /\ UNCHANGED <<docs, mix, said>>
  BY DEF SilentGet
<1>3. /\ op[c] \in OpRecord /\ InHand(op[c]) /\ Asked(op[c]) /\ Past(op[c].cur)
      /\ docs \in [Keys -> Doc \cup {None}] /\ said \subseteq Keys \X Calls /\ \A k \in Keys : Past(docs[k])
  BY <1>2 DEF BoardInv, BoardTypes, History, InHand
<1>4. t \in Keys
  BY <1>3 DEF OpRecord
<1>5. /\ s \in OpRecord /\ s.pc = "set" /\ s.spawn = op[c].spawn
      /\ s.kind = op[c].kind /\ s.task = op[c].task /\ s.arg = op[c].arg /\ s.cur = op[c].cur
      /\ s.links = op[c].links /\ s.todo = op[c].todo /\ s.other = t /\ s.copy = docs[t]
  BY <1>3, <1>4 DEF OpRecord, PCs
<1> HIDE DEF s
<1>6. InHand(s)
  BY <1>2, <1>3, <1>5 DEF InHand, Asked
<1>7. Put(c, s)
  BY <1>1 DEF s
<1> QED BY <1>2, <1>3, <1>4, <1>5, <1>6, <1>7, PutInv

(* The document a write without the lock puts back.                        *)
SilentDoc(s) ==
    IF s.kind = "move" THEN s.copy
    ELSE [s.copy EXCEPT !.blockedBy = s.links[s.other].blockedBy \ s.gone]

LEMMA SilentSetInv == ASSUME BoardInv, NEW c \in Calls, SilentSet(c) PROVE BoardInv'
<1> DEFINE r == op[c]
           rest == r.todo \ {r.other}
           pc == IF rest # {} THEN "get" ELSE IF r.kind = "move" THEN "put" ELSE "end"
           s == [r EXCEPT !.todo = rest, !.other = None, !.copy = None, !.pc = pc]
<1>1. /\ r.pc = "set" /\ UNCHANGED lockVars /\ mix' = mix /\ said' = said /\ Put(c, s)
      /\ docs' = docs \/ (docs' = [docs EXCEPT ![r.other] = SilentDoc(r)] /\ r.copy # None)
  BY DEF SilentSet, SilentDoc
<1>2. /\ r \in OpRecord /\ InHand(r) /\ Asked(r) /\ Past(r.cur) /\ Past(r.copy)
      /\ docs \in [Keys -> Doc \cup {None}] /\ said \subseteq Keys \X Calls /\ \A k \in Keys : Past(docs[k])
  BY <1>1 DEF BoardInv, BoardTypes, History, InHand
<1>3. rest \in SUBSET Keys /\ pc \in {"get", "put", "end"} /\ (pc = "put" => r.kind = "move")
      /\ r.other \in Keys
  BY <1>1, <1>2 DEF OpRecord, InHand
<1>4. ASSUME r.copy # None PROVE SilentDoc(r) \in Doc /\ Past(SilentDoc(r))
  <2>1. r.copy \in Doc /\ r.kind \in {"move", "delete"}
    BY <1>1, <1>2, <1>4 DEF OpRecord, InHand
  <2>2. CASE r.kind = "move"
    BY <1>2, <2>1, <2>2 DEF SilentDoc
  <2>3. CASE r.kind = "delete"
    <3>1. r.links[r.other] \in LinkDoc
      BY <1>1, <1>2, <1>3, <2>3 DEF InHand, LinkTables, Listed
    <3>2. PICK b \in SUBSET Keys : b = r.links[r.other].blockedBy \ r.gone
      BY <3>1 DEF LinkDoc
    <3>3. SilentDoc(r) = [r.copy EXCEPT !.blockedBy = b]
      BY <2>3, <3>2 DEF SilentDoc
    <3>4. SilentDoc(r) \in Doc /\ SilentDoc(r).completed = r.copy.completed
          /\ SilentDoc(r).recurrence = r.copy.recurrence
      BY <2>1, <3>2, <3>3 DEF Doc
    <3>5. Past(r.copy) /\ r.copy # None
      BY <1>2, <1>4
    <3> QED BY <3>4, <3>5 DEF Past
  <2> QED BY <2>1, <2>2, <2>3
<1>5. /\ s \in OpRecord /\ s.pc = pc /\ s.todo = rest /\ s.copy = None /\ s.spawn = r.spawn
      /\ s.kind = r.kind /\ s.task = r.task /\ s.arg = r.arg /\ s.cur = r.cur /\ s.links = r.links
  <2> HIDE DEF pc, rest
  <2> QED BY <1>2, <1>3, ZenonT(40) DEF OpRecord, PCs
<1>6. rest \subseteq r.todo
  OBVIOUS
<1> HIDE DEF s, pc, rest
<1>7. InHand(s)
  BY <1>1, <1>2, <1>3, <1>5, <1>6 DEF InHand, Asked
<1>8. docs' \in [Keys -> Doc \cup {None}] /\ \A k \in Keys : Past(docs'[k])
  BY <1>1, <1>2, <1>3, <1>4
<1>9. Past(s.copy)
  BY <1>5 DEF Past
<1> QED BY <1>1, <1>2, <1>3, <1>5, <1>7, <1>8, <1>9, PutInv

LEMMA RemoveInv == ASSUME BoardInv, NEW c \in Calls, Remove(c) PROVE BoardInv'
<1> DEFINE r == op[c]
<1>0. PICK t \in r.todo :
         LET l == [r.links EXCEPT ![t] = None]
             rest == r.todo \ {t}
             blocked == {d \in Listed(l) : l[d].blockedBy \cap r.gone # {}}
         IN  /\ docs' = [docs EXCEPT ![t] = None]
             /\ Put(c, [r EXCEPT !.links = l,
                    !.todo = IF rest = {} THEN blocked ELSE rest,
                    !.pc = IF rest # {} THEN "remove" ELSE IF blocked = {} THEN "end" ELSE "get"])
  BY DEF Remove
<1> DEFINE l == [r.links EXCEPT ![t] = None]
<1>1. PICK todo \in (SUBSET Listed(l)) \cup (SUBSET r.todo), pc \in {"remove", "end", "get"} :
        /\ docs' = [docs EXCEPT ![t] = None]
        /\ Put(c, [r EXCEPT !.links = l, !.todo = todo, !.pc = pc])
        /\ pc = "get" => todo \subseteq Listed(l)
  <2> DEFINE rest == r.todo \ {t}
             blocked == {d \in Listed(l) : l[d].blockedBy \cap r.gone # {}}
  <2>1. /\ docs' = [docs EXCEPT ![t] = None]
        /\ Put(c, [r EXCEPT !.links = l,
                    !.todo = IF rest = {} THEN blocked ELSE rest,
                    !.pc = IF rest # {} THEN "remove" ELSE IF blocked = {} THEN "end" ELSE "get"])
    BY <1>0
  <2>2. blocked \in SUBSET Listed(l) /\ rest \in SUBSET r.todo
    OBVIOUS
  <2> HIDE DEF rest, blocked, l
  <2>3. CASE rest # {}
    BY <2>1, <2>2, <2>3
  <2>4. CASE rest = {} /\ blocked = {}
    BY <2>1, <2>2, <2>4
  <2>5. CASE rest = {} /\ blocked # {}
    BY <2>1, <2>2, <2>5
  <2> QED BY <2>3, <2>4, <2>5
<1> DEFINE s == [r EXCEPT !.links = l, !.todo = todo, !.pc = pc]
<1>2. r.pc = "remove" /\ UNCHANGED lockVars /\ UNCHANGED <<mix, said>>
  BY DEF Remove
<1>3. /\ r \in OpRecord /\ InHand(r) /\ Asked(r) /\ Past(r.cur) /\ Past(r.copy)
      /\ docs \in [Keys -> Doc \cup {None}] /\ said \subseteq Keys \X Calls /\ \A k \in Keys : Past(docs[k])
      /\ r.links \in LinkTables /\ r.kind = "delete"
  BY <1>2 DEF BoardInv, BoardTypes, History, InHand
<1>4. t \in Keys /\ todo \in SUBSET Keys
  BY <1>3 DEF OpRecord, Listed
<1>5. l \in LinkTables
  BY <1>3, <1>4 DEF LinkTables
<1>6. /\ s \in OpRecord /\ s.pc = pc /\ s.todo = todo /\ s.copy = r.copy /\ s.spawn = r.spawn
      /\ s.kind = r.kind /\ s.task = r.task /\ s.arg = r.arg /\ s.cur = r.cur /\ s.links = l
  <2> HIDE DEF l
  <2>1. r \in OpRecord /\ l \in LinkTables /\ todo \in SUBSET Keys /\ pc \in PCs
    BY <1>3, <1>4, <1>5 DEF PCs
  <2>2. /\ s.pc = pc /\ s.todo = todo /\ s.links = l /\ s.copy = r.copy /\ s.spawn = r.spawn
        /\ s.kind = r.kind /\ s.task = r.task /\ s.arg = r.arg /\ s.cur = r.cur
    BY <2>1 DEF OpRecord
  <2>3. s \in OpRecord
    BY <2>1, ZenonT(40) DEF OpRecord
  <2> QED BY <2>2, <2>3
<1> HIDE DEF s
<1>7. InHand(s)
  BY <1>1, <1>2, <1>3, <1>5, <1>6 DEF InHand, Asked
<1>8. docs' \in [Keys -> Doc \cup {None}] /\ \A k \in Keys : Past(docs'[k])
  BY <1>1, <1>3, <1>4 DEF Past
<1>9. Put(c, s)
  BY <1>1 DEF s
<1> QED BY <1>2, <1>3, <1>6, <1>7, <1>8, <1>9, PutInv

LEMMA EndInv == ASSUME BoardInv, LockTypes, NEW c \in Calls, End(c) PROVE BoardInv'
<1>1. /\ op[c].pc \in {"end", "refused"} /\ op' = [op EXCEPT ![c] = Over]
      /\ UNCHANGED <<docs, mix, said>>
      /\ UNCHANGED lockVars \/ Settle(c)
  BY DEF End, Put
<1>2. Over \in OpRecord /\ Over.pc = "over" /\ ~Over.spawn /\ Over.kind = "comment"
      /\ Past(Over.cur) /\ Past(Over.copy)
  BY DEF Over, Idle, OpRecord, PCs, Kinds, Past
<1>3. BoardTypes' /\ History'
  BY <1>1, <1>2 DEF BoardInv, BoardTypes, History, InHand
<1>4. InLock'
  BY <1>1, <1>2 DEF BoardInv, BoardTypes, InLock, Active, Settle, LockTypes, lockVars
<1> QED BY <1>3, <1>4 DEF BoardInv

LEMMA RestartInv == ASSUME BoardInv, Restart PROVE BoardInv'
<1>1. op' = [c \in Calls |-> IF Active(c) THEN Over ELSE op[c]] /\ UNCHANGED <<docs, mix, said>>
  BY DEF Restart
<1>2. Over \in OpRecord /\ Over.pc = "over" /\ ~Over.spawn /\ Over.kind = "comment"
      /\ Past(Over.cur) /\ Past(Over.copy)
  BY DEF Over, Idle, OpRecord, PCs, Kinds, Past
<1>3. InHand(Over)
  BY <1>2 DEF InHand
<1>4. BoardTypes' /\ History'
  BY <1>1, <1>2, <1>3 DEF BoardInv, BoardTypes, History
<1>5. InLock'
  BY <1>1, <1>2 DEF InLock, Active
<1> QED BY <1>4, <1>5 DEF BoardInv

LEMMA BoardStep == BoardInv /\ LockInv /\ [Next]_vars => BoardInv'
<1> SUFFICES ASSUME BoardInv, LockInv, [Next]_vars PROVE BoardInv'
  OBVIOUS
<1>1. LockTypes
  BY DEF LockInv
<1>2. ASSUME NEW c \in Calls, Request(c) PROVE BoardInv'
  BY <1>1, <1>2, RequestInv
<1>3. ASSUME NEW c \in Calls, Step(c) PROVE BoardInv'
  <2>1. CASE Release(c)
    <3>1. UNCHANGED boardVars /\ key' = key /\ stage[c] = "settled" /\ stage' = [stage EXCEPT ![c] = "gone"]
      BY <2>1 DEF Release, Forget
    <3>2. BoardTypes' /\ History'
      BY <3>1 DEF BoardInv, BoardTypes, History, boardVars
    <3>3. InLock'
      BY <3>1, <1>1 DEF BoardInv, InLock, Active, boardVars, LockTypes
    <3> QED BY <3>2, <3>3 DEF BoardInv
  <2> QED BY <1>1, <1>3, <2>1, ReadInv, ListInv, SaveInv, SpawnListInv, InsertInv, SilentGetInv,
             SilentSetInv, RemoveInv, EndInv DEF Step
<1>4. CASE Restart
  BY <1>4, RestartInv
<1>5. CASE UNCHANGED vars
  BY <1>5 DEF vars, lockVars, boardVars, BoardInv, BoardTypes, History, InLock, Active
<1> QED BY <1>2, <1>3, <1>4, <1>5 DEF Next

(* Types, copies and places in the lock are as they should be, always.     *)
THEOREM BoardInvariance == Spec => [](BoardInv /\ LockInv)
<1>1. LockSpec => []LockInv
  BY LockInvariance
<1> QED BY <1>1, BoardKeepsTheLock, BoardInit, BoardStep, PTL DEF Spec

(* The counters and marks of the history.                                  *)
Marks ==
    /\ next \in [DOMAIN next -> Nat] /\ DOMAIN next \subseteq Keys
    /\ restarts \in 0..MaxRestarts
    /\ excused \subseteq {"crossed", "torn", "cut"}

LEMMA MarksInit == Init => Marks
BY BoardAssumption DEF Init, Marks

LEMMA MarksStep == Marks /\ [Next]_vars => Marks'
<1> SUFFICES ASSUME Marks, [Next]_vars PROVE Marks'
  OBVIOUS
<1>1. next' = next \/ \E c \in Calls : Insert(c)
  BY DEF Next, Step, Request, Read, List, Save, SpawnList, SilentGet, SilentSet, Remove, End,
         Release, Restart, vars, boardVars
<1>2. next' \in [DOMAIN next' -> Nat] /\ DOMAIN next' \subseteq Keys
  <2>1. CASE next' = next
    BY <2>1 DEF Marks
  <2>2. CASE \E c \in Calls : Insert(c)
    <3>1. PICK c \in Calls : Insert(c)
      BY <2>2
    <3>2. c \in Keys
      BY BoardAssumption
    <3>3. CASE ~op[c].spawn
      BY <3>1, <3>3 DEF Insert, Marks
    <3>4. CASE op[c].spawn
      <4>1. next' = [t \in DOMAIN next \cup {c} |->
               IF t = c THEN 0 ELSE IF t = op[c].task THEN next[t] + 1 ELSE next[t]]
        BY <3>1, <3>4 DEF Insert
      <4> QED BY <4>1, <3>2 DEF Marks
    <3> QED BY <3>3, <3>4
  <2> QED BY <1>1, <2>1, <2>2
<1>3. restarts' \in 0..MaxRestarts
  <2>1. restarts' = restarts \/ (restarts < MaxRestarts /\ restarts' = restarts + 1)
    BY DEF Next, Step, Request, Read, List, Save, SpawnList, Insert, SilentGet, SilentSet, Remove,
           End, Release, Restart, vars, boardVars
  <2> QED BY <2>1, BoardAssumption DEF Marks
<1>4. excused' \subseteq {"crossed", "torn", "cut"}
  <2>1. excused' \subseteq excused \cup {"crossed", "torn", "cut"}
    BY SMTT(20), ZenonT(40) DEF Next, Step, Request, Read, List, Save, SpawnList, Insert, SilentGet, SilentSet, Remove,
           End, Release, Restart, vars, boardVars, Excuse
  <2> QED BY <2>1 DEF Marks
<1> QED BY <1>2, <1>3, <1>4 DEF Marks

(* Every variable keeps its type; who is past its first read runs in the   *)
(* lock of its task; a completed task no longer recurs.                    *)
THEOREM BoardTypeCorrect == Spec => []TypeOK
<1>1. BoardInv /\ Marks => TypeOK
  <2> SUFFICES ASSUME BoardInv, Marks PROVE TypeOK
    OBVIOUS
  <2>1. \A c \in Calls : op[c].pc \in PCs
    BY DEF BoardInv, BoardTypes, OpRecord
  <2>2. \A t \in Listed(Links) : docs[t].completed => ~docs[t].recurrence
    BY DEF BoardInv, History, Past, Listed, Links
  <2> QED BY <2>1, <2>2 DEF TypeOK, BoardInv, BoardTypes, InLock, Marks, PCs
<1> QED BY <1>1, BoardInvariance, MarksInit, MarksStep, PTL DEF Spec

LEMMA InvOneWriter == BoardInv /\ LockInv => OneWriter
<1> SUFFICES ASSUME BoardInv, LockInv, NEW c \in Calls, NEW d \in Calls,
                    Inside(c), Inside(d), op[c].task = op[d].task
             PROVE  c = d
  BY DEF OneWriter
<1>1. stage[c] = "running" /\ stage[d] = "running" /\ key[c] = key[d]
  BY DEF Inside, BoardInv, InLock
<1> QED BY <1>1, LockInvExcludes DEF MutualExclusion

(* tasks-core.js:11: of the requests for one task, never two are past      *)
(* their first read.                                                       *)
THEOREM BoardOneWriter == Spec => []OneWriter
BY BoardInvariance, InvOneWriter, PTL

-----------------------------------------------------------------------------
(* While nothing old was put back, the copy an operation will write whole  *)
(* holds every comment stored on its task; and what a request creates had  *)
(* no comments before.                                                     *)
Holding(c) ==
    op[c].pc \in {"list", "put", "get", "set"} /\ ~op[c].spawn /\ op[c].kind \notin {"create", "delete"}

Early(c) == op[c].pc \notin {"end", "refused", "over"}

Fresh == \A c \in Calls : Early(c) => docs[c] = None /\ \A s \in said : s[1] # c

Held ==
    "torn" \notin excused =>
        \A s \in said, c \in Calls :
            Holding(c) /\ op[c].task = s[1] /\ docs[s[1]] # None => s[2] \in op[c].cur.comments

CommentsInv == Fresh /\ CommentsStayUnderLock /\ Held

LEMMA CommentsInit == Init => CommentsInv
<1> SUFFICES ASSUME Init PROVE CommentsInv
  OBVIOUS
<1>1. said = {} /\ \A c \in Calls : docs[c] = None
  BY BoardAssumption DEF Init
<1> QED BY <1>1 DEF CommentsInv, Fresh, CommentsStayUnderLock, CommentsStay, Held

(* A step that says nothing, brings no task back, keeps the comments of    *)
(* every task (or is a torn write) and lets nobody take a new copy.        *)
LEMMA QuietComments ==
    ASSUME CommentsInv, said' = said, excused \subseteq excused', said \subseteq Keys \X Calls,
           \A k \in Keys : docs'[k] # None => docs[k] # None,
           "torn" \in excused' \/ \A k \in Keys : docs'[k] # None => docs[k].comments \subseteq docs'[k].comments,
           \A c \in Calls : Early(c)' => Early(c),
           \A c \in Calls : Holding(c)' => Holding(c) /\ op'[c].task = op[c].task /\ op'[c].cur = op[c].cur
    PROVE  CommentsInv'
<1>0. Calls \subseteq Keys /\ \A s \in said : s[1] \in Keys /\ s[2] \in Calls
  BY BoardAssumption
<1>1. Fresh'
  BY <1>0 DEF CommentsInv, Fresh
<1>2. CommentsStayUnderLock'
  BY <1>0 DEF CommentsInv, CommentsStayUnderLock, CommentsStay
<1>3. Held'
  BY <1>0 DEF CommentsInv, Held
<1> QED BY <1>1, <1>2, <1>3 DEF CommentsInv

(* One request moves on with the copy it has.                              *)
LEMMA OneQuiet ==
    ASSUME CommentsInv, BoardInv, said' = said, excused \subseteq excused',
           NEW c \in Calls, NEW s \in OpRecord, Put(c, s), Early(c),
           \A k \in Keys : docs'[k] # None => docs[k] # None,
           "torn" \in excused' \/ \A k \in Keys : docs'[k] # None => docs[k].comments \subseteq docs'[k].comments,
           \/ s.pc \in {"end", "refused", "over", "remove", "insert", "queued"}
           \/ s.spawn
           \/ s.kind \in {"create", "delete"}
           \/ Holding(c) /\ s.task = op[c].task /\ s.cur = op[c].cur
    PROVE  CommentsInv'
<1>1. op' = [op EXCEPT ![c] = s] /\ op \in [Calls -> OpRecord] /\ said \subseteq Keys \X Calls
  BY DEF Put, BoardInv, BoardTypes
<1>2. \A d \in Calls : Early(d)' => Early(d)
  BY <1>1 DEF Early
<1>3. \A d \in Calls : Holding(d)' => Holding(d) /\ op'[d].task = op[d].task /\ op'[d].cur = op[d].cur
  BY <1>1 DEF Holding
<1> QED BY <1>1, <1>2, <1>3, QuietComments

(* The steps of a request that take no copy of its task and store none.    *)
LEMMA QuietSteps ==
    ASSUME CommentsInv, BoardInv, NEW c \in Calls,
           Request(c) \/ List(c) \/ SpawnList(c) \/ SilentGet(c) \/ Release(c) \/ End(c)
    PROVE  CommentsInv'
<1>1. said' = said /\ excused' = excused /\ docs' = docs
  BY DEF Request, List, SpawnList, SilentGet, Release, End, boardVars
<1>2. op \in [Calls -> OpRecord] /\ said \subseteq Keys \X Calls /\ InHand(op[c])
  BY DEF BoardInv, BoardTypes
<1>3. \A d \in Calls : op'[d] # op[d] => d = c
  <2>1. CASE Release(c)
    BY <2>1 DEF Release, boardVars
  <2>2. CASE ~Release(c)
    <3>1. PICK s : op' = [op EXCEPT ![c] = s]
      BY <2>2 DEF Request, List, SpawnList, SilentGet, End, Put
    <3> QED BY <3>1, <1>2
  <2> QED BY <2>1, <2>2
<1>4. \/ op'[c] = op[c]
      \/ ~Early(c)' /\ ~Holding(c)'
      \/ Early(c) /\ ~Holding(c)'
      \/ Early(c) /\ Holding(c) /\ op'[c].task = op[c].task /\ op'[c].cur = op[c].cur
  <2>1. CASE Request(c)
    <3>1. PICK t, a :
              op' = [op EXCEPT ![c] = [Idle EXCEPT !.pc = IF mix[c] = "create" THEN "list" ELSE "queued",
                                          !.kind = mix[c], !.task = t, !.arg = a]]
      BY <2>1 DEF Request, Put
    <3>2. op'[c].kind = mix[c] /\ op'[c].pc = IF mix[c] = "create" THEN "list" ELSE "queued"
      BY <3>1, <1>2 DEF Idle
    <3>3. op[c].pc = "idle"
      BY <2>1 DEF Request
    <3> QED BY <3>2, <3>3 DEF Early, Holding
  <2>2. CASE List(c)
    <3> DEFINE To(pc, todo) == [op[c] EXCEPT !.pc = pc, !.links = Links, !.todo = todo, !.gone = todo]
    <3>1. PICK pc, todo : op' = [op EXCEPT ![c] = To(pc, todo)]
      <4> HIDE DEF To
      <4>1. \/ Put(c, To(IF ParentOk(Links, c, op[c].arg) THEN "insert" ELSE "refused", {}))
            \/ Put(c, To(IF Refused(op[c], Links) THEN "refused" ELSE "put", {}))
            \/ Put(c, To("put", {})) \/ Put(c, To("refused", {}))
            \/ Put(c, To("get", SiblingsOf(Links, op[c])))
            \/ Put(c, To("remove", DescendantsOf(Links, op[c].task) \cup {op[c].task}))
        BY <2>2 DEF List, To
      <4> QED BY <4>1 DEF Put
    <3>2. op'[c].kind = op[c].kind /\ op'[c].task = op[c].task /\ op'[c].cur = op[c].cur
          /\ op'[c].spawn = op[c].spawn
      BY <3>1, <1>2 DEF OpRecord
    <3>3. op[c].pc = "list" /\ ~op[c].spawn
      BY <2>2 DEF List
    <3> QED BY <3>2, <3>3 DEF Early, Holding
  <2>3. CASE SpawnList(c)
    <3>1. PICK pc \in {"insert", "refused"} :
              op' = [op EXCEPT ![c] = [op[c] EXCEPT !.pc = pc, !.links = Links]]
      BY <2>3 DEF SpawnList, Put
    <3>2. op'[c].pc = pc /\ op[c].pc = "list"
      BY <2>3, <3>1, <1>2 DEF OpRecord, SpawnList
    <3> QED BY <3>2 DEF Early, Holding
  <2>4. CASE SilentGet(c)
    <3>1. PICK t \in op[c].todo :
              op' = [op EXCEPT ![c] = [op[c] EXCEPT !.pc = "set", !.other = t, !.copy = docs[t]]]
      BY <2>4 DEF SilentGet, Put
    <3>2. op'[c].pc = "set" /\ op'[c].kind = op[c].kind /\ op'[c].task = op[c].task
          /\ op'[c].cur = op[c].cur /\ op'[c].spawn = op[c].spawn
      BY <3>1, <1>2 DEF OpRecord
    <3>3. op[c].pc = "get"
      BY <2>4 DEF SilentGet
    <3> QED BY <3>2, <3>3 DEF Early, Holding
  <2>5. CASE End(c)
    <3>1. op' = [op EXCEPT ![c] = Over] /\ Over.pc = "over"
      BY <2>5 DEF End, Put, Over, Idle
    <3> QED BY <3>1, <1>2 DEF Early, Holding
  <2>6. CASE Release(c)
    BY <2>6 DEF Release, boardVars
  <2> QED BY <2>1, <2>2, <2>3, <2>4, <2>5, <2>6
<1>5. \A d \in Calls : Early(d)' => Early(d)
  BY <1>3, <1>4 DEF Early
<1>6. \A d \in Calls : Holding(d)' => Holding(d) /\ op'[d].task = op[d].task /\ op'[d].cur = op[d].cur
  BY <1>3, <1>4 DEF Holding
<1> QED BY <1>1, <1>2, <1>5, <1>6, QuietComments

(* A write without the lock is torn, or puts the comments back as they are. *)
LEMMA SilentSetComments ==
    ASSUME CommentsInv, BoardInv, NEW c \in Calls, SilentSet(c) PROVE CommentsInv'
<1> DEFINE r == op[c]
           rest == r.todo \ {r.other}
           pc == IF rest # {} THEN "get" ELSE IF r.kind = "move" THEN "put" ELSE "end"
           s == [r EXCEPT !.todo = rest, !.other = None, !.copy = None, !.pc = pc]
<1>1. /\ r.pc = "set" /\ said' = said /\ excused \subseteq excused' /\ Put(c, s)
      /\ \/ docs' = docs
         \/ /\ docs' = [docs EXCEPT ![r.other] = SilentDoc(r)] /\ r.copy # None /\ docs[r.other] # None
            /\ "torn" \in excused' \/ docs[r.other] = r.copy
  BY DEF SilentSet, SilentDoc
<1>2. r \in OpRecord /\ InHand(r) /\ docs \in [Keys -> Doc \cup {None}]
  BY DEF BoardInv, BoardTypes
<1>3. r.kind \in {"move", "delete"} /\ r.other \in Keys
  BY <1>1, <1>2 DEF OpRecord, InHand
<1>4. r.copy # None => SilentDoc(r).comments = r.copy.comments
  BY <1>2 DEF SilentDoc, OpRecord, Doc
<1>5. \A k \in Keys : docs'[k] # None => docs[k] # None
  BY <1>1, <1>2, <1>3
<1>6. "torn" \in excused' \/ \A k \in Keys : docs'[k] # None => docs[k].comments \subseteq docs'[k].comments
  BY <1>1, <1>2, <1>3, <1>4
<1>7. /\ s \in OpRecord /\ s.spawn = r.spawn /\ s.kind = r.kind /\ s.task = r.task /\ s.cur = r.cur
      /\ s.pc \in {"get", "put", "end"}
  <2>1. rest \in SUBSET Keys /\ pc \in {"get", "put", "end"}
    BY <1>2 DEF OpRecord
  <2> HIDE DEF rest, pc
  <2> QED BY <1>2, <2>1, ZenonT(30) DEF OpRecord, PCs
<1> HIDE DEF s
<1>8. Early(c) /\ (Holding(c) \/ s.kind = "delete")
  BY <1>1, <1>2, <1>3, <1>7 DEF Early, Holding, InHand
<1> QED BY <1>1, <1>5, <1>6, <1>7, <1>8, OneQuiet

LEMMA RemoveComments ==
    ASSUME CommentsInv, BoardInv, NEW c \in Calls, Remove(c) PROVE CommentsInv'
<1> DEFINE r == op[c]
<1>1. PICK t, s :
          docs' = [docs EXCEPT ![t] = None] /\ op' = [op EXCEPT ![c] = s] /\ s.kind = r.kind
  <2>1. PICK t \in r.todo :
         LET l == [r.links EXCEPT ![t] = None]
             rest == r.todo \ {t}
             blocked == {d \in Listed(l) : l[d].blockedBy \cap r.gone # {}}
         IN  /\ docs' = [docs EXCEPT ![t] = None]
             /\ Put(c, [r EXCEPT !.links = l,
                    !.todo = IF rest = {} THEN blocked ELSE rest,
                    !.pc = IF rest # {} THEN "remove" ELSE IF blocked = {} THEN "end" ELSE "get"])
    BY DEF Remove
  <2> DEFINE l == [r.links EXCEPT ![t] = None]
             rest == r.todo \ {t}
             blocked == {d \in Listed(l) : l[d].blockedBy \cap r.gone # {}}
             s == [r EXCEPT !.links = l,
                    !.todo = IF rest = {} THEN blocked ELSE rest,
                    !.pc = IF rest # {} THEN "remove" ELSE IF blocked = {} THEN "end" ELSE "get"]
  <2>2. docs' = [docs EXCEPT ![t] = None] /\ op' = [op EXCEPT ![c] = s]
    BY <2>1 DEF Put
  <2> HIDE DEF l, rest, blocked
  <2>3. s.kind = r.kind
    BY DEF BoardInv, BoardTypes, OpRecord
  <2> HIDE DEF s
  <2> QED BY <2>2, <2>3
<1>2. /\ r.pc = "remove" /\ said' = said /\ excused \subseteq excused'
      /\ r.kind = "delete" /\ op \in [Calls -> OpRecord] /\ docs \in [Keys -> Doc \cup {None}]
      /\ said \subseteq Keys \X Calls
  BY DEF Remove, Excuse, BoardInv, BoardTypes, InHand
<1>3. \A k \in Keys : docs'[k] # None => docs[k] # None /\ docs[k].comments \subseteq docs'[k].comments
  BY <1>1, <1>2
<1>4. \A d \in Calls : Early(d)' => Early(d)
  BY <1>1, <1>2 DEF Early
<1>5. \A d \in Calls : Holding(d)' => Holding(d) /\ op'[d].task = op[d].task /\ op'[d].cur = op[d].cur
  BY <1>1, <1>2 DEF Holding
<1> QED BY <1>2, <1>3, <1>4, <1>5, QuietComments

(* The copy a request reads under the lock has every comment stored so far. *)
LEMMA ReadComments ==
    ASSUME CommentsInv, BoardInv, NEW c \in Calls, Read(c) PROVE CommentsInv'
<1> DEFINE s == [op[c] EXCEPT !.pc = AfterRead(op[c], docs[op[c].task]), !.cur = docs[op[c].task]]
<1>1. /\ op[c].pc = "queued" /\ op' = [op EXCEPT ![c] = s] /\ UNCHANGED <<docs, said, excused>>
      /\ op \in [Calls -> OpRecord]
  BY DEF Read, Put, BoardInv, BoardTypes
<1>2. s.task = op[c].task /\ s.cur = docs[op[c].task]
  BY <1>1 DEF OpRecord
<1> HIDE DEF s
<1>3. Fresh'
  BY <1>1 DEF CommentsInv, Fresh, Early
<1>4. CommentsStayUnderLock'
  BY <1>1 DEF CommentsInv, CommentsStayUnderLock, CommentsStay
<1>5. Held'
  BY <1>1, <1>2 DEF CommentsInv, Held, Holding, CommentsStayUnderLock, CommentsStay
<1> QED BY <1>3, <1>4, <1>5 DEF CommentsInv

(* What is stored has every comment of the copy, hence of the task, and    *)
(* nobody else who holds a copy is at this task.                           *)
LEMMA SaveComments ==
    ASSUME CommentsInv, BoardInv, OneWriter, NEW c \in Calls, Save(c) PROVE CommentsInv'
<1> DEFINE t == op[c].task
<1>1. PICK s : op' = [op EXCEPT ![c] = s] /\ (s.pc \in {"end", "refused"} \/ s.spawn)
  <2>1. Put(c, [op[c] EXCEPT !.pc = "list", !.spawn = TRUE]) \/ Goto(c, "end") \/ Goto(c, "refused")
    BY DEF Save
  <2>2. op[c] \in OpRecord
    BY DEF BoardInv, BoardTypes
  <2>3. /\ [op[c] EXCEPT !.pc = "list", !.spawn = TRUE].spawn
        /\ [op[c] EXCEPT !.pc = "end"].pc = "end" /\ [op[c] EXCEPT !.pc = "refused"].pc = "refused"
    BY <2>2 DEF OpRecord
  <2>4. \E x \in {[op[c] EXCEPT !.pc = "list", !.spawn = TRUE], [op[c] EXCEPT !.pc = "end"],
                  [op[c] EXCEPT !.pc = "refused"]} : op' = [op EXCEPT ![c] = x]
    BY <2>1 DEF Put, Goto
  <2> QED BY <2>3, <2>4
<1>2. /\ op[c].pc = "put" /\ op \in [Calls -> OpRecord] /\ InHand(op[c]) /\ said \subseteq Keys \X Calls
      /\ docs \in [Keys -> Doc \cup {None}]
  BY DEF Save, BoardInv, BoardTypes
<1>3. \A d \in Calls : Early(d)' => Early(d)
  BY <1>1, <1>2 DEF Early
<1>4. \A d \in Calls : Holding(d)' => d # c /\ op'[d] = op[d] /\ Holding(d)
  BY <1>1, <1>2 DEF Holding
<1>5. CASE UNCHANGED <<docs, said, excused>>
  BY <1>2, <1>3, <1>4, <1>5, QuietComments
<1>6. CASE /\ docs[t] # None /\ docs' = [docs EXCEPT ![t] = Written(c)]
           /\ said' \subseteq said \cup {<<t, c>>} /\ (op[c].kind # "comment" => said' = said)
           /\ excused \subseteq excused'
  <2>1. t \in Keys /\ Holding(c) /\ Inside(c)
    BY <1>2 DEF InHand, Asked, Holding, Inside, Active
  <2>2. /\ op[c].cur.comments \subseteq Written(c).comments
        /\ op[c].kind = "comment" => c \in Written(c).comments
    BY <1>2, WrittenDoc
  <2>3. \A d \in Calls : Holding(d)' => op[d].task # t
    BY <1>4, <2>1 DEF OneWriter, Inside, Active, Holding
  <2>4. Fresh'
    BY <1>2, <1>3, <1>6, <2>1, BoardAssumption DEF CommentsInv, Fresh
  <2>5. CommentsStayUnderLock'
    <3> SUFFICES ASSUME "torn" \notin excused', NEW x \in said', docs'[x[1]] # None
                 PROVE  x[2] \in docs'[x[1]].comments
      BY DEF CommentsStayUnderLock, CommentsStay
    <3>1. CASE x \in said /\ x[1] = t
      BY <1>2, <1>6, <2>1, <2>2, <3>1 DEF CommentsInv, Held
    <3>2. CASE x \in said /\ x[1] # t
      BY <1>2, <1>6, <2>1, <3>2 DEF CommentsInv, CommentsStayUnderLock, CommentsStay
    <3>3. CASE x \notin said
      BY <1>2, <1>6, <2>1, <2>2, <3>3
    <3> QED BY <3>1, <3>2, <3>3
  <2>6. Held'
    <3> SUFFICES ASSUME "torn" \notin excused', NEW x \in said', NEW d \in Calls,
                        Holding(d)', op'[d].task = x[1], docs'[x[1]] # None
                 PROVE  x[2] \in op'[d].cur.comments
      BY DEF Held
    <3>1. op'[d] = op[d] /\ Holding(d) /\ x[1] # t
      BY <1>4, <2>3
    <3>2. x \in said /\ docs[x[1]] # None
      BY <1>2, <1>6, <3>1
    <3> QED BY <1>6, <3>1, <3>2 DEF CommentsInv, Held
  <2> QED BY <2>4, <2>5, <2>6 DEF CommentsInv
<1> QED BY <1>5, <1>6 DEF Save, Excuse

(* A new task: nobody has said anything of it.                             *)
LEMMA InsertComments ==
    ASSUME CommentsInv, BoardInv, NEW c \in Calls, Insert(c) PROVE CommentsInv'
<1>1. PICK doc : docs' = [docs EXCEPT ![c] = doc]
  BY DEF Insert
<1>2. /\ op[c].pc = "insert" /\ op' = [op EXCEPT ![c] = [op[c] EXCEPT !.pc = "end"]]
      /\ said' = said /\ excused \subseteq excused'
      /\ op \in [Calls -> OpRecord] /\ docs \in [Keys -> Doc \cup {None}] /\ said \subseteq Keys \X Calls
  BY DEF Insert, Goto, Excuse, BoardInv, BoardTypes
<1>3. op'[c].pc = "end" /\ \A d \in Calls : d # c => op'[d] = op[d]
  BY <1>2 DEF OpRecord
<1>4. \A x \in said : x[1] # c
  BY <1>2 DEF CommentsInv, Fresh, Early
<1>5. Fresh'
  BY <1>1, <1>2, <1>3, BoardAssumption DEF CommentsInv, Fresh, Early
<1>6. CommentsStayUnderLock'
  BY <1>1, <1>2, <1>4 DEF CommentsInv, CommentsStayUnderLock, CommentsStay
<1>7. Held'
  BY <1>1, <1>2, <1>3, <1>4 DEF CommentsInv, Held, Holding
<1> QED BY <1>5, <1>6, <1>7 DEF CommentsInv

LEMMA RestartComments == ASSUME CommentsInv, BoardInv, Restart PROVE CommentsInv'
<1>1. /\ op' = [c \in Calls |-> IF Active(c) THEN Over ELSE op[c]] /\ UNCHANGED <<docs, said>>
      /\ excused \subseteq excused' /\ said \subseteq Keys \X Calls
  BY DEF Restart, Excuse, BoardInv, BoardTypes
<1>2. Over.pc = "over"
  BY DEF Over, Idle
<1>3. \A c \in Calls : Early(c)' => Early(c)
  BY <1>1, <1>2 DEF Early
<1>4. \A c \in Calls : Holding(c)' => Holding(c) /\ op'[c] = op[c]
  BY <1>1, <1>2 DEF Holding
<1> QED BY <1>1, <1>3, <1>4, QuietComments

LEMMA CommentsStep == CommentsInv /\ BoardInv /\ LockInv /\ [Next]_vars => CommentsInv'
<1> SUFFICES ASSUME CommentsInv, BoardInv, LockInv, [Next]_vars PROVE CommentsInv'
  OBVIOUS
<1>1. OneWriter
  BY InvOneWriter
<1>2. ASSUME NEW c \in Calls, Request(c) \/ Step(c) PROVE CommentsInv'
  BY <1>1, <1>2, QuietSteps, ReadComments, SaveComments, InsertComments, SilentSetComments, RemoveComments
     DEF Step
<1>3. CASE Restart
  BY <1>3, RestartComments
<1>4. CASE UNCHANGED vars
  BY <1>4 DEF vars, lockVars, boardVars, CommentsInv, Fresh, Early, CommentsStayUnderLock, CommentsStay,
              Held, Holding
<1> QED BY <1>2, <1>3, <1>4 DEF Next

(* tasks-core.js:11-13: a comment that was stored stays on its task for as *)
(* long as no write outside the task's lock put back an old copy.          *)
THEOREM BoardKeepsComments == Spec => []CommentsStayUnderLock
<1>1. CommentsInv => CommentsStayUnderLock
  BY DEF CommentsInv
<1> QED BY <1>1, CommentsInit, CommentsStep, BoardInvariance, PTL DEF Spec

-----------------------------------------------------------------------------
(* Walks up the tree.  An induction over their length is an argument about *)
(* the least step at which something fails.                                *)
LEMMA NatMin == ASSUME NEW T \in SUBSET Nat, T # {} PROVE \E x \in T : \A y \in T : x <= y
<1> DEFINE R == OpToRel(<, Nat)
<1>1. IsWellFoundedOn(R, Nat)
  BY NatLessThanWellFounded
<1>2. \A a, b \in Nat : a < b => <<a, b>> \in R
  BY DEF OpToRel
<1> HIDE DEF R
<1>3. PICK x \in T : \A y \in T : ~ (<<y, x>> \in R)
  BY <1>1, WFMin
<1>4. \A y \in T : ~ (y < x)
  BY <1>2, <1>3
<1> QED BY <1>4

Size == Cardinality(Keys)

LEMMA SizeNat == Size \in Nat
BY StartAssumption, FS_CardinalityType DEF Size

(* The walk is what its definition says: first the task, then the parent   *)
(* of the one before.                                                      *)
LEMMA UpDef ==
    ASSUME NEW l, NEW t
    PROVE  /\ Up(l, t) = [n \in 0..Size |-> IF n = 0 THEN t ELSE Parent(l, Up(l, t)[n - 1])]
           /\ Up(l, t)[0] = t
           /\ \A n \in 1..Size : Up(l, t)[n] = Parent(l, Up(l, t)[n - 1])
<1> DEFINE Walk(f, m) == f = [n \in 0..m |-> IF n = 0 THEN t ELSE Parent(l, f[n - 1])]
           Bad == {m \in Nat : \A f : ~Walk(f, m)}
<1>1. Bad = {}
  <2> SUFFICES ASSUME Bad # {} PROVE FALSE
    OBVIOUS
  <2>1. PICK m \in Bad : \A k \in Bad : m <= k
    <3> Bad \in SUBSET Nat
      OBVIOUS
    <3> HIDE DEF Bad
    <3> QED BY NatMin
  <2>2. m # 0
    <3>1. Walk([n \in 0..0 |-> t], 0)
      OBVIOUS
    <3> QED BY <3>1
  <2>3. m - 1 \in Nat /\ m - 1 \notin Bad
    <3>1. m \in Nat
      BY <2>1
    <3> HIDE DEF Bad
    <3> QED BY <3>1, <2>1, <2>2
  <2>4. PICK f : Walk(f, m - 1)
    BY <2>3
  <2> DEFINE g == [n \in 0..m |-> IF n = m THEN Parent(l, f[m - 1]) ELSE f[n]]
  <2>5. \A n \in 0..(m - 1) : f[n] = IF n = 0 THEN t ELSE Parent(l, f[n - 1])
    BY <2>4
  <2>6. \A n \in 0..m : g[n] = IF n = 0 THEN t ELSE Parent(l, g[n - 1])
    BY <2>2, <2>3, <2>5
  <2>7. Walk(g, m)
    BY <2>6
  <2> QED BY <2>1, <2>7
<1>2. \E f : Walk(f, Size)
  <2> HIDE DEF Walk
  <2> QED BY <1>1, SizeNat, Zenon
<1>3. Up(l, t) = CHOOSE f : Walk(f, Size)
  BY DEF Up, Size
<1>4. Walk(Up(l, t), Size)
  BY <1>2, <1>3
<1> QED BY <1>4, SizeNat

Tasks == Keys \cup {None}
Table(l) == \A k \in Keys : l[k] # None => l[k].parent \in Tasks

LEMMA ParentType == ASSUME NEW l, Table(l), NEW t \in Tasks PROVE Parent(l, t) \in Tasks
BY DEF Parent, Table, Tasks

LEMMA UpType ==
    ASSUME NEW l, Table(l), NEW t \in Tasks
    PROVE  \A n \in 0..Size : Up(l, t)[n] \in Tasks
<1> DEFINE Bad == {n \in 0..Size : Up(l, t)[n] \notin Tasks}
<1> SUFFICES ASSUME Bad # {} PROVE FALSE
  OBVIOUS
<1>1. PICK m \in Bad : \A k \in Bad : m <= k
  <2> Bad \in SUBSET Nat
    BY SizeNat
  <2> HIDE DEF Bad
  <2> QED BY NatMin
<1>2. m \in 1..Size
  BY <1>1, UpDef, SizeNat
<1>3. m - 1 \in 0..Size /\ m - 1 \notin Bad
  <2> HIDE DEF Bad
  <2> QED BY <1>1, <1>2, SizeNat
<1>4. Up(l, t)[m] = Parent(l, Up(l, t)[m - 1])
  BY <1>2, UpDef
<1> QED BY <1>1, <1>3, <1>4, ParentType

(* Past the top there is nothing.                                          *)
LEMMA UpNone ==
    ASSUME NEW l, NEW t, NEW a \in 0..Size, Up(l, t)[a] = None
    PROVE  \A n \in a..Size : Up(l, t)[n] = None
<1> DEFINE Bad == {n \in a..Size : Up(l, t)[n] # None}
<1> SUFFICES ASSUME Bad # {} PROVE FALSE
  OBVIOUS
<1>1. PICK m \in Bad : \A k \in Bad : m <= k
  <2> Bad \in SUBSET Nat
    BY SizeNat
  <2> HIDE DEF Bad
  <2> QED BY NatMin
<1>2. m \in 1..Size /\ m - 1 \in a..Size
  BY <1>1, SizeNat
<1>3. m - 1 \notin Bad
  <2> HIDE DEF Bad
  <2> QED BY <1>1, <1>2, SizeNat
<1>4. Up(l, t)[m] = Parent(l, None)
  BY <1>2, <1>3, UpDef
<1> QED BY <1>1, <1>4 DEF Parent

(* A walk goes on from where it is as a walk from there.                   *)
LEMMA UpShift ==
    ASSUME NEW l, NEW t, NEW a \in 0..Size
    PROVE  \A b \in 0..(Size - a) : Up(l, t)[a + b] = Up(l, Up(l, t)[a])[b]
<1> DEFINE x == Up(l, t)[a]
           Bad == {b \in 0..(Size - a) : Up(l, t)[a + b] # Up(l, x)[b]}
<1> SUFFICES ASSUME Bad # {} PROVE FALSE
  OBVIOUS
<1>1. PICK m \in Bad : \A k \in Bad : m <= k
  <2> Bad \in SUBSET Nat
    BY SizeNat
  <2> HIDE DEF Bad
  <2> QED BY NatMin
<1>2. m # 0
  <2>1. Up(l, x)[0] = x
    BY UpDef
  <2>2. a + 0 = a
    BY SizeNat
  <2> QED BY <1>1, <2>1, <2>2
<1>3. m \in 1..Size /\ m - 1 \in 0..(Size - a) /\ a + m \in 1..Size /\ (a + m) - 1 = a + (m - 1)
  BY <1>1, <1>2, SizeNat
<1>4. m - 1 \notin Bad
  <2> HIDE DEF Bad
  <2> QED BY <1>1, <1>3, SizeNat
<1>5. Up(l, t)[a + m] = Parent(l, Up(l, t)[a + (m - 1)])
  BY <1>3, UpDef
<1>6. Up(l, x)[m] = Parent(l, Up(l, x)[m - 1])
  BY <1>3, UpDef
<1>7. Up(l, t)[a + (m - 1)] = Up(l, x)[m - 1]
  BY <1>3, <1>4
<1> QED BY <1>1, <1>5, <1>6, <1>7

(* Two tables that agree on what a walk passes give the same walk.         *)
LEMMA UpAgree ==
    ASSUME NEW l, NEW m, NEW t, NEW a \in 0..Size,
           \A i \in 0..(a - 1) : Parent(m, Up(l, t)[i]) = Parent(l, Up(l, t)[i])
    PROVE  \A i \in 0..a : Up(m, t)[i] = Up(l, t)[i]
<1> DEFINE Bad == {i \in 0..a : Up(m, t)[i] # Up(l, t)[i]}
<1> SUFFICES ASSUME Bad # {} PROVE FALSE
  OBVIOUS
<1>1. PICK x \in Bad : \A k \in Bad : x <= k
  <2> Bad \in SUBSET Nat
    BY SizeNat
  <2> HIDE DEF Bad
  <2> QED BY NatMin
<1>2. x # 0
  BY <1>1, UpDef
<1>3. x \in 1..Size /\ x - 1 \in 0..(a - 1) /\ x - 1 \in 0..a
  BY <1>1, <1>2, SizeNat
<1>4. x - 1 \notin Bad
  <2> HIDE DEF Bad
  <2> QED BY <1>1, <1>3, SizeNat
<1>5. Up(m, t)[x] = Parent(m, Up(m, t)[x - 1]) /\ Up(l, t)[x] = Parent(l, Up(l, t)[x - 1])
  BY <1>3, UpDef
<1> QED BY <1>1, <1>3, <1>4, <1>5

LEMMA UpShrinks ==
    ASSUME NEW l, Table(l), NEW m, NEW t \in Tasks,
           \A k \in Keys : Parent(m, k) \in {Parent(l, k), None}
    PROVE  \A n \in 0..Size : Up(m, t)[n] \in {Up(l, t)[n], None}
<1> DEFINE Bad == {n \in 0..Size : Up(m, t)[n] \notin {Up(l, t)[n], None}}
<1> SUFFICES ASSUME Bad # {} PROVE FALSE
  OBVIOUS
<1>1. PICK x \in Bad : \A k \in Bad : x <= k
  <2> Bad \in SUBSET Nat
    BY SizeNat
  <2> HIDE DEF Bad
  <2> QED BY NatMin
<1>2. x # 0
  BY <1>1, UpDef
<1>3. x \in 1..Size /\ x - 1 \in 0..Size
  BY <1>1, <1>2, SizeNat
<1>4. x - 1 \notin Bad
  <2> HIDE DEF Bad
  <2> QED BY <1>1, <1>3, SizeNat
<1>5. Up(m, t)[x] = Parent(m, Up(m, t)[x - 1]) /\ Up(l, t)[x] = Parent(l, Up(l, t)[x - 1])
  BY <1>3, UpDef
<1>6. Up(l, t)[x - 1] \in Tasks
  BY <1>3, UpType
<1>7. Parent(m, None) = None
  BY DEF Parent
<1> QED BY <1>1, <1>3, <1>4, <1>5, <1>6, <1>7 DEF Tasks

LEMMA LineageType ==
    ASSUME NEW l, Table(l), NEW t \in Tasks
    PROVE  /\ Lineage(l, t) \in SUBSET Keys /\ IsFiniteSet(Lineage(l, t))
           /\ Cardinality(Lineage(l, t)) \in Nat
           /\ \A x : x \in Lineage(l, t) <=> x # None /\ \E n \in 1..Size : x = Up(l, t)[n]
<1>1. Lineage(l, t) = {Up(l, t)[n] : n \in 1..Size} \ {None}
  BY DEF Lineage, Size
<1>2. Lineage(l, t) \in SUBSET Keys
  BY <1>1, UpType, SizeNat DEF Tasks
<1>3. IsFiniteSet(Lineage(l, t))
  BY <1>2, StartAssumption, FS_Subset
<1> QED BY <1>1, <1>2, <1>3, FS_CardinalityType

(* Where no task is above itself, every walk reaches the top: it has fewer *)
(* steps than there are tasks.                                             *)
LEMMA Rootless ==
    ASSUME NEW l, Table(l), TreeOk(l), NEW t \in Tasks
    PROVE  Up(l, t)[Size] = None
<1> SUFFICES ASSUME Up(l, t)[Size] # None PROVE FALSE
  OBVIOUS
<1>1. \A i \in 0..Size : Up(l, t)[i] \in Keys
  <2> SUFFICES ASSUME NEW i \in 0..Size, Up(l, t)[i] \notin Keys PROVE FALSE
    OBVIOUS
  <2>1. Up(l, t)[i] = None
    BY UpType DEF Tasks
  <2> QED BY <2>1, UpNone, SizeNat
<1> DEFINE f == [i \in 0..Size |-> Up(l, t)[i]]
<1>2. f \in [0..Size -> Keys]
  BY <1>1
<1>3. IsFiniteSet(0..Size) /\ Cardinality(0..Size) = Size + 1
  <2>1. IsFiniteSet(0..Size) /\ Cardinality(0..Size) = (IF 0 > Size THEN 0 ELSE Size - 0 + 1)
    BY FS_Interval, SizeNat
  <2> QED BY <2>1, SizeNat
<1>4. Cardinality(Keys) < Cardinality(0..Size)
  BY <1>3, SizeNat DEF Size
<1>5. \E i, j \in 0..Size : i # j /\ f[i] = f[j]
  <2> HIDE DEF f
  <2> QED BY <1>2, <1>3, <1>4, StartAssumption, FS_PigeonHole
<1>6. PICK i \in 0..Size, j \in 0..Size : i < j /\ Up(l, t)[i] = Up(l, t)[j]
  <2>1. PICK i \in 0..Size, j \in 0..Size : i # j /\ Up(l, t)[i] = Up(l, t)[j]
    BY <1>5
  <2>2. i < j \/ j < i
    BY <2>1, SizeNat
  <2> QED BY <2>1, <2>2
<1> DEFINE x == Up(l, t)[i]
<1>7. j - i \in 1..Size /\ j - i \in 0..(Size - i) /\ i + (j - i) = j /\ i + 1 \in 1..Size /\ (i + 1) - 1 = i
  BY <1>6, SizeNat
<1>8. Up(l, x)[j - i] = x
  BY <1>6, <1>7, UpShift
<1>9. x \in Keys /\ l[x] # None
  <2>1. Up(l, t)[i + 1] = Parent(l, x) /\ Up(l, t)[i + 1] # None
    <3>1. Up(l, t)[i + 1] = Parent(l, Up(l, t)[i + 1 - 1])
      BY <1>7, UpDef
    <3>2. i + 1 \in 0..Size
      BY <1>7, SizeNat
    <3> QED BY <3>1, <3>2, <1>7, <1>1, LockAssumption
  <2> QED BY <2>1, <1>1 DEF Parent
<1>10. x \in Lineage(l, x)
  <2>1. x \in Tasks /\ x # None
    BY <1>9, LockAssumption DEF Tasks
  <2> HIDE DEF x
  <2> QED BY <2>1, <1>7, <1>8, LineageType
<1> QED BY <1>9, <1>10 DEF TreeOk, Listed

(* Taking tasks out of their trees, or away, or adding a task on top,      *)
(* breaks no tree.                                                         *)
LEMMA TreeShrinks ==
    ASSUME NEW l, Table(l), TreeOk(l), NEW m, Table(m),
           \A k \in Keys : Parent(m, k) \in {Parent(l, k), None},
           \A k \in Listed(m) : k \in Listed(l) \/ Parent(m, k) = None
    PROVE  TreeOk(m)
<1> SUFFICES ASSUME NEW t \in Listed(m)
             PROVE  t \notin Lineage(m, t) /\ Cardinality(Lineage(m, t)) < MAX_DEPTH
  BY DEF TreeOk
<1>1. t \in Tasks /\ t \in Keys
  BY DEF Listed, Tasks
<1>2. CASE t \in Listed(l)
  <2>1. Lineage(m, t) \subseteq Lineage(l, t)
    <3> SUFFICES ASSUME NEW x \in Lineage(m, t) PROVE x \in Lineage(l, t)
      OBVIOUS
    <3>1. PICK n \in 1..Size : x # None /\ x = Up(m, t)[n]
      BY <1>1, LineageType
    <3>2. x = Up(l, t)[n]
      BY <1>1, <3>1, UpShrinks, SizeNat
    <3> QED BY <3>1, <3>2, <1>1, LineageType
  <2>2. Cardinality(Lineage(m, t)) <= Cardinality(Lineage(l, t))
    BY <2>1, <1>1, LineageType, FS_Subset
  <2>3. t \notin Lineage(l, t) /\ Cardinality(Lineage(l, t)) < MAX_DEPTH
    BY <1>2 DEF TreeOk
  <2>4. Cardinality(Lineage(m, t)) \in Nat /\ Cardinality(Lineage(l, t)) \in Nat
    BY <1>1, LineageType
  <2> QED BY <2>1, <2>2, <2>3, <2>4, BoardAssumption
<1>3. CASE Parent(m, t) = None
  <2>1. Lineage(m, t) = {}
    <3> SUFFICES ASSUME NEW x \in Lineage(m, t) PROVE FALSE
      OBVIOUS
    <3>1. PICK n \in 1..Size : x # None /\ x = Up(m, t)[n]
      BY <1>1, LineageType
    <3>2. Up(m, t)[1] = None
      <4>1. 1 \in 1..Size /\ 1 - 1 = 0
        BY <3>1, SizeNat
      <4>2. Up(m, t)[1] = Parent(m, Up(m, t)[0])
        BY <4>1, UpDef
      <4> QED BY <4>2, <1>3, UpDef
    <3>3. Up(m, t)[n] = None
      <4>1. 1 \in 0..Size /\ n \in 1..Size
        BY <3>1, SizeNat
      <4> QED BY <4>1, <3>2, UpNone
    <3> QED BY <3>1, <3>3
  <2>2. Cardinality({}) = 0
    BY FS_EmptySet
  <2> QED BY <2>1, <2>2, BoardAssumption
<1> QED BY <1>2, <1>3

(* Two tables with the same tree have the same ancestors.                  *)
LEMMA SameTree ==
    ASSUME NEW l, Table(l), NEW m, Table(m), Tree(l) = Tree(m)
    PROVE  /\ Listed(l) = Listed(m)
           /\ \A k \in Tasks : Parent(m, k) = Parent(l, k)
           /\ \A t \in Tasks : Lineage(m, t) = Lineage(l, t)
           /\ TreeOk(l) <=> TreeOk(m)
           /\ \A t \in Tasks, p \in Tasks : ParentOk(l, t, p) <=> ParentOk(m, t, p)
<1>1. Listed(l) = Listed(m)
  <2>1. Listed(l) = DOMAIN Tree(l) /\ Listed(m) = DOMAIN Tree(m)
    BY DEF Tree
  <2> QED BY <2>1
<1>2. \A k \in Listed(l) : m[k].parent = l[k].parent
  <2> SUFFICES ASSUME NEW k \in Listed(l) PROVE m[k].parent = l[k].parent
    OBVIOUS
  <2>1. Tree(l)[k] = l[k].parent /\ Tree(m)[k] = m[k].parent
    BY <1>1 DEF Tree
  <2> QED BY <2>1
<1>3. \A k \in Tasks : Parent(m, k) = Parent(l, k)
  BY <1>1, <1>2 DEF Parent, Listed, Tasks
<1>4. ASSUME NEW t \in Tasks PROVE Lineage(m, t) = Lineage(l, t)
  <2>1. \A i \in 0..Size : Up(l, t)[i] \in Tasks
    BY UpType
  <2>2. \A i \in 0..(Size - 1) : Parent(m, Up(l, t)[i]) = Parent(l, Up(l, t)[i])
    BY <2>1, <1>3, SizeNat
  <2>3. \A i \in 0..Size : Up(m, t)[i] = Up(l, t)[i]
    BY <2>2, UpAgree, SizeNat
  <2>4. \A x : x \in Lineage(m, t) <=> x \in Lineage(l, t)
    BY <2>3, LineageType, SizeNat
  <2> QED BY <2>4
<1>5. Keys \subseteq Tasks
  BY DEF Tasks
<1>6. TreeOk(l) <=> TreeOk(m)
  BY <1>1, <1>4, <1>5 DEF TreeOk, Listed
<1>7. ASSUME NEW t \in Tasks, NEW p \in Tasks PROVE ParentOk(l, t, p) <=> ParentOk(m, t, p)
  <2>1. DescendantsOf(l, t) = DescendantsOf(m, t)
    BY <1>1, <1>4, <1>5 DEF DescendantsOf, Listed
  <2>2. \A d \in DescendantsOf(l, t) \cup {t} : Lineage(m, d) = Lineage(l, d)
    BY <1>4, <1>5 DEF DescendantsOf, Listed
  <2> QED BY <2>1, <2>2, <1>1, <1>4 DEF ParentOk
<1> QED BY <1>1, <1>3, <1>4, <1>6, <1>7

(* Hanging t under p, when assertParentOk allows it, breaks no tree: the   *)
(* ancestors of a task below t are those up to t, p and the ancestors of p. *)
LEMMA TreeReparent ==
    ASSUME NEW l, Table(l), TreeOk(l), NEW m, Table(m), NEW t \in Keys, NEW p \in Keys,
           ParentOk(l, t, p), Parent(m, t) = p,
           \A k \in Keys \ {t} : Parent(m, k) = Parent(l, k),
           Listed(m) \subseteq Listed(l) \cup {t}
    PROVE  TreeOk(m)
<1> DEFINE below == DescendantsOf(l, t) \cup {t}
           above == Lineage(l, p) \cup {p}
<1>1. /\ p # None /\ t # None /\ p \in Tasks /\ t \in Tasks
      /\ p # t /\ t \notin above /\ t \notin Lineage(l, t)
      /\ \A d \in below : Cardinality(above) + 1 + Cardinality(Lineage(l, d) \cap below) <= MAX_DEPTH
  BY LockAssumption DEF ParentOk, Tasks
<1>2. \A i \in 0..Size : Up(l, p)[i] \in above \cup {None} /\ Up(l, p)[i] # t
  <2> TAKE i \in 0..Size
  <2>1. CASE i = 0
    BY <2>1, <1>1, UpDef
  <2>2. CASE i \in 1..Size
    BY <2>2, <1>1, LineageType
  <2> QED BY <2>1, <2>2, SizeNat
<1>3. \A i \in 0..Size : Up(m, p)[i] = Up(l, p)[i]
  <2>1. \A i \in 0..(Size - 1) : Parent(m, Up(l, p)[i]) = Parent(l, Up(l, p)[i])
    <3> TAKE i \in 0..(Size - 1)
    <3>1. i \in 0..Size
      BY SizeNat
    <3>2. Up(l, p)[i] \in Tasks \ {t}
      BY <3>1, <1>1, <1>2, UpType
    <3>3. Parent(m, None) = Parent(l, None)
      BY DEF Parent
    <3> QED BY <3>2, <3>3 DEF Tasks
  <2> QED BY <2>1, UpAgree, SizeNat
<1> SUFFICES ASSUME NEW d \in Listed(m)
             PROVE  d \notin Lineage(m, d) /\ Cardinality(Lineage(m, d)) < MAX_DEPTH
  BY DEF TreeOk
<1>4. d \in Keys /\ d \in Tasks /\ d # None
  BY LockAssumption DEF Listed, Tasks
<1>5. ASSUME NEW a \in 0..Size, \A i \in 0..(a - 1) : Up(l, d)[i] # t
      PROVE  \A i \in 0..a : Up(m, d)[i] = Up(l, d)[i]
  <2>1. \A i \in 0..(a - 1) : Parent(m, Up(l, d)[i]) = Parent(l, Up(l, d)[i])
    <3> TAKE i \in 0..(a - 1)
    <3>1. i \in 0..Size
      BY SizeNat
    <3>2. Up(l, d)[i] \in Tasks \ {t}
      BY <3>1, <1>5, <1>4, UpType
    <3>3. Parent(m, None) = Parent(l, None)
      BY DEF Parent
    <3> QED BY <3>2, <3>3 DEF Tasks
  <2> QED BY <2>1, UpAgree
<1>6. CASE \A i \in 0..Size : Up(l, d)[i] # t
  <2>1. Size \in 0..Size /\ \A i \in 0..(Size - 1) : Up(l, d)[i] # t
    BY <1>6, SizeNat
  <2>2. \A i \in 0..Size : Up(m, d)[i] = Up(l, d)[i]
    BY <2>1, <1>5
  <2>3. \A x : x \in Lineage(m, d) <=> x \in Lineage(l, d)
    BY <2>2, <1>4, LineageType, SizeNat
  <2>4. Lineage(m, d) = Lineage(l, d)
    BY <2>3
  <2>5. d # t
    BY <1>6, UpDef, SizeNat
  <2>6. d \in Listed(l)
    BY <2>5
  <2> QED BY <2>4, <2>6 DEF TreeOk
<1>7. CASE \E i \in 0..Size : Up(l, d)[i] = t
  <2>1. PICK a \in 0..Size : Up(l, d)[a] = t /\ \A i \in 0..(a - 1) : Up(l, d)[i] # t
    <3> DEFINE Hits == {i \in 0..Size : Up(l, d)[i] = t}
    <3>1. Hits \in SUBSET Nat /\ Hits # {}
      BY <1>7, SizeNat
    <3>2. PICK a \in Hits : \A k \in Hits : a <= k
      <4> HIDE DEF Hits
      <4> QED BY <3>1, NatMin
    <3>3. \A i \in 0..(a - 1) : i \in 0..Size /\ i \notin Hits
      <4>1. a \in 0..Size
        BY <3>2
      <4> HIDE DEF Hits
      <4> QED BY <4>1, <3>2, SizeNat
    <3> QED BY <3>2, <3>3
  <2>2. \A i \in 0..a : Up(m, d)[i] = Up(l, d)[i]
    BY <2>1, <1>5
  <2>3. \A i \in 0..a : Up(l, d)[i] # None
    <3> SUFFICES ASSUME NEW i \in 0..a, Up(l, d)[i] = None PROVE FALSE
      OBVIOUS
    <3>1. i \in 0..Size /\ a \in i..Size
      BY SizeNat
    <3> QED BY <3>1, <2>1, <1>1, UpNone
  <2>4. \A i \in 0..a : Up(l, d)[i] \in Keys
    <3> TAKE i \in 0..a
    <3>1. i \in 0..Size
      BY SizeNat
    <3> QED BY <3>1, <2>3, <1>4, UpType DEF Tasks
  <2>5. \A i \in 1..a : Up(l, d)[i] \in Lineage(l, d) \cap below
    <3> TAKE i \in 1..a
    <3>1. i \in 1..Size /\ i \in 0..a /\ i \in 0..Size
      BY SizeNat
    <3>2. Up(l, d)[i] \in Lineage(l, d)
      BY <3>1, <2>3, <1>4, LineageType
    <3>3. CASE i = a
      BY <3>2, <3>3, <2>1
    <3>4. CASE i # a
      <4> DEFINE x == Up(l, d)[i]
      <4>1. a - i \in 1..Size /\ a - i \in 0..(Size - i) /\ i + (a - i) = a /\ i + 1 \in 1..Size
            /\ i + 1 \in 0..a /\ (i + 1) - 1 = i
        BY <3>1, <3>4, SizeNat
      <4>2. Up(l, x)[a - i] = t
        BY <3>1, <4>1, <2>1, UpShift
      <4>3. Parent(l, x) = Up(l, d)[i + 1]
        BY <4>1, UpDef
      <4>4. l[x] # None /\ x \in Keys /\ x \in Tasks
        BY <4>1, <4>3, <2>3, <2>4, <3>1 DEF Parent, Tasks
      <4> HIDE DEF x
      <4>5. t \in Lineage(l, x)
        BY <4>1, <4>2, <4>4, <1>1, LineageType
      <4>6. x \in below
        BY <4>4, <4>5 DEF DescendantsOf, Listed
      <4> QED BY <4>6, <3>2 DEF x
    <3> QED BY <3>3, <3>4
  <2>6. \A i \in (a + 1)..Size : Up(m, d)[i] \in above \cup {None}
    <3> TAKE i \in (a + 1)..Size
    <3>1. /\ a \in 0..Size /\ i - a \in 0..(Size - a) /\ a + (i - a) = i /\ 1 \in 0..Size /\ 1 \in 1..Size
          /\ i - a - 1 \in 0..(Size - 1) /\ 1 + (i - a - 1) = i - a /\ i - a - 1 \in 0..Size /\ a \in 0..a
          /\ 1 - 1 = 0
      BY SizeNat
    <3>2. Up(m, d)[a] = t
      BY <2>1, <2>2, <3>1
    <3>3. Up(m, d)[i] = Up(m, t)[i - a]
      BY <3>1, <3>2, UpShift
    <3>4. Up(m, t)[1] = p
      BY <3>1, UpDef
    <3>5. Up(m, t)[i - a] = Up(m, p)[i - a - 1]
      BY <3>1, <3>4, UpShift
    <3> QED BY <3>1, <3>3, <3>5, <1>2, <1>3
  <2>7. Lineage(m, d) \subseteq above \cup (Lineage(l, d) \cap below)
    <3> SUFFICES ASSUME NEW x \in Lineage(m, d) PROVE x \in above \cup (Lineage(l, d) \cap below)
      OBVIOUS
    <3>1. PICK n \in 1..Size : x # None /\ x = Up(m, d)[n]
      BY <1>4, LineageType
    <3> HIDE DEF above, below
    <3>2. CASE n \in 1..a
      <4>1. n \in 0..a
        BY <3>2
      <4> QED BY <3>1, <3>2, <4>1, <2>2, <2>5
    <3>3. CASE n \in (a + 1)..Size
      BY <3>1, <3>3, <2>6
    <3> QED BY <3>2, <3>3, SizeNat
  <2>8. d \in below
    <3>1. CASE a = 0
      BY <3>1, <2>1, UpDef
    <3>2. CASE a # 0 /\ d # t
      <4>1. a \in 1..Size
        BY <3>2, SizeNat
      <4>2. t \in Lineage(l, d)
        BY <4>1, <2>1, <1>1, <1>4, LineageType
      <4>3. d \in Listed(l)
        BY <3>2
      <4> QED BY <4>2, <4>3 DEF DescendantsOf
    <3> QED BY <3>1, <3>2
  <2>9. Cardinality(Lineage(m, d)) < MAX_DEPTH
    <3> DEFINE A == above
               B == Lineage(l, d) \cap below
    <3>1. IsFiniteSet(A) /\ IsFiniteSet(B)
      <4>1. A \in SUBSET Keys /\ B \in SUBSET Keys
        BY <1>1, <1>4, LineageType
      <4> QED BY <4>1, StartAssumption, FS_Subset
    <3>2. Cardinality(A) + 1 + Cardinality(B) <= MAX_DEPTH
      BY <1>1, <2>8
    <3>3. Lineage(m, d) \subseteq A \cup B
      BY <2>7
    <3> HIDE DEF A, B
    <3>4. /\ IsFiniteSet(A \cup B)
          /\ Cardinality(A \cup B) = Cardinality(A) + Cardinality(B) - Cardinality(A \cap B)
          /\ Cardinality(A) \in Nat /\ Cardinality(B) \in Nat
      BY <3>1, FS_Union, FS_CardinalityType
    <3>5. Cardinality(A \cap B) \in Nat
      <4>1. A \cap B \subseteq A
        OBVIOUS
      <4>2. IsFiniteSet(A \cap B)
        BY <3>1, <4>1, FS_Subset
      <4> QED BY <4>2, FS_CardinalityType
    <3>6. Cardinality(Lineage(m, d)) <= Cardinality(A \cup B) /\ Cardinality(Lineage(m, d)) \in Nat
      BY <3>3, <3>4, <1>4, LineageType, FS_Subset
    <3>7. Cardinality(Lineage(m, d)) <= Cardinality(A) + Cardinality(B)
      BY <3>4, <3>5, <3>6
    <3> QED BY <3>2, <3>4, <3>6, <3>7, BoardAssumption
  <2>10. d \notin Lineage(l, d)
    <3>1. CASE d = t
      BY <3>1, <1>1
    <3>2. CASE d # t
      BY <3>2 DEF TreeOk
    <3> QED BY <3>1, <3>2
  <2>11. d \notin above
    <3> SUFFICES ASSUME d \in above PROVE FALSE
      OBVIOUS
    <3>1. PICK j \in 0..Size : d = Up(l, p)[j]
      <4>1. CASE d = p
        BY <4>1, UpDef, SizeNat
      <4>2. CASE d \in Lineage(l, p)
        <5>1. PICK j \in 1..Size : d = Up(l, p)[j]
          BY <4>2, <1>1, LineageType
        <5> QED BY <5>1, SizeNat
      <4> QED BY <4>1, <4>2
    <3>2. d # t
      BY <1>1
    <3>3. a # 0
      BY <3>2, <2>1, UpDef
    <3>4. CASE j + a <= Size
      <4>1. a \in 0..(Size - j) /\ j + a \in 1..Size
        BY <3>3, <3>4, SizeNat
      <4>2. Up(l, p)[j + a] = t
        BY <3>1, <4>1, <2>1, UpShift
      <4> QED BY <4>1, <4>2, <1>2, SizeNat
    <3>5. CASE j + a > Size
      <4>1. Size - j \in 0..(Size - j) /\ j + (Size - j) = Size /\ Size - j \in 0..a
        BY <3>5, SizeNat
      <4>2. Up(l, p)[Size] = Up(l, d)[Size - j]
        BY <3>1, <4>1, UpShift
      <4>3. Up(l, d)[Size - j] # None
        BY <4>1, <2>3
      <4> QED BY <4>2, <4>3, <1>1, Rootless
    <3> QED BY <3>4, <3>5, SizeNat
  <2> QED BY <2>5, <2>7, <2>9, <2>10, <2>11
<1> QED BY <1>6, <1>7

(* What deleteTask takes from its list is closed downwards.                *)
LEMMA LineageBelow ==
    ASSUME NEW l, Table(l), TreeOk(l), NEW t \in Keys, NEW k \in Listed(l),
           l[k].parent \in DescendantsOf(l, t) \cup {t}
    PROVE  k \in DescendantsOf(l, t)
<1> DEFINE x == l[k].parent
<1>1. k \in Keys /\ k \in Tasks /\ x \in Keys /\ x \in Tasks /\ k # None /\ t # None
  BY LockAssumption DEF Listed, Tasks, DescendantsOf
<1>2. Size # 0
  BY <1>1, StartAssumption, FS_EmptySet DEF Size
<1>3. 1 \in 1..Size /\ 1 \in 0..Size /\ 1 - 1 = 0
  BY <1>2, SizeNat
<1>4. Up(l, k)[1] = x
  <2>1. Up(l, k)[1] = Parent(l, k)
    BY <1>3, UpDef
  <2> QED BY <2>1, <1>1 DEF Parent, Listed
<1>5. t \in Lineage(l, k)
  <2>1. CASE x = t
    BY <2>1, <1>1, <1>3, <1>4, LineageType
  <2>2. CASE x \in DescendantsOf(l, t)
    <3>1. PICK n \in 1..Size : Up(l, x)[n] = t
      BY <2>2, <1>1, LineageType DEF DescendantsOf
    <3>2. n # Size
      BY <3>1, <1>1, Rootless
    <3>3. n \in 0..(Size - 1) /\ 1 + n \in 1..Size
      BY <3>2, SizeNat
    <3>4. Up(l, k)[1 + n] = t
      BY <3>1, <3>3, <1>3, <1>4, UpShift
    <3> QED BY <3>3, <3>4, <1>1, LineageType
  <2> QED BY <2>1, <2>2
<1> QED BY <1>5 DEF DescendantsOf

(* A new task may stand where an old one stands.                           *)
LEMMA SpawnOk ==
    ASSUME NEW l, Table(l), TreeOk(l), NEW t \in Listed(l), NEW c \in Keys, l[c] = None,
           \A k \in Listed(l) : l[k].parent # c,
           l[t].parent # None => l[t].parent \in Listed(l)
    PROVE  ParentOk(l, c, l[t].parent)
<1> DEFINE p == l[t].parent
           above == Lineage(l, p) \cup {p}
<1> SUFFICES ASSUME p # None PROVE ParentOk(l, c, p)
  BY DEF ParentOk
<1>1. /\ t \in Keys /\ t \in Tasks /\ c \in Tasks /\ c # None /\ p \in Listed(l) /\ p \in Keys
      /\ p \in Tasks /\ p # c
  BY LockAssumption DEF Listed, Tasks
<1>2. ASSUME NEW x \in Tasks PROVE c \notin Lineage(l, x)
  <2> SUFFICES ASSUME NEW n \in 1..Size, Up(l, x)[n] = c PROVE FALSE
    BY LineageType
  <2>1. n - 1 \in 0..Size
    BY SizeNat
  <2>2. Parent(l, Up(l, x)[n - 1]) = c /\ Up(l, x)[n - 1] \in Tasks
    BY <2>1, UpDef, UpType
  <2> QED BY <2>2, <1>1 DEF Parent, Listed, Tasks
<1>3. DescendantsOf(l, c) = {}
  BY <1>2 DEF DescendantsOf, Listed, Tasks
<1>4. Lineage(l, c) \cap (DescendantsOf(l, c) \cup {c}) = {}
  BY <1>1, <1>2, <1>3
<1>5. above \subseteq Lineage(l, t)
  <2>1. Size # 0
    BY <1>1, StartAssumption, FS_EmptySet DEF Size
  <2>2. 1 \in 1..Size /\ 1 \in 0..Size /\ 1 - 1 = 0
    BY <2>1, SizeNat
  <2>3. Up(l, t)[1] = p
    <3>1. Up(l, t)[1] = Parent(l, t)
      BY <2>2, UpDef
    <3> QED BY <3>1, <1>1, LockAssumption DEF Parent, Listed
  <2>4. p \in Lineage(l, t)
    BY <2>2, <2>3, <1>1, LineageType
  <2>5. ASSUME NEW x \in Lineage(l, p) PROVE x \in Lineage(l, t)
    <3>1. PICK n \in 1..Size : x # None /\ Up(l, p)[n] = x
      BY <1>1, LineageType
    <3>2. n # Size
      BY <3>1, <1>1, Rootless
    <3>3. n \in 0..(Size - 1) /\ 1 + n \in 1..Size
      BY <3>2, SizeNat
    <3>4. Up(l, t)[1 + n] = x
      BY <3>1, <3>3, <2>2, <2>3, UpShift
    <3> QED BY <3>1, <3>3, <3>4, <1>1, LineageType
  <2> QED BY <2>4, <2>5
<1>6. Cardinality(above) <= Cardinality(Lineage(l, t)) /\ Cardinality(above) \in Nat
  <2>1. IsFiniteSet(Lineage(l, t))
    BY <1>1, LineageType
  <2> HIDE DEF above
  <2> QED BY <2>1, <1>5, FS_Subset, FS_CardinalityType
<1>7. Cardinality(above) < MAX_DEPTH
  <2>1. Cardinality(Lineage(l, t)) < MAX_DEPTH /\ Cardinality(Lineage(l, t)) \in Nat
    BY <1>1, LineageType DEF TreeOk
  <2> QED BY <2>1, <1>6, BoardAssumption
<1>8. Cardinality(above) + 1 + Cardinality({}) <= MAX_DEPTH
  <2>1. Cardinality({}) = 0
    BY FS_EmptySet
  <2> HIDE DEF above
  <2> QED BY <2>1, <1>6, <1>7, BoardAssumption
<1>9. c \notin above /\ c \notin Lineage(l, c)
  BY <1>1, <1>2
<1>10. \A d \in DescendantsOf(l, c) \cup {c} :
           Cardinality(above) + 1 + Cardinality(Lineage(l, d) \cap (DescendantsOf(l, c) \cup {c})) <= MAX_DEPTH
  BY <1>3, <1>4, <1>8
<1> QED BY <1>1, <1>9, <1>10 DEF ParentOk

-----------------------------------------------------------------------------
(* What each step does to the record of its request, field by field.       *)
Others(c) == \A d \in Calls : d # c => op'[d] = op[d]
SameRequest(c) ==
    /\ op'[c].kind = op[c].kind /\ op'[c].task = op[c].task /\ op'[c].arg = op[c].arg
SameRead(c) == op'[c].cur = op[c].cur
SameList(c) ==
    op'[c].links = op[c].links /\ op'[c].todo = op[c].todo /\ op'[c].gone = op[c].gone
SameCopy(c) == op'[c].other = op[c].other /\ op'[c].copy = op[c].copy
Quiet == UNCHANGED <<docs, next, excused>>

LEMMA OpPut ==
    ASSUME BoardInv, NEW c \in Calls, NEW s, Put(c, s)
    PROVE  Others(c) /\ op'[c] = s /\ op[c] \in OpRecord
BY DEF Put, Others, BoardInv, BoardTypes

LEMMA RequestShape ==
    ASSUME BoardInv, NEW c \in Calls, Request(c)
    PROVE  /\ Quiet /\ Others(c) /\ op[c].pc = "idle" /\ ~op'[c].spawn /\ op'[c].kind \in Kinds
           /\ \/ op'[c].pc = "list" /\ op'[c].kind = "create" /\ op'[c].task = c
              \/ op'[c].pc = "queued" /\ op'[c].kind # "create" /\ op'[c].task \in Listed(Links)
           /\ op'[c].kind = "block" => op'[c].arg # op'[c].task
<1>0. PICK t \in IF mix[c] = "create" THEN {c} ELSE Listed(Links) :
        \E a \in Arguments(mix[c], t) :
          Put(c, [Idle EXCEPT !.pc = IF mix[c] = "create" THEN "list" ELSE "queued",
                              !.kind = mix[c], !.task = t, !.arg = a])
  BY DEF Request
<1>1. PICK a \in Arguments(mix[c], t) :
          Put(c, [Idle EXCEPT !.pc = IF mix[c] = "create" THEN "list" ELSE "queued",
                              !.kind = mix[c], !.task = t, !.arg = a])
  BY <1>0
<1> DEFINE s == [Idle EXCEPT !.pc = IF mix[c] = "create" THEN "list" ELSE "queued",
                             !.kind = mix[c], !.task = t, !.arg = a]
<1>2. s.pc = (IF mix[c] = "create" THEN "list" ELSE "queued") /\ s.kind = mix[c] /\ s.task = t
      /\ s.arg = a /\ s.spawn = FALSE
  BY DEF Idle
<1>3. mix[c] = "block" => a # t
  <2> SUFFICES ASSUME mix[c] = "block" PROVE a # t
    OBVIOUS
  <2>1. Arguments(mix[c], t) = Listed(Links) \ {t}
    BY DEF Arguments
  <2> QED BY <2>1
<1>4. mix[c] \in Kinds
  BY DEF BoardInv, BoardTypes
<1>5. Others(c) /\ op'[c] = s
  BY <1>1, OpPut
<1> HIDE DEF s
<1>6. Quiet /\ op[c].pc = "idle"
  BY DEF Request, Quiet
<1>7. CASE mix[c] = "create"
  BY <1>0, <1>1, <1>2, <1>4, <1>5, <1>6, <1>7
<1>8. CASE mix[c] # "create"
  BY <1>0, <1>1, <1>2, <1>3, <1>4, <1>5, <1>6, <1>8
<1> QED BY <1>7, <1>8

LEMMA ReadShape ==
    ASSUME BoardInv, NEW c \in Calls, Read(c)
    PROVE  /\ Quiet /\ Others(c) /\ op[c].pc = "queued" /\ op'[c].pc \in {"end", "list", "put"}
           /\ SameRequest(c) /\ SameList(c) /\ SameCopy(c) /\ op'[c].spawn = op[c].spawn
           /\ op'[c].cur = docs[op[c].task]
           /\ op'[c].pc # "end" => op'[c].cur # None
           /\ op'[c].pc = "put" => op[c].kind \notin {"move", "convert", "block", "delete"}
<1> DEFINE cur == docs[op[c].task]
           s == [op[c] EXCEPT !.pc = AfterRead(op[c], cur), !.cur = cur]
<1>1. op[c].pc = "queued" /\ Put(c, s) /\ Quiet
  BY DEF Read, Quiet
<1>2. Others(c) /\ op'[c] = s /\ op[c] \in OpRecord
  BY <1>1, OpPut
<1>3. s.pc = AfterRead(op[c], cur) /\ s.cur = cur /\ s.kind = op[c].kind /\ s.task = op[c].task
      /\ s.arg = op[c].arg /\ s.links = op[c].links /\ s.todo = op[c].todo /\ s.gone = op[c].gone
      /\ s.other = op[c].other /\ s.copy = op[c].copy /\ s.spawn = op[c].spawn
  BY <1>2 DEF OpRecord
<1>4. /\ AfterRead(op[c], cur) \in {"end", "list", "put"}
      /\ cur = None => AfterRead(op[c], cur) = "end"
      /\ AfterRead(op[c], cur) = "put" => op[c].kind \notin {"move", "convert", "block", "delete"}
  BY DEF AfterRead, NothingToDo
<1> HIDE DEF s
<1> QED BY <1>1, <1>2, <1>3, <1>4 DEF SameRequest, SameList, SameCopy

LEMMA ListShape ==
    ASSUME BoardInv, NEW c \in Calls, List(c)
    PROVE  /\ Quiet /\ Others(c) /\ op[c].pc = "list" /\ ~op[c].spawn
           /\ SameRequest(c) /\ SameRead(c) /\ SameCopy(c) /\ ~op'[c].spawn
           /\ op'[c].links = Links /\ op'[c].gone = op'[c].todo
           /\ \/ op'[c].pc = "refused"
              \/ op'[c].pc = "insert" /\ op[c].kind = "create" /\ ParentOk(Links, c, op[c].arg)
              \/ op'[c].pc = "put" /\ op[c].kind = "move"
              \/ op'[c].pc = "put" /\ op[c].kind \in {"convert", "block"} /\ ~Refused(op[c], Links)
              \/ op'[c].pc = "get" /\ op[c].kind = "move" /\ op'[c].todo = SiblingsOf(Links, op[c])
              \/ op'[c].pc = "remove" /\ op[c].kind = "delete"
                 /\ op'[c].todo = DescendantsOf(Links, op[c].task) \cup {op[c].task}
<1> DEFINE To(pc, todo) == [op[c] EXCEPT !.pc = pc, !.links = Links, !.todo = todo, !.gone = todo]
<1>1. op[c].pc = "list" /\ ~op[c].spawn /\ Quiet /\ op[c] \in OpRecord
  BY DEF List, Quiet, BoardInv, BoardTypes
<1>2. ASSUME NEW pc, NEW todo
      PROVE  /\ To(pc, todo).pc = pc /\ To(pc, todo).links = Links /\ To(pc, todo).todo = todo
             /\ To(pc, todo).gone = todo
             /\ To(pc, todo).kind = op[c].kind /\ To(pc, todo).task = op[c].task
             /\ To(pc, todo).arg = op[c].arg /\ To(pc, todo).cur = op[c].cur
             /\ To(pc, todo).copy = op[c].copy /\ To(pc, todo).other = op[c].other
             /\ To(pc, todo).spawn = op[c].spawn
  BY <1>1 DEF OpRecord
<1>3. ASSUME NEW pc, NEW todo, Put(c, To(pc, todo))
      PROVE  /\ Others(c) /\ SameRequest(c) /\ SameRead(c) /\ SameCopy(c) /\ op'[c].spawn = op[c].spawn
             /\ op'[c].links = Links /\ op'[c].gone = todo /\ op'[c].todo = todo /\ op'[c].pc = pc
  <2>1. Others(c) /\ op'[c] = To(pc, todo)
    BY <1>3, OpPut
  <2> HIDE DEF To
  <2> QED BY <2>1, <1>2 DEF SameRequest, SameRead, SameCopy
<1>4. \/ op[c].kind = "create" /\ Put(c, To(IF ParentOk(Links, c, op[c].arg) THEN "insert" ELSE "refused", {}))
      \/ op[c].kind \in {"convert", "block"} /\ Put(c, To(IF Refused(op[c], Links) THEN "refused" ELSE "put", {}))
      \/ op[c].kind = "move" /\ (Put(c, To("put", {})) \/ Put(c, To("refused", {})))
      \/ op[c].kind = "move" /\ Put(c, To("get", SiblingsOf(Links, op[c])))
      \/ op[c].kind = "delete" /\ Put(c, To("remove", DescendantsOf(Links, op[c].task) \cup {op[c].task}))
  BY DEF List
<1> HIDE DEF To
<1>5. CASE op[c].kind = "create" /\ Put(c, To(IF ParentOk(Links, c, op[c].arg) THEN "insert" ELSE "refused", {}))
  BY <1>1, <1>3, <1>5
<1>6. CASE op[c].kind \in {"convert", "block"} /\ Put(c, To(IF Refused(op[c], Links) THEN "refused" ELSE "put", {}))
  BY <1>1, <1>3, <1>6
<1>7. CASE op[c].kind = "move" /\ (Put(c, To("put", {})) \/ Put(c, To("refused", {})))
  BY <1>1, <1>3, <1>7
<1>8. CASE op[c].kind = "move" /\ Put(c, To("get", SiblingsOf(Links, op[c])))
  BY <1>1, <1>3, <1>8
<1>9. CASE op[c].kind = "delete" /\ Put(c, To("remove", DescendantsOf(Links, op[c].task) \cup {op[c].task}))
  BY <1>1, <1>3, <1>9
<1> QED BY <1>4, <1>5, <1>6, <1>7, <1>8, <1>9

LEMMA SpawnListShape ==
    ASSUME BoardInv, NEW c \in Calls, SpawnList(c)
    PROVE  /\ Quiet /\ Others(c) /\ op[c].pc = "list" /\ op[c].spawn
           /\ SameRequest(c) /\ SameRead(c) /\ SameCopy(c) /\ op'[c].spawn
           /\ op'[c].links = Links
           /\ op'[c].pc = IF ParentOk(Links, c, op[c].cur.parent) THEN "insert" ELSE "refused"
<1> DEFINE pc == IF ParentOk(Links, c, op[c].cur.parent) THEN "insert" ELSE "refused"
           s == [op[c] EXCEPT !.pc = pc, !.links = Links]
<1>1. op[c].pc = "list" /\ op[c].spawn /\ Put(c, s) /\ Quiet
  BY DEF SpawnList, Quiet
<1>2. Others(c) /\ op'[c] = s /\ op[c] \in OpRecord
  BY <1>1, OpPut
<1> HIDE DEF pc
<1>3. s.pc = pc /\ s.cur = op[c].cur /\ s.kind = op[c].kind /\ s.task = op[c].task
      /\ s.arg = op[c].arg /\ s.links = Links
      /\ s.other = op[c].other /\ s.copy = op[c].copy /\ s.spawn = op[c].spawn
  BY <1>2 DEF OpRecord
<1> HIDE DEF s
<1> QED BY <1>1, <1>2, <1>3 DEF SameRequest, SameRead, SameCopy, pc

(* Completing a recurring task leads to the next one; every other write    *)
(* ends the request.                                                       *)
Recurs(c) == Written(c).completed /\ ~op[c].cur.completed /\ op[c].cur.recurrence

LEMMA SaveShape ==
    ASSUME BoardInv, NEW c \in Calls, Save(c)
    PROVE  /\ next' = next /\ Others(c) /\ op[c].pc = "put" /\ op[c].kind \notin {"create", "delete"}
           /\ ~op[c].spawn /\ SameRequest(c) /\ SameRead(c) /\ SameCopy(c)
           /\ op[c].task \in Keys /\ op[c].cur \in Doc /\ Written(c) \in Doc
           /\ \/ op'[c].pc = "list" /\ op'[c].spawn /\ Recurs(c)
              \/ op'[c].pc = "end" /\ ~op'[c].spawn /\ ~Recurs(c)
              \/ op'[c].pc = "refused" /\ ~op'[c].spawn /\ docs[op[c].task] = None
           /\ \/ docs[op[c].task] = None /\ docs' = docs /\ excused' = excused
              \/ /\ docs[op[c].task] # None /\ docs' = [docs EXCEPT ![op[c].task] = Written(c)]
                 /\ excused' = IF Outdated(op[c]) THEN excused \cup {"crossed"} ELSE excused
<1> DEFINE spawned == [op[c] EXCEPT !.pc = "list", !.spawn = TRUE]
           Gone(pc) == [op[c] EXCEPT !.pc = pc]
<1>1. op[c].pc = "put" /\ next' = next /\ op[c] \in OpRecord /\ InHand(op[c])
  BY DEF Save, BoardInv, BoardTypes
<1>2. op[c].kind \notin {"create", "delete"} /\ ~op[c].spawn /\ op[c].task \in Keys /\ op[c].cur \in Doc
  BY <1>1 DEF InHand, Asked
<1>3. Written(c) \in Doc
  BY <1>1, WrittenDoc
<1>4. /\ spawned.pc = "list" /\ spawned.spawn = TRUE /\ spawned.cur = op[c].cur
      /\ spawned.kind = op[c].kind /\ spawned.task = op[c].task /\ spawned.arg = op[c].arg
      /\ spawned.other = op[c].other /\ spawned.copy = op[c].copy
  BY <1>1 DEF OpRecord
<1>5. ASSUME NEW pc
      PROVE  /\ Gone(pc).pc = pc /\ Gone(pc).spawn = op[c].spawn /\ Gone(pc).cur = op[c].cur
             /\ Gone(pc).kind = op[c].kind /\ Gone(pc).task = op[c].task /\ Gone(pc).arg = op[c].arg
             /\ Gone(pc).other = op[c].other /\ Gone(pc).copy = op[c].copy
  BY <1>1 DEF OpRecord
<1>6. Goto(c, "end") => Put(c, Gone("end"))
  BY DEF Goto, Put
<1>7. Goto(c, "refused") => Put(c, Gone("refused"))
  BY DEF Goto, Put
<1>8. /\ \/ Recurs(c) /\ Put(c, spawned)
         \/ ~Recurs(c) /\ Put(c, Gone("end"))
         \/ docs[op[c].task] = None /\ Put(c, Gone("refused"))
      /\ \/ docs[op[c].task] = None /\ docs' = docs /\ excused' = excused
         \/ /\ docs[op[c].task] # None /\ docs' = [docs EXCEPT ![op[c].task] = Written(c)]
            /\ excused' = IF Outdated(op[c]) THEN excused \cup {"crossed"} ELSE excused
  <2> HIDE DEF spawned, Gone
  <2>2. CASE docs[op[c].task] = None
    BY <1>6, <1>7, <2>2 DEF Save, Recurs, spawned
  <2>3. CASE docs[op[c].task] # None
    BY <1>6, <1>7, <2>3 DEF Save, Recurs, spawned, Excuse
  <2> QED BY <2>2, <2>3
<1> HIDE DEF spawned, Gone
<1>9. CASE Recurs(c) /\ Put(c, spawned)
  <2>1. Others(c) /\ op'[c] = spawned
    BY <1>9, OpPut
  <2> QED BY <2>1, <1>1, <1>2, <1>3, <1>4, <1>8, <1>9 DEF SameRequest, SameRead, SameCopy
<1>10. CASE ~Recurs(c) /\ Put(c, Gone("end"))
  <2>1. Others(c) /\ op'[c] = Gone("end")
    BY <1>10, OpPut
  <2> QED BY <2>1, <1>1, <1>2, <1>3, <1>5, <1>8, <1>10 DEF SameRequest, SameRead, SameCopy
<1>11. CASE docs[op[c].task] = None /\ Put(c, Gone("refused"))
  <2>1. Others(c) /\ op'[c] = Gone("refused")
    BY <1>11, OpPut
  <2> QED BY <2>1, <1>1, <1>2, <1>3, <1>5, <1>8, <1>11 DEF SameRequest, SameRead, SameCopy
<1> QED BY <1>8, <1>9, <1>10, <1>11

NewParent(c) == IF op[c].spawn THEN op[c].cur.parent ELSE op[c].arg

LEMMA InsertShape ==
    ASSUME BoardInv, NEW c \in Calls, Insert(c)
    PROVE  /\ Others(c) /\ op[c].pc = "insert" /\ op'[c].pc = "end"
           /\ SameRequest(c) /\ SameRead(c) /\ op'[c].spawn = op[c].spawn /\ op[c].spawn \in BOOLEAN
           /\ docs' = [docs EXCEPT ![c] = [parent |-> NewParent(c), blockedBy |-> {}, comments |-> {},
                          completed |-> FALSE, inDone |-> FALSE, recurrence |-> op[c].spawn]]
           /\ next' = IF op[c].spawn THEN [t \in DOMAIN next \cup {c} |->
                          IF t = c THEN 0 ELSE IF t = op[c].task THEN next[t] + 1 ELSE next[t]] ELSE next
           /\ excused' = IF NewParent(c) # None /\ Tree(Links) # Tree(op[c].links)
                         THEN excused \cup {"crossed"} ELSE excused
<1> DEFINE s == [op[c] EXCEPT !.pc = "end"]
<1>1. op[c].pc = "insert" /\ Put(c, s) /\ op[c] \in OpRecord
  BY DEF Insert, Goto, Put, BoardInv, BoardTypes
<1>2. Others(c) /\ op'[c] = s
  BY <1>1, OpPut
<1>3. s.pc = "end" /\ s.cur = op[c].cur /\ s.kind = op[c].kind /\ s.task = op[c].task
      /\ s.arg = op[c].arg /\ s.spawn = op[c].spawn /\ op[c].spawn \in BOOLEAN
  BY <1>1 DEF OpRecord
<1> HIDE DEF s
<1>4. /\ docs' = [docs EXCEPT ![c] = [parent |-> NewParent(c), blockedBy |-> {}, comments |-> {},
                          completed |-> FALSE, inDone |-> FALSE, recurrence |-> op[c].spawn]]
      /\ next' = IF op[c].spawn THEN [t \in DOMAIN next \cup {c} |->
                     IF t = c THEN 0 ELSE IF t = op[c].task THEN next[t] + 1 ELSE next[t]] ELSE next
      /\ excused' = IF NewParent(c) # None /\ Tree(Links) # Tree(op[c].links)
                    THEN excused \cup {"crossed"} ELSE excused
  BY DEF Insert, NewParent, Excuse
<1> QED BY <1>1, <1>2, <1>3, <1>4 DEF SameRequest, SameRead

LEMMA SilentGetShape ==
    ASSUME BoardInv, NEW c \in Calls, SilentGet(c)
    PROVE  /\ Quiet /\ Others(c) /\ op[c].pc = "get" /\ op'[c].pc = "set" /\ op[c].todo \subseteq Keys
           /\ SameRequest(c) /\ SameRead(c) /\ SameList(c) /\ op'[c].spawn = op[c].spawn
           /\ op'[c].other \in op[c].todo /\ op'[c].copy = docs[op'[c].other]
<1>1. PICK t \in op[c].todo : Put(c, [op[c] EXCEPT !.pc = "set", !.other = t, !.copy = docs[t]])
  BY DEF SilentGet
<1> DEFINE s == [op[c] EXCEPT !.pc = "set", !.other = t, !.copy = docs[t]]
<1>2. op[c].pc = "get" /\ Quiet /\ op[c] \in OpRecord
  BY DEF SilentGet, Quiet, BoardInv, BoardTypes
<1>3. Others(c) /\ op'[c] = s
  BY <1>1, OpPut
<1>4. s.pc = "set" /\ s.cur = op[c].cur /\ s.kind = op[c].kind /\ s.task = op[c].task
      /\ s.arg = op[c].arg /\ s.links = op[c].links /\ s.todo = op[c].todo /\ s.gone = op[c].gone
      /\ s.other = t /\ s.copy = docs[t] /\ s.spawn = op[c].spawn /\ op[c].todo \subseteq Keys
  BY <1>2 DEF OpRecord
<1> HIDE DEF s
<1> QED BY <1>1, <1>2, <1>3, <1>4 DEF SameRequest, SameRead, SameList

LEMMA SilentSetShape ==
    ASSUME BoardInv, NEW c \in Calls, SilentSet(c)
    PROVE  /\ next' = next /\ Others(c) /\ op[c].pc = "set" /\ op[c].other \in op[c].todo
           /\ op[c].kind \in {"move", "delete"} /\ op[c].other \in Keys /\ ~op[c].spawn /\ op[c].links \in LinkTables
           /\ op[c].kind = "delete" => op[c].todo \subseteq Listed(op[c].links)
           /\ op'[c].todo = op[c].todo \ {op[c].other}
           /\ SameRequest(c) /\ SameRead(c) /\ ~op'[c].spawn
           /\ op'[c].links = op[c].links /\ op'[c].gone = op[c].gone
           /\ op'[c].pc = IF op'[c].todo # {} THEN "get" ELSE IF op[c].kind = "move" THEN "put" ELSE "end"
           /\ \/ /\ op[c].copy = None \/ docs[op[c].other] = None
                 /\ docs' = docs /\ excused' = excused
              \/ /\ op[c].copy \in Doc /\ docs[op[c].other] \in Doc
                 /\ docs' = [docs EXCEPT ![op[c].other] = SilentDoc(op[c])]
                 /\ excused' = excused \cup {e \in {"torn"} : docs[op[c].other] # op[c].copy}
                       \cup {e \in {"crossed"} : op[c].kind = "delete"
                                /\ Links[op[c].other] # op[c].links[op[c].other]}
<1> DEFINE r == op[c]
           rest == r.todo \ {r.other}
           pc == IF rest # {} THEN "get" ELSE IF r.kind = "move" THEN "put" ELSE "end"
           s == [r EXCEPT !.todo = rest, !.other = None, !.copy = None, !.pc = pc]
<1>1. r.pc = "set" /\ next' = next /\ Put(c, s) /\ r \in OpRecord /\ InHand(r) /\ docs \in [Keys -> Doc \cup {None}]
  BY DEF SilentSet, BoardInv, BoardTypes
<1>2. r.other \in r.todo /\ r.kind \in {"move", "delete"} /\ r.other \in Keys /\ ~r.spawn
      /\ r.copy \in Doc \cup {None} /\ r.links \in LinkTables
      /\ (r.kind = "delete" => r.todo \subseteq Listed(r.links))
  BY <1>1 DEF InHand, OpRecord
<1>3. Others(c) /\ op'[c] = s
  BY <1>1, OpPut
<1>4. /\ s.pc = pc /\ s.todo = rest /\ s.cur = r.cur /\ s.kind = r.kind /\ s.task = r.task
      /\ s.arg = r.arg /\ s.links = r.links /\ s.gone = r.gone /\ s.spawn = r.spawn
  BY <1>1 DEF OpRecord
<1>5. \/ (r.copy = None \/ docs[r.other] = None) /\ docs' = docs /\ excused' = excused
      \/ /\ ~(r.copy = None \/ docs[r.other] = None)
         /\ docs' = [docs EXCEPT ![r.other] = SilentDoc(r)]
         /\ excused' = excused \cup {e \in {"torn"} : docs[r.other] # r.copy}
                       \cup {e \in {"crossed"} : r.kind = "delete" /\ Links[r.other] # r.links[r.other]}
  BY DEF SilentSet, SilentDoc
<1>6. ~(r.copy = None \/ docs[r.other] = None) => r.copy \in Doc /\ docs[r.other] \in Doc
  BY <1>1, <1>2
<1> HIDE DEF s
<1> QED BY <1>1, <1>2, <1>3, <1>4, <1>5, <1>6 DEF SameRequest, SameRead

LEMMA RemoveShape ==
    ASSUME BoardInv, NEW c \in Calls, Remove(c)
    PROVE  /\ next' = next /\ Others(c) /\ op[c].pc = "remove" /\ op[c].kind = "delete" /\ ~op[c].spawn
           /\ op[c].links \in LinkTables
           /\ SameRequest(c) /\ SameRead(c) /\ ~op'[c].spawn /\ op'[c].gone = op[c].gone
           /\ excused' = IF Links # op[c].links THEN excused \cup {"crossed"} ELSE excused
           /\ \E t \in op[c].todo :
                /\ t \in Keys /\ docs' = [docs EXCEPT ![t] = None]
                /\ op'[c].links = [op[c].links EXCEPT ![t] = None]
                /\ \/ op[c].todo # {t} /\ op'[c].todo = op[c].todo \ {t} /\ op'[c].pc = "remove"
                   \/ /\ op[c].todo = {t}
                      /\ op'[c].todo = {d \in Listed(op'[c].links) :
                                           op'[c].links[d].blockedBy \cap op[c].gone # {}}
                      /\ op'[c].pc = IF op'[c].todo = {} THEN "end" ELSE "get"
<1> DEFINE r == op[c]
           l(t) == [r.links EXCEPT ![t] = None]
           rest(t) == r.todo \ {t}
           blocked(t) == {d \in Listed(l(t)) : l(t)[d].blockedBy \cap r.gone # {}}
           s(t) == [r EXCEPT !.links = l(t), !.todo = IF rest(t) = {} THEN blocked(t) ELSE rest(t),
                        !.pc = IF rest(t) # {} THEN "remove" ELSE IF blocked(t) = {} THEN "end" ELSE "get"]
<1>1. PICK t \in r.todo : docs' = [docs EXCEPT ![t] = None] /\ Put(c, s(t))
  BY DEF Remove
<1>2. /\ r.pc = "remove" /\ next' = next /\ r \in OpRecord /\ InHand(r)
      /\ excused' = IF Links # op[c].links THEN excused \cup {"crossed"} ELSE excused
  BY DEF Remove, BoardInv, BoardTypes, Excuse
<1>3. r.kind = "delete" /\ ~r.spawn /\ t \in Keys /\ r.links \in LinkTables
  BY <1>2 DEF InHand, OpRecord
<1>4. Others(c) /\ op'[c] = s(t)
  <2> HIDE DEF s
  <2> QED BY <1>1, OpPut
<1>5. /\ s(t).pc = (IF rest(t) # {} THEN "remove" ELSE IF blocked(t) = {} THEN "end" ELSE "get")
      /\ s(t).todo = (IF rest(t) = {} THEN blocked(t) ELSE rest(t)) /\ s(t).links = l(t)
      /\ s(t).cur = r.cur /\ s(t).kind = r.kind /\ s(t).task = r.task
      /\ s(t).arg = r.arg /\ s(t).gone = r.gone /\ s(t).spawn = r.spawn
  <2> HIDE DEF rest, blocked, l
  <2> QED BY <1>2 DEF OpRecord
<1> HIDE DEF s
<1>6. SameRequest(c) /\ SameRead(c) /\ ~op'[c].spawn /\ op'[c].gone = op[c].gone
  BY <1>3, <1>4, <1>5 DEF SameRequest, SameRead
<1>7. CASE rest(t) # {}
  <2>1. op[c].todo # {t} /\ op'[c].todo = op[c].todo \ {t} /\ op'[c].pc = "remove"
        /\ op'[c].links = [op[c].links EXCEPT ![t] = None]
    BY <1>4, <1>5, <1>7
  <2> QED BY <2>1, <1>1, <1>2, <1>3, <1>4, <1>6
<1>8. CASE rest(t) = {}
  <2>1. op[c].todo = {t} /\ op'[c].links = l(t) /\ op'[c].todo = blocked(t)
        /\ op'[c].pc = IF op'[c].todo = {} THEN "end" ELSE "get"
    <3>1. op[c].todo = {t}
      BY <1>8
    <3> HIDE DEF rest, blocked, l
    <3> QED BY <3>1, <1>4, <1>5, <1>8
  <2> QED BY <2>1, <1>1, <1>2, <1>3, <1>4, <1>6
<1> QED BY <1>7, <1>8

LEMMA EndShape ==
    ASSUME BoardInv, NEW c \in Calls, End(c)
    PROVE  Quiet /\ Others(c) /\ op[c].pc \in {"end", "refused"} /\ op'[c] = Over
BY OpPut DEF End, Quiet

LEMMA OverFields == Over.pc = "over" /\ ~Over.spawn /\ Over.kind = "comment"
BY DEF Over, Idle

LEMMA RestartShape ==
    ASSUME BoardInv, Restart
    PROVE  /\ UNCHANGED <<docs, next>>
           /\ \A c \in Calls : op'[c] = IF Active(c) THEN Over ELSE op[c]
           /\ excused' = IF \E c \in Calls : Active(c) /\ (op[c].spawn \/ op[c].kind = "delete")
                         THEN excused \cup {"cut"} ELSE excused
BY DEF Restart, Excuse, BoardInv, BoardTypes

LEMMA IdleShape ==
    ASSUME BoardInv, (\E c \in Calls : Release(c)) \/ UNCHANGED vars
    PROVE  Quiet /\ \A c \in Calls : op'[c] = op[c]
BY DEF Release, Quiet, vars, boardVars

-----------------------------------------------------------------------------
Spawning(c) == op[c].spawn /\ op[c].pc \in {"list", "insert"}
Removing(c) == op[c].pc = "remove"
Unblocking(c) == op[c].pc \in {"get", "set"} /\ op[c].kind = "delete"

(* What a request will create is nowhere yet.                              *)
Unborn ==
    \A c \in Calls : Early(c) =>
        /\ docs[c] = None /\ c \notin DOMAIN next
        /\ \A d \in Calls :
             /\ Active(d) /\ op[d].kind # "create" => op[d].task # c
             /\ Removing(d) \/ Unblocking(d) => op[d].links[c] = None /\ c \notin op[d].gone

(* The unborn part of the state, for one request c and another d.          *)
Apart(c, d) ==
    /\ Active(d) /\ op[d].kind # "create" => op[d].task # c
    /\ Removing(d) \/ Unblocking(d) => op[d].links[c] = None /\ c \notin op[d].gone

LEMMA EarlyStep ==
    ASSUME BoardInv, [Next]_vars, NEW c \in Calls, Early(c)'
    PROVE  Early(c)
<1>1. ASSUME NEW d \in Calls, Others(d), op[d].pc \notin {"end", "refused", "over"} PROVE Early(c)
  BY <1>1 DEF Early, Others
<1>2. CASE \E d \in Calls : Request(d)
  BY <1>1, <1>2, RequestShape
<1>3. CASE \E d \in Calls : Read(d)
  BY <1>1, <1>3, ReadShape
<1>4. CASE \E d \in Calls : List(d)
  BY <1>1, <1>4, ListShape
<1>5. CASE \E d \in Calls : SpawnList(d)
  BY <1>1, <1>5, SpawnListShape
<1>6. CASE \E d \in Calls : Save(d)
  BY <1>1, <1>6, SaveShape
<1>7. CASE \E d \in Calls : Insert(d)
  BY <1>1, <1>7, InsertShape
<1>8. CASE \E d \in Calls : SilentGet(d)
  BY <1>1, <1>8, SilentGetShape
<1>9. CASE \E d \in Calls : SilentSet(d)
  BY <1>1, <1>9, SilentSetShape
<1>10. CASE \E d \in Calls : Remove(d)
  BY <1>1, <1>10, RemoveShape
<1>11. CASE \E d \in Calls : End(d)
  BY <1>11, EndShape, OverFields DEF Early, Others
<1>12. CASE Restart
  BY <1>12, RestartShape, OverFields DEF Early
<1>13. CASE (\E d \in Calls : Release(d)) \/ UNCHANGED vars
  BY <1>13, IdleShape DEF Early
<1> QED BY <1>2, <1>3, <1>4, <1>5, <1>6, <1>7, <1>8, <1>9, <1>10, <1>11, <1>12, <1>13 DEF Next, Step

LEMMA UnbornInit == Init => Unborn
<1> SUFFICES ASSUME Init PROVE Unborn
  OBVIOUS
<1>1. Idle.pc = "idle"
  BY DEF Idle
<1>2. \A c \in Calls : docs[c] = None
  BY BoardAssumption DEF Init
<1> QED BY <1>1, <1>2 DEF Init, Unborn, Active, Removing, Unblocking

LEMMA LinksOf ==
    ASSUME BoardInv, NEW t \in Keys
    PROVE  /\ Links[t] = None <=> docs[t] = None
           /\ t \in Listed(Links) <=> docs[t] # None
           /\ docs[t] # None => /\ docs[t] \in Doc
                                /\ Links[t].parent = docs[t].parent
                                /\ Links[t].blockedBy = docs[t].blockedBy
<1>1. docs[t] \in Doc \cup {None}
  BY DEF BoardInv, BoardTypes
<1>2. docs[t] # None => Links[t] = [parent |-> docs[t].parent, blockedBy |-> docs[t].blockedBy, inDone |-> docs[t].inDone]
  BY DEF Links
<1>3. docs[t] = None => Links[t] = None
  BY DEF Links
<1>4. docs[t] # None => Links[t] # None
  <2> SUFFICES ASSUME docs[t] # None PROVE Links[t] # None
    OBVIOUS
  <2>1. Links[t] \in LinkDoc
    BY <1>1, <1>2 DEF LinkDoc, Doc
  <2> QED BY <1>2, <2>1, BoardAssumption
<1> QED BY <1>1, <1>2, <1>3, <1>4 DEF Listed

(* Removing a task, or writing it again, makes no task that was not there. *)
LEMMA ApartStep ==
    ASSUME BoardInv, Unborn, [Next]_vars, NEW c \in Calls, Early(c), Early(c)', NEW d \in Calls
    PROVE  Apart(c, d)'
<1>0. Apart(c, d) /\ docs[c] = None /\ c \in Keys
  BY BoardAssumption DEF Unborn, Apart
<1>1. op'[d] = op[d] => Apart(c, d)'
  BY <1>0 DEF Apart, Active, Removing, Unblocking
<1>2. ASSUME NEW e \in Calls, Request(e) PROVE Apart(c, d)'
  <2>1. CASE d = e
    BY <1>0, <1>2, <2>1, RequestShape, LinksOf DEF Apart, Removing, Unblocking
  <2> QED BY <1>1, <1>2, <2>1, RequestShape DEF Others
<1>3. ASSUME NEW e \in Calls, Read(e) PROVE Apart(c, d)'
  <2>1. CASE d = e
    BY <1>0, <1>3, <2>1, ReadShape DEF Apart, Removing, Unblocking, Active, SameRequest
  <2> QED BY <1>1, <1>3, <2>1, ReadShape DEF Others
<1>4. ASSUME NEW e \in Calls, List(e) PROVE Apart(c, d)'
  <2>1. CASE d = e
    <3>1. op'[d].kind # "create" => op'[d].task # c
      BY <1>0, <1>4, <2>1, ListShape DEF Apart, Active, SameRequest
    <3>2. op'[d].links[c] = None
      BY <1>0, <1>4, <2>1, ListShape, LinksOf
    <3>3. Removing(d)' \/ Unblocking(d)' => c \notin op'[d].gone
      <4>1. Unblocking(d)' => FALSE
        BY <1>4, <2>1, ListShape DEF Unblocking, SameRequest
      <4>2. Removing(d)' => op'[d].gone = DescendantsOf(Links, op[d].task) \cup {op[d].task} /\ op'[d].kind = "delete"
        BY <1>4, <2>1, ListShape DEF Removing, SameRequest
      <4>3. c \notin DescendantsOf(Links, op[d].task)
        BY <1>0, LinksOf DEF DescendantsOf
      <4> QED BY <4>1, <4>2, <4>3, <3>1, <1>4, <2>1, ListShape DEF SameRequest
    <3> QED BY <3>1, <3>2, <3>3 DEF Apart
  <2> QED BY <1>1, <1>4, <2>1, ListShape DEF Others
<1>5. ASSUME NEW e \in Calls, SpawnList(e) PROVE Apart(c, d)'
  <2>1. CASE d = e
    BY <1>0, <1>5, <2>1, SpawnListShape DEF Apart, Removing, Unblocking, Active, SameRequest
  <2> QED BY <1>1, <1>5, <2>1, SpawnListShape DEF Others
<1>6. ASSUME NEW e \in Calls, Save(e) PROVE Apart(c, d)'
  <2>1. CASE d = e
    BY <1>0, <1>6, <2>1, SaveShape DEF Apart, Removing, Unblocking, Active, SameRequest
  <2> QED BY <1>1, <1>6, <2>1, SaveShape DEF Others
<1>7. ASSUME NEW e \in Calls, Insert(e) PROVE Apart(c, d)'
  <2>1. CASE d = e
    BY <1>0, <1>7, <2>1, InsertShape DEF Apart, Removing, Unblocking, Active, SameRequest
  <2> QED BY <1>1, <1>7, <2>1, InsertShape DEF Others
<1>8. ASSUME NEW e \in Calls, SilentGet(e) PROVE Apart(c, d)'
  <2>1. CASE d = e
    BY <1>0, <1>8, <2>1, SilentGetShape DEF Apart, Removing, Unblocking, Active, SameRequest, SameList
  <2> QED BY <1>1, <1>8, <2>1, SilentGetShape DEF Others
<1>9. ASSUME NEW e \in Calls, SilentSet(e) PROVE Apart(c, d)'
  <2>1. CASE d = e
    BY <1>0, <1>9, <2>1, SilentSetShape DEF Apart, Removing, Unblocking, Active, SameRequest
  <2> QED BY <1>1, <1>9, <2>1, SilentSetShape DEF Others
<1>10. ASSUME NEW e \in Calls, Remove(e) PROVE Apart(c, d)'
  <2>1. CASE d = e
    <3>1. PICK t \in op[d].todo : t \in Keys /\ op'[d].links = [op[d].links EXCEPT ![t] = None]
      BY <1>10, <2>1, RemoveShape
    <3>2. op[d].links[c] = None => op'[d].links[c] = None
      BY <3>1, <1>0, <1>10, <2>1, RemoveShape DEF LinkTables
    <3> QED BY <3>2, <1>0, <1>10, <2>1, RemoveShape DEF Apart, Removing, Unblocking, Active, SameRequest
  <2> QED BY <1>1, <1>10, <2>1, RemoveShape DEF Others
<1>11. ASSUME NEW e \in Calls, End(e) PROVE Apart(c, d)'
  <2>1. CASE d = e
    BY <1>11, <2>1, EndShape, OverFields DEF Apart, Removing, Unblocking, Active
  <2> QED BY <1>1, <1>11, <2>1, EndShape DEF Others
<1>12. CASE Restart
  <2>1. CASE Active(d)
    BY <1>12, <2>1, RestartShape, OverFields DEF Apart, Removing, Unblocking, Active
  <2> QED BY <1>1, <1>12, <2>1, RestartShape
<1>13. CASE (\E e \in Calls : Release(e)) \/ UNCHANGED vars
  BY <1>1, <1>13, IdleShape
<1> QED BY <1>2, <1>3, <1>4, <1>5, <1>6, <1>7, <1>8, <1>9, <1>10, <1>11, <1>12, <1>13 DEF Next, Step

LEMMA UnbornStep == ASSUME BoardInv, Unborn, [Next]_vars PROVE Unborn'
<1> SUFFICES ASSUME NEW c \in Calls, Early(c)'
             PROVE  docs'[c] = None /\ c \notin DOMAIN next' /\ \A d \in Calls : Apart(c, d)'
  BY DEF Unborn, Apart
<1>1. Early(c)
  BY EarlyStep
<1>2. docs[c] = None /\ c \notin DOMAIN next /\ c \in Keys /\ docs \in [Keys -> Doc \cup {None}]
  BY <1>1, BoardAssumption DEF Unborn, BoardInv, BoardTypes
<1>3. \A d \in Calls : Apart(c, d)'
  BY <1>1, ApartStep
<1>4. docs'[c] = None /\ c \notin DOMAIN next'
  <2>1. CASE Quiet
    BY <1>2, <2>1 DEF Quiet
  <2>2. ASSUME NEW d \in Calls, Save(d) PROVE docs'[c] = None /\ c \notin DOMAIN next'
    BY <1>2, <2>2, SaveShape
  <2>3. ASSUME NEW d \in Calls, Insert(d) PROVE docs'[c] = None /\ c \notin DOMAIN next'
    <3>1. c # d
      BY <2>3, InsertShape DEF Early
    <3>2. d \in Keys
      BY BoardAssumption
    <3>3. docs'[c] = None
      BY <1>2, <2>3, <3>1, <3>2, InsertShape
    <3>4. DOMAIN next' \subseteq DOMAIN next \cup {d}
      <4>1. CASE op[d].spawn
        BY <2>3, <4>1, InsertShape
      <4>2. CASE ~op[d].spawn
        BY <2>3, <4>2, InsertShape
      <4> QED BY <4>1, <4>2
    <3> QED BY <1>2, <3>1, <3>3, <3>4
  <2>4. ASSUME NEW d \in Calls, SilentSet(d) PROVE docs'[c] = None /\ c \notin DOMAIN next'
    <3>1. next' = next
      BY <2>4, SilentSetShape
    <3>2. CASE docs' = docs
      BY <1>2, <3>1, <3>2
    <3>3. CASE docs[op[d].other] \in Doc /\ docs' = [docs EXCEPT ![op[d].other] = SilentDoc(op[d])]
      <4>1. c # op[d].other
        BY <1>2, <3>3, BoardAssumption
      <4> QED BY <1>2, <3>1, <3>3, <4>1
    <3> QED BY <2>4, <3>2, <3>3, SilentSetShape
  <2>5. ASSUME NEW d \in Calls, Remove(d) PROVE docs'[c] = None /\ c \notin DOMAIN next'
    BY <1>2, <2>5, RemoveShape
  <2>6. CASE Restart
    BY <1>2, <2>6, RestartShape
  <2>7. CASE UNCHANGED vars
    BY <2>1, <2>7, IdleShape
  <2> QED BY <2>1, <2>2, <2>3, <2>4, <2>5, <2>6, <2>7, RequestShape, ReadShape, ListShape,
             SpawnListShape, SilentGetShape, EndShape, IdleShape DEF Next, Step
<1> QED BY <1>3, <1>4

LEMMA ExcusedGrows == ASSUME BoardInv, [Next]_vars PROVE excused \subseteq excused'
<1>1. ASSUME NEW c \in Calls, SilentSet(c) PROVE excused \subseteq excused'
  BY <1>1, SilentSetShape
<1>2. ASSUME NEW c \in Calls, Save(c) PROVE excused \subseteq excused'
  BY <1>2, SaveShape
<1>3. ASSUME NEW c \in Calls, Insert(c) PROVE excused \subseteq excused'
  BY <1>3, InsertShape
<1>4. ASSUME NEW c \in Calls, Remove(c) PROVE excused \subseteq excused'
  BY <1>4, RemoveShape
<1>5. CASE Restart
  BY <1>5, RestartShape
<1>6. CASE Quiet
  BY <1>6 DEF Quiet
<1> QED BY <1>1, <1>2, <1>3, <1>4, <1>5, <1>6, RequestShape, ReadShape, ListShape, SpawnListShape,
           SilentGetShape, EndShape, IdleShape DEF Next, Step

(* The five things that can happen to a document.                          *)
LEMMA DocStep ==
    ASSUME BoardInv, [Next]_vars, NEW t \in Keys
    PROVE  \/ docs'[t] = docs[t]
           \/ docs'[t] = None /\ \E c \in Calls : Remove(c)
           \/ \E c \in Calls : Save(c) /\ op[c].task = t /\ docs[t] # None /\ docs'[t] = Written(c)
           \/ Insert(t) /\ t \in Calls
           \/ \E c \in Calls : /\ SilentSet(c) /\ op[c].other = t /\ docs[t] \in Doc /\ op[c].copy \in Doc
                               /\ docs'[t] = SilentDoc(op[c])
<1>0. docs \in [Keys -> Doc \cup {None}]
  BY DEF BoardInv, BoardTypes
<1>1. CASE docs' = docs
  BY <1>1
<1>2. ASSUME NEW c \in Calls, Save(c), docs' # docs
      PROVE  docs'[t] = docs[t] \/ (op[c].task = t /\ docs[t] # None /\ docs'[t] = Written(c))
  BY <1>0, <1>2, SaveShape
<1>3. ASSUME NEW c \in Calls, Insert(c) PROVE docs'[t] = docs[t] \/ t = c
  BY <1>0, <1>3, InsertShape
<1>4. ASSUME NEW c \in Calls, SilentSet(c), docs' # docs
      PROVE  \/ docs'[t] = docs[t]
             \/ op[c].other = t /\ docs[t] \in Doc /\ op[c].copy \in Doc /\ docs'[t] = SilentDoc(op[c])
  BY <1>0, <1>4, SilentSetShape
<1>5. ASSUME NEW c \in Calls, Remove(c) PROVE docs'[t] = docs[t] \/ docs'[t] = None
  BY <1>0, <1>5, RemoveShape
<1>6. CASE Restart
  BY <1>6, RestartShape
<1>7. CASE Quiet
  BY <1>7 DEF Quiet
<1>8. CASE \E c \in Calls : Save(c)
  BY <1>1, <1>2, <1>8
<1>9. CASE \E c \in Calls : Insert(c)
  BY <1>3, <1>9
<1>10. CASE \E c \in Calls : SilentSet(c)
  BY <1>1, <1>4, <1>10
<1>11. CASE \E c \in Calls : Remove(c)
  BY <1>5, <1>11
<1> QED BY <1>6, <1>7, <1>8, <1>9, <1>10, <1>11, RequestShape, ReadShape, ListShape, SpawnListShape,
           SilentGetShape, EndShape, IdleShape DEF Next, Step

(* A write without the lock that found what it had read changes no more    *)
(* than the blockers it takes out.                                         *)
LEMMA SilentKeeps ==
    ASSUME BoardInv, NEW c \in Calls, SilentSet(c), NEW t \in Keys, op[c].other = t, docs[t] \in Doc,
           op[c].copy \in Doc, docs'[t] = SilentDoc(op[c]), "torn" \notin excused'
    PROVE  /\ docs'[t] # None
           /\ docs'[t].parent = docs[t].parent /\ docs'[t].recurrence = docs[t].recurrence
           /\ \/ op[c].kind = "move" /\ docs'[t] = docs[t]
              \/ /\ op[c].kind = "delete"
                 /\ "crossed" \notin excused' => docs'[t].blockedBy = docs[t].blockedBy \ op[c].gone
<1>1. /\ op[c].kind \in {"move", "delete"}
      /\ docs[t] = op[c].copy
      /\ "crossed" \notin excused' /\ op[c].kind = "delete" => Links[t] = op[c].links[t]
  <2>1. \/ op[c].copy = None \/ docs[op[c].other] = None
        \/ excused' = excused \cup {e \in {"torn"} : docs[op[c].other] # op[c].copy}
                       \cup {e \in {"crossed"} : op[c].kind = "delete"
                                /\ Links[op[c].other] # op[c].links[op[c].other]}
    BY SilentSetShape
  <2> QED BY <2>1, SilentSetShape, BoardAssumption
<1>2. CASE op[c].kind = "move"
  BY <1>1, <1>2, BoardAssumption DEF SilentDoc
<1>3. CASE op[c].kind = "delete"
  <2>1. docs'[t] = [docs[t] EXCEPT !.blockedBy = op[c].links[t].blockedBy \ op[c].gone]
    BY <1>1, <1>3 DEF SilentDoc
  <2>2. docs'[t].parent = docs[t].parent /\ docs'[t].recurrence = docs[t].recurrence
        /\ docs'[t].blockedBy = op[c].links[t].blockedBy \ op[c].gone
    BY <2>1 DEF Doc
  <2>3. docs'[t] # None
    <3>1. docs' \in [Keys -> Doc \cup {None}] => docs'[t] \in Doc \cup {None}
      OBVIOUS
    <3>2. SilentDoc(op[c]) \in Doc
      <4>1. op[c].links[t] \in LinkDoc
        <5>1. op[c].links \in LinkTables /\ t \in Listed(op[c].links)
          BY <1>3, SilentSetShape
        <5> QED BY <5>1 DEF LinkTables, Listed
      <4>2. op[c].links[t].blockedBy \ op[c].gone \in SUBSET Keys
        BY <4>1 DEF LinkDoc
      <4> QED BY <1>1, <1>3, <4>2 DEF SilentDoc, Doc
    <3> QED BY <3>2, BoardAssumption
  <2>4. "crossed" \notin excused' => docs'[t].blockedBy = docs[t].blockedBy \ op[c].gone
    BY <1>1, <1>3, <2>2, LinksOf, BoardAssumption
  <2> QED BY <1>3, <2>2, <2>3, <2>4
<1> QED BY <1>1, <1>2, <1>3

(* What a write under the lock changes, by the kind of request.            *)
LEMMA WrittenParts ==
    ASSUME BoardInv, NEW c \in Calls, op[c].pc = "put"
    PROVE  /\ op[c].kind # "convert" => Written(c).parent = op[c].cur.parent
           /\ op[c].kind = "convert" => /\ Written(c).parent = op[c].arg
                                        /\ Written(c).completed = op[c].cur.completed
           /\ Written(c).recurrence => op[c].cur.recurrence
           /\ op[c].cur.recurrence /\ ~Written(c).recurrence => Recurs(c)
           /\ Recurs(c) => ~Written(c).recurrence /\ op[c].kind # "convert"
           /\ Written(c).blockedBy =
                IF op[c].kind = "block" THEN op[c].cur.blockedBy \cup {op[c].arg}
                ELSE IF op[c].kind = "unblock" THEN op[c].cur.blockedBy \ {op[c].arg}
                ELSE op[c].cur.blockedBy
<1> DEFINE s == op[c]
           cur == s.cur
<1>1. s.kind \in Kinds \ {"create", "delete"} /\ cur \in Doc /\ Past(cur) /\ Asked(s)
  <2>1. s \in OpRecord /\ InHand(s) /\ Past(cur)
    BY DEF BoardInv, BoardTypes, History
  <2> QED BY <2>1 DEF InHand, OpRecord
<1>2. cur.completed => ~cur.recurrence
  BY <1>1, BoardAssumption DEF Past
<1>3. /\ Completed(cur).parent = cur.parent /\ Completed(cur).blockedBy = cur.blockedBy
      /\ Completed(cur).completed = TRUE /\ Completed(cur).recurrence = FALSE
  BY <1>1 DEF Completed, Doc
<1>4. /\ Reopened(cur).parent = cur.parent /\ Reopened(cur).blockedBy = cur.blockedBy
      /\ Reopened(cur).completed = FALSE /\ Reopened(cur).recurrence = cur.recurrence
  BY <1>1 DEF Reopened, Doc
<1> DEFINE w == Written(c)
<1> HIDE DEF cur, w
<1>5. CASE s.kind \in {"complete", "reopen"}
  <2>1. CASE s.kind = "complete"
    <3>1. w = Completed(cur)
      BY <2>1 DEF Written, w, cur
    <3> QED BY <1>2, <1>3, <2>1, <3>1 DEF Recurs, w, cur
  <2>2. CASE s.kind = "reopen"
    <3>1. w = Reopened(cur)
      BY <2>2 DEF Written, w, cur
    <3>2. /\ w.parent = cur.parent /\ w.blockedBy = cur.blockedBy
          /\ w.completed = FALSE /\ w.recurrence = cur.recurrence
      BY <1>4, <3>1
    <3> QED BY <2>2, <3>2 DEF Recurs, w, cur
  <2> QED BY <1>5, <2>1, <2>2
<1>6. CASE s.kind = "move"
  <2>1. w = Moved(cur, s.arg)
    BY <1>6 DEF Written, w, cur
  <2>2. /\ [cur EXCEPT !.inDone = s.arg].parent = cur.parent
        /\ [cur EXCEPT !.inDone = s.arg].blockedBy = cur.blockedBy
        /\ [cur EXCEPT !.inDone = s.arg].completed = cur.completed
        /\ [cur EXCEPT !.inDone = s.arg].recurrence = cur.recurrence
    BY <1>1 DEF Doc
  <2>3. w \in {cur, Completed(cur), Reopened(cur), [cur EXCEPT !.inDone = s.arg]}
    BY <2>1 DEF Moved
  <2>4. /\ w.parent = cur.parent /\ w.blockedBy = cur.blockedBy
        /\ \/ w.completed = TRUE /\ w.recurrence = FALSE
           \/ w.completed = FALSE /\ w.recurrence = cur.recurrence
           \/ w.completed = cur.completed /\ w.recurrence = cur.recurrence
    BY <1>3, <1>4, <2>2, <2>3
  <2> QED BY <1>2, <1>6, <2>4 DEF Recurs, w, cur
<1>7. CASE s.kind \in {"comment", "convert", "block", "unblock"}
  <2>1. /\ w.completed = cur.completed /\ w.recurrence = cur.recurrence
        /\ w.parent = (IF s.kind = "convert" THEN s.arg ELSE cur.parent)
        /\ w.blockedBy = IF s.kind = "block" THEN cur.blockedBy \cup {s.arg}
                         ELSE IF s.kind = "unblock" THEN cur.blockedBy \ {s.arg} ELSE cur.blockedBy
    <3>1. CASE s.kind = "comment"
      <4>1. w = [cur EXCEPT !.comments = @ \cup {c}]
        BY <3>1 DEF Written, w, cur
      <4> QED BY <1>1, <3>1, <4>1 DEF Doc
    <3>2. CASE s.kind = "convert"
      <4>1. w = [cur EXCEPT !.parent = s.arg, !.inDone = IF s.arg = None THEN @ ELSE s.links[s.arg].inDone]
        BY <3>2 DEF Written, w, cur
      <4> QED BY <1>1, <3>2, <4>1 DEF Doc
    <3>3. CASE s.kind = "block"
      <4>1. w = [cur EXCEPT !.blockedBy = @ \cup {s.arg}]
        BY <3>3 DEF Written, w, cur
      <4> QED BY <1>1, <3>3, <4>1 DEF Doc
    <3>4. CASE s.kind = "unblock"
      <4>1. w = [cur EXCEPT !.blockedBy = @ \ {s.arg}]
        BY <3>4 DEF Written, w, cur
      <4> QED BY <1>1, <3>4, <4>1 DEF Doc
    <3> QED BY <1>7, <3>1, <3>2, <3>3, <3>4
  <2> QED BY <1>7, <2>1 DEF Recurs, w, cur
<1> QED BY <1>1, <1>5, <1>6, <1>7 DEF Kinds

-----------------------------------------------------------------------------
(* While nothing old was put back: a request under way has seen the        *)
(* recurrence and the parent its task has now, and a task that still       *)
(* recurs, or whose completion is about to be written, has no successor.   *)
Mine(c) == Holding(c) \/ Spawning(c)

AsRead(c) ==
    Mine(c) /\ docs[op[c].task] # None =>
        /\ docs[op[c].task].parent = op[c].cur.parent
        /\ Holding(c) => docs[op[c].task].recurrence = op[c].cur.recurrence
        /\ Spawning(c) => ~docs[op[c].task].recurrence

Counted(t) ==
    t \in DOMAIN next =>
        /\ next[t] <= 1
        /\ docs[t] # None /\ docs[t].recurrence => next[t] = 0
        /\ \A c \in Calls :
              op[c].task = t /\ (Spawning(c) \/ (Holding(c) /\ op[c].cur.recurrence)) => next[t] = 0

SeriesInv ==
    "torn" \notin excused => (\A c \in Calls : AsRead(c)) /\ (\A t \in Keys : Counted(t))

LEMMA MineIs ==
    ASSUME BoardInv, NEW c \in Calls, Mine(c)
    PROVE  /\ op[c].task \in Keys /\ op[c].kind # "create" /\ Active(c) /\ op[c].pc # "queued"
           /\ op[c].pc \in {"list", "put", "get", "set", "insert"} /\ op[c].cur \in Doc
<1>1. op[c] \in OpRecord /\ InHand(op[c])
  BY DEF BoardInv, BoardTypes
<1> QED BY <1>1 DEF Mine, Holding, Spawning, InHand, Asked, Active

LEMMA OneMine ==
    ASSUME BoardInv, OneWriter, NEW c \in Calls, NEW d \in Calls, Mine(c), op[c].task = op[d].task,
           Active(d), op[d].kind # "create", op[d].pc # "queued"
    PROVE  c = d
BY MineIs DEF OneWriter, Inside

(* A request that is at work on its task after a step was before, or has   *)
(* just read it, or is about to create its successor.                      *)
LEMMA MineStep ==
    ASSUME BoardInv, [Next]_vars, NEW c \in Calls, Mine(c)'
    PROVE  \/ /\ Mine(c) /\ op'[c].task = op[c].task /\ op'[c].cur = op[c].cur
              /\ Holding(c)' <=> Holding(c)
           \/ /\ Read(c) /\ Quiet /\ Holding(c)' /\ ~Spawning(c)' /\ op'[c].task = op[c].task
              /\ op'[c].cur = docs[op[c].task]
           \/ /\ Save(c) /\ Recurs(c) /\ Holding(c) /\ Spawning(c)' /\ ~Holding(c)'
              /\ op'[c].task = op[c].task /\ op'[c].cur = op[c].cur
<1>0. op[c] \in OpRecord /\ InHand(op[c])
  BY DEF BoardInv, BoardTypes
<1>1. op'[c] = op[c] => Mine(c) /\ op'[c].task = op[c].task /\ op'[c].cur = op[c].cur
                        /\ (Holding(c)' <=> Holding(c))
  BY DEF Mine, Holding, Spawning
<1>2. ASSUME NEW e \in Calls, e # c, Others(e) PROVE op'[c] = op[c]
  BY <1>2 DEF Others
<1>3. ~Request(c)
  BY RequestShape DEF Mine, Holding, Spawning
<1>4. CASE Read(c)
  <2>1. ~op[c].spawn
    BY <1>0, <1>4, ReadShape DEF InHand
  <2> QED BY <1>4, <2>1, ReadShape DEF Mine, Holding, Spawning, SameRequest
<1>5. CASE List(c)
  BY <1>5, ListShape DEF Mine, Holding, Spawning, SameRequest, SameRead
<1>6. CASE SpawnList(c)
  BY <1>6, SpawnListShape DEF Mine, Holding, Spawning, SameRequest, SameRead
<1>7. CASE Save(c)
  BY <1>7, SaveShape DEF Mine, Holding, Spawning, SameRequest, SameRead
<1>8. ~Insert(c)
  BY InsertShape DEF Mine, Holding, Spawning
<1>9. CASE SilentGet(c)
  <2>1. ~op[c].spawn
    BY <1>0, <1>9, SilentGetShape DEF InHand
  <2> QED BY <1>9, <2>1, SilentGetShape DEF Mine, Holding, Spawning, SameRequest, SameRead
<1>10. CASE SilentSet(c)
  BY <1>10, SilentSetShape DEF Mine, Holding, Spawning, SameRequest, SameRead
<1>11. ~Remove(c)
  BY RemoveShape DEF Mine, Holding, Spawning, SameRequest
<1>12. ~End(c)
  BY EndShape, OverFields DEF Mine, Holding, Spawning
<1>13. CASE Restart
  <2>1. ~Active(c) => op'[c] = op[c]
    BY <1>13, RestartShape
  <2>2. ~Active(c)
    BY <1>13, RestartShape, OverFields DEF Mine, Holding, Spawning
  <2> QED BY <2>1, <2>2, <1>1
<1>14. CASE UNCHANGED vars \/ \E e \in Calls : Release(e)
  BY <1>1, <1>14, IdleShape
<1>15. ASSUME NEW e \in Calls, e # c, Request(e) \/ Step(e) PROVE op'[c] = op[c]
  BY <1>2, <1>15, RequestShape, ReadShape, ListShape, SpawnListShape, SaveShape, InsertShape,
     SilentGetShape, SilentSetShape, RemoveShape, EndShape, IdleShape, ZenonT(30) DEF Step
<1>16. CASE Request(c) \/ Step(c)
  BY <1>3, <1>4, <1>5, <1>6, <1>7, <1>8, <1>9, <1>10, <1>11, <1>12, <1>14, <1>16 DEF Step
<1> QED BY <1>1, <1>13, <1>14, <1>15, <1>16 DEF Next

LEMMA SeriesInit == Init => SeriesInv
<1> SUFFICES ASSUME Init PROVE SeriesInv
  OBVIOUS
<1>1. \A c \in Calls : ~Mine(c)
  BY DEF Init, Idle, Mine, Holding, Spawning
<1>2. \A c \in Calls : ~Holding(c) /\ ~Spawning(c)
  BY <1>1 DEF Mine
<1> QED BY <1>1, <1>2 DEF Init, SeriesInv, AsRead, Counted

(* What changes a document that somebody works on.                         *)
LEMMA MineDocStep ==
    ASSUME BoardInv, Unborn, OneWriter, [Next]_vars, "torn" \notin excused',
           NEW c \in Calls, Mine(c), docs'[op[c].task] # None, ~Save(c)
    PROVE  /\ docs[op[c].task] # None
           /\ docs'[op[c].task].parent = docs[op[c].task].parent
           /\ docs'[op[c].task].recurrence = docs[op[c].task].recurrence
<1> DEFINE t == op[c].task
<1>1. t \in Keys /\ op[c].kind # "create" /\ Active(c)
  BY MineIs
<1>2. CASE docs'[t] = docs[t]
  BY <1>2
<1>3. ASSUME NEW d \in Calls, Save(d), op[d].task = t PROVE FALSE
  <2>1. Active(d) /\ op[d].kind # "create" /\ op[d].pc # "queued"
    BY <1>3, SaveShape DEF Active
  <2> QED BY <1>3, <2>1, OneMine
<1>4. ~(Insert(t) /\ t \in Calls)
  <2> SUFFICES ASSUME Insert(t), t \in Calls PROVE FALSE
    OBVIOUS
  <2>1. Early(t)
    BY InsertShape DEF Early
  <2> QED BY <2>1, <1>1 DEF Unborn
<1>5. ASSUME NEW d \in Calls, SilentSet(d), op[d].other = t, docs[t] \in Doc, op[d].copy \in Doc,
             docs'[t] = SilentDoc(op[d])
      PROVE  docs[t] # None /\ docs'[t].parent = docs[t].parent /\ docs'[t].recurrence = docs[t].recurrence
  BY <1>1, <1>5, SilentKeeps, BoardAssumption
<1> QED BY <1>1, <1>2, <1>3, <1>4, <1>5, DocStep

LEMMA AsReadStep ==
    ASSUME BoardInv, BoardInv', Unborn, OneWriter, SeriesInv, [Next]_vars, "torn" \notin excused', NEW c \in Calls
    PROVE  AsRead(c)'
<1> SUFFICES ASSUME Mine(c)', docs'[op'[c].task] # None
             PROVE  /\ docs'[op'[c].task].parent = op'[c].cur.parent
                    /\ Holding(c)' => docs'[op'[c].task].recurrence = op'[c].cur.recurrence
                    /\ Spawning(c)' => ~docs'[op'[c].task].recurrence
  BY DEF AsRead
<1>0. AsRead(c)
  BY ExcusedGrows DEF SeriesInv
<1>1. Spawning(c)' => ~Holding(c)'
  BY DEF Spawning, Holding
<1>2. Spawning(c) => ~Holding(c)
  BY DEF Spawning, Holding
<1>3. CASE Save(c)
  <2>1. Holding(c) /\ Spawning(c)' /\ Recurs(c) /\ op'[c].task = op[c].task /\ op'[c].cur = op[c].cur
    <3>1. Holding(c) /\ ~Read(c) /\ (op'[c].pc # "list" => ~op'[c].spawn)
      BY <1>3, SaveShape, ReadShape DEF Holding
    <3>2. op'[c].pc \in {"list", "end", "refused"}
      BY <1>3, SaveShape
    <3>3. op'[c].pc = "list"
      BY <3>1, <3>2 DEF Mine, Holding, Spawning
    <3> QED BY <1>3, <3>1, <3>3, SaveShape DEF Spawning, SameRequest, SameRead
  <2>2. docs[op[c].task] # None /\ docs'[op[c].task] = Written(c)
    <3>1. docs \in [Keys -> Doc \cup {None}]
      BY DEF BoardInv, BoardTypes
    <3> QED BY <3>1, <1>3, <2>1, SaveShape
  <2>3. op[c].pc = "put"
    BY <1>3, SaveShape
  <2> QED BY <2>1, <2>2, <2>3, <1>1, WrittenParts
<1>4. CASE Read(c) /\ Quiet /\ Holding(c)' /\ ~Spawning(c)' /\ op'[c].task = op[c].task
           /\ op'[c].cur = docs[op[c].task]
  BY <1>4 DEF Quiet
<1>5. CASE Mine(c) /\ ~Save(c) /\ op'[c].task = op[c].task /\ op'[c].cur = op[c].cur
           /\ (Holding(c)' <=> Holding(c))
  <2>1. /\ docs[op[c].task] # None
        /\ docs'[op[c].task].parent = docs[op[c].task].parent
        /\ docs'[op[c].task].recurrence = docs[op[c].task].recurrence
    BY <1>5, MineDocStep
  <2>2. Spawning(c)' => Spawning(c)
    BY <1>1, <1>5 DEF Mine
  <2> QED BY <1>0, <1>5, <2>1, <2>2 DEF AsRead
<1> QED BY <1>3, <1>4, <1>5, MineStep

LEMMA CountedStep ==
    ASSUME BoardInv, BoardInv', Marks, Unborn, OneWriter, SeriesInv, [Next]_vars, "torn" \notin excused',
           NEW t \in Keys
    PROVE  Counted(t)'
<1> SUFFICES ASSUME t \in DOMAIN next'
             PROVE  /\ next'[t] <= 1
                    /\ docs'[t] # None /\ docs'[t].recurrence => next'[t] = 0
                    /\ \A c \in Calls : op'[c].task = t /\ (Spawning(c)' \/ (Holding(c)' /\ op'[c].cur.recurrence))
                                           => next'[t] = 0
  BY DEF Counted
<1>0. Counted(t) /\ (\A c \in Calls : AsRead(c)) /\ next \in [DOMAIN next -> Nat]
  BY ExcusedGrows DEF SeriesInv, Marks
<1>1. CASE next' = next
  <2>1. t \in DOMAIN next /\ next[t] <= 1
    BY <1>0, <1>1 DEF Counted
  <2>2. ASSUME docs'[t] # None, docs'[t].recurrence PROVE next[t] = 0
    <3>1. CASE docs'[t] = docs[t]
      BY <1>0, <2>1, <2>2, <3>1 DEF Counted
    <3>2. ASSUME NEW c \in Calls, Save(c), op[c].task = t, docs'[t] = Written(c) PROVE next[t] = 0
      <4>1. op[c].pc = "put" /\ Holding(c)
        BY <3>2, SaveShape DEF Holding
      <4>2. op[c].cur.recurrence
        BY <2>2, <3>2, <4>1, WrittenParts
      <4> QED BY <1>0, <2>1, <3>2, <4>1, <4>2 DEF Counted
    <3>3. ~(Insert(t) /\ t \in Calls)
      <4> SUFFICES ASSUME Insert(t), t \in Calls PROVE FALSE
        OBVIOUS
      <4>1. Early(t)
        BY InsertShape DEF Early
      <4> QED BY <2>1, <4>1 DEF Unborn
    <3>4. ASSUME NEW d \in Calls, SilentSet(d), op[d].other = t, docs[t] \in Doc, op[d].copy \in Doc,
                 docs'[t] = SilentDoc(op[d])
          PROVE  next[t] = 0
      <4>1. docs[t] # None /\ docs'[t].recurrence = docs[t].recurrence
        BY <3>4, SilentKeeps, BoardAssumption
      <4> QED BY <1>0, <2>1, <2>2, <4>1 DEF Counted
    <3> QED BY <2>2, <3>1, <3>2, <3>3, <3>4, DocStep
  <2>3. ASSUME NEW c \in Calls, op'[c].task = t, Spawning(c)' \/ (Holding(c)' /\ op'[c].cur.recurrence)
        PROVE  next[t] = 0
    <3>0. Mine(c)'
      BY <2>3 DEF Mine
    <3>1. Spawning(c)' => ~Holding(c)'
      BY DEF Spawning, Holding
    <3>2. CASE Mine(c) /\ op'[c].task = op[c].task /\ op'[c].cur = op[c].cur /\ (Holding(c)' <=> Holding(c))
      <4>1. Spawning(c) \/ (Holding(c) /\ op[c].cur.recurrence)
        BY <2>3, <3>1, <3>2 DEF Mine
      <4> QED BY <1>0, <2>1, <2>3, <3>2, <4>1 DEF Counted
    <3>3. CASE Read(c) /\ Quiet /\ Holding(c)' /\ ~Spawning(c)' /\ op'[c].task = op[c].task
               /\ op'[c].cur = docs[op[c].task]
      <4>1. op'[c].cur \in Doc
        <5>1. op'[c] \in OpRecord /\ InHand(op'[c])
          BY DEF BoardInv, BoardTypes
        <5> QED BY <3>0, <5>1 DEF Mine, Holding, Spawning, InHand
      <4>2. docs[t] # None /\ docs[t].recurrence
        BY <2>3, <3>3, <4>1, BoardAssumption
      <4> QED BY <1>0, <2>1, <4>2 DEF Counted
    <3>4. CASE Save(c) /\ Recurs(c) /\ Holding(c) /\ op'[c].task = op[c].task
      <4>1. op[c].cur.recurrence
        BY <3>4 DEF Recurs
      <4> QED BY <1>0, <2>1, <2>3, <3>4, <4>1 DEF Counted
    <3> QED BY <3>0, <3>2, <3>3, <3>4, MineStep
  <2> QED BY <1>1, <2>1, <2>2, <2>3
<1>2. ASSUME NEW e \in Calls, Insert(e), op[e].spawn PROVE Counted(t)'
  <2>1. next' = [k \in DOMAIN next \cup {e} |-> IF k = e THEN 0 ELSE IF k = op[e].task THEN next[k] + 1 ELSE next[k]]
    BY <1>2, InsertShape
  <2>2. Spawning(e) /\ Mine(e) /\ ~Spawning(e)' /\ ~Holding(e)' /\ Others(e)
    BY <1>2, InsertShape DEF Spawning, Holding, Mine
  <2>3. \A k \in Keys : k # e => docs'[k] = docs[k]
    BY <1>2, InsertShape DEF BoardInv, BoardTypes
  <2>4. ASSUME NEW c \in Calls, Spawning(c)' \/ (Holding(c)' /\ op'[c].cur.recurrence)
        PROVE  c # e /\ op'[c] = op[c] /\ (Spawning(c) \/ (Holding(c) /\ op[c].cur.recurrence))
    <3>1. c # e
      BY <2>2, <2>4
    <3>2. op'[c] = op[c]
      BY <2>2, <3>1 DEF Others
    <3> QED BY <2>4, <3>1, <3>2 DEF Spawning, Holding
  <2>5. CASE t = e
    BY <2>1, <2>5 DEF Counted
  <2>6. CASE t # e /\ t = op[e].task
    <3>1. t \in DOMAIN next /\ next[t] = 0
      BY <1>0, <2>1, <2>2, <2>6 DEF Counted
    <3>2. next'[t] = 1
      BY <2>1, <2>6, <3>1
    <3>3. ~(docs'[t] # None /\ docs'[t].recurrence)
      BY <1>0, <2>2, <2>3, <2>6 DEF AsRead
    <3>4. ASSUME NEW c \in Calls, op'[c].task = t, Spawning(c)' \/ (Holding(c)' /\ op'[c].cur.recurrence)
          PROVE  FALSE
      <4>1. c # e /\ op'[c] = op[c] /\ Mine(c)
        BY <2>4, <3>4 DEF Mine
      <4>2. op[c].task = op[e].task /\ Active(c) /\ op[c].kind # "create" /\ op[c].pc # "queued"
        BY <2>6, <3>4, <4>1, MineIs
      <4>3. e = c
        BY <2>2, <4>2, OneMine
      <4> QED BY <4>1, <4>3
    <3> QED BY <3>2, <3>3, <3>4 DEF Counted
  <2>7. CASE t # e /\ t # op[e].task
    <3>1. t \in DOMAIN next /\ next'[t] = next[t] /\ docs'[t] = docs[t]
      BY <2>1, <2>3, <2>7
    <3> QED BY <1>0, <2>4, <3>1 DEF Counted
  <2> QED BY <2>5, <2>6, <2>7
<1>3. next' = next \/ \E e \in Calls : Insert(e) /\ op[e].spawn
  <2>1. ASSUME NEW e \in Calls, Insert(e) PROVE next' = next \/ op[e].spawn
    BY <2>1, InsertShape
  <2> QED BY <2>1, RequestShape, ReadShape, ListShape, SpawnListShape, SaveShape, SilentGetShape,
             SilentSetShape, RemoveShape, EndShape, RestartShape, IdleShape DEF Next, Step, Quiet
<1> QED BY <1>1, <1>2, <1>3 DEF Counted

LEMMA SeriesStep ==
    BoardInv /\ BoardInv' /\ Marks /\ Unborn /\ OneWriter /\ SeriesInv /\ [Next]_vars => SeriesInv'
<1> SUFFICES ASSUME BoardInv, BoardInv', Marks, Unborn, OneWriter, SeriesInv, [Next]_vars,
                    "torn" \notin excused'
             PROVE  (\A c \in Calls : AsRead(c)') /\ (\A t \in Keys : Counted(t)')
  BY DEF SeriesInv
<1> QED BY AsReadStep, CountedStep

-----------------------------------------------------------------------------
(* What a request is about to write has been checked against the list it   *)
(* read.                                                                   *)
Checked(c) ==
    LET s == op[c]
    IN  /\ Active(c) /\ s.kind = "block" => s.arg # s.task
        /\ s.pc = "put" /\ s.kind \in {"convert", "block"} => s.links \in LinkTables /\ ~Refused(s, s.links)
        /\ s.pc = "insert" => s.links \in LinkTables /\ ParentOk(s.links, c, NewParent(c))

LEMMA CheckedInit == Init => \A c \in Calls : Checked(c)
<1> SUFFICES ASSUME Init, NEW c \in Calls PROVE Checked(c)
  OBVIOUS
<1>1. op[c].pc = "idle"
  BY DEF Init, Idle
<1> QED BY <1>1 DEF Checked, Active

LEMMA RefusedSame ==
    ASSUME NEW s, NEW r, NEW l, r.kind = s.kind, r.task = s.task, r.arg = s.arg
    PROVE  Refused(r, l) <=> Refused(s, l)
BY DEF Refused

LEMMA CheckedStep ==
    ASSUME BoardInv, [Next]_vars, NEW c \in Calls, Checked(c)
    PROVE  Checked(c)'
<1>0. op[c] \in OpRecord /\ InHand(op[c]) /\ Links \in LinkTables
  BY LinksType DEF BoardInv, BoardTypes
<1>1. op'[c] = op[c] => Checked(c)'
  BY DEF Checked, Active, NewParent
<1>2. CASE Request(c)
  BY <1>2, RequestShape DEF Checked, Active
<1>3. CASE Read(c)
  BY <1>3, ReadShape DEF Checked, Active, SameRequest
<1>4. CASE List(c)
  <2>1. Refused(op'[c], Links) <=> Refused(op[c], Links)
    BY <1>4, ListShape, RefusedSame DEF SameRequest
  <2>2. NewParent(c)' = op[c].arg
    BY <1>4, ListShape DEF NewParent, SameRequest
  <2>3. /\ op'[c].pc = "put" /\ op'[c].kind \in {"convert", "block"} => ~Refused(op'[c], Links)
        /\ op'[c].pc = "insert" => ParentOk(Links, c, NewParent(c)')
        /\ op'[c].links = Links
    BY <1>4, <2>1, <2>2, ListShape DEF SameRequest
  <2>4. Active(c)' /\ op'[c].kind = "block" => op'[c].arg # op'[c].task
    BY <1>4, ListShape DEF Checked, Active, SameRequest
  <2> QED BY <1>0, <2>3, <2>4 DEF Checked
<1>5. CASE SpawnList(c)
  <2>1. NewParent(c)' = op[c].cur.parent
    BY <1>5, SpawnListShape DEF NewParent, SameRequest, SameRead
  <2>2. op'[c].links = Links /\ op'[c].pc # "put" /\ (op'[c].pc = "insert" => ParentOk(Links, c, NewParent(c)'))
    BY <1>5, <2>1, SpawnListShape
  <2>3. Active(c)' /\ op'[c].kind = "block" => op'[c].arg # op'[c].task
    BY <1>5, SpawnListShape DEF Checked, Active, SameRequest
  <2> QED BY <1>0, <2>2, <2>3 DEF Checked
<1>6. CASE Save(c)
  BY <1>6, SaveShape DEF Checked, Active, SameRequest
<1>7. CASE Insert(c)
  BY <1>7, InsertShape DEF Checked, Active, SameRequest
<1>8. CASE SilentGet(c)
  BY <1>8, SilentGetShape DEF Checked, Active, SameRequest
<1>9. CASE SilentSet(c)
  BY <1>9, SilentSetShape DEF Checked, Active, SameRequest
<1>10. CASE Remove(c)
  BY <1>10, RemoveShape DEF Checked, Active, SameRequest
<1>11. CASE End(c)
  BY <1>11, EndShape, OverFields DEF Checked, Active
<1>12. CASE Restart
  BY <1>1, <1>12, RestartShape, OverFields DEF Checked, Active
<1>13. CASE UNCHANGED vars \/ \E e \in Calls : Release(e)
  BY <1>1, <1>13, IdleShape
<1>14. ASSUME NEW e \in Calls, e # c, Request(e) \/ Step(e) PROVE op'[c] = op[c]
  BY <1>14, RequestShape, ReadShape, ListShape, SpawnListShape, SaveShape, InsertShape,
     SilentGetShape, SilentSetShape, RemoveShape, EndShape, IdleShape, SMTT(20), ZenonT(40) DEF Step, Others
<1>15. CASE Request(c) \/ Step(c)
  BY <1>2, <1>3, <1>4, <1>5, <1>6, <1>7, <1>8, <1>9, <1>10, <1>11, <1>13, <1>15 DEF Step
<1> QED BY <1>1, <1>12, <1>13, <1>14, <1>15 DEF Next

-----------------------------------------------------------------------------
(* The tree.                                                               *)
LEMMA LinkTable == ASSUME NEW l \in LinkTables PROVE Table(l)
BY DEF LinkTables, LinkDoc, Table, Tasks

LEMMA LinksParent ==
    ASSUME BoardInv, NEW t \in Keys
    PROVE  Parent(Links, t) = IF docs[t] = None THEN None ELSE docs[t].parent
<1>1. t # None
  BY LockAssumption
<1> QED BY <1>1, LinksOf DEF Parent

(* What was checked against a list still holds if the tree is the same.    *)
LEMMA StillOk ==
    ASSUME BoardInv, NEW l \in LinkTables, Tree(Links) = Tree(l), NEW t \in Keys, NEW p \in Tasks,
           ParentOk(l, t, p)
    PROVE  ParentOk(Links, t, p)
<1>1. PICK m \in LinkTables : m = Links
  BY LinksType DEF BoardInv
<1>2. Table(l) /\ Table(m)
  BY LinkTable
<1>3. t \in Tasks
  BY DEF Tasks
<1> QED BY <1>1, <1>2, <1>3, SameTree

LEMMA SaveOk ==
    ASSUME BoardInv, NEW c \in Calls, Checked(c), Save(c), excused' = {}, docs[op[c].task] # None
    PROVE  /\ docs[op[c].task] = op[c].cur
           /\ op[c].kind = "convert" => op[c].arg \in Tasks /\ ParentOk(Links, op[c].task, op[c].arg)
           /\ op[c].kind = "block" => /\ op[c].arg \in Keys /\ docs[op[c].arg] # None
                                      /\ op[c].task \notin docs[op[c].arg].blockedBy
                                      /\ op[c].arg # op[c].task
<1>1. ~Outdated(op[c]) /\ op[c].pc = "put" /\ op[c].task \in Keys
  BY SaveShape
<1>2. docs[op[c].task] = op[c].cur
  BY <1>1 DEF Outdated
<1>3. InHand(op[c]) /\ Asked(op[c])
  BY <1>1 DEF BoardInv, BoardTypes, InHand
<1>4. ASSUME op[c].kind = "convert" PROVE op[c].arg \in Tasks /\ ParentOk(Links, op[c].task, op[c].arg)
  <2>1. op[c].arg \in Tasks
    BY <1>3, <1>4 DEF Asked, Tasks
  <2>2. Tree(Links) = Tree(op[c].links)
    BY <1>1, <1>4 DEF Outdated
  <2>3. op[c].links \in LinkTables /\ ParentOk(op[c].links, op[c].task, op[c].arg)
    BY <1>1, <1>4 DEF Checked, Refused
  <2> QED BY <1>1, <2>1, <2>2, <2>3, StillOk
<1>5. ASSUME op[c].kind = "block"
      PROVE  /\ op[c].arg \in Keys /\ docs[op[c].arg] # None
             /\ op[c].task \notin docs[op[c].arg].blockedBy
             /\ op[c].arg # op[c].task
  <2>1. op[c].arg \in Keys
    BY <1>3, <1>5 DEF Asked
  <2>2. Links[op[c].arg] = op[c].links[op[c].arg]
    BY <1>1, <1>5 DEF Outdated
  <2>3. op[c].links[op[c].arg] # None /\ op[c].task \notin op[c].links[op[c].arg].blockedBy
    BY <1>1, <1>5 DEF Checked, Refused
  <2>4. op[c].arg # op[c].task
    BY <1>1, <1>5 DEF Checked, Active
  <2> QED BY <2>1, <2>2, <2>3, <2>4, LinksOf
<1> QED BY <1>2, <1>4, <1>5

LEMMA InsertOk ==
    ASSUME BoardInv, Unborn, NEW c \in Calls, Checked(c), Insert(c), excused' = {}
    PROVE  c \in Keys /\ docs[c] = None /\ NewParent(c) \in Tasks /\ ParentOk(Links, c, NewParent(c))
<1>1. c \in Keys /\ op[c].pc = "insert" /\ docs[c] = None
  BY InsertShape, BoardAssumption DEF Unborn, Early
<1>2. NewParent(c) \in Tasks
  <2>1. op[c] \in OpRecord /\ InHand(op[c]) /\ Asked(op[c])
    BY <1>1 DEF BoardInv, BoardTypes, InHand
  <2>2. CASE op[c].spawn
    BY <1>1, <2>1, <2>2 DEF InHand, NewParent, Doc, Tasks
  <2>3. CASE ~op[c].spawn
    BY <1>1, <2>1, <2>3 DEF InHand, Asked, NewParent, Tasks
  <2> QED BY <2>2, <2>3
<1>3. CASE NewParent(c) = None
  BY <1>1, <1>2, <1>3 DEF ParentOk
<1>4. CASE NewParent(c) # None
  <2>1. Tree(Links) = Tree(op[c].links)
    BY <1>4, InsertShape
  <2>2. op[c].links \in LinkTables /\ ParentOk(op[c].links, c, NewParent(c))
    BY <1>1 DEF Checked
  <2> QED BY <1>1, <1>2, <2>1, <2>2, StillOk
<1> QED BY <1>3, <1>4

-----------------------------------------------------------------------------
(* The list of a board.                                                    *)
Board == [Keys -> Doc \cup {None}]
Listing(d) == [t \in Keys |-> IF d[t] = None THEN None
                  ELSE [parent |-> d[t].parent, blockedBy |-> d[t].blockedBy, inDone |-> d[t].inDone]]

LEMMA LinksListing == Links = Listing(docs) /\ Links' = Listing(docs')
BY DEF Links, Listing

LEMMA ListingOf ==
    ASSUME NEW d \in Board
    PROVE  /\ Listing(d) \in LinkTables /\ Table(Listing(d))
           /\ \A t \in Keys :
                /\ Listing(d)[t] = None <=> d[t] = None
                /\ t \in Listed(Listing(d)) <=> d[t] # None
                /\ d[t] # None => /\ Listing(d)[t].parent = d[t].parent
                                  /\ Listing(d)[t].blockedBy = d[t].blockedBy
                /\ Parent(Listing(d), t) = IF d[t] = None THEN None ELSE d[t].parent
<1>1. ASSUME NEW t \in Keys
      PROVE  /\ Listing(d)[t] \in LinkDoc \cup {None}
             /\ Listing(d)[t] = None <=> d[t] = None
             /\ d[t] # None => /\ Listing(d)[t].parent = d[t].parent
                               /\ Listing(d)[t].blockedBy = d[t].blockedBy
  <2>1. CASE d[t] = None
    BY <2>1 DEF Listing
  <2>2. CASE d[t] # None
    <3>1. d[t] \in Doc
      BY <2>2 DEF Board
    <3>2. Listing(d)[t] = [parent |-> d[t].parent, blockedBy |-> d[t].blockedBy, inDone |-> d[t].inDone]
      BY <2>2 DEF Listing
    <3>3. Listing(d)[t] \in LinkDoc
      BY <3>1, <3>2 DEF Doc, LinkDoc
    <3> QED BY <2>2, <3>2, <3>3, BoardAssumption
  <2> QED BY <2>1, <2>2
<1>2. Listing(d) \in LinkTables
  BY <1>1 DEF LinkTables, Listing
<1>3. None \notin Keys
  BY LockAssumption
<1> QED BY <1>1, <1>2, <1>3, LinkTable DEF Listed, Parent

LEMMA TreeCut ==
    ASSUME NEW d \in Board, NEW e \in Board, TreeOk(Listing(d)),
           \A k \in Keys : e[k] # None => \/ d[k] # None /\ e[k].parent = d[k].parent
                                          \/ e[k].parent = None
    PROVE  TreeOk(Listing(e))
<1>1. Table(Listing(d)) /\ Table(Listing(e))
  BY ListingOf
<1>2. \A k \in Keys : Parent(Listing(e), k) \in {Parent(Listing(d), k), None}
  BY ListingOf
<1>3. \A k \in Listed(Listing(e)) : k \in Listed(Listing(d)) \/ Parent(Listing(e), k) = None
  BY ListingOf DEF Listed
<1> QED BY <1>1, <1>2, <1>3, TreeShrinks

LEMMA TreeMoved ==
    ASSUME NEW d \in Board, NEW e \in Board, TreeOk(Listing(d)), NEW t \in Keys, NEW p \in Keys,
           ParentOk(Listing(d), t, p), e[t] # None, e[t].parent = p, \A k \in Keys \ {t} : e[k] = d[k]
    PROVE  TreeOk(Listing(e))
<1>1. Table(Listing(d)) /\ Table(Listing(e))
  BY ListingOf
<1>2. Parent(Listing(e), t) = p /\ \A k \in Keys \ {t} : Parent(Listing(e), k) = Parent(Listing(d), k)
  BY ListingOf
<1>3. Listed(Listing(e)) \subseteq Listed(Listing(d)) \cup {t}
  BY ListingOf DEF Listed
<1> QED BY <1>1, <1>2, <1>3, TreeReparent

(* Only four steps write a task.                                           *)
LEMMA Writers ==
    ASSUME [Next]_vars
    PROVE  docs' = docs \/ \E c \in Calls : Save(c) \/ Insert(c) \/ SilentSet(c) \/ Remove(c)
BY DEF Next, Step, Request, Read, List, SpawnList, SilentGet, End, Release, Restart, vars, boardVars

LEMMA TreeInit == Init => TreeOk(Links)
<1> SUFFICES ASSUME Init PROVE TreeOk(Links)
  OBVIOUS
<1>1. PICK d \in Boards : d = docs
  BY DEF Init
<1>2. d \in Board /\ TreeOk(d)
  BY BoardAssumption, StartAssumption DEF Board
<1>3. Table(d)
  BY <1>2 DEF Table, Board, Doc, Tasks
<1>4. \A k \in Keys : Parent(Listing(d), k) = Parent(d, k)
  BY <1>2, ListingOf, LockAssumption DEF Parent
<1>5. Listed(Listing(d)) \subseteq Listed(d)
  BY <1>2, ListingOf DEF Listed
<1>6. TreeOk(Listing(d))
  BY <1>2, <1>3, <1>4, <1>5, ListingOf, TreeShrinks
<1> QED BY <1>1, <1>6, LinksListing

LEMMA TreeStep ==
    ASSUME BoardInv, BoardInv', Unborn, \A c \in Calls : Checked(c), TreeKept, [Next]_vars
    PROVE  TreeKept'
<1> SUFFICES ASSUME excused' = {} PROVE TreeOk(Links)'
  BY DEF TreeKept
<1>1. PICK d \in Board : d = docs
  BY DEF BoardInv, BoardTypes, Board
<1>2. PICK e \in Board : e = docs'
  BY DEF BoardInv, BoardTypes, Board
<1>3. excused = {} /\ TreeOk(Listing(d))
  BY <1>1, ExcusedGrows, LinksListing DEF TreeKept
<1>4. docs' = docs => TreeOk(Listing(e))
  BY <1>1, <1>2, <1>3
<1>5. ASSUME NEW c \in Calls, Save(c), docs' # docs PROVE TreeOk(Listing(e))
  <2> DEFINE t == op[c].task
  <2>1. t \in Keys /\ docs[t] # None /\ docs' = [docs EXCEPT ![t] = Written(c)] /\ Written(c) \in Doc
        /\ op[c].pc = "put"
    BY <1>5, SaveShape
  <2>2. /\ docs[t] = op[c].cur
        /\ op[c].kind = "convert" => op[c].arg \in Tasks /\ ParentOk(Links, t, op[c].arg)
    BY <1>5, <2>1, SaveOk
  <2>3. e[t] = Written(c) /\ e[t] # None /\ \A k \in Keys \ {t} : e[k] = d[k]
    BY <1>1, <1>2, <2>1, BoardAssumption DEF Board
  <2>4. CASE op[c].kind # "convert"
    <3>1. e[t].parent = d[t].parent /\ d[t] # None
      BY <1>1, <2>1, <2>2, <2>3, <2>4, WrittenParts
    <3> QED BY <1>3, <2>3, <3>1, TreeCut
  <2>5. CASE op[c].kind = "convert"
    <3>1. e[t].parent = op[c].arg
      BY <2>1, <2>3, <2>5, WrittenParts
    <3>2. CASE op[c].arg = None
      BY <1>3, <2>3, <3>1, <3>2, TreeCut
    <3>3. CASE op[c].arg # None
      <4>1. PICK p \in Keys : p = op[c].arg
        BY <2>2, <2>5, <3>3 DEF Tasks
      <4>2. ParentOk(Listing(d), t, p)
        BY <1>1, <2>2, <2>5, <4>1, LinksListing
      <4> QED BY <1>3, <2>1, <2>3, <3>1, <4>1, <4>2, TreeMoved
    <3> QED BY <3>2, <3>3
  <2> QED BY <2>4, <2>5
<1>6. ASSUME NEW c \in Calls, Insert(c) PROVE TreeOk(Listing(e))
  <2>1. c \in Keys /\ NewParent(c) \in Tasks /\ ParentOk(Links, c, NewParent(c))
    BY <1>6, InsertOk
  <2>2. e[c] # None /\ e[c].parent = NewParent(c) /\ \A k \in Keys \ {c} : e[k] = d[k]
    <3>1. docs' = [docs EXCEPT ![c] = [parent |-> NewParent(c), blockedBy |-> {}, comments |-> {},
                          completed |-> FALSE, inDone |-> FALSE, recurrence |-> op[c].spawn]]
          /\ op[c].spawn \in BOOLEAN
      BY <1>6, InsertShape
    <3>2. [parent |-> NewParent(c), blockedBy |-> {}, comments |-> {},
                          completed |-> FALSE, inDone |-> FALSE, recurrence |-> op[c].spawn] \in Doc
      BY <2>1, <3>1 DEF Doc, Tasks
    <3> QED BY <1>1, <1>2, <2>1, <3>1, <3>2, BoardAssumption DEF Board
  <2>3. CASE NewParent(c) = None
    BY <1>3, <2>2, <2>3, TreeCut
  <2>4. CASE NewParent(c) # None
    <3>1. PICK p \in Keys : p = NewParent(c)
      BY <2>1, <2>4 DEF Tasks
    <3>2. ParentOk(Listing(d), c, p)
      BY <1>1, <2>1, <3>1, LinksListing
    <3> QED BY <1>3, <2>1, <2>2, <3>1, <3>2, TreeMoved
  <2> QED BY <2>3, <2>4
<1>7. ASSUME NEW c \in Calls, SilentSet(c), docs' # docs PROVE TreeOk(Listing(e))
  <2> DEFINE t == op[c].other
  <2>1. t \in Keys /\ op[c].copy \in Doc /\ docs[t] \in Doc /\ docs' = [docs EXCEPT ![t] = SilentDoc(op[c])]
    BY <1>7, SilentSetShape
  <2>2. docs'[t] = SilentDoc(op[c]) /\ \A k \in Keys \ {t} : e[k] = d[k]
    BY <1>1, <1>2, <2>1 DEF Board
  <2>3. docs'[t].parent = docs[t].parent
    BY <1>7, <2>1, <2>2, SilentKeeps
  <2>4. d[t] # None
    BY <1>1, <2>1, BoardAssumption
  <2> QED BY <1>1, <1>2, <1>3, <2>2, <2>3, <2>4, TreeCut
<1>8. ASSUME NEW c \in Calls, Remove(c) PROVE TreeOk(Listing(e))
  <2>1. PICK t : t \in Keys /\ docs' = [docs EXCEPT ![t] = None]
    BY <1>8, RemoveShape
  <2>2. e[t] = None /\ \A k \in Keys \ {t} : e[k] = d[k]
    BY <1>1, <1>2, <2>1 DEF Board
  <2> QED BY <1>3, <2>2, TreeCut
<1>9. TreeOk(Listing(e))
  BY <1>4, <1>5, <1>6, <1>7, <1>8, Writers
<1> QED BY <1>2, <1>9, LinksListing

-----------------------------------------------------------------------------
(* A request moves by a step of its own, or is cut by a restart.           *)
LEMMA Mover ==
    ASSUME BoardInv, [Next]_vars, NEW c \in Calls
    PROVE  \/ op'[c] = op[c] \/ Restart
           \/ Request(c) \/ Read(c) \/ List(c) \/ SpawnList(c) \/ Save(c) \/ Insert(c)
           \/ SilentGet(c) \/ SilentSet(c) \/ Remove(c) \/ End(c)
<1>1. CASE UNCHANGED vars \/ \E e \in Calls : Release(e)
  BY <1>1, IdleShape
<1>2. ASSUME NEW e \in Calls, e # c, Request(e) \/ Step(e) PROVE op'[c] = op[c]
  <2>1. CASE Release(e)
    BY <2>1, IdleShape
  <2>2. ~Release(e) => Others(e)
    BY <1>2, RequestShape, ReadShape, ListShape, SpawnListShape, SaveShape, InsertShape,
       SilentGetShape, SilentSetShape, RemoveShape, EndShape DEF Step
  <2> QED BY <1>2, <2>1, <2>2 DEF Others
<1>3. CASE Request(c) \/ Step(c)
  BY <1>1, <1>3 DEF Step
<1> QED BY <1>1, <1>2, <1>3 DEF Next

(* A removal has in hand all that hangs under what it removes.             *)
Planned(c) ==
    Removing(c) =>
        /\ op[c].todo \subseteq op[c].gone
        /\ \A k \in Listed(op[c].links) : op[c].links[k].parent \in op[c].gone => k \in op[c].todo

(* A row that was gone when it was read stays gone.                        *)
Copied(c) ==
    op[c].pc = "set" /\ op[c].kind = "delete" /\ op[c].copy = None => docs[op[c].other] = None

LEMMA PlannedStep ==
    ASSUME BoardInv, [Next]_vars, excused' = {}, TreeKept, NEW c \in Calls, Planned(c)
    PROVE  Planned(c)'
<1> SUFFICES ASSUME Removing(c)'
             PROVE  /\ op'[c].todo \subseteq op'[c].gone
                    /\ \A k \in Listed(op'[c].links) :
                          op'[c].links[k].parent \in op'[c].gone => k \in op'[c].todo
  BY DEF Planned, Listed
<1>1. op'[c].pc = "remove"
  BY DEF Removing
<1>2. CASE op'[c] = op[c]
  BY <1>2 DEF Planned, Removing
<1>3. CASE Restart
  BY <1>1, <1>2, <1>3, RestartShape, OverFields
<1>4. CASE List(c)
  <2>1. /\ op'[c].gone = op'[c].todo /\ op'[c].links = Links
        /\ op'[c].todo = DescendantsOf(Links, op[c].task) \cup {op[c].task}
        /\ op[c].pc = "list" /\ op[c].kind = "delete"
    BY <1>1, <1>4, ListShape
  <2>2. PICK l \in LinkTables : l = Links
    BY LinksType DEF BoardInv
  <2>3. PICK t \in Keys : t = op[c].task
    BY <2>1 DEF BoardInv, BoardTypes, InHand, Asked
  <2>4. Table(l) /\ TreeOk(l)
    BY <2>2, LinkTable, ExcusedGrows DEF TreeKept
  <2>5. \A k \in Listed(l) : l[k].parent \in DescendantsOf(l, t) \cup {t} => k \in DescendantsOf(l, t)
    BY <2>4, LineageBelow
  <2> QED BY <2>1, <2>2, <2>3, <2>5
<1>5. CASE Remove(c)
  <2>1. PICK t \in Keys : /\ t \in op[c].todo /\ op'[c].links = [op[c].links EXCEPT ![t] = None]
                          /\ op'[c].todo = op[c].todo \ {t}
    BY <1>1, <1>5, RemoveShape
  <2>2. op'[c].gone = op[c].gone /\ op[c].links \in LinkTables /\ Removing(c)
    BY <1>5, RemoveShape DEF Removing
  <2>3. \A k \in Listed(op'[c].links) :
            k # t /\ k \in Listed(op[c].links) /\ op'[c].links[k] = op[c].links[k]
    BY <2>1, <2>2 DEF LinkTables, Listed
  <2> QED BY <2>1, <2>2, <2>3 DEF Planned
<1>6. ~(Request(c) \/ Read(c) \/ SpawnList(c) \/ Save(c) \/ Insert(c) \/ SilentGet(c) \/ SilentSet(c) \/ End(c))
  BY <1>1, RequestShape, ReadShape, SpawnListShape, SaveShape, InsertShape, SilentGetShape, SilentSetShape,
     EndShape, OverFields
<1> QED BY <1>2, <1>3, <1>4, <1>5, <1>6, Mover

LEMMA CopiedStep ==
    ASSUME BoardInv, Unborn, [Next]_vars, NEW c \in Calls, Copied(c)
    PROVE  Copied(c)'
<1> SUFFICES ASSUME op'[c].pc = "set", op'[c].kind = "delete", op'[c].copy = None
             PROVE  docs'[op'[c].other] = None
  BY DEF Copied
<1>1. CASE op'[c] = op[c]
  <2> DEFINE t == op[c].other
  <2>1. t \in Keys /\ docs[t] = None /\ Unblocking(c) /\ op[c].links[t] # None
    <3>1. op[c] \in OpRecord /\ InHand(op[c])
      BY DEF BoardInv, BoardTypes
    <3>2. op[c].other \in op[c].todo /\ op[c].todo \subseteq Listed(op[c].links)
      BY <1>1, <3>1 DEF InHand
    <3> QED BY <1>1, <3>2 DEF Listed, Copied, Unblocking
  <2>2. \A e \in Calls : Early(e) => e # t
    BY <2>1 DEF Unborn
  <2>3. ~(Insert(t) /\ t \in Calls)
    BY <2>2, InsertShape DEF Early
  <2> QED BY <1>1, <2>1, <2>3, DocStep, BoardAssumption
<1>2. CASE SilentGet(c)
  BY <1>2, SilentGetShape DEF Quiet
<1>3. CASE Restart
  BY <1>1, <1>3, RestartShape, OverFields
<1>4. ~(Request(c) \/ Read(c) \/ List(c) \/ SpawnList(c) \/ Save(c) \/ Insert(c) \/ SilentSet(c) \/ Remove(c) \/ End(c))
  BY RequestShape, ReadShape, ListShape, SpawnListShape, SaveShape, InsertShape, SilentSetShape, RemoveShape,
     EndShape, OverFields, ZenonT(30)
<1> QED BY <1>1, <1>2, <1>3, <1>4, Mover

(* Who is at a removal stays at it until it has removed the task, or has   *)
(* taken what it removed off the blockers of the task.                     *)
LEMMA RemovingStays ==
    ASSUME BoardInv, [Next]_vars, excused' = {}, NEW d \in Calls, Removing(d),
           NEW t \in Keys, docs'[t] # None, t \in op[d].todo
    PROVE  Removing(d)' /\ t \in op'[d].todo /\ op'[d].gone = op[d].gone
<1>1. op[d].pc = "remove" /\ op[d].kind = "delete" /\ Active(d)
  BY DEF Removing, BoardInv, BoardTypes, InHand, Active
<1>2. CASE op'[d] = op[d]
  BY <1>2 DEF Removing
<1>3. ~Restart
  BY <1>1, RestartShape
<1>4. CASE Remove(d)
  <2>1. PICK u \in Keys :
              /\ u \in op[d].todo /\ docs' = [docs EXCEPT ![u] = None]
              /\ \/ op'[d].todo = op[d].todo \ {u} /\ op'[d].pc = "remove"
                 \/ op[d].todo = {u}
    BY <1>4, RemoveShape
  <2>2. u # t
    BY <2>1 DEF BoardInv, BoardTypes
  <2> QED BY <1>4, <2>1, <2>2, RemoveShape DEF Removing
<1>5. ~(Request(d) \/ Read(d) \/ List(d) \/ SpawnList(d) \/ Save(d) \/ Insert(d) \/ SilentGet(d) \/ SilentSet(d) \/ End(d))
  BY <1>1, RequestShape, ReadShape, ListShape, SpawnListShape, SaveShape, InsertShape, SilentGetShape, SilentSetShape,
     EndShape, SMTT(20), ZenonT(40)
<1> QED BY <1>2, <1>3, <1>4, <1>5, Mover

Clearing(d, t) == Removing(d) \/ (Unblocking(d) /\ t \in op[d].todo)

LEMMA ClearingStays ==
    ASSUME BoardInv, [Next]_vars, excused' = {}, NEW d \in Calls, Copied(d),
           NEW t \in Keys, Clearing(d, t), docs[t] # None, docs'[t] # None,
           NEW b \in op[d].gone, b \in docs'[t].blockedBy
    PROVE  Clearing(d, t)' /\ b \in op'[d].gone
<1>1. /\ op[d].pc \in {"remove", "get", "set"} /\ op[d].kind = "delete" /\ Active(d) /\ docs \in Board
      /\ op[d].pc \in {"get", "set"} => t \in op[d].todo
  BY DEF Clearing, Removing, Unblocking, BoardInv, BoardTypes, InHand, Active, Board
<1>2. CASE op'[d] = op[d]
  BY <1>2 DEF Clearing, Removing, Unblocking
<1>3. ~Restart
  BY <1>1, RestartShape
<1>4. CASE Remove(d)
  <2>1. PICK u \in Keys :
              /\ docs' = [docs EXCEPT ![u] = None]
              /\ op'[d].links = [op[d].links EXCEPT ![u] = None]
              /\ \/ op'[d].pc = "remove"
                 \/ /\ op'[d].todo = {k \in Listed(op'[d].links) : op'[d].links[k].blockedBy \cap op[d].gone # {}}
                    /\ op'[d].pc = IF op'[d].todo = {} THEN "end" ELSE "get"
    BY <1>4, RemoveShape
  <2>2. op'[d].gone = op[d].gone /\ op[d].links = Links /\ op'[d].kind = "delete"
    BY <1>4, RemoveShape DEF SameRequest
  <2>3. t # u /\ docs'[t] = docs[t]
    BY <1>1, <2>1 DEF Board
  <2>4. op'[d].links[t] = Links[t]
    BY <2>1, <2>2, <2>3, LinksType DEF BoardInv, LinkTables
  <2>5. t \in Listed(op'[d].links) /\ b \in op'[d].links[t].blockedBy
    BY <2>3, <2>4, LinksOf DEF Listed
  <2>6. op'[d].pc = "get" => t \in op'[d].todo
    BY <2>1, <2>2, <2>5
  <2>7. op'[d].pc \in {"remove", "get"}
    BY <2>1, <2>2, <2>5
  <2> QED BY <2>2, <2>6, <2>7 DEF Clearing, Removing, Unblocking
<1>5. CASE SilentGet(d)
  <2>1. /\ op'[d].pc = "set" /\ op'[d].kind = "delete" /\ op'[d].todo = op[d].todo /\ op'[d].gone = op[d].gone
        /\ t \in op[d].todo
    BY <1>1, <1>5, SilentGetShape DEF SameRequest, SameList
  <2> QED BY <2>1 DEF Clearing, Unblocking
<1>6. CASE SilentSet(d)
  <2>1. /\ op[d].pc = "set" /\ op'[d].kind = "delete" /\ op'[d].gone = op[d].gone /\ t \in op[d].todo
        /\ op'[d].todo = op[d].todo \ {op[d].other} /\ (op'[d].todo # {} => op'[d].pc = "get")
    BY <1>1, <1>6, SilentSetShape DEF SameRequest
  <2>2. CASE op[d].other # t
    <3>1. t \in op'[d].todo /\ op'[d].pc = "get"
      BY <2>1, <2>2
    <3> QED BY <2>1, <3>1 DEF Clearing, Unblocking
  <2>3. CASE op[d].other = t
    <3>1. op[d].copy # None
      BY <1>1, <2>1, <2>3 DEF Copied
    <3>2. op[d].copy \in Doc /\ docs[t] \in Doc /\ docs' = [docs EXCEPT ![t] = SilentDoc(op[d])]
      BY <1>6, <2>3, <3>1, SilentSetShape
    <3>3. docs'[t] = SilentDoc(op[d])
      BY <1>1, <3>2 DEF Board
    <3>4. docs'[t].blockedBy = docs[t].blockedBy \ op[d].gone
      BY <1>1, <1>6, <2>3, <3>2, <3>3, SilentKeeps
    <3> QED BY <3>4
  <2> QED BY <2>2, <2>3
<1>7. ~(Request(d) \/ Read(d) \/ List(d) \/ SpawnList(d) \/ Save(d) \/ Insert(d) \/ End(d))
  BY <1>1, RequestShape, ReadShape, ListShape, SpawnListShape, SaveShape, InsertShape, EndShape
<1> QED BY <1>2, <1>3, <1>4, <1>5, <1>6, <1>7, Mover

-----------------------------------------------------------------------------
(* Who names a task that is not there is about to be removed, or to have   *)
(* it taken off its blockers.                                              *)
Anchored(t) ==
    docs[t] # None /\ docs[t].parent # None /\ docs[docs[t].parent] = None =>
        \E d \in Calls : Removing(d) /\ t \in op[d].todo /\ docs[t].parent \in op[d].gone

Cleared(t) ==
    docs[t] # None =>
        \A b \in docs[t].blockedBy : docs[b] = None => \E d \in Calls : b \in op[d].gone /\ Clearing(d, t)

Mutual(t) ==
    docs[t] # None => \A b \in docs[t].blockedBy : docs[b] # None => t \notin docs[b].blockedBy

(* A removal has what hangs under a task it removes.                       *)
LEMMA RemovedBy ==
    ASSUME BoardInv, [Next]_vars, \A c \in Calls : Planned(c),
           NEW p \in Keys, docs[p] # None, docs'[p] = None
    PROVE  \E c \in Calls :
              /\ Remove(c) /\ Removing(c) /\ p \in op[c].gone
              /\ excused' = {} => Links = op[c].links
<1>1. \E c \in Calls : Remove(c) /\ p \in op[c].todo
  <2>1. docs \in [Keys -> Doc \cup {None}]
    BY DEF BoardInv, BoardTypes
  <2>2. ASSUME NEW c \in Calls, Save(c) PROVE docs'[p] # None
    <3>1. /\ Written(c) \in Doc
          /\ docs' = docs \/ docs' = [docs EXCEPT ![op[c].task] = Written(c)]
      BY <2>2, SaveShape
    <3> QED BY <2>1, <3>1, BoardAssumption
  <2>3. ASSUME NEW c \in Calls, Insert(c) PROVE docs'[p] # None
    <3>1. PICK doc \in Doc : docs' = [docs EXCEPT ![c] = doc]
      <4>1. NewParent(c) \in Tasks
        <5>1. op[c] \in OpRecord /\ InHand(op[c]) /\ Asked(op[c]) /\ op[c].pc = "insert"
          BY <2>3, InsertShape DEF BoardInv, BoardTypes, InHand
        <5>2. CASE op[c].spawn
          BY <5>1, <5>2 DEF InHand, NewParent, Doc, Tasks
        <5>3. CASE ~op[c].spawn
          BY <5>1, <5>3 DEF InHand, Asked, NewParent, Tasks
        <5> QED BY <5>2, <5>3
      <4>2. [parent |-> NewParent(c), blockedBy |-> {}, comments |-> {},
                          completed |-> FALSE, inDone |-> FALSE, recurrence |-> op[c].spawn] \in Doc
        BY <2>3, <4>1, InsertShape DEF Doc, Tasks
      <4> QED BY <2>3, <4>2, InsertShape
    <3> QED BY <2>1, <3>1, BoardAssumption
  <2>4. ASSUME NEW c \in Calls, SilentSet(c) PROVE docs'[p] # None
    <3>1. /\ docs' = docs \/ docs' = [docs EXCEPT ![op[c].other] = SilentDoc(op[c])]
          /\ docs' = docs \/ op[c].copy \in Doc
          /\ op[c].links \in LinkTables /\ op[c].other \in Keys
          /\ op[c].kind = "delete" => op[c].links[op[c].other] # None
      BY <2>4, SilentSetShape DEF Listed
    <3>2. op[c].copy \in Doc => SilentDoc(op[c]) \in Doc
      <4>1. CASE op[c].kind = "move"
        BY <4>1 DEF SilentDoc
      <4>2. CASE op[c].kind # "move"
        <5>1. op[c].links[op[c].other] \in LinkDoc
          BY <2>4, <3>1, <4>2, SilentSetShape DEF LinkTables
        <5> QED BY <4>2, <5>1 DEF SilentDoc, Doc, LinkDoc
      <4> QED BY <4>1, <4>2
    <3> QED BY <2>1, <3>1, <3>2, BoardAssumption
  <2>5. ASSUME NEW c \in Calls, Remove(c) PROVE p \in op[c].todo
    <3>1. PICK t \in op[c].todo : t \in Keys /\ docs' = [docs EXCEPT ![t] = None]
      BY <2>5, RemoveShape
    <3> QED BY <2>1, <3>1
  <2> QED BY <2>2, <2>3, <2>4, <2>5, Writers
<1>2. PICK c \in Calls : Remove(c) /\ p \in op[c].todo
  BY <1>1
<1>3. Removing(c) /\ (excused' = {} => Links = op[c].links)
  BY <1>2, RemoveShape DEF Removing
<1>4. p \in op[c].gone
  BY <1>2, <1>3 DEF Planned
<1> QED BY <1>2, <1>3, <1>4

LEMMA AnchoredStep ==
    ASSUME BoardInv, BoardInv', Unborn, [Next]_vars, excused' = {}, \A c \in Calls : Checked(c) /\ Planned(c),
           NEW t \in Keys, Anchored(t)
    PROVE  Anchored(t)'
<1> DEFINE p == docs'[t].parent
<1> SUFFICES ASSUME docs'[t] # None, p # None, docs'[p] = None
             PROVE  \E d \in Calls : Removing(d)' /\ t \in op'[d].todo /\ p \in op'[d].gone
  BY DEF Anchored
<1>1. docs \in Board /\ docs' \in Board
  BY DEF BoardInv, BoardTypes, Board
<1>2. p \in Keys
  BY <1>1 DEF Board, Doc
<1>3. CASE docs[t] # None /\ p = docs[t].parent
  <2>1. \E d \in Calls : Removing(d) /\ t \in op[d].todo /\ p \in op[d].gone
    <3>1. CASE docs[p] = None
      BY <1>3, <3>1 DEF Anchored
    <3>2. CASE docs[p] # None
      <4>1. PICK c \in Calls : Removing(c) /\ p \in op[c].gone /\ Links = op[c].links
        BY <1>2, <3>2, RemovedBy
      <4>2. t \in Listed(Links) /\ Links[t].parent = p
        BY <1>3, LinksOf
      <4> QED BY <4>1, <4>2 DEF Planned
    <3> QED BY <3>1, <3>2
  <2> QED BY <2>1, RemovingStays
<1>4. CASE docs[t] = None \/ p # docs[t].parent
  <2>1. ASSUME NEW k \in Keys, ParentOk(Links, k, p) PROVE docs[p] # None
    <3>1. p \in Listed(Links)
      BY <2>1 DEF ParentOk
    <3> QED BY <1>2, <3>1, LinksOf
  <2>2. CASE \E c \in Calls : Save(c) /\ op[c].task = t /\ docs[t] # None /\ docs'[t] = Written(c)
    <3>1. PICK c \in Calls : Save(c) /\ op[c].task = t /\ docs[t] # None /\ docs'[t] = Written(c)
      BY <2>2
    <3>2. /\ docs' = [docs EXCEPT ![t] = Written(c)] /\ op[c].pc = "put"
      BY <3>1, SaveShape
    <3>3. docs[t] = op[c].cur /\ (op[c].kind = "convert" => ParentOk(Links, t, op[c].arg))
      BY <3>1, SaveOk
    <3>4. op[c].kind = "convert" /\ p = op[c].arg
      BY <1>4, <3>1, <3>2, <3>3, WrittenParts
    <3>5. docs[p] # None
      BY <2>1, <3>3, <3>4
    <3> QED BY <1>1, <1>2, <3>1, <3>2, <3>5 DEF Board
  <2>3. CASE Insert(t) /\ t \in Calls
    <3>1. ParentOk(Links, t, NewParent(t)) /\ t \in Keys
      BY <2>3, InsertOk
    <3>2. docs' = [docs EXCEPT ![t] = [parent |-> NewParent(t), blockedBy |-> {}, comments |-> {},
                          completed |-> FALSE, inDone |-> FALSE, recurrence |-> op[t].spawn]]
      BY <2>3, InsertShape
    <3>3. p = NewParent(t)
      BY <1>1, <3>1, <3>2 DEF Board
    <3>4. docs[p] # None
      BY <2>1, <3>1, <3>3
    <3> QED BY <1>1, <1>2, <3>2, <3>4 DEF Board
  <2>4. ASSUME NEW c \in Calls, SilentSet(c), op[c].other = t, docs[t] \in Doc, op[c].copy \in Doc,
               docs'[t] = SilentDoc(op[c])
        PROVE  FALSE
    BY <1>4, <2>4, SilentKeeps, BoardAssumption
  <2> QED BY <1>4, <2>2, <2>3, <2>4, DocStep
<1> QED BY <1>3, <1>4

(* A blocker is new to a task only by setBlocker, which has looked at it.  *)
LEMMA BlockStep ==
    ASSUME BoardInv, BoardInv', Unborn, [Next]_vars, excused' = {}, \A c \in Calls : Checked(c),
           NEW t \in Keys, docs'[t] # None, NEW b \in docs'[t].blockedBy
    PROVE  \/ docs[t] # None /\ b \in docs[t].blockedBy
           \/ b # t /\ docs[b] # None /\ t \notin docs[b].blockedBy /\ docs'[b] = docs[b]
<1>1. docs \in Board /\ docs' \in Board
  BY DEF BoardInv, BoardTypes, Board
<1>2. CASE \E c \in Calls : Save(c) /\ op[c].task = t /\ docs[t] # None /\ docs'[t] = Written(c)
  <2>1. PICK c \in Calls : Save(c) /\ op[c].task = t /\ docs[t] # None /\ docs'[t] = Written(c)
    BY <1>2
  <2>2. /\ docs' = [docs EXCEPT ![t] = Written(c)] /\ op[c].pc = "put"
    BY <2>1, SaveShape
  <2>3. /\ docs[t] = op[c].cur
        /\ op[c].kind = "block" => /\ op[c].arg \in Keys /\ docs[op[c].arg] # None
                                   /\ t \notin docs[op[c].arg].blockedBy /\ op[c].arg # t
    BY <2>1, SaveOk
  <2>4. b \in docs[t].blockedBy \/ (op[c].kind = "block" /\ b = op[c].arg)
    BY <2>1, <2>2, <2>3, WrittenParts
  <2> QED BY <1>1, <2>1, <2>2, <2>3, <2>4 DEF Board
<1>3. ~(Insert(t) /\ t \in Calls)
  <2> SUFFICES ASSUME Insert(t), t \in Calls PROVE FALSE
    OBVIOUS
  <2>1. docs' = [docs EXCEPT ![t] = [parent |-> NewParent(t), blockedBy |-> {}, comments |-> {},
                          completed |-> FALSE, inDone |-> FALSE, recurrence |-> op[t].spawn]]
    BY InsertShape
  <2>2. docs'[t].blockedBy = {}
    BY <1>1, <2>1 DEF Board
  <2> QED BY <2>2
<1>4. ASSUME NEW c \in Calls, SilentSet(c), op[c].other = t, docs[t] \in Doc, op[c].copy \in Doc,
             docs'[t] = SilentDoc(op[c])
      PROVE  docs[t] # None /\ b \in docs[t].blockedBy
  BY <1>4, SilentKeeps, BoardAssumption
<1>5. docs'[t] = docs[t] => docs[t] # None /\ b \in docs[t].blockedBy
  OBVIOUS
<1> QED BY <1>2, <1>3, <1>4, <1>5, DocStep

LEMMA MutualStep ==
    ASSUME BoardInv, BoardInv', Unborn, [Next]_vars, excused' = {}, \A c \in Calls : Checked(c),
           \A t \in Keys : Mutual(t), NEW t \in Keys
    PROVE  Mutual(t)'
<1> SUFFICES ASSUME docs'[t] # None, NEW b \in docs'[t].blockedBy, docs'[b] # None, t \in docs'[b].blockedBy
             PROVE  FALSE
  BY DEF Mutual
<1>1. b \in Keys /\ docs \in Board
  BY BoardAssumption DEF BoardInv, BoardTypes, Board, Doc
<1>2. \/ docs[t] # None /\ b \in docs[t].blockedBy
      \/ b # t /\ docs[b] # None /\ t \notin docs[b].blockedBy /\ docs'[b] = docs[b]
  BY BlockStep
<1>3. \/ docs[b] # None /\ t \in docs[b].blockedBy
      \/ t # b /\ docs[t] # None /\ b \notin docs[t].blockedBy /\ docs'[t] = docs[t]
  BY <1>1, BlockStep
<1> QED BY <1>1, <1>2, <1>3 DEF Mutual

LEMMA ClearedStep ==
    ASSUME BoardInv, BoardInv', Unborn, [Next]_vars, excused' = {},
           \A c \in Calls : Checked(c) /\ Planned(c) /\ Copied(c),
           NEW t \in Keys, Cleared(t)
    PROVE  Cleared(t)'
<1> SUFFICES ASSUME docs'[t] # None, NEW b \in docs'[t].blockedBy, docs'[b] = None
             PROVE  \E d \in Calls : b \in op'[d].gone /\ Clearing(d, t)'
  BY DEF Cleared
<1>1. b \in Keys
  BY BoardAssumption DEF BoardInv, BoardTypes, Doc
<1>2. docs[t] # None /\ b \in docs[t].blockedBy
  BY <1>1, BlockStep
<1>3. PICK d \in Calls : b \in op[d].gone /\ Clearing(d, t)
  <2>1. CASE docs[b] = None
    BY <1>2, <2>1 DEF Cleared
  <2>2. CASE docs[b] # None
    BY <1>1, <2>2, RemovedBy DEF Clearing
  <2> QED BY <2>1, <2>2
<1> QED BY <1>2, <1>3, ClearingStays

-----------------------------------------------------------------------------
(* A task that recurred has its successor, or the request that completed   *)
(* it is about to create it, or the task is about to be removed.           *)
Followed(t) ==
    t \in DOMAIN next /\ docs[t] # None /\ ~docs[t].recurrence =>
        \/ next[t] = 1
        \/ \E c \in Calls : op[c].task = t /\ Spawning(c)
        \/ \E d \in Calls : Removing(d) /\ t \in op[d].todo

(* The task that comes next fits where the completed one was.              *)
LEMMA SpawnFits ==
    ASSUME BoardInv, Unborn, TreeKept, excused = {}, \A k \in Keys : Anchored(k),
           NEW c \in Calls, Early(c), NEW t \in Keys, docs[t] # None,
           \A d \in Calls : Removing(d) => t \notin op[d].todo
    PROVE  ParentOk(Links, c, docs[t].parent)
<1>1. PICK l \in LinkTables : l = Links
  BY LinksType DEF BoardInv
<1>2. Table(l) /\ TreeOk(l) /\ c \in Keys /\ t \in Listed(l) /\ l[t].parent = docs[t].parent
  BY <1>1, LinkTable, LinksOf, BoardAssumption DEF TreeKept
<1>3. docs[c] = None /\ l[c] = None
  BY <1>1, <1>2, LinksOf DEF Unborn
<1>4. ASSUME NEW k \in Listed(l) PROVE l[k].parent # c
  <2>1. k \in Keys /\ docs[k] # None /\ l[k].parent = docs[k].parent
    BY <1>1, LinksOf DEF Listed
  <2>2. ASSUME docs[k].parent = c PROVE FALSE
    <3>1. PICK d \in Calls : Removing(d) /\ c \in op[d].gone
      BY <1>2, <1>3, <2>1, <2>2, LockAssumption DEF Anchored
    <3> QED BY <3>1 DEF Unborn
  <2> QED BY <2>1, <2>2
<1>5. l[t].parent # None => l[t].parent \in Listed(l)
  <2> SUFFICES ASSUME docs[t].parent # None PROVE docs[t].parent \in Listed(l)
    BY <1>2
  <2>1. docs[t].parent \in Keys
    BY DEF BoardInv, BoardTypes, Doc
  <2>2. docs[docs[t].parent] # None
    BY DEF Anchored
  <2> QED BY <1>1, <2>1, <2>2, LinksOf
<1>6. ParentOk(l, c, l[t].parent)
  BY <1>2, <1>3, <1>4, <1>5, SpawnOk
<1> QED BY <1>1, <1>2, <1>6

LEMMA FollowedStep ==
    ASSUME BoardInv, BoardInv', Marks, Unborn, OneWriter, SeriesInv, TreeKept, [Next]_vars, excused' = {},
           \A c \in Calls : Checked(c), \A k \in Keys : Anchored(k),
           NEW t \in Keys, Followed(t)
    PROVE  Followed(t)'
<1> SUFFICES ASSUME t \in DOMAIN next', docs'[t] # None, ~docs'[t].recurrence
             PROVE  \/ next'[t] = 1
                    \/ \E c \in Calls : op'[c].task = t /\ Spawning(c)'
                    \/ \E d \in Calls : Removing(d)' /\ t \in op'[d].todo
  BY DEF Followed
<1>1. excused = {} /\ docs \in Board /\ docs' \in Board /\ \A c \in Calls : c \in Keys
  BY ExcusedGrows, BoardAssumption DEF BoardInv, BoardTypes, Board
<1>2. \A k \in Keys : Counted(k)
  BY <1>1 DEF SeriesInv
<1>3. \A c \in Calls : AsRead(c)
  BY <1>1 DEF SeriesInv
<1>4. ASSUME NEW c \in Calls, Insert(c)
      PROVE  /\ Early(c) /\ c \notin DOMAIN next /\ docs[c] = None /\ op[c].spawn \in BOOLEAN
             /\ docs'[c].recurrence = op[c].spawn
             /\ ~op[c].spawn => next' = next
             /\ op[c].spawn =>
                   /\ DOMAIN next' = DOMAIN next \cup {c}
                   /\ \A k \in DOMAIN next : next'[k] = IF k = op[c].task THEN next[k] + 1 ELSE next[k]
                   /\ Spawning(c)
  <2>1. Early(c) /\ c \notin DOMAIN next /\ docs[c] = None
    BY <1>4, InsertShape DEF Early, Unborn
  <2>2. docs' = [docs EXCEPT ![c] = [parent |-> NewParent(c), blockedBy |-> {}, comments |-> {},
                          completed |-> FALSE, inDone |-> FALSE, recurrence |-> op[c].spawn]]
        /\ op[c].spawn \in BOOLEAN /\ op[c].pc = "insert"
        /\ next' = IF op[c].spawn THEN [k \in DOMAIN next \cup {c} |->
                          IF k = c THEN 0 ELSE IF k = op[c].task THEN next[k] + 1 ELSE next[k]] ELSE next
    BY <1>4, InsertShape
  <2>3. docs'[c].recurrence = op[c].spawn
    BY <1>1, <2>2 DEF Board
  <2>4. ~op[c].spawn => next' = next
    BY <2>2
  <2>5. op[c].spawn => /\ DOMAIN next' = DOMAIN next \cup {c}
                       /\ \A k \in DOMAIN next : next'[k] = IF k = op[c].task THEN next[k] + 1 ELSE next[k]
    BY <2>1, <2>2
  <2> QED BY <2>1, <2>2, <2>3, <2>4, <2>5 DEF Spawning
<1>5. next' = next \/ \E c \in Calls : Insert(c) /\ op[c].spawn
  <2>1. \A c \in Calls : Remove(c) \/ Save(c) \/ SilentSet(c) => next' = next
    BY RemoveShape, SaveShape, SilentSetShape
  <2>2. \A c \in Calls : Request(c) \/ Read(c) \/ List(c) \/ SpawnList(c) \/ SilentGet(c) \/ End(c) \/ Release(c)
            => next' = next
    BY RequestShape, ReadShape, ListShape, SpawnListShape, SilentGetShape, EndShape, IdleShape DEF Quiet
  <2>3. Restart \/ UNCHANGED vars => next' = next
    BY RestartShape, IdleShape DEF Quiet
  <2> QED BY <1>4, <2>1, <2>2, <2>3 DEF Next, Step
<1>6. docs[t] # None
  <2>1. CASE Insert(t) /\ t \in Calls
    BY <1>4, <2>1
  <2> QED BY <2>1, DocStep, BoardAssumption
<1>7. t \in DOMAIN next
  <2>1. ASSUME NEW c \in Calls, Insert(c), op[c].spawn PROVE t \in DOMAIN next
    BY <1>4, <1>6, <2>1
  <2> QED BY <1>5, <2>1
<1>8. CASE docs[t].recurrence
  <2>1. \E c \in Calls : Save(c) /\ op[c].task = t /\ docs'[t] = Written(c)
    <3>1. ~(Insert(t) /\ t \in Calls)
      BY <1>4, <1>6
    <3>2. ASSUME NEW c \in Calls, SilentSet(c), op[c].other = t, docs[t] \in Doc, op[c].copy \in Doc,
                 docs'[t] = SilentDoc(op[c])
          PROVE  FALSE
      BY <1>8, <3>2, SilentKeeps
    <3> QED BY <1>8, <3>1, <3>2, DocStep
  <2>2. PICK c \in Calls : Save(c) /\ op[c].task = t /\ docs'[t] = Written(c)
    BY <2>1
  <2>3. docs[t] = op[c].cur /\ op[c].pc = "put" /\ op'[c].task = t
    BY <1>6, <2>2, SaveOk, SaveShape DEF SameRequest
  <2>4. Recurs(c)
    BY <1>8, <2>2, <2>3, WrittenParts
  <2>5. op'[c].pc = "list" /\ op'[c].spawn
    BY <1>6, <2>2, <2>4, SaveShape
  <2> QED BY <2>3, <2>5 DEF Spawning
<1>9. CASE ~docs[t].recurrence
  <2>1. CASE \E d \in Calls : Removing(d) /\ t \in op[d].todo
    BY <2>1, RemovingStays
  <2>2. CASE \E c \in Calls : op[c].task = t /\ Spawning(c) /\ ~\E d \in Calls : Removing(d) /\ t \in op[d].todo
    <3>1. PICK c \in Calls : op[c].task = t /\ Spawning(c) /\ ~\E d \in Calls : Removing(d) /\ t \in op[d].todo
      BY <2>2
    <3>2. Early(c) /\ op[c].spawn /\ Active(c) /\ op[c].pc \in {"list", "insert"} /\ next[t] = 0
          /\ docs[t].parent = op[c].cur.parent
      BY <1>2, <1>3, <1>6, <1>7, <3>1 DEF Early, Spawning, Active, Counted, AsRead, Mine
    <3>3. CASE op'[c] = op[c]
      BY <3>1, <3>3 DEF Spawning
    <3>4. ~Restart
      BY <3>2, RestartShape
    <3>5. CASE SpawnList(c)
      <4>1. ParentOk(Links, c, op[c].cur.parent)
        BY <1>1, <1>6, <3>1, <3>2, SpawnFits
      <4>2. op'[c].pc = "insert" /\ op'[c].spawn /\ op'[c].task = t
        BY <3>1, <3>5, <4>1, SpawnListShape DEF SameRequest
      <4> QED BY <4>2 DEF Spawning
    <3>6. CASE Insert(c)
      <4>1. next'[t] = next[t] + 1
        BY <1>4, <1>7, <3>1, <3>2, <3>6
      <4> QED BY <3>2, <4>1
    <3>7. ~(Request(c) \/ Read(c) \/ List(c) \/ Save(c) \/ SilentGet(c) \/ SilentSet(c) \/ Remove(c) \/ End(c))
      BY <3>2, RequestShape, ReadShape, ListShape, SaveShape, SilentGetShape, SilentSetShape, RemoveShape, EndShape
    <3> QED BY <3>3, <3>4, <3>5, <3>6, <3>7, Mover
  <2>3. CASE next[t] = 1
    <3>1. ASSUME NEW c \in Calls, Insert(c), op[c].spawn PROVE next'[t] = 1
      <4>1. Spawning(c) /\ \A k \in DOMAIN next : next'[k] = IF k = op[c].task THEN next[k] + 1 ELSE next[k]
        BY <1>4, <3>1
      <4>2. op[c].task = t => next[t] = 0
        BY <1>2, <1>7, <4>1 DEF Counted
      <4>3. op[c].task # t
        BY <2>3, <4>2
      <4> QED BY <1>7, <2>3, <4>1, <4>3
    <3> QED BY <1>5, <2>3, <3>1
  <2> QED BY <1>6, <1>7, <1>9, <2>1, <2>2, <2>3 DEF Followed
<1> QED BY <1>8, <1>9

-----------------------------------------------------------------------------
(* All of it together.                                                     *)
Hold ==
    excused = {} => /\ \A c \in Calls : Planned(c)
                    /\ \A t \in Keys : Anchored(t) /\ Mutual(t) /\ Cleared(t) /\ Followed(t)

TaskInv ==
    /\ Unborn /\ SeriesInv /\ TreeKept /\ Hold
    /\ \A c \in Calls : Checked(c) /\ Copied(c)

LEMMA TaskInit == Init => TaskInv
<1> SUFFICES ASSUME Init PROVE TaskInv
  OBVIOUS
<1>1. \A c \in Calls : op[c].pc = "idle"
  BY DEF Init, Idle
<1>2. \A c \in Calls : Planned(c) /\ Copied(c)
  BY <1>1 DEF Planned, Copied, Removing
<1>3. docs \in Boards /\ docs \in Board
  BY BoardAssumption DEF Init, Board
<1>4. \A t \in Keys : docs[t] # None =>
          /\ docs[t].parent # None => docs[docs[t].parent] # None
          /\ \A b \in docs[t].blockedBy : docs[b] # None /\ t \notin docs[b].blockedBy
  BY <1>3, StartAssumption DEF Resolves, Listed
<1>5. \A t \in Keys : Anchored(t) /\ Mutual(t) /\ Cleared(t)
  BY <1>4 DEF Anchored, Mutual, Cleared
<1>6. \A t \in Keys : Followed(t)
  BY DEF Followed, Init
<1>7. TreeKept
  BY TreeInit DEF TreeKept
<1> QED BY <1>2, <1>5, <1>6, <1>7, UnbornInit, SeriesInit, CheckedInit DEF TaskInv, Hold

LEMMA TaskStep ==
    BoardInv /\ BoardInv' /\ Marks /\ OneWriter /\ TaskInv /\ [Next]_vars => TaskInv'
<1> SUFFICES ASSUME BoardInv, BoardInv', Marks, OneWriter, TaskInv, [Next]_vars PROVE TaskInv'
  OBVIOUS
<1> USE DEF TaskInv
<1>1. Unborn'
  BY UnbornStep
<1>2. SeriesInv'
  BY SeriesStep
<1>3. TreeKept'
  BY TreeStep
<1>4. \A c \in Calls : Checked(c)' /\ Copied(c)'
  BY CheckedStep, CopiedStep
<1>5. Hold'
  <2> SUFFICES ASSUME excused' = {}
               PROVE  /\ \A c \in Calls : Planned(c)'
                      /\ \A t \in Keys : Anchored(t)' /\ Mutual(t)' /\ Cleared(t)' /\ Followed(t)'
    BY DEF Hold
  <2>1. excused = {}
    BY ExcusedGrows
  <2>2. \A c \in Calls : Checked(c) /\ Planned(c) /\ Copied(c)
    BY <2>1 DEF Hold
  <2>3. \A t \in Keys : Anchored(t) /\ Mutual(t) /\ Cleared(t) /\ Followed(t)
    BY <2>1 DEF Hold
  <2> HIDE DEF TaskInv
  <2>4. Unborn /\ SeriesInv /\ TreeKept
    BY DEF TaskInv
  <2>5. \A c \in Calls : Planned(c)'
    BY <2>2, <2>4, PlannedStep
  <2>6. \A t \in Keys : Anchored(t)'
    BY <2>2, <2>3, <2>4, AnchoredStep
  <2>7. \A t \in Keys : Mutual(t)'
    BY <2>2, <2>3, <2>4, MutualStep
  <2>8. \A t \in Keys : Cleared(t)'
    BY <2>2, <2>3, <2>4, ClearedStep
  <2>9. \A t \in Keys : Followed(t)'
    BY <2>2, <2>3, <2>4, FollowedStep
  <2> QED BY <2>5, <2>6, <2>7, <2>8, <2>9
<1> QED BY <1>1, <1>2, <1>3, <1>4, <1>5

LEMMA TaskInvariance == Spec => []TaskInv
<1> DEFINE All == BoardInv /\ LockInv /\ Marks /\ TaskInv
<1>1. TaskInv /\ Marks /\ BoardInv /\ LockInv /\ BoardInv' /\ [Next]_vars => TaskInv'
  BY TaskStep, InvOneWriter
<1> QED BY <1>1, TaskInit, MarksInit, MarksStep, BoardInvariance, PTL DEF Spec

(* tasks-core.js:610-611: at rest a completed recurring task has exactly   *)
(* one successor, and one that still recurs has none.                      *)
THEOREM BoardOneSuccessor == Spec => []OneSuccessor
<1>1. TaskInv /\ BoardInv /\ Marks => OneSuccessor
  <2> SUFFICES ASSUME TaskInv, BoardInv, Marks, NEW t \in DOMAIN next
               PROVE  /\ "torn" \notin excused => next[t] <= 1
                      /\ AtRest /\ excused = {} /\ docs[t] # None =>
                             next[t] = IF docs[t].recurrence THEN 0 ELSE 1
    BY DEF OneSuccessor
  <2>1. t \in Keys
    BY DEF Marks
  <2>2. "torn" \notin excused => Counted(t)
    BY <2>1 DEF TaskInv, SeriesInv
  <2>3. excused = {} => Followed(t)
    BY <2>1 DEF TaskInv, Hold
  <2>4. AtRest => \A c \in Calls : ~Spawning(c) /\ ~Removing(c)
    BY DEF AtRest, Active, Spawning, Removing
  <2> QED BY <2>2, <2>3, <2>4 DEF Counted, Followed
<1>2. Spec => []Marks
  BY MarksInit, MarksStep, PTL DEF Spec
<1> QED BY <1>1, <1>2, TaskInvariance, BoardInvariance, PTL

(* assertParentOk: no task is above itself and none is deeper than the     *)
(* limit, whatever is converted, created, spawned and removed at once.     *)
THEOREM BoardTreeKept == Spec => []TreeKept
<1>1. TaskInv => TreeKept
  BY DEF TaskInv
<1> QED BY <1>1, TaskInvariance, PTL

(* deleteTask and setBlocker: at rest no parent and no blocker is missing, *)
(* and no two tasks block each other.                                      *)
THEOREM BoardLinksResolve == Spec => []LinksResolve
<1>1. TaskInv /\ BoardInv => LinksResolve
  <2> SUFFICES ASSUME TaskInv, BoardInv, AtRest, excused = {} PROVE Resolves(Links)
    BY DEF LinksResolve
  <2>1. \A c \in Calls : ~Removing(c) /\ ~Unblocking(c)
    BY DEF AtRest, Active, Removing, Unblocking
  <2>2. \A t \in Keys : Anchored(t) /\ Mutual(t) /\ Cleared(t)
    BY DEF TaskInv, Hold
  <2> SUFFICES ASSUME NEW t \in Listed(Links)
               PROVE  /\ Links[t].parent # None => Links[t].parent \in Listed(Links)
                      /\ Links[t].blockedBy \subseteq Listed(Links)
                      /\ \A b \in Links[t].blockedBy : t \notin Links[b].blockedBy
    BY DEF Resolves
  <2>3. /\ t \in Keys /\ docs[t] # None /\ Links[t].parent = docs[t].parent
        /\ Links[t].blockedBy = docs[t].blockedBy /\ docs[t] \in Doc
    BY LinksOf DEF Listed
  <2>4. Links[t].parent # None => Links[t].parent \in Listed(Links)
    BY <2>1, <2>2, <2>3, LinksOf DEF Anchored, Doc
  <2>5. ASSUME NEW b \in Links[t].blockedBy PROVE b \in Listed(Links) /\ t \notin Links[b].blockedBy
    <3>1. b \in Keys /\ b \in docs[t].blockedBy
      BY <2>3 DEF Doc
    <3>2. docs[b] # None
      BY <2>1, <2>2, <2>3, <3>1 DEF Cleared, Clearing
    <3>3. t \notin docs[b].blockedBy
      BY <2>2, <2>3, <3>1, <3>2 DEF Mutual
    <3> QED BY <3>1, <3>2, <3>3, LinksOf
  <2> QED BY <2>4, <2>5
<1> QED BY <1>1, TaskInvariance, BoardInvariance, PTL
=============================================================================
