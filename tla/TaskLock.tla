----------------------------- MODULE TaskLock -----------------------------
(***************************************************************************)
(* withTaskLock (tasks/tasks-core.js): a queue per key made of promises.   *)
(* A call chains itself behind the promise the map `locks` holds for its   *)
(* key and puts its own there; a callback of the promise removes it again, *)
(* if no later call has replaced it.  The map lives in memory.             *)
(***************************************************************************)
CONSTANTS
    Calls,   \* calls of withTaskLock, each made once
    Keys,    \* what they lock: ids of tasks, "ticket:<id>", ...
    None

ASSUME LockAssumption == None \notin Calls \cup Keys

VARIABLES
    locks,   \* key -> the call whose promise the map holds, or None
    prev,    \* call -> the call it is chained behind, or None
    stage,   \* call -> "new", "queued", "running", "settled", "gone"
    key,     \* call -> the key it locks
    before   \* auxiliary: call -> the calls of its key made before it

lockVars == <<locks, prev, stage, key, before>>

Settled(c) == stage[c] \in {"settled", "gone"}

LockInit ==
    /\ locks = [k \in Keys |-> None]
    /\ prev = [c \in Calls |-> None]
    /\ stage = [c \in Calls |-> "new"]
    /\ key = [c \in Calls |-> None]
    /\ before = [c \in Calls |-> {}]

(* withTaskLock(k, fn), up to its return.                                  *)
Enter(c, k) ==
    /\ stage[c] = "new"
    /\ stage' = [stage EXCEPT ![c] = "queued"]
    /\ prev' = [prev EXCEPT ![c] = locks[k]]
    /\ locks' = [locks EXCEPT ![k] = c]
    /\ key' = [key EXCEPT ![c] = k]
    /\ before' = [before EXCEPT ![c] = {d \in Calls : key[d] = k}]

(* A slip: a call waits until the entry of its key is its own.             *)
FreeAsLast(c) == locks[key[c]] = c /\ \A d \in before[c] : Settled(d)
Free(c) == prev[c] # None => Settled(prev[c])

(* A slip: a call runs as soon as no other of its key is running.          *)
RunOutOfTurn(c) ==
    /\ stage[c] = "queued"
    /\ \A d \in Calls : key[d] = key[c] => stage[d] # "running"
    /\ stage' = [stage EXCEPT ![c] = "running"]
    /\ UNCHANGED <<locks, prev, key, before>>

(* A slip: a call does not wait for the one it is chained behind.          *)
RunAtOnce(c) ==
    /\ stage[c] = "queued"
    /\ stage' = [stage EXCEPT ![c] = "running"]
    /\ UNCHANGED <<locks, prev, key, before>>

(* prev.then(fn, fn): fn starts when the one before has settled either way. *)
Run(c) ==
    /\ stage[c] = "queued" /\ Free(c)
    /\ stage' = [stage EXCEPT ![c] = "running"]
    /\ UNCHANGED <<locks, prev, key, before>>

(* fn returns or throws.                                                   *)
Settle(c) ==
    /\ stage[c] = "running"
    /\ stage' = [stage EXCEPT ![c] = "settled"]
    /\ UNCHANGED <<locks, prev, key, before>>

(* The callback of the settled promise.                                    *)
Forget(c) ==
    /\ stage[c] = "settled"
    /\ stage' = [stage EXCEPT ![c] = "gone"]
    /\ locks' = IF locks[key[c]] = c THEN [locks EXCEPT ![key[c]] = None] ELSE locks
    /\ UNCHANGED <<prev, key, before>>

(* The process restarts with an empty map; its calls are lost.             *)
LockStop ==
    /\ locks' = [k \in Keys |-> None]
    /\ stage' = [c \in Calls |-> IF stage[c] = "new" THEN "new" ELSE "gone"]
    /\ UNCHANGED <<prev, key, before>>

LockNext ==
    \/ \E c \in Calls, k \in Keys : Enter(c, k)
    \/ \E c \in Calls : Run(c) \/ Settle(c) \/ Forget(c)
    \/ LockStop

LockSpec == LockInit /\ [][LockNext]_lockVars

-----------------------------------------------------------------------------
(* One task, one writer: two calls of one key never run at once.           *)
MutualExclusion ==
    \A c, d \in Calls :
        stage[c] = "running" /\ stage[d] = "running" /\ key[c] = key[d] => c = d

(* A call that waits may start as soon as everyone before it has settled:  *)
(* no call waits for one that was made later, or for the map.              *)
NobodyIsStuck ==
    \A c \in Calls :
        stage[c] = "queued" /\ (\A d \in before[c] : Settled(d)) => Free(c)

(* The chain of promises is a fair queue (FifoLock): nobody overtakes, and *)
(* a call that failed lets the next one through.                           *)
Fifo == INSTANCE FifoLock WITH
    state <- [c \in Calls |-> IF stage[c] = "queued" THEN "waiting"
                           ELSE IF Settled(c) THEN "over" ELSE stage[c]]

ImplementsFifoLock == Fifo!Spec
=============================================================================
