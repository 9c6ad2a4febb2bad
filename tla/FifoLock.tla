----------------------------- MODULE FifoLock -----------------------------
(***************************************************************************)
(* What withTaskLock promises (tasks/tasks-core.js): the calls of one key  *)
(* run one at a time, in the order they were made, whatever came of the    *)
(* calls before them.                                                      *)
(***************************************************************************)
CONSTANTS Calls, Keys, None

VARIABLES
    state,   \* call -> "new", "waiting", "running", "over"
    key,     \* call -> the key it locks, None before it is made
    before   \* call -> the calls of its key that were made before it

vars == <<state, key, before>>

Init ==
    /\ state = [c \in Calls |-> "new"]
    /\ key = [c \in Calls |-> None]
    /\ before = [c \in Calls |-> {}]

Join(c, k) ==
    /\ state[c] = "new"
    /\ state' = [state EXCEPT ![c] = "waiting"]
    /\ key' = [key EXCEPT ![c] = k]
    /\ before' = [before EXCEPT ![c] = {d \in Calls : key[d] = k}]

Start(c) ==
    /\ state[c] = "waiting"
    /\ \A d \in before[c] : state[d] = "over"
    /\ state' = [state EXCEPT ![c] = "running"]
    /\ UNCHANGED <<key, before>>

Finish(c) ==
    /\ state[c] = "running"
    /\ state' = [state EXCEPT ![c] = "over"]
    /\ UNCHANGED <<key, before>>

(* The process stops, and with it every call.                              *)
Stop ==
    /\ state' = [c \in Calls |-> IF state[c] = "new" THEN "new" ELSE "over"]
    /\ UNCHANGED <<key, before>>

Next ==
    \/ \E c \in Calls, k \in Keys : Join(c, k)
    \/ \E c \in Calls : Start(c) \/ Finish(c)
    \/ Stop

Spec == Init /\ [][Next]_vars
=============================================================================
