----------------------------- MODULE EventLog -----------------------------
(***************************************************************************)
(* What the inbox promises the products: an event is stored before it is   *)
(* acknowledged, is recorded on the timeline at most once, and what was    *)
(* recorded never changes.                                                 *)
(***************************************************************************)
CONSTANTS Events, Owners, NoOwner

VARIABLES stored, acked, recorded

vars == <<stored, acked, recorded>>

Init ==
    /\ stored = {}
    /\ acked = {}
    /\ recorded = [e \in Events |-> NoOwner]

Store(e) ==
    /\ stored' = stored \cup {e}
    /\ UNCHANGED <<acked, recorded>>

Acknowledge(e) ==
    /\ e \in stored
    /\ acked' = acked \cup {e}
    /\ UNCHANGED <<stored, recorded>>

Record(e, o) ==
    /\ e \in stored
    /\ recorded[e] = NoOwner
    /\ recorded' = [recorded EXCEPT ![e] = o]
    /\ UNCHANGED <<stored, acked>>

Next == \E e \in Events :
    \/ Store(e)
    \/ Acknowledge(e)
    \/ \E o \in Owners \ {NoOwner} : Record(e, o)

Spec == Init /\ [][Next]_vars
=============================================================================
