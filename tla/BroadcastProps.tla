-------------------------- MODULE BroadcastProps --------------------------
(***************************************************************************)
(* What a broadcast is expected to do.                                     *)
(***************************************************************************)
EXTENDS Broadcast

(* The values each variable may hold.                                      *)
TypeOK ==
    /\ camp \in [Campaigns -> Doc]
    /\ \A p \in Processes : update[p].phase \in {"none", "get", "put"}
    /\ \A ch \in Channels :
         /\ runner[ch].pc \in {"idle", "close", "danger", "health", "pick", "send"}
         /\ runner[ch].todo \subseteq Campaigns /\ runner[ch].queue \subseteq Leads
         /\ runner[ch].budget \in 0..PER_TICK[ch]
    /\ today \in Days
    /\ messages \in [Channels -> [Campaigns -> [Leads -> Nat]]]
    /\ sentOn \in [Days -> Nat]
    /\ bounced \subseteq Campaigns \X Leads \X Nat
    /\ faults \in 0..MaxFaults /\ restarts \in 0..MaxRestarts

(* waReceived and emailSkipReason ("já recebeu"): a lead gets a second     *)
(* message of a broadcast only when the one before was not delivered, and  *)
(* a restart, which forgets the batch it cut, costs it at most one more.   *)
NoDuplicate ==
    \A c \in Campaigns, l \in Leads :
        /\ messages.em[c][l] <= 1 + restarts
        /\ Cardinality({n \in 1..(messages.wa[c][l] - 1) : <<c, l, n>> \notin bounced}) <= restarts

(* broadcast-wa.js: a broadcast is "done" only with nothing left in a      *)
(* queue.  A lead queued in a done campaign would never be sent.           *)
DoneHasNoQueue ==
    \A c \in Campaigns : camp[c].status = "done" => ~HasQueued(camp[c])

(* broadcast-wa.js: the number starts at most CAP messages in a day.  A    *)
(* restart can make it forget no more than the batch it cut, and of the    *)
(* messages that were sent only one that was not delivered is forgotten,   *)
(* when its lead is queued again.                                          *)
DailyCap ==
    \A d \in Days : sentOn[d] <= CAP + restarts * PER_TICK["wa"] + Cardinality(bounced)

(* The queue drains: with fair runners a campaign that is being sent is    *)
(* eventually done or paused, if the days of the model do not run out: on  *)
(* the last one the number may have used up its allowance.                 *)
Drains ==
    \A c \in Campaigns : camp[c].status = "sending" ~>
        \/ camp[c].status \in {"done", "paused"}
        \/ today = MaxDay /\ sentOn[MaxDay] >= CAP
=============================================================================
