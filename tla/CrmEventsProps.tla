-------------------------- MODULE CrmEventsProps --------------------------
(***************************************************************************)
(* What the inbox of product events is expected to do, and the mutations   *)
(* that show each property can fail.                                       *)
(***************************************************************************)
EXTENDS CrmEvents

(* The values each variable may hold.                                      *)
TypeOK ==
    /\ status \in [Events -> Statuses]
    /\ attempts \in [Events -> 0..MAX_ATTEMPTS]
    /\ due \in [Events -> BOOLEAN]
    /\ timeline \in [Events -> Refs]
    /\ owner \in [Events -> Refs]
    /\ leverId \in [Parties -> LeverIds]
    /\ acked \subseteq Events
    /\ request \in [Requests -> [pc : {"idle", "get", "create", "reply"},
                                 ev : Events \cup {None}]]
    /\ pc \in [Workers -> WorkPcs]
    /\ job \in [Workers -> Events \cup {None}]
    /\ tries \in [Workers -> 0..MAX_ATTEMPTS]
    /\ refs \in [Workers -> Refs]
    /\ asked \subseteq Retried
    /\ batch \subseteq [ev : Events, tries : 0..MAX_ATTEMPTS]
    /\ faults \in 0..MaxFaults
    /\ restarts \in 0..MaxRestarts

(* Closing an event as processed means the timeline has its item: no       *)
(* interleaving of handler, runner, fault and restart skips the append.    *)
ProcessedIsOnTimeline ==
    \A e \in Events : status[e] = "processed" => timeline[e] # NoRefs

(* An event the emitter got a 202 for is in the inbox, in a state the      *)
(* runner looks for or in a final one, whatever crashed.                   *)
AckedIsStored == \A e \in acked : status[e] # "none"

(* Giving up takes exactly MAX_ATTEMPTS attempts, and a row the runner     *)
(* still looks for has some left, even when a stale snapshot is written.   *)
DeadOnlyAtTheLimit ==
    \A e \in Events :
        /\ status[e] = "dead" => attempts[e] = MAX_ATTEMPTS
        /\ status[e] \in Retried => attempts[e] < MAX_ATTEMPTS

(* What holds between the queries, and makes the three above inductive.    *)
RequestsInOrder ==
    \A r \in Requests :
        /\ request[r].pc # "idle" => request[r].ev \in Events
        /\ request[r].pc = "reply" => status[request[r].ev] # "none"

WorkInOrder ==
    \A w \in Workers : pc[w] # "idle" =>
        /\ job[w] \in Events
        /\ status[job[w]] # "none"
        /\ pc[w] \in {"appendGet", "appendCreate"} => refs[w] # NoRefs
        /\ pc[w] \in {"leadGet", "leadPut", "contactGet", "contactPut", "lifecycle",
                      "processed"} => timeline[job[w]] # NoRefs
        /\ pc[w] = "leadPut" => refs[w].lead # None
        /\ pc[w] = "contactPut" => refs[w].customer # None

BatchInOrder ==
    \A b \in batch : b.tries < MAX_ATTEMPTS /\ status[b.ev] # "none"

Inv ==
    /\ TypeOK
    /\ ProcessedIsOnTimeline /\ AckedIsStored /\ DeadOnlyAtTheLimit
    /\ RequestsInOrder /\ WorkInOrder /\ BatchInOrder

(* The inbox implements the promise of EventLog: stored before it is       *)
(* acknowledged, recorded at most once, never rewritten.                   *)
Log == INSTANCE EventLog WITH
    Owners <- Refs, NoOwner <- NoRefs,
    stored <- {e \in Events : status[e] # "none"}, recorded <- timeline

ImplementsEventLog == Log!Spec

(* Header of events-core.js: pending, unmatched and failed rows are tried  *)
(* again until they are processed or exhausted.  An event that is stored,  *)
(* as it then stays, ends up closed for good, through any finite number of *)
(* faults and restarts.                                                    *)
EveryEventIsClosed ==
    \A e \in Events : <>[](status[e] \in {"none", "processed", "dead"})
=============================================================================
