---------------------------- MODULE CrmEvents ----------------------------
(***************************************************************************)
(* The inbox of product events (events/events-core.js), the timeline it    *)
(* feeds (events/timeline.js) and the route that fills it                  *)
(* (events/routes.events.js).                                              *)
(*                                                                         *)
(* A product posts a signed event and retries until it is answered.  The   *)
(* route stores the event once, answers 202, and starts processEvent       *)
(* without awaiting it.  A 60 s runner processes what is pending or due    *)
(* for a retry.  Every `await` of the single Node process is a point where *)
(* another request, handler or the runner may run, and any query may throw *)
(* (before or after the database applied it); a restart forgets whatever   *)
(* is in flight.                                                           *)
(***************************************************************************)
EXTENDS Naturals, FiniteSets

CONSTANTS
    Events,       \* the envelopes: one per emitter and event_id
    Requests,     \* HTTP requests to /public/events/v1 in flight at once
    Runner,       \* the polling process of startCrmEvents
    Leads, Customers,
    None,         \* the empty string or null of the source
    LeverIdOf,    \* event -> the lever_id of its envelope, or None
    MAX_ATTEMPTS, \* the source's 8
    MaxFaults,    \* bound: how many queries throw
    MaxRestarts   \* bound: how many times the process restarts

ASSUME EventsAssumption ==
    /\ MAX_ATTEMPTS \in Nat \ {0}
    /\ MaxFaults \in Nat /\ MaxRestarts \in Nat
    /\ Runner \notin Events
    /\ None \notin Leads /\ None \notin Customers
    /\ Leads \cap Customers = {}

VARIABLES
    status,    \* crm_events[e].status, "none" while the row does not exist
    attempts,  \* crm_events[e].attempts
    due,       \* crm_events[e].nextAttemptAt <= now
    timeline,  \* timeline_events["tl:" + e].{lead, customer}, NoRefs if absent
    owner,     \* what resolveRefs would answer now, from leads and customers
    leverId,   \* the leverId of a lead, or of the customer's matching contact
    acked,     \* events the emitter has a 202 for
    request,   \* request -> [pc, ev]
    pc, job, tries, refs,  \* one processEvent per worker: its next query, its
                           \* event, the attempts of its snapshot, its refs
    asked,     \* the statuses dueEvents has queried in this pass
    batch,     \* the snapshots of dueEvents still to process
    faults, restarts

inboxVars == <<status, attempts, due>>
workVars == <<pc, job, tries, refs>>
runnerVars == <<asked, batch>>
vars == <<status, attempts, due, timeline, owner, leverId, acked, request,
          pc, job, tries, refs, asked, batch, faults, restarts>>

-----------------------------------------------------------------------------
(* A handler started by the route has the name of its event.                *)
Workers == Events \cup {Runner}
Refs == [lead : Leads \cup {None}, customer : Customers \cup {None}]
NoRefs == [lead |-> None, customer |-> None]
Parties == Leads \cup Customers
LeverIds == {LeverIdOf[e] : e \in Events} \cup {None}
Statuses == {"none", "pending", "processed", "unmatched", "failed", "dead"}
RetriedWithoutUnmatched == {"pending", "failed"}
Retried == {"pending", "unmatched", "failed"}
WorkPcs == {"idle", "resolve", "appendGet", "appendCreate", "leadGet", "leadPut",
            "contactGet", "contactPut", "lifecycle", "processed", "unmatched", "fail"}
Snapshots == [ev : Events, tries : Nat]

Init ==
    /\ status = [e \in Events |-> "none"]
    /\ attempts = [e \in Events |-> 0]
    /\ due = [e \in Events |-> FALSE]
    /\ timeline = [e \in Events |-> NoRefs]
    /\ owner \in [Events -> Refs]
    /\ leverId = [p \in Parties |-> None]
    /\ acked = {}
    /\ request = [r \in Requests |-> [pc |-> "idle", ev |-> None]]
    /\ pc = [w \in Workers |-> "idle"]
    /\ job = [w \in Workers |-> None]
    /\ tries = [w \in Workers |-> 0]
    /\ refs = [w \in Workers |-> NoRefs]
    /\ asked = {}
    /\ batch = {}
    /\ faults = 0
    /\ restarts = 0

-----------------------------------------------------------------------------
(* The route: ingestEvent, then the answer.                                 *)

Begin(w, e, n) ==
    /\ pc' = [pc EXCEPT ![w] = "resolve"]
    /\ job' = [job EXCEPT ![w] = e]
    /\ tries' = [tries EXCEPT ![w] = n + 1]
    /\ refs' = [refs EXCEPT ![w] = NoRefs]

(* The emitter sends e; nothing stops it from sending e again meanwhile.    *)
Deliver(r, e) ==
    /\ request[r].pc = "idle"
    /\ request' = [request EXCEPT ![r] = [pc |-> "get", ev |-> e]]
    /\ UNCHANGED <<inboxVars, timeline, owner, leverId, acked, workVars, runnerVars,
                   faults, restarts>>

(* repo.get(EVENTS, record.id): a stored event is a duplicate.              *)
IngestGet(r) ==
    /\ request[r].pc = "get"
    /\ request' = [request EXCEPT ![r].pc =
                     IF status[request[r].ev] = "none" THEN "create" ELSE "reply"]
    /\ UNCHANGED <<inboxVars, timeline, owner, leverId, acked, workVars, runnerVars,
                   faults, restarts>>

(* repo.create: the row is inserted and the route starts processEvent on    *)
(* the fresh record; the primary key sends the loser of a race to reply.    *)
IngestCreate(r) ==
    LET e == request[r].ev IN
    /\ request[r].pc = "create"
    /\ request' = [request EXCEPT ![r].pc = "reply"]
    /\ IF status[e] = "none"
       THEN /\ status' = [status EXCEPT ![e] = "pending"]
            /\ attempts' = [attempts EXCEPT ![e] = 0]
            /\ due' = [due EXCEPT ![e] = TRUE]
            /\ Begin(e, e, 0)
       ELSE UNCHANGED <<inboxVars, workVars>>
    /\ UNCHANGED <<timeline, owner, leverId, acked, runnerVars, faults, restarts>>

Reply(r) ==
    /\ request[r].pc = "reply"
    /\ acked' = acked \cup {request[r].ev}
    /\ request' = [request EXCEPT ![r] = [pc |-> "idle", ev |-> None]]
    /\ UNCHANGED <<inboxVars, timeline, owner, leverId, workVars, runnerVars,
                   faults, restarts>>

(* A query of ingestEvent throws: the emitter gets a 500 and will resend.   *)
(* When it is the answer to the INSERT that is lost, the row stays, with    *)
(* no handler, for the runner; the catch's own get finds it.                *)
IngestFails(r) ==
    LET e == request[r].ev IN
    /\ request[r].pc \in {"get", "create"}
    /\ faults < MaxFaults
    /\ faults' = faults + 1
    /\ \/ /\ request' = [request EXCEPT ![r] = [pc |-> "idle", ev |-> None]]
          /\ UNCHANGED inboxVars
       \/ /\ request[r].pc = "create" /\ status[e] = "none"
          /\ status' = [status EXCEPT ![e] = "pending"]
          /\ attempts' = [attempts EXCEPT ![e] = 0]
          /\ due' = [due EXCEPT ![e] = TRUE]
          /\ request' = [request EXCEPT ![r].pc = "reply"]
    /\ UNCHANGED <<timeline, owner, leverId, acked, workVars, runnerVars, restarts>>

-----------------------------------------------------------------------------
(* processEvent, one query at a time.                                       *)

Goto(w, l) ==
    /\ pc' = [pc EXCEPT ![w] = l]
    /\ UNCHANGED <<job, tries>>

(* processEvent returns or rejects, and its locals are gone.                *)
Leave(w) ==
    /\ pc' = [pc EXCEPT ![w] = "idle"]
    /\ job' = [job EXCEPT ![w] = None]
    /\ tries' = [tries EXCEPT ![w] = 0]
    /\ refs' = [refs EXCEPT ![w] = NoRefs]

(* A query was applied but its answer is lost: the catch takes over.        *)
AnswerLost(w) ==
    /\ faults < MaxFaults
    /\ faults' = faults + 1
    /\ Goto(w, "fail")
    /\ UNCHANGED refs

Answered(w, l) ==
    \/ Goto(w, l) /\ UNCHANGED <<refs, faults>>
    \/ AnswerLost(w)

Returned(w) ==
    \/ Leave(w) /\ UNCHANGED faults
    \/ AnswerLost(w)

(* The queries of resolveRefs, as one read of who owns the event.           *)
ResolveRefs(w) ==
    /\ pc[w] = "resolve"
    /\ refs' = [refs EXCEPT ![w] = owner[job[w]]]
    /\ Goto(w, IF owner[job[w]] = NoRefs THEN "unmatched" ELSE "appendGet")
    /\ UNCHANGED <<inboxVars, timeline, owner, leverId, acked, request,
                   runnerVars, faults, restarts>>

(* stampLeverId returns at once when the envelope has no lever_id.          *)
AfterAppend(w) == IF LeverIdOf[job[w]] = None THEN "lifecycle" ELSE "leadGet"

AppendGet(w) ==
    /\ pc[w] = "appendGet"
    /\ Goto(w, IF timeline[job[w]] = NoRefs THEN "appendCreate" ELSE AfterAppend(w))
    /\ UNCHANGED <<inboxVars, timeline, owner, leverId, acked, request, refs,
                   runnerVars, faults, restarts>>

(* Mutations: appendTimeline as an upsert; appendTimeline not awaited.       *)
AppendUpsert(w) ==
    /\ pc[w] = "appendCreate"
    /\ timeline' = [timeline EXCEPT ![job[w]] = refs[w]]
    /\ Answered(w, AfterAppend(w))
    /\ UNCHANGED <<inboxVars, owner, leverId, acked, request, runnerVars, restarts>>

AppendNotAwaited(w) ==
    /\ pc[w] = "appendCreate"
    /\ \/ timeline' = [timeline EXCEPT ![job[w]] = refs[w]]
       \/ UNCHANGED timeline
    /\ Answered(w, AfterAppend(w))
    /\ UNCHANGED <<inboxVars, owner, leverId, acked, request, runnerVars, restarts>>

(* The INSERT of appendTimeline; a second one breaks the primary key.       *)
AppendCreate(w) ==
    /\ pc[w] = "appendCreate"
    /\ IF timeline[job[w]] = NoRefs
       THEN /\ timeline' = [timeline EXCEPT ![job[w]] = refs[w]]
            /\ Answered(w, AfterAppend(w))
       ELSE Goto(w, "fail") /\ UNCHANGED <<timeline, refs, faults>>
    /\ UNCHANGED <<inboxVars, owner, leverId, acked, request,
                   runnerVars, restarts>>

(* stampLeverId reads the lead, and writes it when it had no leverId.       *)
LeadGet(w) ==
    LET l == refs[w].lead IN
    /\ pc[w] = "leadGet"
    /\ Goto(w, IF l = None THEN "contactGet"
               ELSE IF leverId[l] = None THEN "leadPut" ELSE "contactGet")
    /\ UNCHANGED <<inboxVars, timeline, owner, leverId, acked, request, refs,
                   runnerVars, faults, restarts>>

LeadPut(w) ==
    /\ pc[w] = "leadPut"
    /\ leverId' = [leverId EXCEPT ![refs[w].lead] = LeverIdOf[job[w]]]
    /\ Answered(w, "contactGet")
    /\ UNCHANGED <<inboxVars, timeline, owner, acked, request,
                   runnerVars, restarts>>

(* The customer's contact with the event's e-mail, if there is one.         *)
ContactGet(w) ==
    LET c == refs[w].customer IN
    /\ pc[w] = "contactGet"
    /\ \/ Goto(w, "lifecycle")
       \/ c # None /\ leverId[c] = None /\ Goto(w, "contactPut")
    /\ UNCHANGED <<inboxVars, timeline, owner, leverId, acked, request, refs,
                   runnerVars, faults, restarts>>

ContactPut(w) ==
    /\ pc[w] = "contactPut"
    /\ leverId' = [leverId EXCEPT ![refs[w].customer] = LeverIdOf[job[w]]]
    /\ Answered(w, "lifecycle")
    /\ UNCHANGED <<inboxVars, timeline, owner, acked, request,
                   runnerVars, restarts>>

(* refreshLifecycle writes the customer and items of its own.               *)
RefreshLifecycle(w) ==
    /\ pc[w] = "lifecycle"
    /\ Goto(w, "processed")
    /\ UNCHANGED <<inboxVars, timeline, owner, leverId, acked, request, refs,
                   runnerVars, faults, restarts>>

(* The three ways processEvent ends are one UPDATE of the row.  Each sets   *)
(* status and attempts from the snapshot, whatever the row holds by now, so *)
(* the re-read inside repo.update cannot bring an older value back.         *)
Processed(w) ==
    /\ pc[w] = "processed"
    /\ status' = [status EXCEPT ![job[w]] = "processed"]
    /\ attempts' = [attempts EXCEPT ![job[w]] = tries[w]]
    /\ Returned(w)
    /\ UNCHANGED <<due, timeline, owner, leverId, acked, request,
                   runnerVars, restarts>>

(* Mutation: one attempt too many.                                           *)
VerdictLate(n, s) == IF n > MAX_ATTEMPTS THEN "dead" ELSE s

Verdict(n, s) == IF n >= MAX_ATTEMPTS THEN "dead" ELSE s

Retry(w, s) ==
    /\ status' = [status EXCEPT ![job[w]] = Verdict(tries[w], s)]
    /\ attempts' = [attempts EXCEPT ![job[w]] = tries[w]]
    /\ due' = [due EXCEPT ![job[w]] = FALSE]

Unmatched(w) ==
    /\ pc[w] = "unmatched"
    /\ Retry(w, "unmatched")
    /\ Returned(w)
    /\ UNCHANGED <<timeline, owner, leverId, acked, request,
                   runnerVars, restarts>>

Failed(w) ==
    /\ pc[w] = "fail"
    /\ Retry(w, "failed")
    /\ Leave(w)
    /\ UNCHANGED <<timeline, owner, leverId, acked, request,
                   runnerVars, faults, restarts>>

(* A query throws before it changes anything: inside the try the catch      *)
(* takes over; inside the catch processEvent rejects, which the route logs  *)
(* and which ends the runner's whole pass.                                  *)
QueryFails(w) ==
    /\ pc[w] # "idle"
    /\ faults < MaxFaults
    /\ faults' = faults + 1
    /\ IF pc[w] = "fail"
       THEN /\ Leave(w)
            /\ batch' = IF w = Runner THEN {} ELSE batch
       ELSE Goto(w, "fail") /\ UNCHANGED <<refs, batch>>
    /\ UNCHANGED <<inboxVars, timeline, owner, leverId, acked, request,
                   asked, restarts>>

-----------------------------------------------------------------------------
(* The runner.  dueEvents asks for each status in a query of its own, so an *)
(* event that changes status meanwhile may be seen twice or not at all.     *)
Query(s) ==
    /\ pc[Runner] = "idle"
    /\ s \notin asked
    /\ asked = {} => batch = {}
    /\ asked' = asked \cup {s}
    /\ batch' = batch \cup {[ev |-> e, tries |-> attempts[e]] :
                              e \in {x \in Events : status[x] = s /\ due[x]}}
    /\ UNCHANGED <<inboxVars, timeline, owner, leverId, acked, request, workVars,
                   faults, restarts>>

(* One of the queries throws: the pass ends and the interval tries again.   *)
QueryDueFails ==
    /\ pc[Runner] = "idle"
    /\ asked # Retried
    /\ faults < MaxFaults
    /\ faults' = faults + 1
    /\ asked' = {}
    /\ batch' = {}
    /\ UNCHANGED <<inboxVars, timeline, owner, leverId, acked, request, workVars, restarts>>

(* The next snapshot of the batch (the order by receivedAt is left open).   *)
Take(b) ==
    /\ pc[Runner] = "idle"
    /\ asked = Retried
    /\ b \in batch
    /\ batch' = batch \ {b}
    /\ Begin(Runner, b.ev, b.tries)
    /\ UNCHANGED <<inboxVars, timeline, owner, leverId, acked, request, asked,
                   faults, restarts>>

(* The pass is over: the next tick of the interval starts another.          *)
EndPass ==
    /\ pc[Runner] = "idle"
    /\ asked = Retried
    /\ batch = {}
    /\ asked' = {}
    /\ UNCHANGED <<inboxVars, timeline, owner, leverId, acked, request, workVars, batch,
                   faults, restarts>>

-----------------------------------------------------------------------------
(* The world: the wait of a retry ends, the CRM learns who somebody is, the *)
(* process restarts.                                                        *)
BackoffElapses(e) ==
    /\ status[e] \in {"unmatched", "failed"}
    /\ ~due[e]
    /\ due' = [due EXCEPT ![e] = TRUE]
    /\ UNCHANGED <<status, attempts, timeline, owner, leverId, acked, request, workVars,
                   runnerVars, faults, restarts>>

CrmChanges(e, r) ==
    /\ owner' = [owner EXCEPT ![e] = r]
    /\ UNCHANGED <<inboxVars, timeline, leverId, acked, request, workVars, runnerVars,
                   faults, restarts>>

Restart ==
    /\ restarts < MaxRestarts
    /\ restarts' = restarts + 1
    /\ request' = [r \in Requests |-> [pc |-> "idle", ev |-> None]]
    /\ pc' = [w \in Workers |-> "idle"]
    /\ job' = [w \in Workers |-> None]
    /\ tries' = [w \in Workers |-> 0]
    /\ refs' = [w \in Workers |-> NoRefs]
    /\ asked' = {}
    /\ batch' = {}
    /\ UNCHANGED <<inboxVars, timeline, owner, leverId, acked, faults>>

-----------------------------------------------------------------------------
Step(w) ==
    \/ ResolveRefs(w) \/ AppendGet(w) \/ AppendCreate(w)
    \/ LeadGet(w) \/ LeadPut(w) \/ ContactGet(w) \/ ContactPut(w)
    \/ RefreshLifecycle(w) \/ Processed(w) \/ Unmatched(w) \/ Failed(w)

RunnerStep == (\E s \in Retried : Query(s)) \/ (\E b \in batch : Take(b)) \/ EndPass

Next ==
    \/ \E r \in Requests, e \in Events : Deliver(r, e)
    \/ \E r \in Requests : IngestGet(r) \/ IngestCreate(r) \/ Reply(r) \/ IngestFails(r)
    \/ \E w \in Workers : Step(w) \/ QueryFails(w)
    \/ RunnerStep
    \/ QueryDueFails
    \/ \E e \in Events : BackoffElapses(e)
    \/ \E e \in Events, r \in Refs : CrmChanges(e, r)
    \/ Restart

Spec == Init /\ [][Next]_vars

(* A started function runs on until it ends, the interval keeps firing and  *)
(* time passes.  Nothing is assumed of the emitters, the CRM or the faults. *)
Fairness ==
    /\ \A w \in Workers : WF_vars(Step(w))
    /\ WF_vars(RunnerStep)
    /\ \A e \in Events : WF_vars(BackoffElapses(e))

FairSpec == Spec /\ Fairness
=============================================================================
