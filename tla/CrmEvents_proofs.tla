------------------------- MODULE CrmEvents_proofs -------------------------
(***************************************************************************)
(* Proofs about the inbox of product events, for any events, requests,     *)
(* leads, customers, attempt limit, faults and restarts.                   *)
(***************************************************************************)
EXTENDS CrmEventsProps, TLAPS

(* The assumption on the constants and the groups of variables are used    *)
(* everywhere below.                                                       *)
USE EventsAssumption DEF inboxVars, workVars, runnerVars

LEMMA InitInv == Init => Inv
<1> SUFFICES ASSUME Init PROVE Inv
  OBVIOUS
<1>1. TypeOK
  BY DEF Init, TypeOK, Workers, Refs, NoRefs, Parties, LeverIds, Statuses, WorkPcs
<1>2. ProcessedIsOnTimeline /\ AckedIsStored /\ DeadOnlyAtTheLimit
  BY DEF Init, ProcessedIsOnTimeline, AckedIsStored, DeadOnlyAtTheLimit, Retried
<1>3. RequestsInOrder /\ WorkInOrder /\ BatchInOrder
  BY DEF Init, RequestsInOrder, WorkInOrder, BatchInOrder
<1> QED BY <1>1, <1>2, <1>3 DEF Inv
-----------------------------------------------------------------------------
(* The locals of the workers keep their types.                             *)

WorkTypeOK ==
    /\ pc \in [Workers -> WorkPcs]
    /\ job \in [Workers -> Events \cup {None}]
    /\ tries \in [Workers -> 0..MAX_ATTEMPTS]
    /\ refs \in [Workers -> Refs]

LEMMA BeginType ==
  ASSUME TypeOK, NEW w \in Workers, NEW e \in Events, NEW n \in Nat,
         n < MAX_ATTEMPTS, Begin(w, e, n)
  PROVE  WorkTypeOK'
<1> NoRefs \in Refs
  BY DEF NoRefs, Refs
<1> n + 1 \in 0..MAX_ATTEMPTS
  OBVIOUS
<1> QED BY DEF TypeOK, WorkTypeOK, Begin, WorkPcs

LEMMA LeaveType ==
  ASSUME TypeOK, NEW w \in Workers, Leave(w)
  PROVE  WorkTypeOK'
<1> NoRefs \in Refs
  BY DEF NoRefs, Refs
<1> 0 \in 0..MAX_ATTEMPTS
  OBVIOUS
<1> QED BY DEF TypeOK, WorkTypeOK, Leave, WorkPcs

LEMMA AnswerLostType ==
  ASSUME TypeOK, NEW w \in Workers, AnswerLost(w)
  PROVE  WorkTypeOK' /\ faults' \in 0..MaxFaults
BY DEF TypeOK, WorkTypeOK, AnswerLost, Goto, WorkPcs

LEMMA ReturnedType ==
  ASSUME TypeOK, NEW w \in Workers, Returned(w)
  PROVE  WorkTypeOK' /\ faults' \in 0..MaxFaults
BY LeaveType, AnswerLostType DEF TypeOK, Returned

(* What processEvent writes when it gives up for now.                      *)
LEMMA RetryType ==
  ASSUME Inv, NEW w \in Workers, job[w] \in Events,
         NEW s \in {"unmatched", "failed"}, Retry(w, s)
  PROVE  /\ status' = [status EXCEPT ![job[w]] = Verdict(tries[w], s)]
         /\ status' \in [Events -> Statuses]
         /\ attempts' \in [Events -> 0..MAX_ATTEMPTS]
         /\ due' \in [Events -> BOOLEAN]
         /\ \/ Verdict(tries[w], s) = "dead" /\ attempts'[job[w]] = MAX_ATTEMPTS
            \/ Verdict(tries[w], s) = s /\ attempts'[job[w]] < MAX_ATTEMPTS
<1>1. tries[w] \in 0..MAX_ATTEMPTS
  BY DEF Inv, TypeOK
<1>2. \/ Verdict(tries[w], s) = "dead" /\ tries[w] = MAX_ATTEMPTS
      \/ Verdict(tries[w], s) = s /\ tries[w] < MAX_ATTEMPTS
  BY <1>1 DEF Verdict
<1>3. Verdict(tries[w], s) \in Statuses
  BY <1>2 DEF Statuses
<1>4. status' \in [Events -> Statuses] /\ due' \in [Events -> BOOLEAN]
  BY <1>3 DEF Inv, TypeOK, Retry
<1>5. attempts' \in [Events -> 0..MAX_ATTEMPTS] /\ attempts'[job[w]] = tries[w]
  BY <1>1 DEF Inv, TypeOK, Retry
<1> QED BY <1>2, <1>4, <1>5 DEF Retry

-----------------------------------------------------------------------------
(* The route.                                                              *)

LEMMA DeliverInv ==
  ASSUME Inv, NEW r \in Requests, NEW e \in Events, Deliver(r, e)
  PROVE  Inv'
<1>1. TypeOK'
  BY DEF TypeOK, WorkPcs, Inv, Deliver
<1>2. ProcessedIsOnTimeline' /\ AckedIsStored' /\ DeadOnlyAtTheLimit'
  BY DEF ProcessedIsOnTimeline, AckedIsStored, DeadOnlyAtTheLimit, Inv, Deliver
<1>3. RequestsInOrder' /\ WorkInOrder' /\ BatchInOrder'
  BY DEF TypeOK, RequestsInOrder, WorkInOrder, BatchInOrder, Inv, Deliver
<1> QED BY <1>1, <1>2, <1>3 DEF Inv

LEMMA IngestGetInv ==
  ASSUME Inv, NEW r \in Requests, IngestGet(r)
  PROVE  Inv'
<1>1. TypeOK'
  BY DEF TypeOK, WorkPcs, Inv, IngestGet
<1>2. ProcessedIsOnTimeline' /\ AckedIsStored' /\ DeadOnlyAtTheLimit'
  BY DEF ProcessedIsOnTimeline, AckedIsStored, DeadOnlyAtTheLimit, Inv, IngestGet
<1>3. RequestsInOrder' /\ WorkInOrder' /\ BatchInOrder'
  BY DEF TypeOK, RequestsInOrder, WorkInOrder, BatchInOrder, Inv, IngestGet
<1> QED BY <1>1, <1>2, <1>3 DEF Inv

LEMMA IngestCreateInv ==
  ASSUME Inv, NEW r \in Requests, IngestCreate(r)
  PROVE  Inv'
<1> DEFINE e == request[r].ev
<1>0. e \in Events /\ e \in Workers
  BY DEF RequestsInOrder, Workers, Inv, IngestCreate, Begin
<1>1. TypeOK'
  <2>1. CASE status[e] = "none"
    <3>1. status' \in [Events -> Statuses] /\ due' \in [Events -> BOOLEAN]
      BY <1>0, <2>1 DEF TypeOK, Statuses, Inv, IngestCreate, Begin
    <3>2. attempts' \in [Events -> 0..MAX_ATTEMPTS]
      BY <1>0, <2>1 DEF TypeOK, Inv, IngestCreate, Begin
    <3>3. 0 \in Nat /\ 0 < MAX_ATTEMPTS /\ Begin(e, e, 0)
      BY <2>1 DEF Inv, IngestCreate, Begin
    <3>4. WorkTypeOK'
      BY <1>0, <3>3, BeginType DEF Inv, IngestCreate, Begin
    <3> QED BY <1>0, <2>1, <3>1, <3>2, <3>4
       DEF TypeOK, WorkTypeOK, Inv, IngestCreate, Begin
  <2>2. CASE status[e] # "none"
    BY <2>2 DEF TypeOK, Inv, IngestCreate, Begin
  <2> QED BY <2>1, <2>2
<1>2. ProcessedIsOnTimeline' /\ AckedIsStored' /\ DeadOnlyAtTheLimit'
  BY <1>0
     DEF TypeOK, ProcessedIsOnTimeline, AckedIsStored, DeadOnlyAtTheLimit, Retried,
         Inv, IngestCreate, Begin
<1>3. RequestsInOrder' /\ WorkInOrder' /\ BatchInOrder'
  BY <1>0
     DEF TypeOK, RequestsInOrder, WorkInOrder, BatchInOrder, Workers, Inv,
         IngestCreate, Begin
<1> QED BY <1>1, <1>2, <1>3 DEF Inv

LEMMA ReplyInv ==
  ASSUME Inv, NEW r \in Requests, Reply(r)
  PROVE  Inv'
<1>1. TypeOK'
  BY DEF TypeOK, RequestsInOrder, Inv, Reply
<1>2. ProcessedIsOnTimeline' /\ AckedIsStored' /\ DeadOnlyAtTheLimit'
  BY DEF TypeOK, ProcessedIsOnTimeline, AckedIsStored, DeadOnlyAtTheLimit,
         RequestsInOrder, Inv, Reply
<1>3. RequestsInOrder' /\ WorkInOrder' /\ BatchInOrder'
  BY DEF TypeOK, RequestsInOrder, WorkInOrder, BatchInOrder, Inv, Reply
<1> QED BY <1>1, <1>2, <1>3 DEF Inv

LEMMA IngestFailsInv ==
  ASSUME Inv, NEW r \in Requests, IngestFails(r)
  PROVE  Inv'
<1>0. request[r].ev \in Events
  BY DEF RequestsInOrder, Inv, IngestFails
<1>1. TypeOK'
  <2>1. faults' \in 0..MaxFaults
    BY DEF TypeOK, Inv, IngestFails
  <2>2. request' \in [Requests -> [pc : {"idle", "get", "create", "reply"},
                                   ev : Events \cup {None}]]
    BY <1>0 DEF TypeOK, Inv, IngestFails
  <2>3. status' \in [Events -> Statuses] /\ due' \in [Events -> BOOLEAN]
    BY <1>0 DEF TypeOK, Statuses, Inv, IngestFails
  <2>4. attempts' \in [Events -> 0..MAX_ATTEMPTS]
    BY <1>0 DEF TypeOK, Inv, IngestFails
  <2> QED BY <2>1, <2>2, <2>3, <2>4 DEF TypeOK, Inv, IngestFails
<1>2. ProcessedIsOnTimeline' /\ AckedIsStored' /\ DeadOnlyAtTheLimit'
  BY <1>0
     DEF TypeOK, ProcessedIsOnTimeline, AckedIsStored, DeadOnlyAtTheLimit, Retried,
         Inv, IngestFails
<1>3. RequestsInOrder' /\ WorkInOrder' /\ BatchInOrder'
  BY <1>0 DEF TypeOK, RequestsInOrder, WorkInOrder, BatchInOrder, Inv, IngestFails
<1> QED BY <1>1, <1>2, <1>3 DEF Inv
-----------------------------------------------------------------------------
(* processEvent: each lemma is about one query of one worker.              *)

LEMMA RunningWorker ==
  ASSUME Inv, NEW w \in Workers, pc[w] # "idle"
  PROVE  job[w] \in Events /\ status[job[w]] # "none"
BY DEF Inv, WorkInOrder

LEMMA ResolveRefsInv ==
  ASSUME Inv, NEW w \in Workers, ResolveRefs(w)
  PROVE  Inv'
<1>0. job[w] \in Events /\ status[job[w]] # "none"
  BY RunningWorker DEF ResolveRefs
<1>1. TypeOK'
  BY <1>0 DEF TypeOK, WorkPcs, Inv, ResolveRefs, Goto
<1>2. ProcessedIsOnTimeline' /\ AckedIsStored' /\ DeadOnlyAtTheLimit'
  BY <1>0
     DEF TypeOK, ProcessedIsOnTimeline, AckedIsStored, DeadOnlyAtTheLimit, Inv,
         ResolveRefs, Goto
<1>3. RequestsInOrder' /\ WorkInOrder' /\ BatchInOrder'
  BY <1>0 DEF TypeOK, RequestsInOrder, WorkInOrder, BatchInOrder, Inv, ResolveRefs, Goto
<1> QED BY <1>1, <1>2, <1>3 DEF Inv

LEMMA AppendGetInv ==
  ASSUME Inv, NEW w \in Workers, AppendGet(w)
  PROVE  Inv'
<1>0. job[w] \in Events /\ status[job[w]] # "none"
  BY RunningWorker DEF AppendGet
<1>1. TypeOK'
  BY <1>0 DEF TypeOK, WorkPcs, Inv, AppendGet, Goto, AfterAppend
<1>2. ProcessedIsOnTimeline' /\ AckedIsStored' /\ DeadOnlyAtTheLimit'
  BY <1>0
     DEF TypeOK, ProcessedIsOnTimeline, AckedIsStored, DeadOnlyAtTheLimit, Inv,
         AppendGet, Goto, AfterAppend
<1>3. RequestsInOrder' /\ WorkInOrder' /\ BatchInOrder'
  BY <1>0
     DEF TypeOK, RequestsInOrder, WorkInOrder, BatchInOrder, Inv, AppendGet, Goto,
         AfterAppend
<1> QED BY <1>1, <1>2, <1>3 DEF Inv

LEMMA AppendCreateInv ==
  ASSUME Inv, NEW w \in Workers, AppendCreate(w)
  PROVE  Inv'
<1>0. job[w] \in Events /\ status[job[w]] # "none"
  BY RunningWorker DEF AppendCreate
<1>1. TypeOK'
  BY <1>0
     DEF TypeOK, WorkPcs, Inv, AppendCreate, Goto, AfterAppend, Answered, AnswerLost
<1>2. ProcessedIsOnTimeline' /\ AckedIsStored' /\ DeadOnlyAtTheLimit'
  BY <1>0
     DEF TypeOK, ProcessedIsOnTimeline, AckedIsStored, DeadOnlyAtTheLimit, Inv,
         AppendCreate, Goto, AfterAppend, Answered, AnswerLost
<1>3. RequestsInOrder' /\ WorkInOrder' /\ BatchInOrder'
  BY <1>0
     DEF TypeOK, RequestsInOrder, WorkInOrder, BatchInOrder, Inv, AppendCreate,
         Goto, AfterAppend, Answered, AnswerLost
<1> QED BY <1>1, <1>2, <1>3 DEF Inv

LEMMA LeadGetInv ==
  ASSUME Inv, NEW w \in Workers, LeadGet(w)
  PROVE  Inv'
<1>0. job[w] \in Events /\ status[job[w]] # "none"
  BY RunningWorker DEF LeadGet
<1>1. TypeOK'
  BY <1>0 DEF TypeOK, WorkPcs, Inv, LeadGet, Goto
<1>2. ProcessedIsOnTimeline' /\ AckedIsStored' /\ DeadOnlyAtTheLimit'
  BY <1>0
     DEF TypeOK, ProcessedIsOnTimeline, AckedIsStored, DeadOnlyAtTheLimit, Inv,
         LeadGet, Goto
<1>3. RequestsInOrder' /\ WorkInOrder' /\ BatchInOrder'
  BY <1>0 DEF TypeOK, RequestsInOrder, WorkInOrder, BatchInOrder, Inv, LeadGet, Goto
<1> QED BY <1>1, <1>2, <1>3 DEF Inv

LEMMA LeadPutInv ==
  ASSUME Inv, NEW w \in Workers, LeadPut(w)
  PROVE  Inv'
<1>0. job[w] \in Events /\ status[job[w]] # "none"
  BY RunningWorker DEF LeadPut
<1>1. TypeOK'
  <2>1. refs[w].lead \in Parties
    BY DEF TypeOK, WorkInOrder, Refs, Parties, Inv, LeadPut, Goto, Answered, AnswerLost
  <2>2. leverId' \in [Parties -> LeverIds]
    BY <1>0, <2>1 DEF TypeOK, LeverIds, Inv, LeadPut, Goto, Answered, AnswerLost
  <2> QED BY <2>2 DEF TypeOK, WorkPcs, Inv, LeadPut, Goto, Answered, AnswerLost
<1>2. ProcessedIsOnTimeline' /\ AckedIsStored' /\ DeadOnlyAtTheLimit'
  BY <1>0
     DEF TypeOK, ProcessedIsOnTimeline, AckedIsStored, DeadOnlyAtTheLimit, Inv,
         LeadPut, Goto, Answered, AnswerLost
<1>3. RequestsInOrder' /\ WorkInOrder' /\ BatchInOrder'
  BY <1>0
     DEF TypeOK, RequestsInOrder, WorkInOrder, BatchInOrder, Inv, LeadPut, Goto,
         Answered, AnswerLost
<1> QED BY <1>1, <1>2, <1>3 DEF Inv

LEMMA ContactGetInv ==
  ASSUME Inv, NEW w \in Workers, ContactGet(w)
  PROVE  Inv'
<1>0. job[w] \in Events /\ status[job[w]] # "none"
  BY RunningWorker DEF ContactGet
<1>1. TypeOK'
  BY <1>0 DEF TypeOK, WorkPcs, Inv, ContactGet, Goto
<1>2. ProcessedIsOnTimeline' /\ AckedIsStored' /\ DeadOnlyAtTheLimit'
  BY <1>0
     DEF TypeOK, ProcessedIsOnTimeline, AckedIsStored, DeadOnlyAtTheLimit, Inv,
         ContactGet, Goto
<1>3. RequestsInOrder' /\ WorkInOrder' /\ BatchInOrder'
  BY <1>0 DEF TypeOK, RequestsInOrder, WorkInOrder, BatchInOrder, Inv, ContactGet, Goto
<1> QED BY <1>1, <1>2, <1>3 DEF Inv

LEMMA ContactPutInv ==
  ASSUME Inv, NEW w \in Workers, ContactPut(w)
  PROVE  Inv'
<1>0. job[w] \in Events /\ status[job[w]] # "none"
  BY RunningWorker DEF ContactPut
<1>1. TypeOK'
  <2>1. refs[w].customer \in Parties
    BY
       DEF TypeOK, WorkInOrder, Refs, Parties, Inv, ContactPut, Goto, Answered,
           AnswerLost
  <2>2. leverId' \in [Parties -> LeverIds]
    BY <1>0, <2>1 DEF TypeOK, LeverIds, Inv, ContactPut, Goto, Answered, AnswerLost
  <2> QED BY <2>2 DEF TypeOK, WorkPcs, Inv, ContactPut, Goto, Answered, AnswerLost
<1>2. ProcessedIsOnTimeline' /\ AckedIsStored' /\ DeadOnlyAtTheLimit'
  BY <1>0
     DEF TypeOK, ProcessedIsOnTimeline, AckedIsStored, DeadOnlyAtTheLimit, Inv,
         ContactPut, Goto, Answered, AnswerLost
<1>3. RequestsInOrder' /\ WorkInOrder' /\ BatchInOrder'
  BY <1>0
     DEF TypeOK, RequestsInOrder, WorkInOrder, BatchInOrder, Inv, ContactPut, Goto,
         Answered, AnswerLost
<1> QED BY <1>1, <1>2, <1>3 DEF Inv

LEMMA RefreshLifecycleInv ==
  ASSUME Inv, NEW w \in Workers, RefreshLifecycle(w)
  PROVE  Inv'
<1>0. job[w] \in Events /\ status[job[w]] # "none"
  BY RunningWorker DEF RefreshLifecycle
<1>1. TypeOK'
  BY <1>0 DEF TypeOK, WorkPcs, Inv, RefreshLifecycle, Goto
<1>2. ProcessedIsOnTimeline' /\ AckedIsStored' /\ DeadOnlyAtTheLimit'
  BY <1>0
     DEF TypeOK, ProcessedIsOnTimeline, AckedIsStored, DeadOnlyAtTheLimit, Inv,
         RefreshLifecycle, Goto
<1>3. RequestsInOrder' /\ WorkInOrder' /\ BatchInOrder'
  BY <1>0
     DEF TypeOK, RequestsInOrder, WorkInOrder, BatchInOrder, Inv, RefreshLifecycle,
         Goto
<1> QED BY <1>1, <1>2, <1>3 DEF Inv

LEMMA ProcessedInv ==
  ASSUME Inv, NEW w \in Workers, Processed(w)
  PROVE  Inv'
<1>0. job[w] \in Events /\ status[job[w]] # "none"
  BY RunningWorker DEF Processed
<1>1. TypeOK'
  <2>1. /\ status' \in [Events -> Statuses]
        /\ attempts' \in [Events -> 0..MAX_ATTEMPTS]
    BY <1>0 DEF TypeOK, Statuses, Inv, Processed, Goto, Returned, Leave, AnswerLost
  <2>2. WorkTypeOK' /\ faults' \in 0..MaxFaults
    BY ReturnedType DEF Inv, Processed, Goto, Returned, Leave, AnswerLost
  <2> QED BY <2>1, <2>2
     DEF TypeOK, WorkTypeOK, Inv, Processed, Goto, Returned, Leave, AnswerLost
<1>2. ProcessedIsOnTimeline' /\ AckedIsStored' /\ DeadOnlyAtTheLimit'
  BY <1>0
     DEF TypeOK, ProcessedIsOnTimeline, AckedIsStored, DeadOnlyAtTheLimit,
         WorkInOrder, Retried, Inv, Processed, Goto, Returned, Leave, AnswerLost
<1>3. RequestsInOrder' /\ WorkInOrder' /\ BatchInOrder'
  BY <1>0
     DEF TypeOK, RequestsInOrder, WorkInOrder, BatchInOrder, Inv, Processed, Goto,
         Returned, Leave, AnswerLost
<1> QED BY <1>1, <1>2, <1>3 DEF Inv

LEMMA UnmatchedInv ==
  ASSUME Inv, NEW w \in Workers, Unmatched(w)
  PROVE  Inv'
<1>0. job[w] \in Events /\ status[job[w]] # "none"
  BY RunningWorker DEF Unmatched
<1>r. /\ status' = [status EXCEPT ![job[w]] = Verdict(tries[w], "unmatched")]
      /\ status' \in [Events -> Statuses]
      /\ attempts' \in [Events -> 0..MAX_ATTEMPTS]
      /\ due' \in [Events -> BOOLEAN]
      /\ \/ Verdict(tries[w], "unmatched") = "dead" /\ attempts'[job[w]] = MAX_ATTEMPTS
         \/ Verdict(tries[w], "unmatched") = "unmatched" /\ attempts'[job[w]] < MAX_ATTEMPTS
  BY <1>0, RetryType DEF Inv, Unmatched, Goto, Returned, Leave, AnswerLost
<1>1. TypeOK'
  <2>1. WorkTypeOK' /\ faults' \in 0..MaxFaults
    BY ReturnedType DEF Inv, Unmatched, Goto, Returned, Leave, AnswerLost
  <2> QED BY <1>r, <2>1
     DEF TypeOK, WorkTypeOK, Inv, Unmatched, Goto, Returned, Leave, AnswerLost
<1>2. ProcessedIsOnTimeline' /\ AckedIsStored' /\ DeadOnlyAtTheLimit'
  BY <1>0, <1>r
     DEF TypeOK, Retry, ProcessedIsOnTimeline, AckedIsStored, DeadOnlyAtTheLimit,
         Retried, Inv, Unmatched, Goto, Returned, Leave, AnswerLost
<1>3. RequestsInOrder' /\ WorkInOrder' /\ BatchInOrder'
  BY <1>0, <1>r
     DEF TypeOK, RequestsInOrder, WorkInOrder, BatchInOrder, Inv, Unmatched, Goto,
         Returned, Leave, AnswerLost
<1> QED BY <1>1, <1>2, <1>3 DEF Inv

LEMMA FailedInv ==
  ASSUME Inv, NEW w \in Workers, Failed(w)
  PROVE  Inv'
<1>0. job[w] \in Events /\ status[job[w]] # "none"
  BY RunningWorker DEF Failed
<1>r. /\ status' = [status EXCEPT ![job[w]] = Verdict(tries[w], "failed")]
      /\ status' \in [Events -> Statuses]
      /\ attempts' \in [Events -> 0..MAX_ATTEMPTS]
      /\ due' \in [Events -> BOOLEAN]
      /\ \/ Verdict(tries[w], "failed") = "dead" /\ attempts'[job[w]] = MAX_ATTEMPTS
         \/ Verdict(tries[w], "failed") = "failed" /\ attempts'[job[w]] < MAX_ATTEMPTS
  BY <1>0, RetryType DEF Inv, Failed, Leave
<1>1. TypeOK'
  <2>1. WorkTypeOK' /\ faults' \in 0..MaxFaults
    BY LeaveType DEF TypeOK, Inv, Failed, Leave
  <2> QED BY <1>r, <2>1 DEF TypeOK, WorkTypeOK, Inv, Failed, Leave
<1>2. ProcessedIsOnTimeline' /\ AckedIsStored' /\ DeadOnlyAtTheLimit'
  BY <1>0, <1>r
     DEF TypeOK, Retry, ProcessedIsOnTimeline, AckedIsStored, DeadOnlyAtTheLimit,
         Retried, Inv, Failed, Leave
<1>3. RequestsInOrder' /\ WorkInOrder' /\ BatchInOrder'
  BY <1>0, <1>r
     DEF TypeOK, RequestsInOrder, WorkInOrder, BatchInOrder, Inv, Failed, Leave
<1> QED BY <1>1, <1>2, <1>3 DEF Inv

LEMMA QueryFailsInv ==
  ASSUME Inv, NEW w \in Workers, QueryFails(w)
  PROVE  Inv'
<1>0. job[w] \in Events /\ status[job[w]] # "none"
  BY RunningWorker DEF QueryFails
<1>1. TypeOK'
  <2>1. WorkTypeOK'
    <3>1. CASE pc[w] = "fail"
      BY <3>1, LeaveType DEF Inv, QueryFails, Goto, Leave
    <3>2. CASE pc[w] # "fail"
      BY <3>2 DEF TypeOK, WorkTypeOK, WorkPcs, Inv, QueryFails, Goto, Leave
    <3> QED BY <3>1, <3>2
  <2> QED BY <2>1 DEF TypeOK, WorkTypeOK, Inv, QueryFails
<1>2. ProcessedIsOnTimeline' /\ AckedIsStored' /\ DeadOnlyAtTheLimit'
  BY <1>0
     DEF TypeOK, ProcessedIsOnTimeline, AckedIsStored, DeadOnlyAtTheLimit, Inv,
         QueryFails, Goto, Leave
<1>3. RequestsInOrder' /\ WorkInOrder' /\ BatchInOrder'
  BY <1>0
     DEF TypeOK, RequestsInOrder, WorkInOrder, BatchInOrder, Inv, QueryFails, Goto,
         Leave
<1> QED BY <1>1, <1>2, <1>3 DEF Inv

-----------------------------------------------------------------------------
(* The runner and the world.                                               *)

LEMMA QueryInv ==
  ASSUME Inv, NEW s \in Retried, Query(s)
  PROVE  Inv'
<1>1. TypeOK'
  BY DEF TypeOK, Retried, Inv, Query
<1>2. ProcessedIsOnTimeline' /\ AckedIsStored' /\ DeadOnlyAtTheLimit'
  BY DEF ProcessedIsOnTimeline, AckedIsStored, DeadOnlyAtTheLimit, Inv, Query
<1>3. RequestsInOrder' /\ WorkInOrder' /\ BatchInOrder'
  BY DEF TypeOK, RequestsInOrder, WorkInOrder, BatchInOrder, DeadOnlyAtTheLimit,
         Retried, Inv, Query
<1> QED BY <1>1, <1>2, <1>3 DEF Inv

LEMMA QueryDueFailsInv ==
  ASSUME Inv, QueryDueFails
  PROVE  Inv'
<1>1. TypeOK'
  BY DEF TypeOK, Inv, QueryDueFails
<1>2. ProcessedIsOnTimeline' /\ AckedIsStored' /\ DeadOnlyAtTheLimit'
  BY DEF ProcessedIsOnTimeline, AckedIsStored, DeadOnlyAtTheLimit, Inv, QueryDueFails
<1>3. RequestsInOrder' /\ WorkInOrder' /\ BatchInOrder'
  BY DEF TypeOK, RequestsInOrder, WorkInOrder, BatchInOrder, Inv, QueryDueFails
<1> QED BY <1>1, <1>2, <1>3 DEF Inv

LEMMA TakeInv ==
  ASSUME Inv, NEW b \in batch, Take(b)
  PROVE  Inv'
<1>1. TypeOK'
  BY DEF TypeOK, WorkPcs, Workers, NoRefs, Refs, BatchInOrder, Inv, Take, Begin
<1>2. ProcessedIsOnTimeline' /\ AckedIsStored' /\ DeadOnlyAtTheLimit'
  BY DEF ProcessedIsOnTimeline, AckedIsStored, DeadOnlyAtTheLimit, Inv, Take, Begin
<1>3. RequestsInOrder' /\ WorkInOrder' /\ BatchInOrder'
  BY DEF TypeOK, RequestsInOrder, WorkInOrder, BatchInOrder, Workers, Inv, Take, Begin
<1> QED BY <1>1, <1>2, <1>3 DEF Inv

LEMMA EndPassInv ==
  ASSUME Inv, EndPass
  PROVE  Inv'
<1>1. TypeOK'
  BY DEF TypeOK, Inv, EndPass
<1>2. ProcessedIsOnTimeline' /\ AckedIsStored' /\ DeadOnlyAtTheLimit'
  BY DEF ProcessedIsOnTimeline, AckedIsStored, DeadOnlyAtTheLimit, Inv, EndPass
<1>3. RequestsInOrder' /\ WorkInOrder' /\ BatchInOrder'
  BY DEF TypeOK, RequestsInOrder, WorkInOrder, BatchInOrder, Inv, EndPass
<1> QED BY <1>1, <1>2, <1>3 DEF Inv

LEMMA BackoffElapsesInv ==
  ASSUME Inv, NEW e \in Events, BackoffElapses(e)
  PROVE  Inv'
<1>1. TypeOK'
  BY DEF TypeOK, Inv, BackoffElapses
<1>2. ProcessedIsOnTimeline' /\ AckedIsStored' /\ DeadOnlyAtTheLimit'
  BY DEF ProcessedIsOnTimeline, AckedIsStored, DeadOnlyAtTheLimit, Inv, BackoffElapses
<1>3. RequestsInOrder' /\ WorkInOrder' /\ BatchInOrder'
  BY DEF TypeOK, RequestsInOrder, WorkInOrder, BatchInOrder, Inv, BackoffElapses
<1> QED BY <1>1, <1>2, <1>3 DEF Inv

LEMMA CrmChangesInv ==
  ASSUME Inv, NEW e \in Events, NEW r \in Refs, CrmChanges(e, r)
  PROVE  Inv'
<1>1. TypeOK'
  BY DEF TypeOK, Inv, CrmChanges
<1>2. ProcessedIsOnTimeline' /\ AckedIsStored' /\ DeadOnlyAtTheLimit'
  BY DEF ProcessedIsOnTimeline, AckedIsStored, DeadOnlyAtTheLimit, Inv, CrmChanges
<1>3. RequestsInOrder' /\ WorkInOrder' /\ BatchInOrder'
  BY DEF TypeOK, RequestsInOrder, WorkInOrder, BatchInOrder, Inv, CrmChanges
<1> QED BY <1>1, <1>2, <1>3 DEF Inv

LEMMA RestartInv ==
  ASSUME Inv, Restart
  PROVE  Inv'
<1>1. TypeOK'
  BY DEF TypeOK, WorkPcs, NoRefs, Refs, Inv, Restart
<1>2. ProcessedIsOnTimeline' /\ AckedIsStored' /\ DeadOnlyAtTheLimit'
  BY DEF ProcessedIsOnTimeline, AckedIsStored, DeadOnlyAtTheLimit, Inv, Restart
<1>3. RequestsInOrder' /\ WorkInOrder' /\ BatchInOrder'
  BY DEF TypeOK, RequestsInOrder, WorkInOrder, BatchInOrder, Inv, Restart
<1> QED BY <1>1, <1>2, <1>3 DEF Inv

-----------------------------------------------------------------------------
LEMMA StepInv ==
  ASSUME Inv, NEW w \in Workers, Step(w)
  PROVE  Inv'
BY ResolveRefsInv, AppendGetInv, AppendCreateInv, LeadGetInv, LeadPutInv, ContactGetInv,
   ContactPutInv, RefreshLifecycleInv, ProcessedInv, UnmatchedInv, FailedInv DEF Step

LEMMA NextInv == Inv /\ [Next]_vars => Inv'
<1> SUFFICES ASSUME Inv, [Next]_vars PROVE Inv'
  OBVIOUS
<1>1. ASSUME NEW r \in Requests, NEW e \in Events, Deliver(r, e) PROVE Inv'
  BY <1>1, DeliverInv
<1>2. ASSUME NEW r \in Requests, IngestGet(r) \/ IngestCreate(r) \/ Reply(r) \/ IngestFails(r)
      PROVE  Inv'
  BY <1>2, IngestGetInv, IngestCreateInv, ReplyInv, IngestFailsInv
<1>3. ASSUME NEW w \in Workers, Step(w) \/ QueryFails(w) PROVE Inv'
  BY <1>3, StepInv, QueryFailsInv
<1>4. CASE RunnerStep \/ QueryDueFails
  BY <1>4, QueryInv, TakeInv, EndPassInv, QueryDueFailsInv DEF RunnerStep
<1>5. ASSUME NEW e \in Events, BackoffElapses(e) PROVE Inv'
  BY <1>5, BackoffElapsesInv
<1>6. ASSUME NEW e \in Events, NEW r \in Refs, CrmChanges(e, r) PROVE Inv'
  BY <1>6, CrmChangesInv
<1>7. CASE Restart
  BY <1>7, RestartInv
<1>8. CASE UNCHANGED vars
  BY <1>8 DEF vars, Inv, TypeOK, ProcessedIsOnTimeline, AckedIsStored, DeadOnlyAtTheLimit,
     RequestsInOrder, WorkInOrder, BatchInOrder
<1> QED BY <1>1, <1>2, <1>3, <1>4, <1>5, <1>6, <1>7, <1>8 DEF Next

(* Every state of the inbox satisfies the inductive invariant.             *)
THEOREM Invariance == Spec => []Inv
<1>1. Init => Inv
  BY InitInv
<1>2. Inv /\ [Next]_vars => Inv'
  BY NextInv
<1> QED BY <1>1, <1>2, PTL DEF Spec

(* The variables keep their types: attempts never passes MAX_ATTEMPTS.     *)
THEOREM TypeCorrect == Spec => []TypeOK
<1>1. Inv => TypeOK
  BY DEF Inv
<1> QED BY <1>1, Invariance, PTL

(* A processed event is on the timeline, an acknowledged one is stored, and *)
(* one that was given up on had all its attempts, for any interleaving of  *)
(* handlers, runner, faults and restarts.                                  *)
THEOREM Safety == Spec => [](ProcessedIsOnTimeline /\ AckedIsStored /\ DeadOnlyAtTheLimit)
<1>1. Inv => ProcessedIsOnTimeline /\ AckedIsStored /\ DeadOnlyAtTheLimit
  BY DEF Inv
<1> QED BY <1>1, Invariance, PTL

(* What was acknowledged is in the inbox, from then on.                    *)
THEOREM NothingAckedIsLost == Spec => []AckedIsStored
BY Safety, PTL

(* No event is given up on before it has had all its attempts.             *)
THEOREM GivenUpAtTheLimit == Spec => []DeadOnlyAtTheLimit
BY Safety, PTL
-----------------------------------------------------------------------------
(* The inbox implements EventLog.  Only three kinds of query are visible   *)
(* there: the INSERT of the event, the answer, the INSERT of the item.     *)

stored == {e \in Events : status[e] # "none"}

LEMMA LogUnchanged ==
  ASSUME \A e \in Events : status'[e] = "none" <=> status[e] = "none",
         UNCHANGED <<acked, timeline>>
  PROVE  UNCHANGED Log!vars
<1>1. stored' = stored
  BY DEF stored
<1> QED BY <1>1 DEF Log!vars, stored

(* Nothing processEvent or the runner does to a row makes it appear.       *)
LEMMA ClosingKeepsStored ==
  ASSUME Inv, NEW w \in Workers, pc[w] # "idle",
         Processed(w) \/ Unmatched(w) \/ Failed(w)
  PROVE  \A e \in Events : status'[e] = "none" <=> status[e] = "none"
<1>1. job[w] \in Events /\ status[job[w]] # "none"
  BY RunningWorker
<1>2. Verdict(tries[w], "unmatched") # "none" /\ Verdict(tries[w], "failed") # "none"
  BY DEF Verdict
<1> QED BY <1>1, <1>2 DEF Inv, TypeOK, Processed, Unmatched, Failed, Retry

LEMMA StepRefines ==
  ASSUME Inv, NEW w \in Workers, Step(w)
  PROVE  [Log!Next]_(Log!vars)
<1>1. CASE AppendCreate(w)
  <2>1. job[w] \in Events /\ status[job[w]] # "none"
    BY <1>1, RunningWorker DEF AppendCreate
  <2>2. CASE timeline[job[w]] = NoRefs
    <3>1. refs[w] \in Refs \ {NoRefs}
      BY <1>1 DEF AppendCreate, Inv, TypeOK, WorkInOrder
    <3>2. Log!Record(job[w], refs[w])
      BY <1>1, <2>1, <2>2 DEF AppendCreate, Log!Record, stored
    <3> QED BY <2>1, <3>1, <3>2 DEF Log!Next
  <2>3. CASE timeline[job[w]] # NoRefs
    BY <1>1, <2>3, LogUnchanged DEF AppendCreate
  <2> QED BY <2>2, <2>3
<1>2. CASE Processed(w) \/ Unmatched(w) \/ Failed(w)
  <2>1. pc[w] # "idle" /\ UNCHANGED <<acked, timeline>>
    BY <1>2 DEF Processed, Unmatched, Failed
  <2> QED BY <1>2, <2>1, ClosingKeepsStored, LogUnchanged
<1>3. CASE ResolveRefs(w) \/ AppendGet(w) \/ LeadGet(w) \/ LeadPut(w)
           \/ ContactGet(w) \/ ContactPut(w) \/ RefreshLifecycle(w)
  BY <1>3, LogUnchanged DEF ResolveRefs, AppendGet, LeadGet, LeadPut, ContactGet,
     ContactPut, RefreshLifecycle
<1> QED BY <1>1, <1>2, <1>3 DEF Step

LEMMA RouteRefines ==
  ASSUME Inv, NEW r \in Requests, IngestCreate(r) \/ Reply(r) \/ IngestFails(r)
  PROVE  [Log!Next]_(Log!vars)
<1> DEFINE e == request[r].ev
<1>1. e \in Events
  BY DEF Inv, RequestsInOrder, IngestCreate, Reply, IngestFails
<1>2. CASE Reply(r)
  <2>1. Log!Acknowledge(e)
    BY <1>1, <1>2 DEF Reply, Inv, RequestsInOrder, Log!Acknowledge
  <2> QED BY <1>1, <2>1 DEF Log!Next
<1>3. CASE IngestCreate(r) \/ IngestFails(r)
  <2>1. CASE status' = status
    BY <1>3, <2>1, LogUnchanged DEF IngestCreate, IngestFails
  <2>2. CASE status' = [status EXCEPT ![e] = "pending"]
    <3>1. stored' = stored \cup {e}
      BY <1>1, <2>2 DEF stored, Inv, TypeOK
    <3>2. UNCHANGED <<acked, timeline>>
      BY <1>3 DEF IngestCreate, IngestFails
    <3> QED BY <1>1, <3>1, <3>2 DEF Log!Next, Log!Store, stored
  <2> QED BY <1>3, <2>1, <2>2 DEF IngestCreate, IngestFails
<1> QED BY <1>2, <1>3

LEMMA NextRefines == Inv /\ [Next]_vars => [Log!Next]_(Log!vars)
<1> SUFFICES ASSUME Inv, [Next]_vars PROVE [Log!Next]_(Log!vars)
  OBVIOUS
<1>1. ASSUME NEW r \in Requests, IngestCreate(r) \/ Reply(r) \/ IngestFails(r)
      PROVE  [Log!Next]_(Log!vars)
  BY <1>1, RouteRefines
<1>2. ASSUME NEW w \in Workers, Step(w) PROVE [Log!Next]_(Log!vars)
  BY <1>2, StepRefines
<1>3. CASE \/ \E r \in Requests : IngestGet(r) \/ \E e \in Events : Deliver(r, e)
           \/ \E w \in Workers : QueryFails(w)
           \/ RunnerStep \/ QueryDueFails \/ Restart
           \/ \E e \in Events : BackoffElapses(e) \/ \E r \in Refs : CrmChanges(e, r)
           \/ UNCHANGED vars
  <2>1. UNCHANGED <<status, acked, timeline>>
    BY <1>3 DEF IngestGet, Deliver, QueryFails, RunnerStep, Query, Take, EndPass,
       QueryDueFails, Restart, BackoffElapses, CrmChanges, vars
  <2> QED BY <2>1, LogUnchanged
<1> QED BY <1>1, <1>2, <1>3 DEF Next

(* An event is stored before it is acknowledged, recorded at most once and *)
(* never rewritten, however often it is delivered and processed.           *)
THEOREM Refinement == Spec => ImplementsEventLog
<1>1. Init => Log!Init
  BY DEF Init, Log!Init
<1>2. Inv /\ [Next]_vars => [Log!Next]_(Log!vars)
  BY NextRefines
<1> QED BY <1>1, <1>2, Invariance, PTL DEF Spec, ImplementsEventLog, Log!Spec
=============================================================================
