---------------------------- MODULE Broadcast ----------------------------
(***************************************************************************)
(* Broadcasts to leads (marketing/broadcast-wa.js, broadcast-email.js and  *)
(* the actions of routes.disparos.js).                                     *)
(*                                                                         *)
(* A campaign is one document; its `sent` map holds, per lead, how far     *)
(* each channel got.  Two server runners, one per channel, take a copy of  *)
(* the map at the start of a cycle, send in batches for many awaits, and   *)
(* write the whole map back.  The routes and the delivery webhook do the   *)
(* same with their own copies.  Every write is repo.update: one query      *)
(* reads the document, the next writes all of it with the patch merged in. *)
(***************************************************************************)
EXTENDS Integers, FiniteSets, FiniteSetsExt

CONSTANTS
    Campaigns, Leads,
    Slots,          \* route and webhook calls in flight at once
    Operations,     \* which of them happen: a subset of AllOperations
    Serial,         \* TRUE: no call, cycle or other runner overlaps another
    Channel,        \* campaign -> "whatsapp", "email" or "both"
    PER_TICK,       \* [wa, em]: messages of one cycle (20 and 40)
    BREAKER_MIN,    \* [wa, em]: smallest sample of the breaker (20 and 10)
    CAP,            \* messages the number may start in a day
    MaxDay,         \* bound: days that pass
    MaxFaults,      \* bound: refused messages and failed header photos
    MaxBounces,     \* bound: accepted messages Meta later fails to deliver
    MaxRestarts     \* bound: restarts of the process

AllOperations == {"enqueue", "pause", "resume", "unqueue", "mark", "progress", "webhook"}

ASSUME BroadcastAssumption ==
    /\ IsFiniteSet(Campaigns) /\ IsFiniteSet(Leads)
    /\ Operations \subseteq AllOperations
    /\ Serial \in BOOLEAN
    /\ Channel \in [Campaigns -> {"whatsapp", "email", "both"}]
    /\ PER_TICK \in [{"wa", "em"} -> Nat \ {0}]
    /\ BREAKER_MIN \in [{"wa", "em"} -> Nat \ {0}]
    /\ {CAP, MaxDay} \subseteq Nat \ {0}
    /\ {MaxFaults, MaxBounces, MaxRestarts} \subseteq Nat
    /\ Slots \cap {"wa", "em"} = {}

VARIABLES
    camp,      \* campaign -> [status, sent]
    update,    \* process -> the repo.update it is in the middle of
    runner,    \* channel -> the locals of its cycle
    today,
    messages,  \* [wa, em]: campaign -> lead -> messages the provider accepted
    sentOn,    \* day -> WhatsApp messages accepted that day
    bounced,   \* <<campaign, lead, n>>: the nth WhatsApp message was not delivered
    faults, restarts

vars == <<camp, update, runner, today, messages, sentOn, bounced, faults, restarts>>

-----------------------------------------------------------------------------
(* The campaign document.                                                  *)
Channels == {"wa", "em"}
Days == 1..MaxDay
EntryStatus == {"none", "queued", "sent", "failed", "skipped"}
(* waStatus and emailStatus, the timestamps `whatsapp` and `email` as a day *)
(* (0 when absent), `at` of a failure or skip, and waMessageId as a number. *)
Entry == [Channels -> [st : EntryStatus, day : 0..MaxDay, at : BOOLEAN, msg : Nat]]
Blank == [ch \in Channels |-> [st |-> "none", day |-> 0, at |-> FALSE, msg |-> 0]]
Queued(e, ch) == [e EXCEPT ![ch].st = "queued"]
Status == {"draft", "sending", "paused", "done"}
Doc == [status : Status, sent : [Leads -> Entry]]

Uses(c, ch) == Channel[c] = "both" \/ Channel[c] = (IF ch = "wa" THEN "whatsapp" ELSE "email")
HasQueuedOn(d, ch) == \E l \in Leads : d.sent[l][ch].st = "queued"
HasQueued(d) == \E ch \in Channels : HasQueuedOn(d, ch)

(* A slip: what was sent may be queued again.                              *)
ReceivedWhileQueued(e, ch) ==
    e[ch].st = "queued" \/ (e[ch].day # 0 /\ (ch = "wa" => e[ch].st = "none"))

(* waReceived, and the "já recebeu" of emailSkipReason.                    *)
Received(e, ch) ==
    \/ e[ch].st \in {"queued", "sent"}
    \/ e[ch].day # 0 /\ (ch = "wa" => e[ch].st = "none")

(* A slip: what was sent on any day counts.                                *)
SentSoFar(docs) ==
    Cardinality({x \in Campaigns \X Leads :
        LET e == docs[x[1]].sent[x[2]].wa
        IN  Uses(x[1], "wa") /\ e.day # 0 /\ e.st \notin {"none", "queued"}})

(* sentTodayByPhone: one number sends every campaign.                      *)
SentToday(docs) ==
    Cardinality({x \in Campaigns \X Leads :
        LET e == docs[x[1]].sent[x[2]].wa
        IN  Uses(x[1], "wa") /\ e.day = today /\ e.st \notin {"none", "queued"}})

-----------------------------------------------------------------------------
(* repo.update: the patch waits for its read, then for its write.          *)
Processes == Channels \cup Slots
KeepStatus == "keep"   \* the patch leaves the field alone
Keep == <<>>
NoUpdate == [phase |-> "none"]

StartUpdate(p, c, status, sent) ==
    update' = [update EXCEPT ![p] =
        [phase |-> "get", c |-> c, status |-> status, sent |-> sent]]

UpdateGet(p) ==
    /\ update[p].phase = "get"
    /\ LET u == update[p]
           d == camp[u.c]
       IN  update' = [update EXCEPT ![p] = [u EXCEPT
               !.phase = "put",
               !.status = IF u.status \in Status THEN u.status ELSE d.status,
               !.sent = IF u.sent = Keep THEN d.sent ELSE u.sent]]
    /\ UNCHANGED <<camp, runner, today, messages, sentOn, bounced, faults, restarts>>

UpdatePut(p) ==
    /\ update[p].phase = "put"
    /\ LET u == update[p]
       IN  camp' = [camp EXCEPT ![u.c] = [status |-> u.status, sent |-> u.sent]]
    /\ update' = [update EXCEPT ![p] = NoUpdate]
    /\ UNCHANGED <<runner, today, messages, sentOn, bounced, faults, restarts>>

-----------------------------------------------------------------------------
(* The cycle of a runner.                                                  *)
Idle == [pc |-> "idle", docs |-> <<>>, todo |-> {}, c |-> <<>>, sent |-> <<>>, queue |-> {},
         budget |-> 0, used |-> 0, tries |-> 0, fails |-> 0]

AtRest(p) == update[p].phase = "none" /\ (p \in Channels => runner[p].pc = "idle")
MayStart(p) == AtRest(p) /\ (Serial => \A o \in Processes : AtRest(o))
Ready(ch, l) == runner[ch].pc = l /\ update[ch].phase = "none"

Move(ch, r) == runner' = [runner EXCEPT ![ch] = r]

(* The campaigns a cycle works on.                                         *)
Active(ch) ==
    {c \in Campaigns : /\ camp[c].status = "sending" /\ HasQueuedOn(camp[c], ch)
                       /\ ch = "wa" => Uses(c, ch)}

(* A cycle starts from the list of campaigns with something queued.  With  *)
(* none, the WhatsApp runner closes what is still "sending".               *)
StartCycle(ch) ==
    LET active == Active(ch)
        empty == {c \in Campaigns : /\ camp[c].status = "sending"
                                    /\ ~HasQueued(camp[c]) /\ Uses(c, ch)}
    IN  /\ MayStart(ch)
        /\ IF active # {}
           THEN Move(ch, [Idle EXCEPT !.pc = IF ch = "wa" THEN "health" ELSE "pick",
                                      !.docs = camp, !.todo = active,
                                      !.budget = PER_TICK[ch],
                                      !.used = IF ch = "wa" THEN SentToday(camp) ELSE 0])
           ELSE /\ ch = "wa" /\ empty # {}
                /\ Move(ch, [Idle EXCEPT !.pc = "close", !.todo = empty])
        /\ UNCHANGED <<camp, update, today, messages, sentOn, bounced, faults, restarts>>

(* Every campaign of `todo` gets the same status, and the cycle ends.      *)
SetAll(ch, pc, status) ==
    /\ Ready(ch, pc)
    /\ IF runner[ch].todo = {}
       THEN Move(ch, Idle) /\ UNCHANGED update
       ELSE \E c \in runner[ch].todo :
              /\ Move(ch, [runner[ch] EXCEPT !.todo = @ \ {c}])
              /\ StartUpdate(ch, c, status, Keep)
    /\ UNCHANGED <<camp, today, messages, sentOn, bounced, faults, restarts>>

CloseEmpty == SetAll("wa", "close", "done")
PauseAll == SetAll("wa", "danger", "paused")

(* The number's health, as Meta reports it.                                *)
Health ==
    /\ Ready("wa", "health")
    /\ \E pc \in {"danger", "pick"} : Move("wa", [runner["wa"] EXCEPT !.pc = pc])
    /\ UNCHANGED <<camp, update, today, messages, sentOn, bounced, faults, restarts>>

(* Two slips: the budget of the cycle, or the cap of the day, forgotten.   *)
AllowanceOfTheDay(r, ch) == IF ch = "wa" THEN CAP - r.used ELSE r.budget
AllowanceOfTheCycle(r, ch) == r.budget

(* What this cycle may still send for one campaign.                        *)
Allowance(r, ch) ==
    IF ch = "wa" /\ CAP - r.used < r.budget THEN CAP - r.used ELSE r.budget

(* The next campaign: its queue is cut to the allowance (the order of the  *)
(* map's keys is left open); at the daily cap it is left for tomorrow.     *)
PickCampaign(ch) ==
    LET r == runner[ch] IN
    /\ Ready(ch, "pick")
    /\ IF r.todo = {} \/ r.budget = 0
       THEN Move(ch, Idle)
       ELSE \E c \in r.todo :
              LET waiting == {l \in Leads : r.docs[c].sent[l][ch].st = "queued"}
                  n == Min({Allowance(r, ch), Cardinality(waiting)})
              IN  IF n <= 0
                  THEN Move(ch, [r EXCEPT !.todo = @ \ {c}])
                  ELSE \E q \in kSubset(n, waiting) :
                         Move(ch, [r EXCEPT !.pc = "send", !.todo = @ \ {c}, !.c = c,
                                            !.sent = r.docs[c].sent, !.queue = q,
                                            !.tries = 0, !.fails = 0])
    /\ UNCHANGED <<camp, update, today, messages, sentOn, bounced, faults, restarts>>

(* The header photo is gone (the campaign is paused) or cannot be uploaded *)
(* (the campaign waits for the next cycle).                                *)
NoHeaderPhoto(c) ==
    /\ Ready("wa", "pick")
    /\ c \in runner["wa"].todo /\ Allowance(runner["wa"], "wa") > 0
    /\ faults < MaxFaults
    /\ faults' = faults + 1
    /\ Move("wa", [runner["wa"] EXCEPT !.todo = @ \ {c}])
    /\ \/ StartUpdate("wa", c, "paused", Keep)
       \/ UNCHANGED update
    /\ UNCHANGED <<camp, today, messages, sentOn, bounced, restarts>>

(* One lead of the queue: skipped (no contact, opted out, invalid ...),    *)
(* accepted by the provider, or refused.  Only the cycle's copy changes.   *)
Skip(ch, l) ==
    LET r == runner[ch] IN
    /\ Ready(ch, "send") /\ l \in r.queue
    /\ faults < MaxFaults
    /\ faults' = faults + 1
    /\ Move(ch, [r EXCEPT !.queue = @ \ {l}, !.sent[l][ch].st = "skipped",
                          !.sent[l][ch].at = @ \/ ch = "wa"])
    /\ UNCHANGED <<camp, update, today, messages, sentOn, bounced, restarts>>

Accepted(ch, l) ==
    LET r == runner[ch]
        n == messages[ch][r.c][l] + 1
    IN  /\ Ready(ch, "send") /\ l \in r.queue
        /\ messages' = [messages EXCEPT ![ch][r.c][l] = n]
        /\ sentOn' = IF ch = "wa" THEN [sentOn EXCEPT ![today] = @ + 1] ELSE sentOn
        /\ Move(ch, [r EXCEPT !.queue = @ \ {l}, !.budget = @ - 1, !.used = @ + 1,
                              !.tries = @ + 1, !.sent[l][ch].st = "sent",
                              !.sent[l][ch].day = today, !.sent[l][ch].msg = n])
        /\ UNCHANGED <<camp, update, today, bounced, faults, restarts>>

Refused(ch, l) ==
    LET r == runner[ch] IN
    /\ Ready(ch, "send") /\ l \in r.queue
    /\ faults < MaxFaults
    /\ faults' = faults + 1
    /\ Move(ch, [r EXCEPT !.queue = @ \ {l}, !.budget = @ - 1, !.tries = @ + 1,
                          !.fails = @ + 1, !.sent[l][ch].st = "failed",
                          !.sent[l][ch].at = @ \/ ch = "wa"])
    /\ UNCHANGED <<camp, update, today, messages, sentOn, bounced, restarts>>

(* More than a fifth of the recent WhatsApp attempts failed, or more than  *)
(* half of this cycle's e-mails.                                           *)
Breaker(ch, r) ==
    LET recent == {l \in Leads : r.sent[l].wa.at \/ r.sent[l].wa.day # 0}
        failed == {l \in recent : r.sent[l].wa.st = "failed"}
    IN  IF ch = "wa"
        THEN /\ Cardinality(recent) >= BREAKER_MIN.wa
             /\ 5 * Cardinality(failed) > Cardinality(recent)
        ELSE r.tries >= BREAKER_MIN.em /\ 2 * r.fails > r.tries

(* A slip: only the runner's own queue is asked.                           *)
StatusFromOwnQueue(ch, r) ==
    IF Breaker(ch, r) THEN "paused" ELSE IF ~HasQueuedOn(r, ch) THEN "done" ELSE KeepStatus

StatusAfter(ch, r) ==
    IF Breaker(ch, r) THEN "paused" ELSE IF ~HasQueued(r) THEN "done" ELSE KeepStatus

(* The batch is over: the copy of the map replaces the stored one.         *)
EndBatch(ch) ==
    LET r == runner[ch]
    IN  /\ Ready(ch, "send") /\ r.queue = {}
        /\ StartUpdate(ch, r.c, StatusAfter(ch, r), r.sent)
        /\ Move(ch, [r EXCEPT !.pc = "pick", !.c = <<>>, !.sent = <<>>, !.tries = 0, !.fails = 0])
        /\ UNCHANGED <<camp, today, messages, sentOn, bounced, faults, restarts>>

-----------------------------------------------------------------------------
(* The routes and the webhook.  Each reads the campaign (repo.get or       *)
(* listWhere), builds its patch from that copy, and calls repo.update.     *)
Route(q, op) == op \in Operations /\ MayStart(q)
RouteUnchanged == UNCHANGED <<camp, runner, today, messages, sentOn, bounced,
                              faults, restarts>>

(* send-whatsapp and send-email, for the leads that may receive it (only a *)
(* campaign with an e-mail has the subject and body send-email asks for).  *)
Enqueue(q, c, ch, ls) ==
    LET d == camp[c]
        fresh == {l \in ls : ~Received(d.sent[l], ch)}
    IN  /\ Route(q, "enqueue") /\ Uses(c, ch)
        /\ StartUpdate(q, c, IF fresh # {} THEN "sending" ELSE KeepStatus,
             [l \in Leads |-> IF l \in fresh THEN Queued(d.sent[l], ch) ELSE d.sent[l]])
        /\ RouteUnchanged

Pause(q, c) ==
    /\ Route(q, "pause") /\ camp[c].status = "sending"
    /\ StartUpdate(q, c, "paused", Keep)
    /\ RouteUnchanged

(* E-mails that failed go back to the queue.                               *)
Resume(q, c) ==
    LET sent == camp[c].sent IN
    /\ Route(q, "resume") /\ camp[c].status = "paused"
    /\ StartUpdate(q, c, "sending",
         [l \in Leads |-> IF sent[l].em.st = "failed" THEN Queued(sent[l], "em") ELSE sent[l]])
    /\ RouteUnchanged

(* The audience changed: who left it leaves the queues.                    *)
Unqueue(q, c, keep) ==
    LET sent == camp[c].sent
        out(e) == [ch \in Channels |->
                     IF e[ch].st = "queued" THEN [e[ch] EXCEPT !.st = "none"] ELSE e[ch]]
    IN  /\ Route(q, "unqueue") /\ camp[c].status # "sending"
        /\ StartUpdate(q, c, KeepStatus,
             [l \in Leads |-> IF l \in keep THEN sent[l] ELSE out(sent[l])])
        /\ RouteUnchanged

(* An assisted send: the operator opened WhatsApp or the mail client.      *)
Mark(q, c, l, ch) ==
    LET d == camp[c] IN
    /\ Route(q, "mark")
    /\ StartUpdate(q, c, IF d.status = "draft" THEN "sending" ELSE KeepStatus,
         [d.sent EXCEPT ![l][ch].day = today])
    /\ RouteUnchanged

(* reconcileBroadcastDelivery, on the progress route: every message that   *)
(* counts as sent and bounced becomes a failure.                           *)
Progress(q, c) ==
    LET sent == camp[c].sent
        lost == {l \in Leads : sent[l].wa.st = "sent" /\ <<c, l, sent[l].wa.msg>> \in bounced}
    IN  /\ Route(q, "progress") /\ lost # {}
        /\ StartUpdate(q, c, KeepStatus,
             [l \in Leads |-> IF l \in lost THEN [sent[l] EXCEPT !.wa.st = "failed"] ELSE sent[l]])
        /\ RouteUnchanged

(* markBroadcastDeliveryFailed, for the webhook of one bounced message.    *)
DeliveryFailed(q, c, l, n) ==
    LET sent == camp[c].sent IN
    /\ Route(q, "webhook") /\ <<c, l, n>> \in bounced
    /\ sent[l].wa.msg = n /\ sent[l].wa.st # "failed"
    /\ StartUpdate(q, c, KeepStatus, [sent EXCEPT ![l].wa.st = "failed"])
    /\ RouteUnchanged

-----------------------------------------------------------------------------
(* The world.                                                              *)
Bounce(c, l) ==
    /\ messages.wa[c][l] > 0
    /\ Cardinality(bounced) < MaxBounces
    /\ bounced' = bounced \cup {<<c, l, messages.wa[c][l]>>}
    /\ UNCHANGED <<camp, update, runner, today, messages, sentOn, faults, restarts>>

NextDay ==
    /\ today < MaxDay
    /\ today' = today + 1
    /\ UNCHANGED <<camp, update, runner, messages, sentOn, bounced, faults, restarts>>

Restart ==
    /\ restarts < MaxRestarts
    /\ restarts' = restarts + 1
    /\ update' = [p \in Processes |-> NoUpdate]
    /\ runner' = [ch \in Channels |-> Idle]
    /\ UNCHANGED <<camp, today, messages, sentOn, bounced, faults>>

-----------------------------------------------------------------------------
(* Every campaign was just sent to all its leads.                          *)
Init ==
    /\ camp = [c \in Campaigns |->
         [status |-> "sending",
          sent |-> [l \in Leads |-> [ch \in Channels |->
                      IF Uses(c, ch) THEN Queued(Blank, ch)[ch] ELSE Blank[ch]]]]]
    /\ update = [p \in Processes |-> NoUpdate]
    /\ runner = [ch \in Channels |-> Idle]
    /\ today = 1
    /\ messages = [ch \in Channels |-> [c \in Campaigns |-> [l \in Leads |-> 0]]]
    /\ sentOn = [d \in Days |-> 0]
    /\ bounced = {}
    /\ faults = 0
    /\ restarts = 0

Cycle(ch) ==
    \/ StartCycle(ch) \/ PickCampaign(ch) \/ EndBatch(ch) \/ UpdateGet(ch) \/ UpdatePut(ch)
    \/ \E l \in Leads : Skip(ch, l) \/ Accepted(ch, l) \/ Refused(ch, l)
    \/ ch = "wa" /\ (CloseEmpty \/ PauseAll \/ Health)

Call(q) ==
    \/ UpdateGet(q) \/ UpdatePut(q)
    \/ \E c \in Campaigns :
         \/ Pause(q, c) \/ Resume(q, c) \/ Progress(q, c)
         \/ \E ls \in SUBSET Leads :
              (ls # {} /\ \E ch \in Channels : Enqueue(q, c, ch, ls)) \/ Unqueue(q, c, ls)
         \/ \E l \in Leads, ch \in Channels : Mark(q, c, l, ch)
         \/ \E x \in bounced : x[1] = c /\ DeliveryFailed(q, c, x[2], x[3])

Next ==
    \/ \E ch \in Channels : Cycle(ch)
    \/ \E c \in Campaigns : NoHeaderPhoto(c)
    \/ \E q \in Slots : Call(q)
    \/ \E c \in Campaigns, l \in Leads : Bounce(c, l)
    \/ NextDay
    \/ Restart

Spec == Init /\ [][Next]_vars

(* The intervals keep firing, a started cycle runs on, and days pass.      *)
FairSpec == Spec /\ (\A ch \in Channels : WF_vars(Cycle(ch))) /\ WF_vars(NextDay)
=============================================================================
