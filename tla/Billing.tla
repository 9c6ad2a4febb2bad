------------------------------ MODULE Billing ------------------------------
(***************************************************************************)
(* Subscriptions, invoices and dunning of one customer                     *)
(* (billing/billing.js, billing-runner.js, routes.billing.js, churn.js)    *)
(* and the settlement of an invoice by a payment of a gateway              *)
(* (payments/mp-payments.js, routes.mp.js).                                *)
(*                                                                         *)
(* runBilling runs every hour and whenever POST /api/billing/run is        *)
(* called, with nothing to keep two runs apart.  The routes and the        *)
(* ingestion of payments go on meanwhile.  Every one of them acts on lists *)
(* and documents it read some awaits ago, and writes with repo.update: one *)
(* query reads the document, the next writes all of it with the patch      *)
(* merged in.                                                              *)
(***************************************************************************)
EXTENDS Integers, Sequences, FiniteSets, FiniteSetsExt

CONSTANTS
    Subs,         \* the subscriptions of the customer
    Tick,         \* the process of startBilling
    Desk,         \* calls in flight at once: routes and payment ingestion
    Handles,      \* which operations each of them may be
    Payments,     \* approved payments of the gateway
    PaidSub,      \* payment -> the subscription it is matched to
    Plans,        \* [price, cycle]: what may be sold
    FirstPlan,
    GRACE,        \* from the due date to overdue
    MaxNow,       \* bound: the time that passes
    Mixes         \* bound: the mixes of calls and faults that may happen

NothingYet == [run |-> 0, pay |-> 0, unpay |-> 0, settle |-> 0, charge |-> 0,
               preapproval |-> 0, change |-> 0, churn |-> 0, fault |-> 0]
Kinds == DOMAIN NothingYet
Operations == Kinds \ {"fault"}

ASSUME BillingAssumption ==
    /\ Handles \in [Desk -> SUBSET Operations]
    /\ Mixes \subseteq [Kinds -> Nat]
    /\ Plans \subseteq [price : Nat, cycle : Nat \ {0}] /\ FirstPlan \in Plans
    /\ PaidSub \in [Payments -> Subs]
    /\ {GRACE, MaxNow} \subseteq Nat
    /\ IsFiniteSet(Subs)
    /\ Tick \notin Desk
    /\ "none" \notin Payments

VARIABLES
    now,
    sub,       \* s -> the subscription
    invoices,  \* s -> its invoices, in the order they were created
    customer,  \* [arr, left]: left by whose mark, "no" when not
    mirror,    \* payment -> the invoice of mp_payments[payment], 0 when none
    update,    \* process -> the repo.update it is in the middle of
    proc,      \* process -> its locals
    lost,      \* s -> renewals [from, to] that ended before their invoice
    count      \* how many calls of each kind, and faults, have happened

vars == <<now, sub, invoices, customer, mirror, update, proc, lost, count>>

-----------------------------------------------------------------------------
Processes == Desk \cup {Tick}
Live == {"active", "past_due"}
NoChange == [at |-> -1]
NoPayment == "none"

NewSub == [status |-> "active", start |-> 0, end |-> FirstPlan.cycle,
           price |-> FirstPlan.price, cycle |-> FirstPlan.cycle, pending |-> NoChange]

Invoice(kind, from, to) ==
    [kind |-> kind, due |-> from, to |-> to, status |-> "open", mp |-> NoPayment]

Unpaid(s, n) == invoices[s][n].status # "paid"
Overdue(s) == {n \in DOMAIN invoices[s] : invoices[s][n].status = "overdue"}
IsLate(s, n, t) == invoices[s][n].due + GRACE <= t

(* contractedArr: a canceled subscription no longer counts.                *)
Annualized(d) == d.price * (12 \div d.cycle)
ContractedArr == MapThenSumSet(LAMBDA s : Annualized(sub[s]), {s \in Subs : sub[s].status \in Live})

Idle == [pc |-> "idle", at |-> 0, docs |-> [s \in Subs |-> NewSub], todo |-> {}, mark |-> {},
         late |-> {}, touched |-> FALSE, s |-> "none", n |-> 0, pay |-> NoPayment]

Spend(k) ==
    /\ count' = [count EXCEPT ![k] = @ + 1]
    /\ count' \in Mixes

-----------------------------------------------------------------------------
(* repo.update.                                                            *)
NoUpdate == [phase |-> "none"]

(* A slip: the document becomes the patch.                                 *)
Replace(doc, patch) == patch
Merge(doc, patch) == [f \in DOMAIN doc |-> IF f \in DOMAIN patch THEN patch[f] ELSE doc[f]]

Patch(p, table, id, patch) ==
    update' = [update EXCEPT ![p] = [phase |-> "get", table |-> table, id |-> id, doc |-> patch]]
PatchSub(p, s, patch) == Patch(p, "subscriptions", <<s>>, patch)
PatchInvoice(p, s, n, patch) == Patch(p, "invoices", <<s, n>>, patch)
PatchCustomer(p, patch) == Patch(p, "customers", <<>>, patch)

Stored(u) == CASE u.table = "subscriptions" -> sub[u.id[1]]
               [] u.table = "invoices" -> invoices[u.id[1]][u.id[2]]
               [] OTHER -> customer

UpdateGet(p) ==
    LET u == update[p] IN
    /\ u.phase = "get"
    /\ update' = [update EXCEPT ![p] = [u EXCEPT !.phase = "put", !.doc = Merge(Stored(u), u.doc)]]
    /\ UNCHANGED <<now, sub, invoices, customer, mirror, proc, lost, count>>

(* The document is written and returned to the caller.                     *)
UpdatePut(p) ==
    LET u == update[p]
        r == proc[p]
    IN  /\ u.phase = "put"
        /\ update' = [update EXCEPT ![p] = NoUpdate]
        /\ sub' = IF u.table = "subscriptions" THEN [sub EXCEPT ![u.id[1]] = u.doc] ELSE sub
        /\ invoices' = IF u.table = "invoices"
                       THEN [invoices EXCEPT ![u.id[1]][u.id[2]] = u.doc] ELSE invoices
        /\ customer' = IF u.table = "customers" THEN u.doc ELSE customer
        /\ proc' = [proc EXCEPT ![p] =
             IF r.pc = "return" THEN Idle
             ELSE IF r.pc \in {"run", "bill"} THEN [r EXCEPT !.docs[r.s] = u.doc] ELSE r]
        /\ UNCHANGED <<now, mirror, lost, count>>

Ready(p, pc) == proc[p].pc = pc /\ update[p].phase = "none"
Move(p, r) == proc' = [proc EXCEPT ![p] = r]
Goto(p, pc) == Move(p, [proc[p] EXCEPT !.pc = pc])
Called(q, op) == q \in Desk /\ op \in Handles[q] /\ proc[q].pc = "idle" /\ Spend(op)

-----------------------------------------------------------------------------
(* syncCustomerArr: an ended customer keeps the arr it had.                *)
AfterSync(p) == IF proc[p].pay = NoPayment THEN Idle ELSE [proc[p] EXCEPT !.pc = "mirror"]

SyncGet(p) ==
    /\ Ready(p, "sync")
    /\ IF customer.left # "no" THEN Move(p, AfterSync(p)) ELSE Goto(p, "syncList")
    /\ UNCHANGED <<now, sub, invoices, customer, mirror, update, lost, count>>

SyncList(p) ==
    /\ Ready(p, "syncList")
    /\ PatchCustomer(p, [arr |-> ContractedArr])
    /\ Move(p, IF proc[p].pay = NoPayment THEN [proc[p] EXCEPT !.pc = "return"] ELSE AfterSync(p))
    /\ UNCHANGED <<now, sub, invoices, customer, mirror, lost, count>>

-----------------------------------------------------------------------------
(* A slip: only active subscriptions are renewed.                          *)
RenewedIfPaid(d, t) == d.status = "active" /\ d.end <= t
ToRenew(d, t) == d.status \in Live /\ d.end <= t
ChangeIsDue(d, t) == d.pending # NoChange /\ d.pending.at <= t

(* runBilling.  The list of subscriptions is read first, and each one that *)
(* needs it is worked on until it needs nothing more.                      *)
Needs(r, s) == ChangeIsDue(r.docs[s], r.at) \/ ToRenew(r.docs[s], r.at)
Turn(p, s) ==
    LET r == proc[p] IN
    /\ Ready(p, "run") /\ Needs(r, s)
    /\ r.s \in Subs \ {s} => ~Needs(r, r.s)

StartRun(p) ==
    /\ \/ p = Tick /\ proc[p].pc = "idle" /\ UNCHANGED count
       \/ Called(p, "run")
    /\ Move(p, [Idle EXCEPT !.pc = "run", !.at = now, !.docs = sub])
    /\ UNCHANGED <<now, sub, invoices, customer, mirror, update, lost>>

(* A scheduled change whose day has come, also of a canceled subscription. *)
ApplyChange(p, s) ==
    LET pending == proc[p].docs[s].pending IN
    /\ Turn(p, s) /\ ChangeIsDue(proc[p].docs[s], proc[p].at)
    /\ PatchSub(p, s, [price |-> pending.price, cycle |-> pending.cycle, pending |-> NoChange])
    /\ Move(p, [proc[p] EXCEPT !.s = s, !.touched = TRUE])
    /\ UNCHANGED <<now, sub, invoices, customer, mirror, lost, count>>

(* A slip: a run that is late renews once, up to the present.              *)
NextPeriodAtOnce(d, t) == [start |-> IF d.end + d.cycle > t THEN d.end ELSE t,
                           end |-> IF d.end + d.cycle > t THEN d.end + d.cycle ELSE t + d.cycle]
NextPeriod(d, t) == [start |-> d.end, end |-> d.end + d.cycle]

(* The period moves on, cycle by cycle, and each gets its invoice after.   *)
Renew(p, s) ==
    LET r == proc[p]
        d == r.docs[s]
    IN  /\ Turn(p, s) /\ ~ChangeIsDue(d, r.at)
        /\ PatchSub(p, s, NextPeriod(d, r.at))
        /\ Move(p, [r EXCEPT !.pc = "bill", !.s = s, !.touched = TRUE])
        /\ UNCHANGED <<now, sub, invoices, customer, mirror, lost, count>>

Bill(p) ==
    LET s == proc[p].s
        d == proc[p].docs[s]
    IN  /\ Ready(p, "bill")
        /\ invoices' = [invoices EXCEPT ![s] = Append(@, Invoice("renewal", d.start, d.end))]
        /\ Goto(p, "run")
        /\ UNCHANGED <<now, sub, customer, mirror, update, lost, count>>

(* A slip: what a run before this one marked is not counted.               *)
LateSubsNow(t) == {s \in Subs : \E n \in DOMAIN invoices[s] :
                       invoices[s][n].status = "open" /\ IsLate(s, n, t)}

(* The subscriptions with something overdue, or about to be marked so.     *)
LateSubs(t) == {s \in Subs : \E n \in DOMAIN invoices[s] :
                    \/ invoices[s][n].status = "overdue"
                    \/ invoices[s][n].status = "open" /\ IsLate(s, n, t)}

(* The list of invoices, once no subscription needs anything.              *)
ListInvoices(p) ==
    LET r == proc[p] IN
    /\ Ready(p, "run") /\ \A s \in Subs : ~Needs(r, s)
    /\ Move(p, [Idle EXCEPT !.pc = "mark", !.late = LateSubs(r.at), !.touched = r.touched,
                  !.mark = UNION {{<<s, n>> : n \in {m \in DOMAIN invoices[s] :
                                     invoices[s][m].status = "open" /\ IsLate(s, m, r.at)}} : s \in Subs}])
    /\ UNCHANGED <<now, sub, invoices, customer, mirror, update, lost, count>>

Mark(p, i) ==
    LET r == proc[p] IN
    /\ Ready(p, "mark") /\ i \in r.mark
    /\ PatchInvoice(p, i[1], i[2], [status |-> "overdue"])
    /\ Move(p, [r EXCEPT !.mark = @ \ {i}])
    /\ UNCHANGED <<now, sub, invoices, customer, mirror, lost, count>>

(* The subscriptions again, for the ones whose status is to change; then   *)
(* the arr, if anything did.                                               *)
AfterStatus(r) ==
    IF r.todo # {} THEN r ELSE IF r.touched THEN [Idle EXCEPT !.pc = "sync"] ELSE Idle

ListSubs(p) ==
    LET r == proc[p]
        wrong == {s \in Subs : sub[s].status = IF s \in r.late THEN "active" ELSE "past_due"}
    IN  /\ Ready(p, "mark") /\ r.mark = {}
        /\ Move(p, AfterStatus([r EXCEPT !.pc = "status", !.todo = wrong]))
        /\ UNCHANGED <<now, sub, invoices, customer, mirror, update, lost, count>>

SetStatus(p, s) ==
    LET r == proc[p] IN
    /\ Ready(p, "status") /\ s \in r.todo
    /\ PatchSub(p, s, [status |-> IF s \in r.late THEN "past_due" ELSE "active"])
    /\ Move(p, AfterStatus([r EXCEPT !.todo = @ \ {s}, !.touched = TRUE]))
    /\ UNCHANGED <<now, sub, invoices, customer, mirror, lost, count>>

-----------------------------------------------------------------------------
(* The routes of an invoice and of a subscription.                         *)
At(pc, s, n) == [Idle EXCEPT !.pc = pc, !.s = s, !.n = n]

(* manualPay: then the subscription recovers if nothing else is overdue.   *)
Pay(q, s, n) ==
    /\ Called(q, "pay") /\ Unpaid(s, n)
    /\ PatchInvoice(q, s, n, [status |-> "paid"])
    /\ Move(q, At("payList", s, n))
    /\ UNCHANGED <<now, sub, invoices, customer, mirror, lost>>

PayList(q) ==
    LET r == proc[q] IN
    /\ Ready(q, "payList")
    /\ Move(q, IF Overdue(r.s) \subseteq {r.n} THEN [r EXCEPT !.pc = "payGet"] ELSE Idle)
    /\ UNCHANGED <<now, sub, invoices, customer, mirror, update, lost, count>>

PayGet(q) ==
    LET s == proc[q].s IN
    /\ Ready(q, "payGet")
    /\ IF sub[s].status = "past_due"
       THEN PatchSub(q, s, [status |-> "active"]) /\ Goto(q, "sync")
       ELSE Move(q, Idle) /\ UNCHANGED update
    /\ UNCHANGED <<now, sub, invoices, customer, mirror, lost, count>>

(* A wrong click is undone; what a gateway paid is not.                    *)
Unpay(q, s, n) ==
    LET late == IsLate(s, n, now) IN
    /\ Called(q, "unpay") /\ ~Unpaid(s, n) /\ invoices[s][n].mp = NoPayment
    /\ PatchInvoice(q, s, n, [status |-> IF late THEN "overdue" ELSE "open"])
    /\ Move(q, At(IF late THEN "unpayGet" ELSE "return", s, n))
    /\ UNCHANGED <<now, sub, invoices, customer, mirror, lost>>

UnpayGet(q) ==
    LET s == proc[q].s IN
    /\ Ready(q, "unpayGet")
    /\ IF sub[s].status = "active"
       THEN PatchSub(q, s, [status |-> "past_due"]) /\ Goto(q, "sync")
       ELSE Move(q, Idle) /\ UNCHANGED update
    /\ UNCHANGED <<now, sub, invoices, customer, mirror, lost, count>>

IsUpgrade(d, plan) == plan.cycle = d.cycle /\ plan.price > d.price

(* computeChange: a higher price applies at once, and what is left of the  *)
(* cycle is invoiced; a lower one or another cycle waits for the end.      *)
Change(q, s, plan) ==
    LET d == sub[s] IN
    /\ Called(q, "change")
    /\ plan # [price |-> d.price, cycle |-> d.cycle]
    /\ IF IsUpgrade(d, plan)
       THEN /\ PatchSub(q, s, [price |-> plan.price, pending |-> NoChange])
            /\ Move(q, [At(IF now < d.end THEN "prorata" ELSE "sync", s, 0) EXCEPT !.at = now])
       ELSE /\ PatchSub(q, s, [pending |-> [at |-> d.end, price |-> plan.price,
                                            cycle |-> plan.cycle]])
            /\ Move(q, At("return", s, 0))
    /\ UNCHANGED <<now, sub, invoices, customer, mirror, lost>>

Prorata(q) ==
    LET r == proc[q] IN
    /\ Ready(q, "prorata")
    /\ invoices' = [invoices EXCEPT ![r.s] = Append(@, Invoice("prorata", r.at, r.at))]
    /\ Goto(q, "sync")
    /\ UNCHANGED <<now, sub, customer, mirror, update, lost, count>>

(* The customer leaves: what is not canceled is, and then the date is set. *)
Churn(q) ==
    /\ Called(q, "churn")
    /\ Move(q, [Idle EXCEPT !.pc = "cancel", !.todo = {s \in Subs : sub[s].status # "canceled"}])
    /\ UNCHANGED <<now, sub, invoices, customer, mirror, update, lost>>

Cancel(q, s) ==
    /\ Ready(q, "cancel") /\ s \in proc[q].todo
    /\ PatchSub(q, s, [status |-> "canceled"])
    /\ Move(q, [proc[q] EXCEPT !.todo = @ \ {s}])
    /\ UNCHANGED <<now, sub, invoices, customer, mirror, lost, count>>

MarkChurn(q) ==
    /\ Ready(q, "cancel") /\ proc[q].todo = {}
    /\ PatchCustomer(q, [left |-> "manual"])
    /\ Goto(q, "return")
    /\ UNCHANGED <<now, sub, invoices, customer, mirror, lost, count>>

-----------------------------------------------------------------------------
(* ingestMirrorPayment, for an approved payment matched to a subscription. *)
(* The invoice of an earlier ingestion is kept in the mirror.              *)
Ingest(q, m) ==
    /\ Called(q, "settle")
    /\ Move(q, [At("ingest", PaidSub[m], mirror[m]) EXCEPT !.pay = m])
    /\ UNCHANGED <<now, sub, invoices, customer, mirror, update, lost>>

(* A slip: only what the mirror kept tells that a payment has settled one. *)
SettledInMirror(s, m) == {mirror[m]} \ {0}
Settled(s, m) == {n \in DOMAIN invoices[s] : invoices[s][n].mp = m}

(* settleTarget: the invoice already linked, or the oldest unpaid one; the *)
(* list is in the order of creation, which the ids begin with.             *)
Older(s, m, n) == \/ invoices[s][m].due < invoices[s][n].due
                  \/ invoices[s][m].due = invoices[s][n].due /\ m <= n
Target(s, link) ==
    LET unpaid == {n \in DOMAIN invoices[s] : Unpaid(s, n)}
    IN  IF link # 0 THEN unpaid \cap {link}
        ELSE {n \in unpaid : \A m \in unpaid : Older(s, n, m)}

IngestList(q) ==
    LET r == proc[q]
        settled == Settled(r.s, r.pay)
        target == Target(r.s, r.n)
    IN  /\ Ready(q, "ingest")
        /\ IF settled # {} \/ target = {}
           THEN /\ Move(q, [r EXCEPT !.pc = "mirror",
                                !.n = IF settled = {} \/ @ # 0 THEN @ ELSE Min(settled)])
                /\ UNCHANGED update
           ELSE \E n \in target :
                  /\ PatchInvoice(q, r.s, n, [status |-> "paid", mp |-> r.pay])
                  /\ Move(q, [r EXCEPT !.pc = "settleGet", !.n = n])
        /\ UNCHANGED <<now, sub, invoices, customer, mirror, lost, count>>

(* settleInvoice: the subscription is read before the list of invoices.    *)
SettleGet(q) ==
    LET r == proc[q] IN
    /\ Ready(q, "settleGet")
    /\ Goto(q, IF sub[r.s].status = "past_due" THEN "settleList" ELSE "mirror")
    /\ UNCHANGED <<now, sub, invoices, customer, mirror, update, lost, count>>

SettleList(q) ==
    LET s == proc[q].s IN
    /\ Ready(q, "settleList")
    /\ IF Overdue(s) = {}
       THEN PatchSub(q, s, [status |-> "active"]) /\ Goto(q, "sync")
       ELSE Goto(q, "mirror") /\ UNCHANGED update
    /\ UNCHANGED <<now, sub, invoices, customer, mirror, lost, count>>

SaveMirror(q) ==
    /\ Ready(q, "mirror")
    /\ mirror' = [mirror EXCEPT ![proc[q].pay] = proc[q].n]
    /\ Move(q, Idle)
    /\ UNCHANGED <<now, sub, invoices, customer, update, lost, count>>

-----------------------------------------------------------------------------
(* applyMpPayment, for a charge of a recurring subscription the gateway    *)
(* made; the subscription is the one the webhook read.                     *)
Charge(q, m) ==
    /\ Called(q, "charge")
    /\ Move(q, [At("charge", PaidSub[m], 0) EXCEPT !.pay = m, !.docs = sub])
    /\ UNCHANGED <<now, sub, invoices, customer, mirror, update, lost>>

ChargeList(q) ==
    LET r == proc[q]
        target == Target(r.s, 0)
    IN  /\ Ready(q, "charge")
        /\ IF Settled(r.s, r.pay) # {} THEN Move(q, Idle) /\ UNCHANGED update
           ELSE IF target = {} THEN Goto(q, "chargeCreate") /\ UNCHANGED update
           ELSE /\ \E n \in target : PatchInvoice(q, r.s, n, [status |-> "paid", mp |-> r.pay])
                /\ Goto(q, "chargeEnd")
        /\ UNCHANGED <<now, sub, invoices, customer, mirror, lost, count>>

(* Nothing is unpaid: a paid invoice is created.                           *)
ChargeCreate(q) ==
    LET r == proc[q] IN
    /\ Ready(q, "chargeCreate")
    /\ invoices' = [invoices EXCEPT ![r.s] =
          Append(@, [Invoice("renewal", now, now) EXCEPT !.status = "paid", !.mp = r.pay])]
    /\ Goto(q, "chargeEnd")
    /\ UNCHANGED <<now, sub, customer, mirror, update, lost, count>>

ChargeEnd(q) ==
    LET r == proc[q] IN
    /\ Ready(q, "chargeEnd")
    /\ IF r.docs[r.s].status = "past_due" /\ Overdue(r.s) = {}
       THEN /\ PatchSub(q, r.s, [status |-> "active"])
            /\ Move(q, [Idle EXCEPT !.pc = "sync"])
       ELSE Move(q, Idle) /\ UNCHANGED update
    /\ UNCHANGED <<now, sub, invoices, customer, mirror, lost, count>>

-----------------------------------------------------------------------------
(* The gateway tells that an authorization changed: the subscription takes *)
(* its status (one still pending changes none).                            *)
NoPatch == [f \in {} |-> f]

Preapproval(q, s, status) ==
    /\ Called(q, "preapproval")
    /\ PatchSub(q, s, IF sub[s].status = status THEN NoPatch ELSE [status |-> status])
    /\ Move(q, At(CASE status = "canceled" -> "leaves"
                    [] status = "active" -> "returns"
                    [] OTHER -> "sync", s, 0))
    /\ UNCHANGED <<now, sub, invoices, customer, mirror, lost>>

(* applyMpCancellationChurn: who has no other live subscription leaves.    *)
Leaves(q) ==
    /\ Ready(q, "leaves")
    /\ Goto(q, IF customer.left # "no" THEN "sync" ELSE "leavesList")
    /\ UNCHANGED <<now, sub, invoices, customer, mirror, update, lost, count>>

LeavesList(q) ==
    /\ Ready(q, "leavesList")
    /\ IF \E s \in Subs \ {proc[q].s} : sub[s].status \in Live THEN UNCHANGED update
       ELSE PatchCustomer(q, [left |-> "mp"])
    /\ Goto(q, "sync")
    /\ UNCHANGED <<now, sub, invoices, customer, mirror, lost, count>>

(* applyMpReactivationRescue: a leaving the gateway marked is undone.      *)
Returns(q) ==
    /\ Ready(q, "returns")
    /\ IF customer.left = "mp" THEN PatchCustomer(q, [left |-> "no"]) ELSE UNCHANGED update
    /\ Goto(q, "sync")
    /\ UNCHANGED <<now, sub, invoices, customer, mirror, lost, count>>

-----------------------------------------------------------------------------
(* The world: time, and calls that end half way, on an error or a stop. A  *)
(* period moved on whose invoice was still to be created is not billed.    *)
Wait ==
    /\ now < MaxNow
    /\ now' = now + 1
    /\ UNCHANGED <<sub, invoices, customer, mirror, update, proc, lost, count>>

Fails(p) ==
    LET r == proc[p] IN
    /\ r.pc # "idle" /\ Spend("fault")
    /\ Move(p, Idle)
    /\ update' = [update EXCEPT ![p] = NoUpdate]
    /\ lost' = IF Ready(p, "bill")
               THEN [lost EXCEPT ![r.s] = @ \cup {[from |-> r.docs[r.s].start, to |-> r.docs[r.s].end]}]
               ELSE lost
    /\ UNCHANGED <<now, sub, invoices, customer, mirror>>

-----------------------------------------------------------------------------
(* Each subscription has just begun, with its first invoice.               *)
Init ==
    /\ now = 0
    /\ sub = [s \in Subs |-> NewSub]
    /\ invoices = [s \in Subs |-> <<Invoice("renewal", 0, FirstPlan.cycle)>>]
    /\ customer = [arr |-> Cardinality(Subs) * Annualized(NewSub), left |-> "no"]
    /\ mirror = [m \in Payments |-> 0]
    /\ update = [p \in Processes |-> NoUpdate]
    /\ proc = [p \in Processes |-> Idle]
    /\ lost = [s \in Subs |-> {}]
    /\ count = NothingYet

(* A call that is under way, or the tick.                                  *)
Step(p) ==
    \/ UpdateGet(p) \/ UpdatePut(p) \/ SyncGet(p) \/ SyncList(p)
    \/ \E s \in Subs : ApplyChange(p, s) \/ Renew(p, s) \/ SetStatus(p, s) \/ Cancel(p, s)
    \/ Bill(p) \/ ListInvoices(p) \/ ListSubs(p)
    \/ \E i \in proc[p].mark : Mark(p, i)
    \/ PayList(p) \/ PayGet(p) \/ UnpayGet(p) \/ Prorata(p) \/ MarkChurn(p)
    \/ IngestList(p) \/ SettleGet(p) \/ SettleList(p) \/ SaveMirror(p)
    \/ ChargeList(p) \/ ChargeCreate(p) \/ ChargeEnd(p)
    \/ Leaves(p) \/ LeavesList(p) \/ Returns(p)

Call(q) ==
    \/ Churn(q)
    \/ \E s \in Subs :
         \/ \E n \in DOMAIN invoices[s] : Pay(q, s, n) \/ Unpay(q, s, n)
         \/ \E plan \in Plans : Change(q, s, plan)
         \/ \E status \in {"active", "paused", "canceled"} : Preapproval(q, s, status)
    \/ \E m \in Payments : Ingest(q, m) \/ Charge(q, m)

Next ==
    \/ \E p \in Processes : StartRun(p) \/ Step(p) \/ Fails(p)
    \/ \E q \in Desk : Call(q)
    \/ Wait

Spec == Init /\ [][Next]_vars

(* Started functions run on, the interval keeps firing, and time passes.   *)
Fairness ==
    /\ \A q \in Desk : WF_vars(Step(q))
    /\ WF_vars(Step(Tick) \/ StartRun(Tick))
    /\ WF_vars(Wait)

FairSpec == Spec /\ Fairness
=============================================================================
