-------------------------- MODULE Billing_proofs --------------------------
(***************************************************************************)
(* For any number of subscriptions, calls in flight, payments and faults:  *)
(* no period of a subscription is skipped (what a stale document or a      *)
(* patch may write is bounded by what was billed when it was read), the    *)
(* variables keep their types, and a payment settles one invoice unless    *)
(* two calls settle it at once or write one invoice at once.               *)
(***************************************************************************)
EXTENDS BillingProps, FiniteSetTheorems, WellFoundedInduction, NaturalsInduction, TLAPS

(* What is billed stays so, hence a bound once reached is one for good.    *)
BilledTo(s, e) == \A t \in Nat : t < e => Billed(s, t)

Fields == {"pc", "at", "docs", "todo", "mark", "late", "touched", "s", "n", "pay"}
SubFields == {"status", "start", "end", "price", "cycle", "pending"}
Period == {"start", "end"}

(* The steps of a call that work on one subscription.                      *)
OnOne == {"bill", "payList", "payGet", "unpayGet", "prorata", "ingest", "settleGet",
          "settleList", "charge", "chargeCreate", "chargeEnd"}

Typed ==
    /\ now \in Nat
    /\ sub \in [Subs -> Sub]
    /\ invoices \in [Subs -> Seq(InvoiceDoc)]
    /\ DOMAIN lost = Subs /\ DOMAIN proc = Processes /\ DOMAIN update = Processes

IsInvoiceId(i) == \E s \in Subs : \E n \in DOMAIN invoices[s] : i = <<s, n>>

Locals(r) ==
    /\ DOMAIN r = Fields
    /\ r.at \in Nat /\ r.docs \in [Subs -> Sub] /\ r.pay \in Payments \cup {NoPayment}
    /\ r.pc \in OnOne => r.s \in Subs
    /\ r.pc = "mark" => \A i \in r.mark : IsInvoiceId(i)

(* What a call may merge into a subscription or an invoice.                *)
SubPatch(d) ==
    /\ DOMAIN d \subseteq SubFields
    /\ "status" \in DOMAIN d => d.status \in Live \cup {"paused", "canceled"}
    /\ "start" \in DOMAIN d => d.start \in Nat
    /\ "end" \in DOMAIN d => d.end \in Nat
    /\ "price" \in DOMAIN d => d.price \in Nat
    /\ "cycle" \in DOMAIN d => d.cycle \in Nat \ {0}
    /\ "pending" \in DOMAIN d => d.pending \in ScheduledChange

InvoicePatch(d) ==
    /\ DOMAIN d \subseteq {"status", "mp"}
    /\ "status" \in DOMAIN d => d.status \in {"open", "overdue", "paid"}
    /\ "mp" \in DOMAIN d => d.mp \in Payments \cup {NoPayment}

(* An update just begun, of a call that does not renew.                    *)
Begun(u) ==
    /\ DOMAIN u = {"phase", "table", "id", "doc"} /\ u.phase = "get"
    /\ u.table \in {"subscriptions", "invoices", "customers"}
    /\ u.table = "subscriptions" =>
         /\ \E s \in Subs : u.id = <<s>>
         /\ SubPatch(u.doc) /\ Period \cap DOMAIN u.doc = {}
    /\ u.table = "invoices" => IsInvoiceId(u.id) /\ InvoicePatch(u.doc)

(* A renewal takes the period on from where it was billed to.              *)
Renewing(u, r) ==
    /\ DOMAIN u = {"phase", "table", "id", "doc"}
    /\ u.table = "subscriptions" /\ u.id = <<r.s>>
    /\ \/ u.phase = "get" /\ SubPatch(u.doc) /\ Period \subseteq DOMAIN u.doc
       \/ u.phase = "put" /\ u.doc \in Sub
    /\ u.doc.start = r.docs[r.s].end

(* A document about to be written back.                                    *)
Merged(u) ==
    /\ DOMAIN u = {"phase", "table", "id", "doc"} /\ u.phase = "put"
    /\ u.table \in {"subscriptions", "invoices", "customers"}
    /\ u.table = "subscriptions" =>
         \E s \in Subs : u.id = <<s>> /\ u.doc \in Sub /\ BilledTo(s, u.doc.end)
    /\ u.table = "invoices" =>
         \E s \in Subs : \E n \in DOMAIN invoices[s] :
             /\ u.id = <<s, n>> /\ u.doc \in InvoiceDoc
             /\ u.doc.kind = invoices[s][n].kind
             /\ u.doc.due = invoices[s][n].due /\ u.doc.to = invoices[s][n].to

UpdateOK(u, r) ==
    \/ u = NoUpdate
    \/ r.pc = "bill" /\ Renewing(u, r)
    \/ r.pc \notin {"idle", "bill"} /\ (Begun(u) \/ Merged(u))

(* The documents of a run are of subscriptions billed that far.            *)
RunOK(u, r) ==
    r.pc \in {"run", "bill"} =>
        /\ \A s \in Subs : BilledTo(s, r.docs[s].end)
        /\ u # NoUpdate => r.s \in Subs /\ u.table = "subscriptions" /\ u.id = <<r.s>>

ProcessOK(p) == Locals(proc[p]) /\ UpdateOK(update[p], proc[p]) /\ RunOK(update[p], proc[p])

IInv ==
    /\ Typed
    /\ \A s \in Subs : BilledTo(s, sub[s].end)
    /\ \A p \in Processes : ProcessOK(p)

-----------------------------------------------------------------------------
(* Helpers: the type of what is created and of what is merged.             *)
LEMMA NewSubType == NewSub \in Sub
  <1>1. FirstPlan \in [price : Nat, cycle : Nat \ {0}]
    BY BillingAssumption
  <1>2. FirstPlan.cycle \in Nat \ {0} /\ FirstPlan.price \in Nat
    BY <1>1
  <1>. QED  BY <1>2 DEF NewSub, Sub, Live, ScheduledChange

LEMMA IdleLocals == Locals(Idle) /\ Idle.pc = "idle"
  BY NewSubType DEF Idle, Locals, Fields, OnOne

LEMMA MergeSub ==
  ASSUME NEW doc \in Sub, NEW d, SubPatch(d)
  PROVE  /\ Merge(doc, d) \in Sub
         /\ Period \subseteq DOMAIN d => Merge(doc, d).start = d.start /\ Merge(doc, d).end = d.end
         /\ Period \cap DOMAIN d = {} => Merge(doc, d).end = doc.end
  <1>1. DOMAIN doc = SubFields
    BY DEF Sub, SubFields
  <1> DEFINE m == Merge(doc, d)
  <1>2. m = [f \in SubFields |-> IF f \in DOMAIN d THEN d[f] ELSE doc[f]]
    BY <1>1 DEF Merge
  <1>3. /\ m.status \in Live \cup {"paused", "canceled"} /\ m.start \in Nat /\ m.end \in Nat
        /\ m.price \in Nat /\ m.cycle \in Nat \ {0} /\ m.pending \in ScheduledChange
    BY <1>2 DEF SubPatch, Sub, SubFields
  <1>4. m \in Sub
    BY <1>2, <1>3 DEF Sub, SubFields
  <1>. QED  BY <1>2, <1>4 DEF Period, SubFields

LEMMA MergeInvoice ==
  ASSUME NEW doc \in InvoiceDoc, NEW d, InvoicePatch(d)
  PROVE  /\ Merge(doc, d) \in InvoiceDoc
         /\ Merge(doc, d).kind = doc.kind
         /\ Merge(doc, d).due = doc.due /\ Merge(doc, d).to = doc.to
  <1> DEFINE m == Merge(doc, d)
  <1>1. DOMAIN doc = {"kind", "due", "to", "status", "mp"}
    BY DEF InvoiceDoc
  <1>2. m = [f \in {"kind", "due", "to", "status", "mp"} |->
               IF f \in DOMAIN d THEN d[f] ELSE doc[f]]
    BY <1>1 DEF Merge
  <1>3. /\ m.kind = doc.kind /\ m.due = doc.due /\ m.to = doc.to
        /\ m.status \in {"open", "overdue", "paid"} /\ m.mp \in Payments \cup {NoPayment}
    BY <1>2 DEF InvoicePatch, InvoiceDoc
  <1>4. m \in InvoiceDoc
    BY <1>2, <1>3 DEF InvoiceDoc
  <1>. QED  BY <1>3, <1>4

(* Billing never shrinks: invoices keep their period, and a renewal handed *)
(* over is billed or known to be lost.                                     *)
Kept ==
    /\ \A s \in Subs : \A n \in DOMAIN invoices[s] :
         /\ n \in DOMAIN invoices'[s] /\ invoices'[s][n].kind = invoices[s][n].kind
         /\ invoices'[s][n].due = invoices[s][n].due /\ invoices'[s][n].to = invoices[s][n].to
    /\ \A s \in Subs : lost[s] \subseteq lost'[s]

LEMMA StaysBilled ==
  ASSUME Kept,
         \A p \in Processes, s \in Subs, t \in Nat :
            /\ Ready(p, "bill") /\ proc[p].s = s
            /\ proc[p].docs[s].start <= t /\ t < proc[p].docs[s].end
            => Billed(s, t)'
  PROVE  /\ \A s \in Subs, t \in Nat : Billed(s, t) => Billed(s, t)'
         /\ \A s \in Subs : \A e : BilledTo(s, e) => BilledTo(s, e)'
  <1>1. ASSUME NEW s \in Subs, NEW t \in Nat, Billed(s, t) PROVE Billed(s, t)'
    <2>1. CASE \E n \in DOMAIN invoices[s] :
             invoices[s][n].kind = "renewal" /\ invoices[s][n].due <= t /\ t < invoices[s][n].to
      BY <2>1 DEF Kept, Billed
    <2>2. CASE \E p \in Processes : /\ Ready(p, "bill") /\ proc[p].s = s
                                    /\ proc[p].docs[s].start <= t /\ t < proc[p].docs[s].end
      BY <2>2
    <2>3. CASE \E x \in lost[s] : x.from <= t /\ t < x.to
      BY <2>3 DEF Kept, Billed
    <2>. QED  BY <1>1, <2>1, <2>2, <2>3 DEF Billed
  <1>. QED  BY <1>1 DEF BilledTo

-----------------------------------------------------------------------------
(* A process p does a step and no other does.                              *)
OnlyMoves(p) ==
    /\ DOMAIN proc' = Processes /\ DOMAIN update' = Processes
    /\ \A q \in Processes \ {p} : proc'[q] = proc[q] /\ update'[q] = update[q]

(* The other processes, and the types of ids, keep what they rely on.      *)
LEMMA OthersKeep ==
  ASSUME IInv, NEW p \in Processes, OnlyMoves(p), Kept,
         \A s \in Subs : \A e : BilledTo(s, e) => BilledTo(s, e)'
  PROVE  /\ \A q \in Processes \ {p} : ProcessOK(q)'
         /\ \A i : IsInvoiceId(i) => IsInvoiceId(i)'
         /\ \A u : Begun(u) => Begun(u)'
         /\ \A u : Merged(u) => Merged(u)'
         /\ \A r : Locals(r) => Locals(r)'
  <1>1. ASSUME NEW i, IsInvoiceId(i) PROVE IsInvoiceId(i)'
    BY <1>1 DEF IsInvoiceId, Kept
  <1>2. ASSUME NEW u, Begun(u) PROVE Begun(u)'
    BY <1>1, <1>2 DEF Begun
  <1>3. ASSUME NEW u, Merged(u) PROVE Merged(u)'
    BY <1>3 DEF Merged, Kept
  <1>4. ASSUME NEW r, Locals(r) PROVE Locals(r)'
    BY <1>1, <1>4 DEF Locals
  <1>5. ASSUME NEW q \in Processes \ {p} PROVE ProcessOK(q)'
    <2> DEFINE r == proc[q]
               u == update[q]
    <2>1. proc'[q] = r /\ update'[q] = u /\ Locals(r) /\ UpdateOK(u, r) /\ RunOK(u, r)
      BY DEF OnlyMoves, IInv, ProcessOK
    <2>2. UpdateOK(update[q], proc[q])'
      BY <1>2, <1>3, <2>1 DEF UpdateOK, Renewing
    <2>3. RunOK(update[q], proc[q])'
      BY <2>1 DEF RunOK
    <2>. QED  BY <2>1, <1>4, <2>2, <2>3 DEF ProcessOK
  <1>. QED  BY <1>1, <1>2, <1>3, <1>4, <1>5

(* A step that writes nothing yet and is no renewal disturbs nothing.      *)
Quiet(p) ==
    /\ OnlyMoves(p) /\ ~Ready(p, "bill")
    /\ UNCHANGED <<now, sub, invoices, lost>>
    /\ Locals(proc'[p]) /\ proc'[p].pc \notin {"run", "bill"}
    /\ update'[p] = NoUpdate \/ (proc'[p].pc # "idle" /\ Begun(update'[p]))

LEMMA QuietStep ==
  ASSUME IInv, NEW p \in Processes, Quiet(p)
  PROVE  IInv'
  <1>1. Kept
    BY DEF Kept, Quiet
  <1>2. \A s \in Subs : \A e : BilledTo(s, e) => BilledTo(s, e)'
    <2>1. ASSUME NEW q \in Processes, NEW s \in Subs, NEW t \in Nat,
                 Ready(q, "bill"), proc[q].s = s,
                 proc[q].docs[s].start <= t, t < proc[q].docs[s].end
          PROVE  Billed(s, t)'
      BY <2>1 DEF Billed, Ready, Quiet, OnlyMoves
    <2>. QED  BY <1>1, <2>1, StaysBilled
  <1>3. Typed'
    BY DEF IInv, Typed, Quiet, OnlyMoves
  <1>4. \A s \in Subs : BilledTo(s, sub[s].end)'
    BY <1>2 DEF IInv, Quiet
  <1>5. ProcessOK(p)'
    <2>1. Locals(proc[p])'
      BY <1>1, <1>2, OthersKeep DEF Quiet
    <2>2. UpdateOK(update[p], proc[p])'
      BY <1>1, <1>2, OthersKeep DEF UpdateOK, Quiet
    <2>. QED  BY <2>1, <2>2 DEF ProcessOK, RunOK, Quiet
  <1>6. \A q \in Processes : ProcessOK(q)'
    BY <1>1, <1>2, <1>5, OthersKeep DEF Quiet
  <1>. QED  BY <1>3, <1>4, <1>6 DEF IInv

-----------------------------------------------------------------------------
LEMMA InitInv == Init => IInv
  <1> SUFFICES ASSUME Init PROVE IInv
    OBVIOUS
  <1>1. Typed
    <2>1. ASSUME NEW s \in Subs PROVE invoices[s] \in Seq(InvoiceDoc)
      <3>1. FirstPlan.cycle \in Nat
        BY BillingAssumption
      <3>2. Invoice("renewal", 0, FirstPlan.cycle) \in InvoiceDoc
        BY <3>1 DEF Invoice, InvoiceDoc
      <3>. QED  BY <3>2 DEF Init
    <2>. QED  BY <2>1, NewSubType DEF Init, Typed
  <1>2. ASSUME NEW s \in Subs PROVE BilledTo(s, sub[s].end)
    <2>1. sub[s].end = FirstPlan.cycle /\ Len(invoices[s]) = 1
          /\ invoices[s][1] = Invoice("renewal", 0, FirstPlan.cycle)
      BY DEF Init, NewSub
    <2>2. 1 \in DOMAIN invoices[s]
      BY <2>1, <1>1 DEF Typed
    <2>. QED  BY <2>1, <2>2 DEF BilledTo, Billed, Invoice
  <1>3. ASSUME NEW p \in Processes PROVE ProcessOK(p)
    BY IdleLocals DEF Init, ProcessOK, UpdateOK, RunOK
  <1>. QED  BY <1>1, <1>2, <1>3 DEF IInv

(* What the guards of the steps give.                                      *)
LEMMA Facts ==
  ASSUME IInv, NEW p \in Processes
  PROVE  /\ Locals(proc[p]) /\ DOMAIN proc[p] = Fields
         /\ now \in Nat /\ DOMAIN proc = Processes /\ DOMAIN update = Processes
         /\ update[p].phase = "none" => update[p] = NoUpdate
         /\ proc[p].pc = "idle" => update[p] = NoUpdate
         /\ NoUpdate.phase = "none"
  <1>1. ProcessOK(p) /\ Typed
    BY DEF IInv
  <1>2. update[p].phase = "none" => update[p] = NoUpdate
    BY <1>1 DEF ProcessOK, UpdateOK, Begun, Merged, Renewing
  <1>. QED  BY <1>1, <1>2 DEF ProcessOK, Typed, Locals, UpdateOK, NoUpdate

(* What a quiet step of p does: its locals become r, and an update may     *)
(* begin.                                                                  *)
Begins(p) == \E u : Begun(u) /\ update' = [update EXCEPT ![p] = u]

Becomes(p, r) ==
    /\ Move(p, r) /\ ~Ready(p, "bill")
    /\ UNCHANGED <<now, sub, invoices, lost>>
    /\ Locals(r) /\ r.pc \notin {"run", "bill"}
    /\ \/ UNCHANGED update /\ update[p] = NoUpdate
       \/ Begins(p) /\ r.pc # "idle"

LEMMA QuietBecomes ==
  ASSUME IInv, NEW p \in Processes, NEW r, Becomes(p, r)
  PROVE  IInv'
  <1>1. OnlyMoves(p) /\ proc'[p] = r
    BY Facts DEF Becomes, Begins, Move, OnlyMoves
  <1>2. update'[p] = NoUpdate \/ (r.pc # "idle" /\ Begun(update'[p]))
    BY Facts DEF Becomes, Begins
  <1>3. Quiet(p)
    BY <1>1, <1>2 DEF Becomes, Quiet
  <1>. QED  BY <1>3, QuietStep

LEMMA AtLocals ==
  ASSUME NEW pc, NEW s \in Subs, NEW n, pc # "mark"
  PROVE  Locals(At(pc, s, n)) /\ At(pc, s, n).pc = pc /\ At(pc, s, n).s = s
  BY IdleLocals DEF Locals, Fields, At

(* The patches begin as they should.                                       *)
LEMMA SubBegins ==
  ASSUME NEW p, NEW s \in Subs, NEW d, PatchSub(p, s, d), SubPatch(d), Period \cap DOMAIN d = {}
  PROVE  Begins(p)
  BY DEF PatchSub, Patch, Begins, Begun

LEMMA InvoiceBegins ==
  ASSUME NEW p, NEW s \in Subs, NEW n \in DOMAIN invoices[s], NEW d,
         PatchInvoice(p, s, n, d), InvoicePatch(d)
  PROVE  Begins(p)
  BY DEF PatchInvoice, Patch, Begins, Begun, IsInvoiceId

LEMMA CustomerBegins ==
  ASSUME NEW p, NEW d, PatchCustomer(p, d)
  PROVE  Begins(p)
  BY DEF PatchCustomer, Patch, Begins, Begun

LEMMA StatusPatch ==
  ASSUME NEW v \in Live \cup {"paused", "canceled"}
  PROVE  SubPatch([status |-> v]) /\ Period \cap DOMAIN [status |-> v] = {}
  BY DEF SubPatch, SubFields, Period

LEMMA PaidPatch ==
  ASSUME NEW v \in {"open", "overdue", "paid"}, NEW m \in Payments \cup {NoPayment}
  PROVE  InvoicePatch([status |-> v]) /\ InvoicePatch([status |-> v, mp |-> m])
  BY DEF InvoicePatch

-----------------------------------------------------------------------------
(* A call that begins.                                                     *)
LEMMA CallStep ==
  ASSUME IInv, NEW q \in Desk, Call(q)
  PROVE  IInv'
  <1>0. q \in Processes /\ sub \in [Subs -> Sub]
    BY DEF Processes, IInv, Typed
  <1>a. proc[q].pc = "idle" => ~Ready(q, "bill") /\ update[q] = NoUpdate
    BY <1>0, Facts DEF Ready
  <1>1. CASE Churn(q)
    <2> DEFINE r == [Idle EXCEPT !.pc = "cancel", !.todo = {s \in Subs : sub[s].status # "canceled"}]
    <2>1. Locals(r) /\ r.pc = "cancel"
      BY IdleLocals DEF Locals, Fields, OnOne
    <2>2. Becomes(q, r)
      BY <1>1, <1>a, <2>1 DEF Becomes, Churn, Called
    <2>. QED  BY <1>0, <2>2, QuietBecomes
  <1>2. ASSUME NEW s \in Subs, NEW n \in DOMAIN invoices[s], Pay(q, s, n) PROVE IInv'
    <2>1. Begins(q)
      BY <1>2, InvoiceBegins, PaidPatch DEF Pay
    <2>2. Becomes(q, At("payList", s, n))
      BY <1>2, <1>a, <2>1, AtLocals DEF Becomes, Pay, Called
    <2>. QED  BY <1>0, <2>2, QuietBecomes
  <1>3. ASSUME NEW s \in Subs, NEW n \in DOMAIN invoices[s], Unpay(q, s, n) PROVE IInv'
    <2> DEFINE late == IsLate(s, n, now)
    <2>1. Begins(q)
      BY <1>3, InvoiceBegins, PaidPatch DEF Unpay
    <2>2. Becomes(q, At(IF late THEN "unpayGet" ELSE "return", s, n))
      BY <1>3, <1>a, <2>1, AtLocals DEF Becomes, Unpay, Called
    <2>. QED  BY <1>0, <2>2, QuietBecomes
  <1>4. ASSUME NEW s \in Subs, NEW plan \in Plans, Change(q, s, plan) PROVE IInv'
    <2>0. plan.price \in Nat /\ plan.cycle \in Nat \ {0} /\ sub[s] \in Sub /\ now \in Nat
      BY <1>0, BillingAssumption, Facts
    <2>1. CASE IsUpgrade(sub[s], plan)
      <3> DEFINE r == [At(IF now < sub[s].end THEN "prorata" ELSE "sync", s, 0) EXCEPT !.at = now]
      <3>1. SubPatch([price |-> plan.price, pending |-> NoChange])
            /\ Period \cap DOMAIN [price |-> plan.price, pending |-> NoChange] = {}
        BY <2>0 DEF SubPatch, SubFields, Period, ScheduledChange
      <3>2. Begins(q) /\ Move(q, r)
        BY <1>4, <2>1, <3>1, SubBegins DEF Change
      <3>3. Locals(r) /\ r.pc \in {"prorata", "sync"}
        <4> DEFINE pc == IF now < sub[s].end THEN "prorata" ELSE "sync"
        <4>1. Locals(At(pc, s, 0)) /\ At(pc, s, 0).pc = pc /\ At(pc, s, 0).s = s /\ pc \in {"prorata", "sync"}
          BY AtLocals
        <4>. QED  BY <2>0, <4>1 DEF Locals, Fields
      <3>4. Becomes(q, r)
        BY <1>4, <1>a, <3>2, <3>3 DEF Becomes, Change, Called
      <3>. QED  BY <1>0, <3>4, QuietBecomes
    <2>2. CASE ~IsUpgrade(sub[s], plan)
      <3> DEFINE d == [pending |-> [at |-> sub[s].end, price |-> plan.price, cycle |-> plan.cycle]]
      <3>1. SubPatch(d) /\ Period \cap DOMAIN d = {}
        BY <2>0 DEF SubPatch, SubFields, Period, ScheduledChange, Sub
      <3>2. Begins(q) /\ Move(q, At("return", s, 0))
        BY <1>4, <2>2, <3>1, SubBegins DEF Change
      <3>3. Becomes(q, At("return", s, 0))
        BY <1>4, <1>a, <3>2, AtLocals DEF Becomes, Change, Called
      <3>. QED  BY <1>0, <3>3, QuietBecomes
    <2>. QED  BY <2>1, <2>2
  <1>5. ASSUME NEW s \in Subs, NEW status \in {"active", "paused", "canceled"},
               Preapproval(q, s, status)
        PROVE  IInv'
    <2> DEFINE d == IF sub[s].status = status THEN NoPatch ELSE [status |-> status]
               pc == CASE status = "canceled" -> "leaves" [] status = "active" -> "returns"
                       [] OTHER -> "sync"
    <2>1. SubPatch(d) /\ Period \cap DOMAIN d = {}
      BY StatusPatch DEF NoPatch, SubPatch, SubFields, Period, Live
    <2>2. Begins(q)
      BY <1>5, <2>1, SubBegins DEF Preapproval
    <2>3. pc \in {"leaves", "returns", "sync"}
      OBVIOUS
    <2>4. Becomes(q, At(pc, s, 0))
      BY <1>5, <1>a, <2>2, <2>3, AtLocals DEF Becomes, Preapproval, Called
    <2>. QED  BY <1>0, <2>4, QuietBecomes
  <1>6. ASSUME NEW m \in Payments, Ingest(q, m) PROVE IInv'
    <2> DEFINE r == [At("ingest", PaidSub[m], mirror[m]) EXCEPT !.pay = m]
    <2>1. Locals(r) /\ r.pc = "ingest"
      <3>1. PaidSub[m] \in Subs
        BY BillingAssumption
      <3>2. Locals(At("ingest", PaidSub[m], mirror[m])) /\ At("ingest", PaidSub[m], mirror[m]).pc = "ingest"
            /\ At("ingest", PaidSub[m], mirror[m]).s \in Subs
        BY <3>1, AtLocals
      <3>. QED  BY <3>2 DEF Locals, Fields
    <2>2. Becomes(q, r)
      BY <1>6, <1>a, <2>1 DEF Becomes, Ingest, Called
    <2>. QED  BY <1>0, <2>2, QuietBecomes
  <1>7. ASSUME NEW m \in Payments, Charge(q, m) PROVE IInv'
    <2> DEFINE r == [At("charge", PaidSub[m], 0) EXCEPT !.pay = m, !.docs = sub]
    <2>1. Locals(r) /\ r.pc = "charge"
      <3>1. PaidSub[m] \in Subs
        BY BillingAssumption
      <3>2. Locals(At("charge", PaidSub[m], 0)) /\ At("charge", PaidSub[m], 0).pc = "charge"
            /\ At("charge", PaidSub[m], 0).s \in Subs
        BY <3>1, AtLocals
      <3>. QED  BY <1>0, <3>2 DEF Locals, Fields
    <2>2. Becomes(q, r)
      BY <1>7, <1>a, <2>1 DEF Becomes, Charge, Called
    <2>. QED  BY <1>0, <2>2, QuietBecomes
  <1>. QED  BY <1>1, <1>2, <1>3, <1>4, <1>5, <1>6, <1>7 DEF Call

-----------------------------------------------------------------------------
(* The steps that go on without writing: what they need of the locals.     *)
LEMMA GotoLocals ==
  ASSUME NEW r, Locals(r), NEW pc, pc # "mark", pc \in OnOne => r.s \in Subs
  PROVE  Locals([r EXCEPT !.pc = pc]) /\ [r EXCEPT !.pc = pc].pc = pc
  BY DEF Locals, Fields

LEMMA ReadyFacts ==
  ASSUME IInv, NEW p \in Processes, NEW pc, Ready(p, pc), pc # "bill"
  PROVE  /\ ~Ready(p, "bill") /\ update[p] = NoUpdate
         /\ Locals(proc[p]) /\ proc[p].pc = pc
         /\ sub \in [Subs -> Sub]
  BY Facts DEF Ready, IInv, Typed

LEMMA SyncSteps ==
  ASSUME IInv, NEW p \in Processes, SyncGet(p) \/ SyncList(p)
  PROVE  IInv'
  <1> DEFINE r == proc[p]
  <1>1. /\ ~Ready(p, "bill") /\ update[p] = NoUpdate /\ Locals(r)
    BY ReadyFacts DEF SyncGet, SyncList
  <1>2. /\ Locals(AfterSync(p)) /\ AfterSync(p).pc \in {"idle", "mirror"}
        /\ r.pay # NoPayment => AfterSync(p).pc = "mirror"
    BY <1>1, IdleLocals, GotoLocals DEF AfterSync, OnOne
  <1>3. \A pc \in {"syncList", "return"} : Locals([r EXCEPT !.pc = pc]) /\ [r EXCEPT !.pc = pc].pc = pc
    BY <1>1, GotoLocals DEF OnOne
  <1>4. CASE SyncGet(p)
    <2> DEFINE n == IF customer.left # "no" THEN AfterSync(p) ELSE [r EXCEPT !.pc = "syncList"]
    <2>1. Becomes(p, n)
      BY <1>4, <1>1, <1>2, <1>3 DEF SyncGet, Becomes, Goto, Move
    <2>. QED  BY <2>1, QuietBecomes
  <1>5. CASE SyncList(p)
    <2> DEFINE n == IF r.pay = NoPayment THEN [r EXCEPT !.pc = "return"] ELSE AfterSync(p)
    <2>1. Begins(p)
      BY <1>5, CustomerBegins DEF SyncList
    <2>2. Becomes(p, n)
      BY <1>5, <1>1, <1>2, <1>3, <2>1 DEF SyncList, Becomes
    <2>. QED  BY <2>2, QuietBecomes
  <1>. QED  BY <1>4, <1>5

(* The second half of a run: what is late, then the statuses.              *)
LEMMA LateSteps ==
  ASSUME IInv, NEW p \in Processes,
         \/ ListInvoices(p) \/ ListSubs(p)
         \/ \E i \in proc[p].mark : Mark(p, i)
         \/ \E s \in Subs : SetStatus(p, s)
  PROVE  IInv'
  <1> DEFINE r == proc[p]
  <1>1. /\ ~Ready(p, "bill") /\ update[p] = NoUpdate /\ Locals(r)
        /\ Ready(p, r.pc) /\ r.pc \in {"run", "mark", "status"}
    BY ReadyFacts DEF ListInvoices, ListSubs, Mark, SetStatus, Ready
  <1>2. ASSUME NEW x, Locals(x), x.pc = "status"
        PROVE  /\ Locals(AfterStatus(x)) /\ AfterStatus(x).pc \in {"status", "sync", "idle"}
               /\ x.touched => AfterStatus(x).pc # "idle"
    BY <1>2, IdleLocals, GotoLocals DEF AfterStatus, OnOne
  <1>3. CASE ListInvoices(p)
    <2> DEFINE m == UNION {{<<s, n>> : n \in {k \in DOMAIN invoices[s] :
                              invoices[s][k].status = "open" /\ IsLate(s, k, r.at)}} : s \in Subs}
               x == [Idle EXCEPT !.pc = "mark", !.late = LateSubs(r.at), !.touched = r.touched, !.mark = m]
    <2>1. \A i \in m : IsInvoiceId(i)
      BY DEF IsInvoiceId
    <2>2. Locals(x) /\ x.pc = "mark"
      <3> HIDE DEF m
      <3>. QED  BY <2>1, IdleLocals DEF Locals, Fields, OnOne
    <2>3. Becomes(p, x)
      <3>1. Move(p, x) /\ UNCHANGED <<now, sub, invoices, lost, update>>
        BY <1>3 DEF ListInvoices
      <3> HIDE DEF x
      <3>. QED  BY <1>1, <2>2, <3>1 DEF Becomes
    <2>. QED  BY <2>3, QuietBecomes
  <1>4. ASSUME NEW i \in r.mark, Mark(p, i) PROVE IInv'
    <2> DEFINE x == [r EXCEPT !.mark = @ \ {i}]
    <2>1. r.pc = "mark"
      BY <1>4 DEF Mark, Ready
    <2>2. PICK s \in Subs : \E n \in DOMAIN invoices[s] : i = <<s, n>>
      BY <1>1, <2>1 DEF Locals, IsInvoiceId
    <2>3. Begins(p)
      <3>1. PICK n \in DOMAIN invoices[s] : i = <<s, n>>
        BY <2>2
      <3>2. PatchInvoice(p, s, n, [status |-> "overdue"])
        BY <1>4, <3>1 DEF Mark
      <3>. QED  BY <3>2, InvoiceBegins, PaidPatch
    <2>4. Locals(x) /\ x.pc = "mark"
      BY <1>1, <2>1 DEF Locals, Fields, OnOne
    <2>5. Becomes(p, x)
      BY <1>1, <1>4, <2>3, <2>4 DEF Mark, Becomes
    <2>. QED  BY <2>5, QuietBecomes
  <1>5. CASE ListSubs(p)
    <2> DEFINE wrong == {s \in Subs : sub[s].status = IF s \in r.late THEN "active" ELSE "past_due"}
               x == [r EXCEPT !.pc = "status", !.todo = wrong]
    <2>1. Locals(x) /\ x.pc = "status"
      BY <1>1 DEF Locals, Fields, OnOne
    <2>2. Move(p, AfterStatus(x)) /\ UNCHANGED <<now, sub, invoices, lost, update>>
      BY <1>5 DEF ListSubs
    <2>3. Locals(AfterStatus(x)) /\ AfterStatus(x).pc \in {"status", "sync", "idle"}
      BY <1>2, <2>1
    <2> HIDE DEF x
    <2>4. Becomes(p, AfterStatus(x))
      BY <1>1, <2>2, <2>3 DEF Becomes
    <2>. QED  BY <2>4, QuietBecomes
  <1>6. ASSUME NEW s \in Subs, SetStatus(p, s) PROVE IInv'
    <2> DEFINE x == [r EXCEPT !.todo = @ \ {s}, !.touched = TRUE]
    <2>1. Locals(x) /\ x.pc = "status" /\ x.touched
      BY <1>1, <1>6 DEF Locals, Fields, OnOne, SetStatus, Ready
    <2>2. Begins(p)
      BY <1>6, SubBegins, StatusPatch DEF SetStatus, Live
    <2>3. Move(p, AfterStatus(x)) /\ UNCHANGED <<now, sub, invoices, lost>>
      BY <1>6 DEF SetStatus
    <2> HIDE DEF x
    <2>4. Locals(AfterStatus(x)) /\ AfterStatus(x).pc \in {"status", "sync"}
      BY <1>2, <2>1
    <2>5. Becomes(p, AfterStatus(x))
      BY <1>1, <2>2, <2>3, <2>4 DEF Becomes
    <2>. QED  BY <2>5, QuietBecomes
  <1>. QED  BY <1>3, <1>4, <1>5, <1>6

(* A call that goes on with its locals, and one that ends.                 *)
LEMMA GoesOn ==
  ASSUME IInv, NEW p \in Processes, NEW from, Ready(p, from), from # "bill",
         NEW to, Goto(p, to), to \notin {"mark", "run", "bill", "idle"},
         to \in OnOne => proc[p].s \in Subs,
         UNCHANGED <<now, sub, invoices, lost>>, UNCHANGED update \/ Begins(p)
  PROVE  IInv'
  <1>1. Locals([proc[p] EXCEPT !.pc = to]) /\ [proc[p] EXCEPT !.pc = to].pc = to
    BY ReadyFacts, GotoLocals
  <1>2. Becomes(p, [proc[p] EXCEPT !.pc = to])
    BY <1>1, ReadyFacts DEF Becomes, Goto
  <1>. QED  BY <1>2, QuietBecomes

LEMMA Ends ==
  ASSUME IInv, NEW p \in Processes, NEW from, Ready(p, from), from # "bill",
         Move(p, Idle), UNCHANGED <<now, sub, invoices, lost, update>>
  PROVE  IInv'
  <1>1. Becomes(p, Idle)
    BY ReadyFacts, IdleLocals DEF Becomes
  <1>. QED  BY <1>1, QuietBecomes

LEMMA OnOneFacts ==
  ASSUME IInv, NEW p \in Processes, NEW pc \in OnOne, Ready(p, pc)
  PROVE  proc[p].s \in Subs /\ sub[proc[p].s] \in Sub
  BY Facts DEF Ready, Locals, IInv, Typed

(* The routes.                                                             *)
LEMMA RouteSteps ==
  ASSUME IInv, NEW p \in Processes,
         \/ PayList(p) \/ PayGet(p) \/ UnpayGet(p) \/ MarkChurn(p)
         \/ \E s \in Subs : Cancel(p, s)
  PROVE  IInv'
  <1> DEFINE r == proc[p]
  <1>1. CASE PayList(p)
    <2>1. Ready(p, "payList") /\ r.s \in Subs
      BY <1>1, OnOneFacts DEF PayList, OnOne
    <2>2. CASE Overdue(r.s) \subseteq {r.n}
      BY <1>1, <2>1, <2>2, GoesOn DEF PayList, Goto
    <2>3. CASE ~(Overdue(r.s) \subseteq {r.n})
      BY <1>1, <2>1, <2>3, Ends DEF PayList
    <2>. QED  BY <2>2, <2>3
  <1>2. CASE PayGet(p)
    <2>1. Ready(p, "payGet") /\ r.s \in Subs
      BY <1>2, OnOneFacts DEF PayGet, OnOne
    <2>2. CASE sub[r.s].status = "past_due"
      <3>1. Begins(p)
        BY <1>2, <2>1, <2>2, SubBegins, StatusPatch DEF PayGet, Live
      <3>. QED  BY <1>2, <2>1, <2>2, <3>1, GoesOn DEF PayGet, OnOne
    <2>3. CASE sub[r.s].status # "past_due"
      BY <1>2, <2>1, <2>3, Ends DEF PayGet
    <2>. QED  BY <2>2, <2>3
  <1>3. CASE UnpayGet(p)
    <2>1. Ready(p, "unpayGet") /\ r.s \in Subs
      BY <1>3, OnOneFacts DEF UnpayGet, OnOne
    <2>2. CASE sub[r.s].status = "active"
      <3>1. Begins(p)
        BY <1>3, <2>1, <2>2, SubBegins, StatusPatch DEF UnpayGet, Live
      <3>. QED  BY <1>3, <2>1, <2>2, <3>1, GoesOn DEF UnpayGet, OnOne
    <2>3. CASE sub[r.s].status # "active"
      BY <1>3, <2>1, <2>3, Ends DEF UnpayGet
    <2>. QED  BY <2>2, <2>3
  <1>4. CASE MarkChurn(p)
    <2>1. Begins(p)
      BY <1>4, CustomerBegins DEF MarkChurn
    <2>. QED  BY <1>4, <2>1, GoesOn DEF MarkChurn, OnOne
  <1>5. ASSUME NEW s \in Subs, Cancel(p, s) PROVE IInv'
    <2> DEFINE x == [r EXCEPT !.todo = @ \ {s}]
    <2>1. ~Ready(p, "bill") /\ Locals(r) /\ r.pc = "cancel"
      BY <1>5, ReadyFacts DEF Cancel
    <2>2. Locals(x) /\ x.pc = "cancel"
      BY <2>1 DEF Locals, Fields, OnOne
    <2>3. Begins(p)
      BY <1>5, SubBegins, StatusPatch DEF Cancel
    <2>4. Becomes(p, x)
      BY <1>5, <2>1, <2>2, <2>3 DEF Cancel, Becomes
    <2>. QED  BY <2>4, QuietBecomes
  <1>. QED  BY <1>1, <1>2, <1>3, <1>4, <1>5

(* The ingestion of a payment.                                             *)
LEMMA IngestSteps ==
  ASSUME IInv, NEW p \in Processes,
         IngestList(p) \/ SettleGet(p) \/ SettleList(p) \/ SaveMirror(p)
  PROVE  IInv'
  <1> DEFINE r == proc[p]
  <1>1. CASE IngestList(p)
    <2>1. Ready(p, "ingest") /\ r.s \in Subs
      BY <1>1, OnOneFacts DEF IngestList, OnOne
    <2>2. ~Ready(p, "bill") /\ update[p] = NoUpdate /\ Locals(r)
      BY <2>1, ReadyFacts
    <2>3. \A n : \A pc \in {"mirror", "settleGet"} :
            Locals([r EXCEPT !.pc = pc, !.n = n]) /\ [r EXCEPT !.pc = pc, !.n = n].pc = pc
      BY <2>1, <2>2 DEF Locals, Fields
    <2>4. CASE Settled(r.s, r.pay) # {} \/ Target(r.s, r.n) = {}
      <3>1. PICK n : Move(p, [r EXCEPT !.pc = "mirror", !.n = n])
                     /\ UNCHANGED <<now, sub, invoices, lost, update>>
        BY <1>1, <2>4 DEF IngestList
      <3>2. Becomes(p, [r EXCEPT !.pc = "mirror", !.n = n])
        BY <2>2, <2>3, <3>1 DEF Becomes
      <3>. QED  BY <3>2, QuietBecomes
    <2>5. CASE ~(Settled(r.s, r.pay) # {} \/ Target(r.s, r.n) = {})
      <3>1. PICK n \in Target(r.s, r.n) :
              /\ PatchInvoice(p, r.s, n, [status |-> "paid", mp |-> r.pay])
              /\ Move(p, [r EXCEPT !.pc = "settleGet", !.n = n])
              /\ UNCHANGED <<now, sub, invoices, lost>>
        BY <1>1, <2>5 DEF IngestList
      <3>2. n \in DOMAIN invoices[r.s]
        BY DEF Target
      <3>3. Begins(p)
        BY <2>1, <2>2, <3>1, <3>2, InvoiceBegins, PaidPatch DEF Locals
      <3>4. Becomes(p, [r EXCEPT !.pc = "settleGet", !.n = n])
        BY <2>2, <2>3, <3>1, <3>3 DEF Becomes
      <3>. QED  BY <3>4, QuietBecomes
    <2>. QED  BY <2>4, <2>5
  <1>2. CASE SettleGet(p)
    <2>1. Ready(p, "settleGet") /\ r.s \in Subs
      BY <1>2, OnOneFacts DEF SettleGet, OnOne
    <2>2. PICK pc \in {"settleList", "mirror"} : Goto(p, pc)
      BY <1>2 DEF SettleGet
    <2>. QED  BY <1>2, <2>1, <2>2, GoesOn DEF SettleGet, OnOne
  <1>3. CASE SettleList(p)
    <2>1. Ready(p, "settleList") /\ r.s \in Subs
      BY <1>3, OnOneFacts DEF SettleList, OnOne
    <2>2. CASE Overdue(r.s) = {}
      <3>1. Begins(p)
        BY <1>3, <2>1, <2>2, SubBegins, StatusPatch DEF SettleList, Live
      <3>. QED  BY <1>3, <2>1, <2>2, <3>1, GoesOn DEF SettleList, OnOne
    <2>3. CASE Overdue(r.s) # {}
      BY <1>3, <2>1, <2>3, GoesOn DEF SettleList, OnOne
    <2>. QED  BY <2>2, <2>3
  <1>4. CASE SaveMirror(p)
    BY <1>4, Ends DEF SaveMirror
  <1>. QED  BY <1>1, <1>2, <1>3, <1>4

(* The charge of a gateway and the change of an authorization.             *)
LEMMA GatewaySteps ==
  ASSUME IInv, NEW p \in Processes,
         ChargeList(p) \/ ChargeEnd(p) \/ Leaves(p) \/ LeavesList(p) \/ Returns(p)
  PROVE  IInv'
  <1> DEFINE r == proc[p]
  <1>1. CASE ChargeList(p)
    <2>1. Ready(p, "charge") /\ r.s \in Subs /\ Locals(r)
      BY <1>1, OnOneFacts, ReadyFacts DEF ChargeList, OnOne
    <2>2. CASE Settled(r.s, r.pay) # {}
      BY <1>1, <2>1, <2>2, Ends DEF ChargeList
    <2>3. CASE Settled(r.s, r.pay) = {} /\ Target(r.s, 0) = {}
      BY <1>1, <2>1, <2>3, GoesOn DEF ChargeList, OnOne
    <2>4. CASE Settled(r.s, r.pay) = {} /\ Target(r.s, 0) # {}
      <3>1. PICK n \in Target(r.s, 0) : PatchInvoice(p, r.s, n, [status |-> "paid", mp |-> r.pay])
        BY <1>1, <2>4 DEF ChargeList
      <3>2. n \in DOMAIN invoices[r.s]
        BY DEF Target
      <3>3. Begins(p)
        BY <2>1, <3>1, <3>2, InvoiceBegins, PaidPatch DEF Locals
      <3>. QED  BY <1>1, <2>1, <2>4, <3>3, GoesOn DEF ChargeList, OnOne
    <2>. QED  BY <2>2, <2>3, <2>4
  <1>2. CASE ChargeEnd(p)
    <2>1. Ready(p, "chargeEnd") /\ r.s \in Subs
      BY <1>2, OnOneFacts DEF ChargeEnd, OnOne
    <2>2. CASE r.docs[r.s].status = "past_due" /\ Overdue(r.s) = {}
      <3> DEFINE x == [Idle EXCEPT !.pc = "sync"]
      <3>1. Begins(p)
        BY <1>2, <2>1, <2>2, SubBegins, StatusPatch DEF ChargeEnd, Live
      <3>2. Locals(x) /\ x.pc = "sync"
        BY IdleLocals, GotoLocals DEF OnOne
      <3>3. Becomes(p, x)
        BY <1>2, <2>1, <2>2, <3>1, <3>2, ReadyFacts DEF ChargeEnd, Becomes
      <3>. QED  BY <3>3, QuietBecomes
    <2>3. CASE ~(r.docs[r.s].status = "past_due" /\ Overdue(r.s) = {})
      BY <1>2, <2>1, <2>3, Ends DEF ChargeEnd
    <2>. QED  BY <2>2, <2>3
  <1>3. CASE Leaves(p)
    <2>1. PICK pc \in {"sync", "leavesList"} : Goto(p, pc)
      BY <1>3 DEF Leaves
    <2>. QED  BY <1>3, <2>1, GoesOn DEF Leaves, OnOne
  <1>4. CASE LeavesList(p)
    <2>1. UNCHANGED update \/ Begins(p)
      BY <1>4, CustomerBegins DEF LeavesList
    <2>. QED  BY <1>4, <2>1, GoesOn DEF LeavesList, OnOne
  <1>5. CASE Returns(p)
    <2>1. UNCHANGED update \/ Begins(p)
      BY <1>5, CustomerBegins DEF Returns
    <2>. QED  BY <1>5, <2>1, GoesOn DEF Returns, OnOne
  <1>. QED  BY <1>1, <1>2, <1>3, <1>4, <1>5

-----------------------------------------------------------------------------
(* The steps that write, or belong to a renewal.                           *)
HandsOver(p) ==
    \A s \in Subs, t \in Nat :
        /\ Ready(p, "bill") /\ proc[p].s = s
        /\ proc[p].docs[s].start <= t /\ t < proc[p].docs[s].end
        => Billed(s, t)'

LEMMA Grows ==
  ASSUME IInv, NEW p \in Processes, OnlyMoves(p), Kept, HandsOver(p)
  PROVE  \A s \in Subs : \A e : BilledTo(s, e) => BilledTo(s, e)'
  <1>1. ASSUME NEW q \in Processes, NEW s \in Subs, NEW t \in Nat,
               Ready(q, "bill"), proc[q].s = s,
               proc[q].docs[s].start <= t, t < proc[q].docs[s].end
        PROVE  Billed(s, t)'
    <2>1. CASE q = p
      BY <1>1, <2>1 DEF HandsOver
    <2>2. CASE q # p
      BY <1>1, <2>2 DEF Billed, Ready, OnlyMoves
    <2>. QED  BY <2>1, <2>2
  <1>. QED  BY <1>1, StaysBilled

LEMMA Together ==
  ASSUME IInv, NEW p \in Processes, OnlyMoves(p), Kept, HandsOver(p),
         Typed', \A s \in Subs : BilledTo(s, sub[s].end)', ProcessOK(p)'
  PROVE  IInv'
  <1>1. \A q \in Processes : ProcessOK(q)'
    BY Grows, OthersKeep
  <1>. QED  BY <1>1 DEF IInv

(* Steps that leave subscriptions, invoices and lost renewals alone.       *)
LEMMA TogetherAlone ==
  ASSUME IInv, NEW p \in Processes, ~Ready(p, "bill"), OnlyMoves(p),
         NEW r, proc'[p] = r, NEW u, update'[p] = u,
         UNCHANGED <<now, sub, invoices, lost>>,
         Locals(r), UpdateOK(u, r), RunOK(u, r)
  PROVE  IInv'
  <1>1. OnlyMoves(p) /\ proc'[p] = r /\ update'[p] = u
    OBVIOUS
  <1>2. Kept /\ HandsOver(p)
    BY DEF Kept, HandsOver
  <1>3. \A s \in Subs : \A e : BilledTo(s, e) => BilledTo(s, e)'
    BY <1>1, <1>2, Grows
  <1>4. Typed'
    BY <1>1 DEF IInv, Typed, OnlyMoves
  <1>5. \A s \in Subs : BilledTo(s, sub[s].end)'
    BY <1>3 DEF IInv
  <1>6. Locals(proc[p])' /\ UpdateOK(update[p], proc[p])' /\ RunOK(update[p], proc[p])'
    <2>1. Locals(proc[p])'
      BY <1>1, <1>2, <1>3, OthersKeep
    <2>2. UpdateOK(update[p], proc[p])'
      BY <1>1, <1>2, <1>3, OthersKeep DEF UpdateOK, Renewing
    <2>3. RunOK(update[p], proc[p])'
      BY <1>1, <1>3 DEF RunOK
    <2>. QED  BY <2>1, <2>2, <2>3
  <1>. QED  BY <1>1, <1>2, <1>4, <1>5, <1>6, Together DEF ProcessOK

LEMMA RunFacts ==
  ASSUME IInv, NEW p \in Processes, proc[p].pc \in {"run", "bill"}
  PROVE  /\ proc[p].docs \in [Subs -> Sub]
         /\ \A s \in Subs : BilledTo(s, proc[p].docs[s].end)
         /\ update[p] # NoUpdate => /\ proc[p].s \in Subs /\ update[p].table = "subscriptions"
                                   /\ update[p].id = <<proc[p].s>>
  BY DEF IInv, ProcessOK, RunOK, Locals

LEMMA RunSteps ==
  ASSUME IInv, NEW p \in Processes,
         \/ StartRun(p)
         \/ \E s \in Subs : ApplyChange(p, s) \/ Renew(p, s)
  PROVE  IInv'
  <1> DEFINE r == proc[p]
  <1>1. CASE StartRun(p)
    <2> DEFINE x == [Idle EXCEPT !.pc = "run", !.at = now, !.docs = sub]
    <2>1. r.pc = "idle" /\ update[p] = NoUpdate /\ ~Ready(p, "bill")
      BY <1>1, Facts DEF StartRun, Called, Ready
    <2>2. OnlyMoves(p) /\ proc'[p] = x /\ update'[p] = NoUpdate
          /\ UNCHANGED <<now, sub, invoices, lost>>
      <3>1. Move(p, x) /\ UNCHANGED <<now, sub, invoices, lost, update>>
        BY <1>1 DEF StartRun
      <3> HIDE DEF x
      <3>. QED  BY <2>1, <3>1, Facts DEF Move, OnlyMoves
    <2>3. Locals(x) /\ x.pc = "run" /\ x.docs = sub
      BY IdleLocals, Facts DEF Locals, Fields, OnOne, IInv, Typed
    <2>4. RunOK(NoUpdate, x) /\ UpdateOK(NoUpdate, x)
      BY <2>3 DEF RunOK, UpdateOK, IInv
    <2>. QED  BY <2>1, <2>2, <2>3, <2>4, TogetherAlone
  <1>2. ASSUME NEW s \in Subs, ApplyChange(p, s) PROVE IInv'
    <2> DEFINE c == r.docs[s].pending
               d == [price |-> c.price, cycle |-> c.cycle, pending |-> NoChange]
               x == [r EXCEPT !.s = s, !.touched = TRUE]
               u == [phase |-> "get", table |-> "subscriptions", id |-> <<s>>, doc |-> d]
    <2>1. r.pc = "run" /\ Locals(r) /\ ~Ready(p, "bill")
      BY <1>2, ReadyFacts DEF ApplyChange, Turn
    <2>2. c \in [at : Nat, price : Nat, cycle : Nat \ {0}]
      <3>1. c \in ScheduledChange /\ c # NoChange
        BY <1>2, <2>1 DEF Locals, Sub, ApplyChange, ChangeIsDue
      <3>. QED  BY <3>1 DEF ScheduledChange
    <2>3. SubPatch(d) /\ Period \cap DOMAIN d = {}
      BY <2>2 DEF SubPatch, SubFields, Period, ScheduledChange
    <2>4. proc' = [proc EXCEPT ![p] = x] /\ update' = [update EXCEPT ![p] = u]
          /\ UNCHANGED <<now, sub, invoices, lost>>
      BY <1>2 DEF ApplyChange, Move, PatchSub, Patch
    <2>5. Locals(x) /\ x.pc = "run" /\ x.docs = r.docs /\ x.s = s
      BY <2>1 DEF Locals, Fields, OnOne
    <2>6. Begun(u) /\ u # NoUpdate /\ u.table = "subscriptions" /\ u.id = <<s>>
      BY <2>3 DEF Begun, NoUpdate
    <2> HIDE DEF x, u
    <2>7. RunOK(u, x) /\ UpdateOK(u, x)
      BY <2>1, <2>5, <2>6, RunFacts DEF RunOK, UpdateOK
    <2>8. OnlyMoves(p) /\ proc'[p] = x /\ update'[p] = u
      BY <2>4, Facts DEF OnlyMoves
    <2>. QED  BY <2>1, <2>4, <2>5, <2>7, <2>8, TogetherAlone
  <1>3. ASSUME NEW s \in Subs, Renew(p, s) PROVE IInv'
    <2> DEFINE d == NextPeriod(r.docs[s], r.at)
               x == [r EXCEPT !.pc = "bill", !.s = s, !.touched = TRUE]
               u == [phase |-> "get", table |-> "subscriptions", id |-> <<s>>, doc |-> d]
    <2>1. r.pc = "run" /\ Locals(r) /\ ~Ready(p, "bill")
      BY <1>3, ReadyFacts DEF Renew, Turn
    <2>2. r.docs[s].end \in Nat /\ r.docs[s].cycle \in Nat
      BY <2>1 DEF Locals, Sub
    <2>3. SubPatch(d) /\ Period \subseteq DOMAIN d /\ d.start = r.docs[s].end
      BY <2>2 DEF SubPatch, SubFields, Period, NextPeriod
    <2>4. proc' = [proc EXCEPT ![p] = x] /\ update' = [update EXCEPT ![p] = u]
          /\ UNCHANGED <<now, sub, invoices, lost>>
      BY <1>3 DEF Renew, Move, PatchSub, Patch
    <2>5. Locals(x) /\ x.pc = "bill" /\ x.docs = r.docs /\ x.s = s
      BY <2>1 DEF Locals, Fields, OnOne
    <2>6. Renewing(u, x) /\ u # NoUpdate /\ u.table = "subscriptions" /\ u.id = <<s>>
      <3>1. u.doc = d /\ u.id = <<s>> /\ u.phase = "get" /\ u.table = "subscriptions"
            /\ DOMAIN u = {"phase", "table", "id", "doc"}
        OBVIOUS
      <3>2. u # NoUpdate
        BY <3>1 DEF NoUpdate
      <3> HIDE DEF u, x, d
      <3>. QED  BY <2>3, <2>5, <3>1, <3>2 DEF Renewing
    <2> HIDE DEF x, u
    <2>7. RunOK(u, x) /\ UpdateOK(u, x)
      BY <2>1, <2>5, <2>6, RunFacts DEF RunOK, UpdateOK
    <2>8. OnlyMoves(p) /\ proc'[p] = x /\ update'[p] = u
      BY <2>4, Facts DEF OnlyMoves
    <2>. QED  BY <2>1, <2>4, <2>5, <2>7, <2>8, TogetherAlone
  <1>. QED  BY <1>1, <1>2, <1>3

(* What adds an invoice.                                                   *)
LEMMA Appends ==
  ASSUME IInv, NEW p \in Processes, NEW s \in Subs, NEW i \in InvoiceDoc,
         invoices' = [invoices EXCEPT ![s] = Append(@, i)], lost' = lost
  PROVE  /\ Kept
         /\ invoices' \in [Subs -> Seq(InvoiceDoc)]
         /\ \E n \in DOMAIN invoices'[s] : invoices'[s][n] = i
  <1>1. invoices \in [Subs -> Seq(InvoiceDoc)] /\ invoices[s] \in Seq(InvoiceDoc)
    BY DEF IInv, Typed
  <1>2. invoices'[s] = Append(invoices[s], i) /\ \A x \in Subs \ {s} : invoices'[x] = invoices[x]
    BY <1>1
  <1>3. Kept
    <2>1. ASSUME NEW x \in Subs, NEW n \in DOMAIN invoices[x]
          PROVE  n \in DOMAIN invoices'[x] /\ invoices'[x][n] = invoices[x][n]
      BY <1>1, <1>2
    <2>. QED  BY <2>1 DEF Kept
  <1>4. Len(invoices[s]) + 1 \in DOMAIN invoices'[s] /\ invoices'[s][Len(invoices[s]) + 1] = i
    BY <1>1, <1>2
  <1>. QED  BY <1>1, <1>2, <1>3, <1>4

(* The renewed period gets its invoice.                                    *)
LEMMA BillStep ==
  ASSUME IInv, NEW p \in Processes, Bill(p)
  PROVE  IInv'
  <1> DEFINE r == proc[p]
             x == [r EXCEPT !.pc = "run"]
             d == r.docs[r.s]
             i == Invoice("renewal", d.start, d.end)
  <1>1. Ready(p, "bill") /\ r.pc = "bill" /\ r.s \in Subs /\ Locals(r) /\ update[p] = NoUpdate
    BY Facts DEF Bill, Ready, Locals, OnOne
  <1>2. d \in Sub /\ d.start \in Nat /\ d.end \in Nat
    BY <1>1 DEF Locals, Sub
  <1>3. i \in InvoiceDoc /\ i.kind = "renewal" /\ i.due = d.start /\ i.to = d.end
    BY <1>2 DEF Invoice, InvoiceDoc
  <1>4. /\ invoices' = [invoices EXCEPT ![r.s] = Append(@, i)]
        /\ proc' = [proc EXCEPT ![p] = x] /\ UNCHANGED <<now, sub, lost, update>>
    BY DEF Bill, Goto, Move
  <1> HIDE DEF i
  <1>5. Kept /\ invoices' \in [Subs -> Seq(InvoiceDoc)]
        /\ \E n \in DOMAIN invoices'[r.s] : invoices'[r.s][n] = i
    BY <1>1, <1>3, <1>4, Appends
  <1>6. OnlyMoves(p) /\ proc'[p] = x /\ update'[p] = NoUpdate
    BY <1>1, <1>4, Facts DEF OnlyMoves
  <1>7. HandsOver(p)
    BY <1>3, <1>5 DEF HandsOver, Billed
  <1>8. \A s \in Subs : \A e : BilledTo(s, e) => BilledTo(s, e)'
    BY <1>5, <1>6, <1>7, Grows
  <1>9. Typed'
    BY <1>4, <1>5, <1>6 DEF IInv, Typed, OnlyMoves
  <1>10. \A s \in Subs : BilledTo(s, sub[s].end)'
    BY <1>4, <1>8 DEF IInv
  <1>11. ProcessOK(p)'
    <2>1. Locals(x) /\ x.pc = "run" /\ x.docs = r.docs
      BY <1>1 DEF Locals, Fields, OnOne
    <2>2. Locals(proc[p])'
      BY <2>1, <1>5, <1>6, <1>8, OthersKeep
    <2>3. RunOK(update[p], proc[p])'
      BY <1>1, <1>6, <1>8, <2>1, RunFacts DEF RunOK
    <2>. QED  BY <1>6, <2>2, <2>3 DEF ProcessOK, UpdateOK
  <1>. QED  BY <1>5, <1>6, <1>7, <1>9, <1>10, <1>11, Together

(* The invoices of an upgrade and of a charge with nothing unpaid.         *)
LEMMA CreateSteps ==
  ASSUME IInv, NEW p \in Processes, Prorata(p) \/ ChargeCreate(p)
  PROVE  IInv'
  <1> DEFINE r == proc[p]
  <1>1. PICK pc \in {"prorata", "chargeCreate"}, to \in {"sync", "chargeEnd"}, i \in InvoiceDoc :
          /\ Ready(p, pc)
          /\ invoices' = [invoices EXCEPT ![r.s] = Append(@, i)]
          /\ proc' = [proc EXCEPT ![p] = [r EXCEPT !.pc = to]] /\ UNCHANGED <<now, sub, lost, update>>
    <2>1. Locals(r) /\ now \in Nat
      BY Facts
    <2>2. CASE Prorata(p)
      <3>1. Invoice("prorata", r.at, r.at) \in InvoiceDoc
        BY <2>1 DEF Locals, Invoice, InvoiceDoc
      <3>. QED  BY <2>2, <3>1 DEF Prorata, Goto, Move
    <2>3. CASE ChargeCreate(p)
      <3>1. [Invoice("renewal", now, now) EXCEPT !.status = "paid", !.mp = r.pay] \in InvoiceDoc
        BY <2>1 DEF Locals, Invoice, InvoiceDoc
      <3>. QED  BY <2>3, <3>1 DEF ChargeCreate, Goto, Move
    <2>. QED  BY <2>2, <2>3
  <1>2. r.s \in Subs /\ ~Ready(p, "bill") /\ update[p] = NoUpdate /\ Locals(r)
    BY <1>1, OnOneFacts, ReadyFacts DEF OnOne
  <1>3. Kept /\ invoices' \in [Subs -> Seq(InvoiceDoc)]
    BY <1>1, <1>2, Appends
  <1>4. OnlyMoves(p) /\ proc'[p] = [r EXCEPT !.pc = to] /\ update'[p] = NoUpdate
    BY <1>1, <1>2, Facts DEF OnlyMoves
  <1>5. HandsOver(p)
    BY <1>2 DEF HandsOver
  <1>6. \A s \in Subs : \A e : BilledTo(s, e) => BilledTo(s, e)'
    BY <1>3, <1>4, <1>5, Grows
  <1>7. Typed'
    BY <1>1, <1>3, <1>4 DEF IInv, Typed, OnlyMoves
  <1>8. \A s \in Subs : BilledTo(s, sub[s].end)'
    BY <1>1, <1>6 DEF IInv
  <1>9. ProcessOK(p)'
    <2>1. Locals([r EXCEPT !.pc = to]) /\ [r EXCEPT !.pc = to].pc = to
      BY <1>2, GotoLocals
    <2>2. Locals(proc[p])'
      BY <2>1, <1>3, <1>4, <1>6, OthersKeep
    <2>. QED  BY <1>4, <2>1, <2>2 DEF ProcessOK, UpdateOK, RunOK
  <1>. QED  BY <1>3, <1>4, <1>5, <1>7, <1>8, <1>9, Together

-----------------------------------------------------------------------------
(* repo.update reads what is billed and writes no more than that.          *)
LEMMA GetStep ==
  ASSUME IInv, NEW p \in Processes, UpdateGet(p)
  PROVE  IInv'
  <1> DEFINE r == proc[p]
             u == update[p]
             m == Merge(Stored(u), u.doc)
             v == [u EXCEPT !.phase = "put", !.doc = m]
  <1>1. u.phase = "get" /\ u # NoUpdate /\ ~Ready(p, "bill")
    BY DEF UpdateGet, NoUpdate, Ready
  <1>2. Locals(r) /\ UpdateOK(u, r) /\ RunOK(u, r)
    BY DEF IInv, ProcessOK
  <1>3. DOMAIN u = {"phase", "table", "id", "doc"}
    BY <1>1, <1>2 DEF UpdateOK, Begun, Merged, Renewing
  <1>4. v.phase = "put" /\ v.doc = m /\ v.table = u.table /\ v.id = u.id /\ DOMAIN v = DOMAIN u
    BY <1>3
  <1>5. OnlyMoves(p) /\ proc'[p] = r /\ update'[p] = v /\ UNCHANGED <<now, sub, invoices, lost>>
    BY Facts DEF UpdateGet, OnlyMoves
  <1> HIDE DEF m, v
  <1>6. UpdateOK(v, r)
    <2>1. CASE r.pc = "bill" /\ Renewing(u, r)
      <3>1. r.s \in Subs /\ u.table = "subscriptions" /\ u.id = <<r.s>> /\ SubPatch(u.doc)
            /\ Period \subseteq DOMAIN u.doc /\ u.doc.start = r.docs[r.s].end
        BY <1>1, <1>2, <2>1 DEF Renewing, Locals, OnOne
      <3>2. Stored(u) = sub[r.s] /\ sub[r.s] \in Sub
        BY <3>1 DEF Stored, IInv, Typed
      <3>3. m \in Sub /\ m.start = u.doc.start
        BY <3>1, <3>2, MergeSub DEF m
      <3>. QED  BY <1>3, <1>4, <2>1, <3>1, <3>3 DEF UpdateOK, Renewing
    <2>2. CASE r.pc \notin {"idle", "bill"} /\ Begun(u)
      <3>1. CASE u.table = "subscriptions"
        <4>1. PICK s \in Subs : u.id = <<s>>
          BY <2>2, <3>1 DEF Begun
        <4>2. Stored(u) = sub[s] /\ sub[s] \in Sub /\ BilledTo(s, sub[s].end)
          BY <3>1, <4>1 DEF Stored, IInv, Typed
        <4>3. m \in Sub /\ m.end = sub[s].end
          BY <2>2, <3>1, <4>2, MergeSub DEF m, Begun
        <4>. QED  BY <1>3, <1>4, <2>2, <3>1, <4>1, <4>2, <4>3 DEF UpdateOK, Merged
      <3>2. CASE u.table = "invoices"
        <4>1. PICK s \in Subs : \E n \in DOMAIN invoices[s] : u.id = <<s, n>>
          BY <2>2, <3>2 DEF Begun, IsInvoiceId
        <4>2. PICK n \in DOMAIN invoices[s] : u.id = <<s, n>>
          BY <4>1
        <4>3. Stored(u) = invoices[s][n] /\ invoices[s][n] \in InvoiceDoc
          BY <3>2, <4>2 DEF Stored, IInv, Typed
        <4>4. m \in InvoiceDoc /\ m.kind = invoices[s][n].kind
              /\ m.due = invoices[s][n].due /\ m.to = invoices[s][n].to
          BY <2>2, <3>2, <4>3, MergeInvoice DEF m, Begun
        <4>. QED  BY <1>3, <1>4, <2>2, <3>2, <4>2, <4>4 DEF UpdateOK, Merged
      <3>3. CASE u.table \notin {"subscriptions", "invoices"}
        BY <1>3, <1>4, <2>2, <3>3 DEF UpdateOK, Merged, Begun
      <3>. QED  BY <3>1, <3>2, <3>3
    <2>. QED  BY <1>1, <1>2, <2>1, <2>2 DEF UpdateOK, Merged
  <1>7. RunOK(v, r)
    BY <1>1, <1>2, <1>4 DEF RunOK
  <1>. QED  BY <1>1, <1>2, <1>5, <1>6, <1>7, TogetherAlone

(* The write: of the period of a renewal, or of what was billed when read. *)
LEMMA PutStep ==
  ASSUME IInv, NEW p \in Processes, UpdatePut(p)
  PROVE  IInv'
  <1> DEFINE r == proc[p]
             u == update[p]
             x == IF r.pc = "return" THEN Idle
                  ELSE IF r.pc \in {"run", "bill"} THEN [r EXCEPT !.docs[r.s] = u.doc] ELSE r
  <1>1. u.phase = "put" /\ u # NoUpdate /\ ~Ready(p, "bill")
    BY DEF UpdatePut, NoUpdate, Ready
  <1>2. Locals(r) /\ UpdateOK(u, r) /\ RunOK(u, r) /\ r.pc # "idle" /\ Typed
    BY <1>1 DEF IInv, ProcessOK, UpdateOK
  <1>3. /\ sub' = IF u.table = "subscriptions" THEN [sub EXCEPT ![u.id[1]] = u.doc] ELSE sub
        /\ invoices' = IF u.table = "invoices"
                       THEN [invoices EXCEPT ![u.id[1]][u.id[2]] = u.doc] ELSE invoices
        /\ proc' = [proc EXCEPT ![p] = x] /\ update' = [update EXCEPT ![p] = NoUpdate]
        /\ UNCHANGED <<now, lost>>
    BY DEF UpdatePut
  <1>4. \/ u.table = "subscriptions" /\ \E s \in Subs : u.id = <<s>> /\ u.doc \in Sub
        \/ u.table = "invoices" /\ r.pc \notin {"run", "bill"} /\ Merged(u)
        \/ u.table \notin {"subscriptions", "invoices"} /\ r.pc \notin {"run", "bill"}
    BY <1>1, <1>2 DEF UpdateOK, Begun, Merged, Renewing, RunOK, Locals, OnOne
  <1>5. OnlyMoves(p) /\ proc'[p] = x /\ update'[p] = NoUpdate
    <2> HIDE DEF x
    <2>. QED  BY <1>3, Facts DEF OnlyMoves
  <1>6. /\ Locals(x)
        /\ r.pc \in {"run", "bill"} => /\ x.pc = r.pc /\ x.s = r.s /\ r.s \in Subs
                                       /\ u.table = "subscriptions" /\ u.id = <<r.s>>
                                       /\ x.docs = [r.docs EXCEPT ![r.s] = u.doc]
        /\ x.pc \in {"run", "bill"} => r.pc \in {"run", "bill"}
    <2>1. CASE r.pc \in {"run", "bill"}
      <3>1. r.s \in Subs /\ u.table = "subscriptions" /\ u.id = <<r.s>>
        BY <1>1, <1>2, <2>1 DEF RunOK
      <3>2. u.doc \in Sub
        BY <1>4, <3>1
      <3>3. x = [r EXCEPT !.docs[r.s] = u.doc]
        BY <2>1
      <3>4. x.pc = r.pc /\ x.s = r.s /\ x.docs = [r.docs EXCEPT ![r.s] = u.doc]
            /\ x.at = r.at /\ x.pay = r.pay /\ DOMAIN x = Fields
        BY <1>2, <3>3 DEF Locals, Fields
      <3>. QED  BY <1>2, <2>1, <3>1, <3>2, <3>4 DEF Locals, OnOne
    <2>2. CASE r.pc \notin {"run", "bill"}
      BY <1>2, <2>2, IdleLocals
    <2>. QED  BY <2>1, <2>2
  <1> HIDE DEF x
  <1>7. /\ Kept /\ invoices' \in [Subs -> Seq(InvoiceDoc)] /\ sub' \in [Subs -> Sub]
    <2>1. CASE u.table = "subscriptions"
      BY <1>2, <1>3, <1>4, <2>1 DEF Kept, Typed
    <2>2. CASE u.table = "invoices"
      <3>1. PICK s \in Subs : \E n \in DOMAIN invoices[s] :
              /\ u.id = <<s, n>> /\ u.doc \in InvoiceDoc
              /\ u.doc.kind = invoices[s][n].kind
              /\ u.doc.due = invoices[s][n].due /\ u.doc.to = invoices[s][n].to
        BY <1>4, <2>2 DEF Merged
      <3>2. PICK n \in DOMAIN invoices[s] :
              /\ u.id = <<s, n>> /\ u.doc \in InvoiceDoc
              /\ u.doc.kind = invoices[s][n].kind
              /\ u.doc.due = invoices[s][n].due /\ u.doc.to = invoices[s][n].to
        BY <3>1
      <3>3. invoices' = [invoices EXCEPT ![s][n] = u.doc] /\ sub' = sub
        BY <1>3, <2>2, <3>2
      <3>4. invoices[s] \in Seq(InvoiceDoc)
        BY <1>2 DEF Typed
      <3>5. [invoices[s] EXCEPT ![n] = u.doc] \in Seq(InvoiceDoc)
        BY <3>2, <3>4
      <3>6. invoices' = [invoices EXCEPT ![s] = [invoices[s] EXCEPT ![n] = u.doc]]
        BY <3>3
      <3>. QED  BY <1>2, <1>3, <3>2, <3>3, <3>4, <3>5, <3>6 DEF Kept, Typed
    <2>3. CASE u.table \notin {"subscriptions", "invoices"}
      BY <1>2, <1>3, <2>3 DEF Kept, Typed
    <2>. QED  BY <2>1, <2>2, <2>3
  <1>8. HandsOver(p)
    BY <1>1 DEF HandsOver
  <1>9. \A s \in Subs : \A e : BilledTo(s, e) => BilledTo(s, e)'
    BY <1>5, <1>7, <1>8, Grows
  <1>10. ASSUME u.table = "subscriptions", NEW s \in Subs, u.id = <<s>>, NEW e, e = u.doc.end
         PROVE  BilledTo(s, e)'
    <2>1. CASE r.pc = "bill"
      <3>1. PICK b : b = u.doc.start
        OBVIOUS
      <3>2. Renewing(u, r) /\ u.doc \in Sub /\ r.s = s /\ r.docs[s].end = b
        BY <1>1, <1>2, <1>6, <1>10, <2>1, <3>1 DEF UpdateOK, Renewing
      <3>3. BilledTo(s, b)'
        BY <1>2, <1>9, <2>1, <3>2 DEF RunOK
      <3>4. /\ Ready(p, "bill")' /\ proc'[p].s = s
            /\ proc'[p].docs[s].start = b /\ proc'[p].docs[s].end = e
        BY <1>2, <1>5, <1>6, <1>10, <2>1, <3>1, <3>2 DEF Ready, NoUpdate, Locals
      <3>5. b \in Nat /\ e \in Nat
        BY <1>10, <3>1, <3>2 DEF Sub
      <3>6. ASSUME NEW t \in Nat, t < e PROVE Billed(s, t)'
        <4>1. CASE t < b
          BY <3>3, <4>1 DEF BilledTo
        <4>2. CASE b <= t
          BY <3>4, <3>6, <4>2 DEF Billed
        <4>. QED  BY <3>5, <4>1, <4>2
      <3>. QED  BY <3>6 DEF BilledTo
    <2>2. CASE r.pc # "bill"
      <3>1. BilledTo(s, e)
        BY <1>1, <1>2, <1>10, <2>2 DEF UpdateOK, Begun, Merged
      <3>. QED  BY <1>9, <3>1
    <2>. QED  BY <2>1, <2>2
  <1>11. Typed'
    BY <1>2, <1>3, <1>5, <1>7 DEF Typed, OnlyMoves
  <1>12. ASSUME NEW s \in Subs, NEW e, e = sub'[s].end PROVE BilledTo(s, e)'
    <2>1. CASE u.table = "subscriptions" /\ u.id = <<s>>
      BY <1>2, <1>3, <1>10, <1>12, <2>1 DEF Typed
    <2>2. CASE ~(u.table = "subscriptions" /\ u.id = <<s>>)
      <3>1. sub'[s] = sub[s]
        BY <1>2, <1>3, <1>4, <2>2 DEF Typed
      <3>. QED  BY <1>9, <1>12, <3>1 DEF IInv
    <2>. QED  BY <2>1, <2>2
  <1>13. \A s \in Subs : BilledTo(s, sub[s].end)'
    BY <1>12
  <1>14. ASSUME x.pc \in {"run", "bill"}, NEW s \in Subs, NEW e, e = x.docs[s].end
         PROVE  BilledTo(s, e)'
    <2>1. r.pc \in {"run", "bill"} /\ r.s \in Subs /\ u.table = "subscriptions" /\ u.id = <<r.s>>
          /\ x.docs = [r.docs EXCEPT ![r.s] = u.doc] /\ r.docs \in [Subs -> Sub]
      BY <1>2, <1>6, <1>14 DEF Locals
    <2>2. CASE s = r.s
      BY <1>10, <1>14, <2>1, <2>2
    <2>3. CASE s # r.s
      <3>1. x.docs[s] = r.docs[s]
        BY <2>1, <2>3
      <3>. QED  BY <1>2, <1>9, <1>14, <2>1, <3>1 DEF RunOK
    <2>. QED  BY <2>2, <2>3
  <1>15. ProcessOK(p)'
    <2>1. Locals(proc[p])'
      BY <1>5, <1>6, <1>7, <1>9, OthersKeep
    <2>2. RunOK(update[p], proc[p])'
      BY <1>5, <1>14 DEF RunOK
    <2>. QED  BY <1>5, <2>1, <2>2 DEF ProcessOK, UpdateOK
  <1>. QED  BY <1>5, <1>7, <1>8, <1>11, <1>13, <1>15, Together

-----------------------------------------------------------------------------
(* A call that stops half way is remembered if its period was still to be  *)
(* billed.                                                                 *)
LEMMA FailStep ==
  ASSUME IInv, NEW p \in Processes, Fails(p)
  PROVE  IInv'
  <1> DEFINE r == proc[p]
             gap == [from |-> r.docs[r.s].start, to |-> r.docs[r.s].end]
  <1>1. OnlyMoves(p) /\ proc'[p] = Idle /\ update'[p] = NoUpdate /\ UNCHANGED <<now, sub, invoices>>
    BY Facts DEF Fails, Move, OnlyMoves
  <1>2. /\ lost' = IF Ready(p, "bill") THEN [lost EXCEPT ![r.s] = @ \cup {gap}] ELSE lost
        /\ DOMAIN lost = Subs /\ Locals(r)
    BY Facts DEF Fails, IInv, Typed
  <1>3. Kept /\ DOMAIN lost' = Subs
    BY <1>1, <1>2 DEF Kept
  <1>4. HandsOver(p)
    <2> SUFFICES ASSUME NEW s \in Subs, NEW t \in Nat, Ready(p, "bill"), r.s = s,
                        r.docs[s].start <= t, t < r.docs[s].end
                 PROVE  Billed(s, t)'
      BY DEF HandsOver
    <2>1. gap \in lost'[s] /\ gap.from <= t /\ t < gap.to
      BY <1>2
    <2>. QED  BY <2>1 DEF Billed
  <1>5. \A s \in Subs : BilledTo(s, sub[s].end)'
    <2>1. \A s \in Subs : \A e : BilledTo(s, e) => BilledTo(s, e)'
      BY <1>1, <1>3, <1>4, Grows
    <2>. QED  BY <1>1, <2>1 DEF IInv
  <1>6. Typed'
    BY <1>1, <1>3 DEF IInv, Typed, OnlyMoves
  <1>7. ProcessOK(p)'
    <2>1. Locals(proc[p])'
      BY <1>1, <1>3, <1>4, IdleLocals, Grows, OthersKeep
    <2>. QED  BY <1>1, <2>1, IdleLocals DEF ProcessOK, UpdateOK, RunOK
  <1>. QED  BY <1>1, <1>3, <1>4, <1>5, <1>6, <1>7, Together

LEMMA TimeStep ==
  ASSUME IInv, UNCHANGED <<sub, invoices, proc, update, lost>>, now' \in Nat
  PROVE  IInv'
  <1>1. \A s \in Subs : \A e : BilledTo(s, e) => BilledTo(s, e)'
    BY DEF BilledTo, Billed, Ready
  <1>2. Typed'
    BY DEF IInv, Typed
  <1>3. \A s \in Subs : BilledTo(s, sub[s].end)'
    BY <1>1 DEF IInv
  <1>4. ASSUME NEW p \in Processes PROVE ProcessOK(p)'
    <2>1. OnlyMoves(p) /\ Kept
      BY DEF IInv, Typed, OnlyMoves, Kept
    <2>2. /\ Locals(proc[p]) => Locals(proc[p])'
          /\ Begun(update[p]) => Begun(update[p])'
          /\ Merged(update[p]) => Merged(update[p])'
      BY <1>1, <2>1, OthersKeep
    <2>3. Locals(proc[p]) /\ UpdateOK(update[p], proc[p]) /\ RunOK(update[p], proc[p])
      BY DEF IInv, ProcessOK
    <2>4. UpdateOK(update[p], proc[p])'
      BY <2>2, <2>3 DEF UpdateOK, Renewing
    <2>5. RunOK(update[p], proc[p])'
      BY <1>1, <2>3 DEF RunOK
    <2>. QED  BY <2>2, <2>3, <2>4, <2>5 DEF ProcessOK
  <1>. QED  BY <1>2, <1>3, <1>4 DEF IInv

LEMMA NextInv == IInv /\ [Next]_vars => IInv'
  <1> SUFFICES ASSUME IInv, [Next]_vars PROVE IInv'
    OBVIOUS
  <1>1. ASSUME NEW p \in Processes, StartRun(p) PROVE IInv'
    BY <1>1, RunSteps
  <1>2. ASSUME NEW p \in Processes, Step(p) PROVE IInv'
    BY <1>2, GetStep, PutStep, SyncSteps, RunSteps, LateSteps, RouteSteps, BillStep, CreateSteps,
       IngestSteps, GatewaySteps DEF Step
  <1>3. ASSUME NEW p \in Processes, Fails(p) PROVE IInv'
    BY <1>3, FailStep
  <1>4. ASSUME NEW q \in Desk, Call(q) PROVE IInv'
    BY <1>4, CallStep
  <1>5. CASE Wait
    BY <1>5, TimeStep DEF Wait, IInv, Typed
  <1>6. CASE UNCHANGED vars
    BY <1>6, TimeStep DEF vars, IInv, Typed
  <1>. QED  BY <1>1, <1>2, <1>3, <1>4, <1>5, <1>6 DEF Next

(* The inductive invariant: subscriptions, the documents of runs and what  *)
(* is about to be written never promise more than was billed.              *)
THEOREM Invariance == Spec => []IInv
  <1>. QED  BY InitInv, NextInv, PTL DEF Spec

(* Every day before the end of a subscription's period is in an invoice,   *)
(* or its run is about to create it, or stopped before it could: whatever  *)
(* runs, routes and payments do meanwhile.                                 *)
THEOREM PeriodsBilledHolds == Spec => []PeriodsBilled
  <1>1. IInv => PeriodsBilled
    <2> SUFFICES ASSUME IInv, NEW s \in Subs, NEW t \in 0..(sub[s].end - 1) PROVE Billed(s, t)
      BY DEF PeriodsBilled
    <2>1. sub[s].end \in Nat /\ BilledTo(s, sub[s].end)
      BY DEF IInv, Typed, Sub
    <2>. QED  BY <2>1 DEF BilledTo
  <1>. QED  BY <1>1, Invariance, PTL
-----------------------------------------------------------------------------
(* The arr of the customer is a number: the sum over its subscriptions.    *)
LEMMA NatMin == ASSUME NEW T \in SUBSET Nat, T # {} PROVE \E x \in T : \A y \in T : x <= y
  <1> DEFINE R == OpToRel(<, Nat)
  <1>1. IsWellFoundedOn(R, Nat)
    BY NatLessThanWellFounded
  <1>2. \A a, b \in Nat : a < b => <<a, b>> \in R
    BY DEF OpToRel
  <1> HIDE DEF R
  <1>3. PICK x \in T : \A y \in T : ~ (<<y, x>> \in R)
    BY <1>1, WFMin
  <1>4. \A y \in T : ~ (y < x)
    BY <1>2, <1>3
  <1>. QED  BY <1>4

First(s) == CHOOSE x \in s : TRUE
AddUp(f, s) == IF s = {} THEN 0 ELSE Annualized(sub[First(s)]) + f[s \ {First(s)}]
Adds(f, T) == f = [s \in T |-> AddUp(f, s)]
Total(S) == MapThenSumSet(LAMBDA s : Annualized(sub[s]), S)

LEMMA TotalDef == ASSUME NEW S PROVE Total(S) = (CHOOSE f : Adds(f, SUBSET S))[S]
  BY DEF Total, MapThenSumSet, MapThenFoldSet, Adds, AddUp, First

LEMMA AnnualizedIsNat == ASSUME NEW d \in Sub PROVE Annualized(d) \in Nat
  <1>1. d.price \in Nat /\ d.cycle \in Nat \ {0}
    BY DEF Sub
  <1>2. 12 \div d.cycle \in Nat
    BY <1>1
  <1>. QED  BY <1>1, <1>2 DEF Annualized

(* The sums exist for sets of any size: a least size without them has the  *)
(* sums of the size below.                                                 *)
LEMMA SumsAre ==
  ASSUME NEW S \in SUBSET Subs
  PROVE  \E f : Adds(f, SUBSET S)
  <1> DEFINE Upto(n) == {s \in SUBSET S : Cardinality(s) <= n}
             Bad == {n \in Nat : \A f : ~Adds(f, Upto(n))}
  <1>a. IsFiniteSet(S)
    BY BillingAssumption, FS_Subset
  <1>0. \A s \in SUBSET S : /\ Cardinality(s) \in Nat /\ Cardinality(s) <= Cardinality(S)
                            /\ s # {} => First(s) \in s /\ Cardinality(s \ {First(s)}) = Cardinality(s) - 1
    <2> TAKE s \in SUBSET S
    <2>1. IsFiniteSet(s)
      BY <1>a, FS_Subset
    <2>2. s # {} => First(s) \in s
      BY DEF First
    <2>. QED  BY <1>a, <2>1, <2>2, FS_Subset, FS_CardinalityType, FS_RemoveElement
  <1>1. Bad = {}
    <2> SUFFICES ASSUME Bad # {} PROVE FALSE
      OBVIOUS
    <2>1. PICK m \in Bad : \A k \in Bad : m <= k
      <3> Bad \in SUBSET Nat
        OBVIOUS
      <3> HIDE DEF Bad
      <3>. QED  BY NatMin
    <2>2. m # 0
      <3>1. \A s \in Upto(0) : s = {}
        <4> SUFFICES ASSUME NEW s \in SUBSET S, Cardinality(s) <= 0 PROVE s = {}
          OBVIOUS
        <4>1. IsFiniteSet(s)
          BY <1>a, FS_Subset
        <4>2. Cardinality(s) \in Nat
          BY <1>0
        <4>3. Cardinality(s) = 0
          BY <4>2
        <4>. QED  BY <4>1, <4>3, FS_EmptySet
      <3>2. \A f, s : s = {} => AddUp(f, s) = 0
        BY DEF AddUp
      <3> HIDE DEF Upto
      <3>3. Adds([s \in Upto(0) |-> 0], Upto(0))
        BY <3>1, <3>2 DEF Adds
      <3>. QED  BY <3>3
    <2>3. m \in Nat /\ m - 1 \in Nat /\ m - 1 \notin Bad
      <3>1. m \in Nat
        BY <2>1
      <3> HIDE DEF Bad
      <3>. QED  BY <3>1, <2>1, <2>2
    <2>4. PICK f : Adds(f, Upto(m - 1))
      BY <2>3
    <2>5. PICK g : g = [s \in Upto(m) |-> AddUp(f, s)]
      OBVIOUS
    <2>6. Upto(m - 1) \subseteq Upto(m)
      <3>1. \A s \in Upto(m - 1) : s \in SUBSET S /\ Cardinality(s) \in Nat /\ Cardinality(s) <= m - 1
        BY <1>0
      <3>2. \A s \in Upto(m - 1) : Cardinality(s) <= m
        BY <2>3, <3>1
      <3>. QED  BY <3>1, <3>2
    <2>7. \A s \in Upto(m) : s # {} => s \ {First(s)} \in Upto(m - 1)
      <3> TAKE s \in Upto(m)
      <3>1. s # {} => Cardinality(s) \in Nat /\ Cardinality(s) <= m
                      /\ Cardinality(s \ {First(s)}) = Cardinality(s) - 1
        BY <1>0
      <3>2. s # {} => Cardinality(s \ {First(s)}) <= m - 1
        BY <2>3, <3>1
      <3>. QED  BY <3>1, <3>2
    <2> HIDE DEF Upto
    <2>8. \A s \in Upto(m - 1) : g[s] = f[s]
      BY <2>4, <2>5, <2>6 DEF Adds
    <2>9. \A s \in Upto(m) : AddUp(f, s) = AddUp(g, s)
      BY <2>7, <2>8 DEF AddUp
    <2>10. Adds(g, Upto(m))
      BY <2>5, <2>9 DEF Adds
    <2>. QED  BY <2>1, <2>10
  <1>2. Cardinality(S) \notin Bad /\ Upto(Cardinality(S)) = SUBSET S
    BY <1>0, <1>1
  <1>. QED  BY <1>0, <1>2

LEMMA ArrIsNat == ASSUME sub \in [Subs -> Sub] PROVE ContractedArr \in Nat
  <1> DEFINE S == {s \in Subs : sub[s].status \in Live}
  <1>1. PICK f : f = (CHOOSE g : Adds(g, SUBSET S))
    OBVIOUS
  <1>2. Adds(f, SUBSET S)
    BY <1>1, SumsAre
  <1>3. ASSUME NEW s \in SUBSET S
        PROVE  /\ s \subseteq Subs /\ f[s] = AddUp(f, s) /\ Cardinality(s) \in Nat
               /\ s # {} => First(s) \in s /\ Cardinality(s \ {First(s)}) = Cardinality(s) - 1
    <2>1. IsFiniteSet(s)
      BY BillingAssumption, FS_Subset
    <2>2. s # {} => First(s) \in s
      BY DEF First
    <2>3. f[s] = AddUp(f, s)
      BY <1>2 DEF Adds
    <2>. QED  BY <2>1, <2>2, <2>3, FS_CardinalityType, FS_RemoveElement
  <1> DEFINE Bad == {n \in Nat : \E s \in SUBSET S : Cardinality(s) = n /\ f[s] \notin Nat}
  <1> HIDE DEF S
  <1>4. Bad = {}
    <2> SUFFICES ASSUME Bad # {} PROVE FALSE
      OBVIOUS
    <2>1. PICK m \in Bad : \A k \in Bad : m <= k
      <3> Bad \in SUBSET Nat
        OBVIOUS
      <3> HIDE DEF Bad
      <3>. QED  BY NatMin
    <2>2. PICK s \in SUBSET S : Cardinality(s) = m /\ f[s] \notin Nat
      BY <2>1
    <2>a. f[s] = AddUp(f, s)
      BY <1>3
    <2>3. s # {}
      <3>1. s = {} => AddUp(f, s) = 0
        BY DEF AddUp
      <3>. QED  BY <2>a, <2>2, <3>1
    <2>4. Cardinality(s \ {First(s)}) = m - 1 /\ First(s) \in Subs /\ s \ {First(s)} \in SUBSET S
      BY <1>3, <2>2, <2>3
    <2>5. m \in Nat /\ m - 1 \in Nat
      BY <1>3, <2>1, <2>4
    <2>6. m - 1 \notin Bad
      <3> HIDE DEF Bad
      <3>. QED  BY <2>1, <2>5
    <2>7. f[s \ {First(s)}] \in Nat
      BY <2>4, <2>5, <2>6
    <2>8. Annualized(sub[First(s)]) \in Nat
      BY <2>4, AnnualizedIsNat
    <2>9. AddUp(f, s) = Annualized(sub[First(s)]) + f[s \ {First(s)}]
      BY <2>3 DEF AddUp
    <2>. QED  BY <2>a, <2>2, <2>7, <2>8, <2>9
  <1>5. f[S] \in Nat
    BY <1>3, <1>4
  <1>6. ContractedArr = Total(S)
    BY DEF ContractedArr, Total, S
  <1>. QED  BY <1>1, <1>5, <1>6, TotalDef
-----------------------------------------------------------------------------
(* The types.  A payment in hand is of the subscription it is matched to,  *)
(* and the invoice that goes with it is one of that subscription's.        *)
Mirroring == {"ingest", "settleGet", "settleList", "mirror"}
Charging == {"charge", "chargeCreate", "chargeEnd"}
Paying == Mirroring \cup Charging
Syncing == {"sync", "syncList"}

CustomerDoc == [arr : Nat, left : {"no", "manual", "mp"}]
CustomerPatch(d) ==
    /\ DOMAIN d \subseteq {"arr", "left"}
    /\ "arr" \in DOMAIN d => d.arr \in Nat
    /\ "left" \in DOMAIN d => d.left \in {"no", "manual", "mp"}

LinkOK(r) ==
    /\ r.pc \in Paying => r.pay # NoPayment
    /\ r.pay # NoPayment =>
         /\ r.pc \in Paying \cup Syncing /\ r.s = PaidSub[r.pay]
         /\ r.pc \notin Charging => r.n \in 0..Len(invoices[r.s])

(* What is in hand: a patch of the customer, or an invoice to be settled.  *)
HandOK(u, r) ==
    /\ u.phase = "get" /\ u.table = "customers" => CustomerPatch(u.doc)
    /\ u.phase = "put" /\ u.table = "customers" => u.doc \in CustomerDoc
    /\ u.phase = "get" /\ u.table = "invoices" /\ "mp" \in DOMAIN u.doc =>
         r.pay # NoPayment /\ u.doc.mp = r.pay /\ u.id[1] = r.s
    /\ r.pc \in {"charge", "chargeCreate"} => u = NoUpdate

LinksOK(p) == LinkOK(proc[p]) /\ HandOK(update[p], proc[p])

Typing ==
    /\ now <= MaxNow
    /\ customer \in CustomerDoc
    /\ DOMAIN mirror = Payments
    /\ \A m \in Payments : mirror[m] \in 0..Len(invoices[PaidSub[m]])
    /\ \A p \in Processes : LinksOK(p)

LEMMA IdleFree == DOMAIN Idle = Fields /\ Idle.pc = "idle" /\ Idle.pay = NoPayment
  BY DEF Idle, Fields

LEMMA AtFree ==
  ASSUME NEW pc, NEW s, NEW n
  PROVE  /\ At(pc, s, n).pc = pc /\ At(pc, s, n).pay = NoPayment
         /\ At(pc, s, n).s = s /\ At(pc, s, n).n = n /\ DOMAIN At(pc, s, n) = Fields
  BY IdleFree DEF At, Fields

(* An update just begun that gives no invoice a payment.                   *)
Harmless(u) ==
    /\ u.phase = "get"
    /\ u.table = "customers" => CustomerPatch(u.doc)
    /\ u.table = "invoices" => "mp" \notin DOMAIN u.doc

Hand(p, r) ==
    \/ UNCHANGED update /\ update[p] = NoUpdate
    \/ \E u : /\ update' = [update EXCEPT ![p] = u] /\ Harmless(u)
              /\ u.table = "invoices" => r.pay = NoPayment
              /\ r.pc # "charge"

(* A step of p that leaves the invoices alone, and settles none.           *)
Calm(p) ==
    /\ OnlyMoves(p) /\ invoices' = invoices
    /\ LinkOK(proc'[p]) /\ proc'[p].pc # "chargeCreate"
    /\ \/ update'[p] = NoUpdate
       \/ /\ Harmless(update'[p]) /\ proc'[p].pc # "charge"
          /\ update'[p].table = "invoices" => proc'[p].pay = NoPayment

LEMMA CalmMove ==
  ASSUME IInv, NEW p \in Processes, NEW r, Move(p, r), Hand(p, r), invoices' = invoices,
         LinkOK(r), r.pc # "chargeCreate"
  PROVE  Calm(p)
  <1>1. OnlyMoves(p) /\ proc'[p] = r
    BY Facts DEF Move, OnlyMoves, Hand
  <1>2. \/ update'[p] = NoUpdate
        \/ /\ Harmless(update'[p]) /\ r.pc # "charge"
           /\ update'[p].table = "invoices" => r.pay = NoPayment
    <2>1. CASE UNCHANGED update /\ update[p] = NoUpdate
      BY <2>1
    <2>2. ASSUME NEW u, update' = [update EXCEPT ![p] = u], Harmless(u),
                 u.table = "invoices" => r.pay = NoPayment, r.pc # "charge"
          PROVE  /\ Harmless(update'[p]) /\ r.pc # "charge"
                 /\ update'[p].table = "invoices" => r.pay = NoPayment
      <3>1. update'[p] = u
        BY <2>2, Facts
      <3>. QED  BY <2>2, <3>1
    <2>. QED  BY <2>1, <2>2 DEF Hand
  <1>. QED  BY <1>1, <1>2 DEF Calm

LEMMA FreeMove ==
  ASSUME IInv, NEW p \in Processes, NEW r, Move(p, r), Hand(p, r), invoices' = invoices,
         r.pay = NoPayment, r.pc \notin Paying
  PROVE  Calm(p)
  <1>1. LinkOK(r) /\ r.pc # "chargeCreate"
    BY DEF LinkOK, Paying, Charging
  <1>. QED  BY <1>1, CalmMove

LEMMA SubHand ==
  ASSUME NEW p, NEW s, NEW d, PatchSub(p, s, d), NEW r, r.pc # "charge"
  PROVE  Hand(p, r)
  <1> DEFINE u == [phase |-> "get", table |-> "subscriptions", id |-> <<s>>, doc |-> d]
  <1>1. Harmless(u) /\ u.table # "invoices"
    BY DEF Harmless
  <1>2. update' = [update EXCEPT ![p] = u]
    BY DEF PatchSub, Patch
  <1>. QED  BY <1>1, <1>2 DEF Hand

LEMMA CustomerHand ==
  ASSUME NEW p, NEW d, PatchCustomer(p, d), CustomerPatch(d), NEW r, r.pc # "charge"
  PROVE  Hand(p, r)
  <1> DEFINE u == [phase |-> "get", table |-> "customers", id |-> <<>>, doc |-> d]
  <1>1. Harmless(u) /\ u.table # "invoices"
    BY DEF Harmless
  <1>2. update' = [update EXCEPT ![p] = u]
    BY DEF PatchCustomer, Patch
  <1>. QED  BY <1>1, <1>2 DEF Hand

LEMMA InvoiceHand ==
  ASSUME NEW p, NEW s, NEW n, NEW v, PatchInvoice(p, s, n, [status |-> v]),
         NEW r, r.pay = NoPayment, r.pc # "charge"
  PROVE  Hand(p, r)
  <1> DEFINE u == [phase |-> "get", table |-> "invoices", id |-> <<s, n>>, doc |-> [status |-> v]]
  <1>1. Harmless(u)
    BY DEF Harmless
  <1>2. update' = [update EXCEPT ![p] = u]
    BY DEF PatchInvoice, Patch
  <1>. QED  BY <1>1, <1>2 DEF Hand

(* What a call under way has in hand, once its update is done.             *)
LEMMA ReadyLinks ==
  ASSUME IInv, Typing, NEW p \in Processes, NEW pc, Ready(p, pc)
  PROVE  /\ proc[p].pc = pc /\ update[p] = NoUpdate /\ DOMAIN proc[p] = Fields
         /\ LinkOK(proc[p]) /\ proc[p].pay \in Payments \cup {NoPayment}
         /\ pc \notin Paying \cup Syncing => proc[p].pay = NoPayment
  <1>1. Locals(proc[p]) /\ LinkOK(proc[p])
    BY Facts DEF Typing, LinksOK
  <1>. QED  BY <1>1, Facts DEF Ready, Locals, LinkOK

(* The locals but for the place in the call.                               *)
LEMMA GotoLinks ==
  ASSUME NEW r, LinkOK(r), DOMAIN r = Fields, NEW pc,
         \/ r.pc \in Mirroring /\ pc \in Mirroring \cup Syncing
         \/ r.pc \in Charging /\ pc \in Charging
         \/ r.pc \in Syncing /\ pc \in Syncing
         \/ r.pc \in Syncing /\ pc \in Mirroring /\ r.pay # NoPayment
         \/ r.pay = NoPayment /\ pc \notin Paying
  PROVE  LinkOK([r EXCEPT !.pc = pc]) /\ [r EXCEPT !.pc = pc].pc = pc
  <1> DEFINE x == [r EXCEPT !.pc = pc]
  <1>1. x.pc = pc /\ x.pay = r.pay /\ x.s = r.s /\ x.n = r.n
    BY DEF Fields
  <1> HIDE DEF x
  <1>2. LinkOK(x)
    BY <1>1 DEF LinkOK, Paying, Mirroring, Charging, Syncing
  <1>. QED  BY <1>1, <1>2 DEF x

-----------------------------------------------------------------------------
(* Which steps are calm: the calls that begin.                             *)
LEMMA CallCalm ==
  ASSUME IInv, Typing, NEW q \in Desk, Call(q)
  PROVE  Calm(q) /\ UNCHANGED <<now, customer, mirror>>
  <1>0. q \in Processes
    BY DEF Processes
  <1>a. proc[q].pc = "idle" => update[q] = NoUpdate
    BY <1>0, Facts
  <1>1. CASE Churn(q)
    <2> DEFINE r == [Idle EXCEPT !.pc = "cancel", !.todo = {s \in Subs : sub[s].status # "canceled"}]
    <2>1. r.pay = NoPayment /\ r.pc = "cancel"
      BY IdleFree DEF Fields
    <2>2. Move(q, r) /\ Hand(q, r) /\ UNCHANGED <<now, invoices, customer, mirror>>
      BY <1>1, <1>a DEF Churn, Called, Hand
    <2> HIDE DEF r
    <2>. QED  BY <1>0, <2>1, <2>2, FreeMove DEF Paying, Mirroring, Charging
  <1>2. ASSUME NEW s \in Subs, NEW n \in DOMAIN invoices[s], Pay(q, s, n)
        PROVE  Calm(q) /\ UNCHANGED <<now, customer, mirror>>
    <2> DEFINE r == At("payList", s, n)
    <2>1. Move(q, r) /\ UNCHANGED <<now, invoices, customer, mirror>>
          /\ PatchInvoice(q, s, n, [status |-> "paid"])
      BY <1>2 DEF Pay
    <2>2. r.pay = NoPayment /\ r.pc = "payList"
      BY AtFree
    <2> HIDE DEF r
    <2>. QED  BY <1>0, <2>1, <2>2, InvoiceHand, FreeMove DEF Paying, Mirroring, Charging
  <1>3. ASSUME NEW s \in Subs, NEW n \in DOMAIN invoices[s], Unpay(q, s, n)
        PROVE  Calm(q) /\ UNCHANGED <<now, customer, mirror>>
    <2>1. PICK pc \in {"unpayGet", "return"}, v \in {"overdue", "open"} :
            /\ Move(q, At(pc, s, n)) /\ PatchInvoice(q, s, n, [status |-> v])
            /\ UNCHANGED <<now, invoices, customer, mirror>>
      BY <1>3 DEF Unpay
    <2>2. At(pc, s, n).pay = NoPayment /\ At(pc, s, n).pc = pc
      BY AtFree
    <2>. QED  BY <1>0, <2>1, <2>2, InvoiceHand, FreeMove DEF Paying, Mirroring, Charging
  <1>4. ASSUME NEW s \in Subs, NEW plan \in Plans, Change(q, s, plan)
        PROVE  Calm(q) /\ UNCHANGED <<now, customer, mirror>>
    <2>1. PICK r, d : /\ r.pay = NoPayment /\ r.pc \in {"prorata", "sync", "return"}
                      /\ Move(q, r) /\ PatchSub(q, s, d) /\ UNCHANGED <<now, invoices, customer, mirror>>
      <3>1. CASE IsUpgrade(sub[s], plan)
        <4> DEFINE pc == IF now < sub[s].end THEN "prorata" ELSE "sync"
                   x == [At(pc, s, 0) EXCEPT !.at = now]
        <4>1. x.pay = NoPayment /\ x.pc \in {"prorata", "sync"}
          BY AtFree DEF Fields
        <4>2. /\ Move(q, x) /\ PatchSub(q, s, [price |-> plan.price, pending |-> NoChange])
              /\ UNCHANGED <<now, invoices, customer, mirror>>
          BY <1>4, <3>1 DEF Change
        <4>. QED  BY <4>1, <4>2
      <3>2. CASE ~IsUpgrade(sub[s], plan)
        <4>1. At("return", s, 0).pay = NoPayment /\ At("return", s, 0).pc = "return"
          BY AtFree
        <4>2. /\ Move(q, At("return", s, 0)) /\ UNCHANGED <<now, invoices, customer, mirror>>
              /\ PatchSub(q, s, [pending |-> [at |-> sub[s].end, price |-> plan.price,
                                              cycle |-> plan.cycle]])
          BY <1>4, <3>2 DEF Change
        <4>. QED  BY <4>1, <4>2
      <3>. QED  BY <3>1, <3>2
    <2>. QED  BY <1>0, <2>1, SubHand, FreeMove DEF Paying, Mirroring, Charging
  <1>5. ASSUME NEW s \in Subs, NEW status \in {"active", "paused", "canceled"},
               Preapproval(q, s, status)
        PROVE  Calm(q) /\ UNCHANGED <<now, customer, mirror>>
    <2>1. PICK pc, d :
            /\ pc \in {"leaves", "returns", "sync"} /\ Move(q, At(pc, s, 0)) /\ PatchSub(q, s, d)
            /\ UNCHANGED <<now, invoices, customer, mirror>>
      BY <1>5 DEF Preapproval
    <2>2. At(pc, s, 0).pay = NoPayment /\ At(pc, s, 0).pc = pc
      BY AtFree
    <2>. QED  BY <1>0, <2>1, <2>2, SubHand, FreeMove DEF Paying, Mirroring, Charging
  <1>6. ASSUME NEW m \in Payments, Ingest(q, m)
        PROVE  Calm(q) /\ UNCHANGED <<now, customer, mirror>>
    <2> DEFINE r == [At("ingest", PaidSub[m], mirror[m]) EXCEPT !.pay = m]
    <2>1. r.pc = "ingest" /\ r.pay = m /\ r.s = PaidSub[m] /\ r.n = mirror[m]
      BY AtFree DEF Fields
    <2>2. Move(q, r) /\ Hand(q, r) /\ UNCHANGED <<now, invoices, customer, mirror>>
      BY <1>6, <1>a DEF Ingest, Called, Hand
    <2> HIDE DEF r
    <2>3. LinkOK(r)
      BY <2>1, BillingAssumption DEF Typing, LinkOK, Paying, Mirroring, NoPayment
    <2>. QED  BY <1>0, <2>1, <2>2, <2>3, CalmMove
  <1>7. ASSUME NEW m \in Payments, Charge(q, m)
        PROVE  Calm(q) /\ UNCHANGED <<now, customer, mirror>>
    <2> DEFINE r == [At("charge", PaidSub[m], 0) EXCEPT !.pay = m, !.docs = sub]
    <2>1. r.pc = "charge" /\ r.pay = m /\ r.s = PaidSub[m]
      BY AtFree DEF Fields
    <2>2. Move(q, r) /\ Hand(q, r) /\ UNCHANGED <<now, invoices, customer, mirror>>
      BY <1>7, <1>a DEF Charge, Called, Hand
    <2> HIDE DEF r
    <2>3. LinkOK(r)
      BY <2>1, BillingAssumption DEF LinkOK, Paying, Charging, NoPayment
    <2>. QED  BY <1>0, <2>1, <2>2, <2>3, CalmMove
  <1>. QED  BY <1>1, <1>2, <1>3, <1>4, <1>5, <1>6, <1>7 DEF Call

(* The steps of a run, of a route and of an authorization.                 *)
LEMMA GotoFree ==
  ASSUME IInv, Typing, NEW p \in Processes, NEW from, Ready(p, from), from \notin Paying \cup Syncing,
         NEW to, Goto(p, to), to \notin Paying, Hand(p, [proc[p] EXCEPT !.pc = to]),
         invoices' = invoices
  PROVE  Calm(p)
  <1> DEFINE r == [proc[p] EXCEPT !.pc = to]
  <1>1. LinkOK(proc[p]) /\ DOMAIN proc[p] = Fields /\ proc[p].pay = NoPayment
    BY ReadyLinks
  <1>2. r.pay = NoPayment /\ r.pc = to /\ Move(p, r)
    BY <1>1 DEF Fields, Goto
  <1> HIDE DEF r
  <1>. QED  BY <1>2, FreeMove DEF r

LEMMA StopsFree ==
  ASSUME IInv, Typing, NEW p \in Processes, NEW from, Ready(p, from), Move(p, Idle),
         UNCHANGED update, invoices' = invoices
  PROVE  Calm(p)
  <1>1. Hand(p, Idle)
    BY ReadyLinks DEF Hand
  <1>. QED  BY <1>1, IdleFree, FreeMove DEF Paying, Mirroring, Charging

LEMMA RunCalm ==
  ASSUME IInv, Typing, NEW p \in Processes,
         \/ StartRun(p) \/ ListInvoices(p) \/ ListSubs(p)
         \/ \E i \in proc[p].mark : Mark(p, i)
         \/ \E s \in Subs : ApplyChange(p, s) \/ Renew(p, s) \/ SetStatus(p, s)
  PROVE  Calm(p) /\ UNCHANGED <<now, customer, mirror>>
  <1> DEFINE r == proc[p]
  <1>f. ASSUME NEW pc \in {"run", "mark", "status"}, Ready(p, pc)
        PROVE  r.pay = NoPayment /\ DOMAIN r = Fields /\ update[p] = NoUpdate
    BY <1>f, ReadyLinks DEF Paying, Mirroring, Charging, Syncing
  <1>g. ASSUME NEW x, x.pay = NoPayment, x.pc \in {"run", "bill", "mark", "status", "sync", "idle"},
               Move(p, x), Hand(p, x), UNCHANGED <<now, invoices, customer, mirror>>
        PROVE  Calm(p) /\ UNCHANGED <<now, customer, mirror>>
    BY <1>g, FreeMove DEF Paying, Mirroring, Charging
  <1>h. ASSUME NEW x, x.pay = NoPayment, x.pc = "status"
        PROVE  AfterStatus(x).pay = NoPayment /\ AfterStatus(x).pc \in {"status", "sync", "idle"}
    BY <1>h, IdleFree DEF AfterStatus, Fields
  <1>1. CASE StartRun(p)
    <2> DEFINE x == [Idle EXCEPT !.pc = "run", !.at = now, !.docs = sub]
    <2>1. x.pay = NoPayment /\ x.pc = "run"
      BY IdleFree DEF Fields
    <2>2. update[p] = NoUpdate
      BY <1>1, Facts DEF StartRun, Called
    <2>3. Move(p, x) /\ Hand(p, x) /\ UNCHANGED <<now, invoices, customer, mirror>>
      BY <1>1, <2>2 DEF StartRun, Hand
    <2> HIDE DEF x
    <2>. QED  BY <1>g, <2>1, <2>3
  <1>2. CASE ListInvoices(p)
    <2> DEFINE m == UNION {{<<s, n>> : n \in {k \in DOMAIN invoices[s] :
                              invoices[s][k].status = "open" /\ IsLate(s, k, r.at)}} : s \in Subs}
               x == [Idle EXCEPT !.pc = "mark", !.late = LateSubs(r.at), !.touched = r.touched, !.mark = m]
    <2>1. Move(p, x) /\ UNCHANGED <<now, invoices, customer, mirror, update>> /\ Ready(p, "run")
      BY <1>2 DEF ListInvoices
    <2> HIDE DEF m
    <2>2. x.pay = NoPayment /\ x.pc = "mark"
      BY IdleFree DEF Fields
    <2> HIDE DEF x
    <2>. QED  BY <1>f, <1>g, <2>1, <2>2 DEF Hand
  <1>3. CASE ListSubs(p)
    <2>1. PICK x : x = [r EXCEPT !.pc = "status",
                                 !.todo = {s \in Subs : sub[s].status =
                                             IF s \in r.late THEN "active" ELSE "past_due"}]
      OBVIOUS
    <2>2. Move(p, AfterStatus(x)) /\ UNCHANGED <<now, invoices, customer, mirror, update>> /\ Ready(p, "mark")
      BY <1>3, <2>1 DEF ListSubs
    <2>3. r.pay = NoPayment /\ DOMAIN r = Fields /\ update[p] = NoUpdate
      BY <1>f, <2>2
    <2>4. x.pay = NoPayment /\ x.pc = "status"
      BY <2>1, <2>3 DEF Fields
    <2>. QED  BY <1>g, <1>h, <2>2, <2>3, <2>4 DEF Hand
  <1>4. ASSUME NEW i, Mark(p, i)
        PROVE  Calm(p) /\ UNCHANGED <<now, customer, mirror>>
    <2>1. PICK x : x = [r EXCEPT !.mark = @ \ {i}]
      OBVIOUS
    <2>2. /\ Move(p, x) /\ UNCHANGED <<now, invoices, customer, mirror>> /\ Ready(p, "mark")
          /\ PatchInvoice(p, i[1], i[2], [status |-> "overdue"])
      BY <1>4, <2>1 DEF Mark
    <2>3. r.pay = NoPayment /\ DOMAIN r = Fields /\ r.pc = "mark"
      BY <1>f, <2>2 DEF Ready
    <2>4. x.pay = NoPayment /\ x.pc = "mark"
      BY <2>1, <2>3 DEF Fields
    <2>. QED  BY <1>g, <2>2, <2>4, InvoiceHand
  <1>5. ASSUME NEW s, SetStatus(p, s)
        PROVE  Calm(p) /\ UNCHANGED <<now, customer, mirror>>
    <2>1. PICK x : x = [r EXCEPT !.todo = @ \ {s}, !.touched = TRUE]
      OBVIOUS
    <2>2. PICK d : Move(p, AfterStatus(x)) /\ UNCHANGED <<now, invoices, customer, mirror>> /\ Ready(p, "status")
                   /\ PatchSub(p, s, d)
      BY <1>5, <2>1 DEF SetStatus
    <2>3. r.pay = NoPayment /\ DOMAIN r = Fields /\ r.pc = "status"
      BY <1>f, <2>2 DEF Ready
    <2>4. x.pay = NoPayment /\ x.pc = "status"
      BY <2>1, <2>3 DEF Fields
    <2>5. AfterStatus(x).pay = NoPayment /\ AfterStatus(x).pc \in {"status", "sync", "idle"}
      BY <1>h, <2>4
    <2>. QED  BY <1>g, <2>2, <2>5, SubHand
  <1>6. ASSUME NEW s, ApplyChange(p, s) \/ Renew(p, s)
        PROVE  Calm(p) /\ UNCHANGED <<now, customer, mirror>>
    <2>1. PICK x, d : /\ \/ x = [r EXCEPT !.s = s, !.touched = TRUE]
                         \/ x = [r EXCEPT !.pc = "bill", !.s = s, !.touched = TRUE]
                      /\ Move(p, x) /\ PatchSub(p, s, d) /\ Ready(p, "run")
                      /\ UNCHANGED <<now, invoices, customer, mirror>>
      BY <1>6 DEF ApplyChange, Renew, Turn
    <2>2. r.pay = NoPayment /\ DOMAIN r = Fields /\ r.pc = "run"
      BY <1>f, <2>1 DEF Ready
    <2>3. x.pay = NoPayment /\ x.pc \in {"run", "bill"}
      BY <2>1, <2>2 DEF Fields
    <2>. QED  BY <1>g, <2>1, <2>3, SubHand
  <1>. QED  BY <1>1, <1>2, <1>3, <1>4, <1>5, <1>6

LEMMA RouteCalm ==
  ASSUME IInv, Typing, NEW p \in Processes,
         \/ PayList(p) \/ PayGet(p) \/ UnpayGet(p) \/ MarkChurn(p)
         \/ Leaves(p) \/ LeavesList(p) \/ Returns(p)
         \/ \E s \in Subs : Cancel(p, s)
  PROVE  Calm(p) /\ UNCHANGED <<now, customer, mirror>>
  <1> DEFINE r == proc[p]
             Routes == {"payList", "payGet", "unpayGet", "cancel", "leaves", "leavesList", "returns"}
  <1>0. PICK pc \in Routes : Ready(p, pc) /\ UNCHANGED <<now, invoices, customer, mirror>>
    BY DEF PayList, PayGet, UnpayGet, MarkChurn, Leaves, LeavesList, Returns, Cancel
  <1>1. /\ pc \notin Paying \cup Syncing /\ update[p] = NoUpdate
        /\ r.pc = pc /\ r.pay = NoPayment /\ DOMAIN r = Fields
    BY <1>0, ReadyLinks DEF Paying, Mirroring, Charging, Syncing
  <1>2. ASSUME NEW to \in {"payGet", "sync", "return", "leavesList"}, Goto(p, to),
               UNCHANGED update \/ (\E s, d : PatchSub(p, s, d))
                                \/ (\E d : PatchCustomer(p, d) /\ CustomerPatch(d))
        PROVE  Calm(p)
    <2>1. [r EXCEPT !.pc = to].pc = to
      BY <1>1 DEF Fields
    <2>2. Hand(p, [r EXCEPT !.pc = to])
      BY <1>1, <1>2, <2>1, SubHand, CustomerHand DEF Hand
    <2>3. to \notin Paying
      BY DEF Paying, Mirroring, Charging
    <2>. QED  BY <1>0, <1>1, <1>2, <2>2, <2>3, GotoFree
  <1>3. ASSUME Move(p, Idle), UNCHANGED update PROVE Calm(p)
    BY <1>0, <1>3, StopsFree
  <1>4. CASE PayList(p)
    BY <1>2, <1>3, <1>4, <1>0 DEF PayList, Goto
  <1>5. CASE PayGet(p)
    BY <1>2, <1>3, <1>5, <1>0 DEF PayGet
  <1>6. CASE UnpayGet(p)
    BY <1>2, <1>3, <1>6, <1>0 DEF UnpayGet
  <1>7. CustomerPatch([left |-> "manual"]) /\ CustomerPatch([left |-> "mp"]) /\ CustomerPatch([left |-> "no"])
    BY DEF CustomerPatch
  <1>8. CASE MarkChurn(p)
    BY <1>2, <1>7, <1>8, <1>0 DEF MarkChurn
  <1>9. CASE Leaves(p)
    BY <1>2, <1>9, <1>0 DEF Leaves
  <1>10. CASE LeavesList(p)
    BY <1>2, <1>7, <1>10, <1>0 DEF LeavesList
  <1>11. CASE Returns(p)
    BY <1>2, <1>7, <1>11, <1>0 DEF Returns
  <1>12. ASSUME NEW s \in Subs, Cancel(p, s) PROVE Calm(p)
    <2>1. PICK x : x = [r EXCEPT !.todo = @ \ {s}]
      OBVIOUS
    <2>2. Move(p, x) /\ PatchSub(p, s, [status |-> "canceled"]) /\ Ready(p, "cancel")
      BY <1>12, <2>1 DEF Cancel
    <2>3. x.pay = NoPayment /\ x.pc = "cancel"
      BY <1>1, <2>1, <2>2 DEF Fields, Ready
    <2>. QED  BY <1>0, <2>2, <2>3, SubHand, FreeMove DEF Paying, Mirroring, Charging
  <1>. QED  BY <1>0, <1>4, <1>5, <1>6, <1>8, <1>9, <1>10, <1>11, <1>12

(* The steps that go on with a payment already looked for, or with none.   *)
LEMMA SyncCalm ==
  ASSUME IInv, Typing, NEW p \in Processes, SyncGet(p) \/ SyncList(p)
  PROVE  Calm(p) /\ UNCHANGED <<now, customer, mirror>>
  <1> DEFINE r == proc[p]
  <1>1. PICK pc \in Syncing : Ready(p, pc) /\ UNCHANGED <<now, invoices, customer, mirror>>
    BY DEF SyncGet, SyncList, Syncing
  <1>2. /\ r.pc \in Syncing /\ update[p] = NoUpdate /\ DOMAIN r = Fields /\ LinkOK(r)
    BY <1>1, ReadyLinks
  <1>3. ASSUME NEW to, to = "syncList" \/ (to = "return" /\ r.pay = NoPayment)
                                       \/ (to = "mirror" /\ r.pay # NoPayment)
        PROVE  LinkOK([r EXCEPT !.pc = to]) /\ [r EXCEPT !.pc = to].pc = to
    BY <1>2, <1>3, GotoLinks DEF Syncing, Mirroring, Paying, Charging
  <1>4. /\ LinkOK(AfterSync(p)) /\ AfterSync(p).pc \in {"idle", "mirror"}
    <2>1. CASE r.pay = NoPayment
      BY <2>1, IdleFree DEF AfterSync, LinkOK, Paying, Mirroring, Charging
    <2>2. CASE r.pay # NoPayment
      BY <1>3, <2>2 DEF AfterSync
    <2>. QED  BY <2>1, <2>2
  <1>5. CASE SyncGet(p)
    <2>1. PICK x : Move(p, x) /\ UNCHANGED update
                   /\ (x = AfterSync(p) \/ x = [r EXCEPT !.pc = "syncList"])
      BY <1>5 DEF SyncGet, Goto
    <2>2. LinkOK(x) /\ x.pc # "chargeCreate"
      BY <1>3, <1>4, <2>1
    <2>. QED  BY <1>1, <1>2, <2>1, <2>2, CalmMove DEF Hand
  <1>6. CASE SyncList(p)
    <2>1. CustomerPatch([arr |-> ContractedArr])
      BY ArrIsNat DEF CustomerPatch, IInv, Typed
    <2>2. PICK x : /\ Move(p, x) /\ PatchCustomer(p, [arr |-> ContractedArr])
                   /\ x = IF r.pay = NoPayment THEN [r EXCEPT !.pc = "return"] ELSE AfterSync(p)
      BY <1>6 DEF SyncList
    <2>3. LinkOK(x) /\ x.pc \in {"return", "mirror", "idle"}
      BY <1>3, <1>4, <2>2
    <2>. QED  BY <1>1, <2>1, <2>2, <2>3, CalmMove, CustomerHand
  <1>. QED  BY <1>1, <1>5, <1>6

(* A call that begins to settle: it did not find the payment in the list.  *)
Opens(p) ==
    LET r == proc[p] IN
    /\ OnlyMoves(p) /\ invoices' = invoices
    /\ r.pay \in Payments /\ Settled(PaidSub[r.pay], r.pay) = {} /\ proc'[p].pay = r.pay
    /\ LinkOK(proc'[p]) /\ HandOK(update'[p], proc'[p])
    /\ update'[p] = NoUpdate \/ update'[p].phase = "get"

LEMMA PaidHand ==
  ASSUME IInv, NEW p \in Processes, NEW s, NEW n, NEW d, PatchInvoice(p, s, n, d),
         NEW r, Move(p, r), r.pay # NoPayment, d.mp = r.pay, s = r.s, r.pc \notin {"charge", "chargeCreate"}
  PROVE  /\ OnlyMoves(p) /\ proc'[p] = r /\ update'[p].phase = "get" /\ HandOK(update'[p], r)
  <1> DEFINE u == [phase |-> "get", table |-> "invoices", id |-> <<s, n>>, doc |-> d]
  <1>1. HandOK(u, r) /\ u.phase = "get"
    BY DEF HandOK
  <1>2. update' = [update EXCEPT ![p] = u]
    BY DEF PatchInvoice, Patch
  <1> HIDE DEF u
  <1>. QED  BY <1>1, <1>2, Facts DEF Move, OnlyMoves

LEMMA TargetIsUnpaid == ASSUME NEW s, NEW l, NEW n \in Target(s, l) PROVE n \in DOMAIN invoices[s]
  BY DEF Target

LEMMA MinIsLeast ==
  ASSUME NEW T \in SUBSET Nat, T # {}
  PROVE  Min(T) \in T
  BY NatMin DEF Min

LEMMA IngestListStep ==
  ASSUME IInv, Typing, NEW p \in Processes, IngestList(p)
  PROVE  (Calm(p) \/ Opens(p)) /\ UNCHANGED <<now, customer, mirror>>
  <1> DEFINE r == proc[p]
  <1>1. /\ r.pc = "ingest" /\ update[p] = NoUpdate /\ DOMAIN r = Fields /\ LinkOK(r)
        /\ r.pay \in Payments \cup {NoPayment}
    BY ReadyLinks DEF IngestList
  <1>2. /\ r.pay \in Payments /\ r.pay # NoPayment /\ r.s = PaidSub[r.pay] /\ r.s \in Subs
        /\ r.n \in 0..Len(invoices[r.s])
    BY <1>1, BillingAssumption DEF LinkOK, Paying, Mirroring, Charging
  <1>3. invoices[r.s] \in Seq(InvoiceDoc)
    BY <1>2 DEF IInv, Typed
  <1>4. ASSUME NEW n \in 0..Len(invoices[r.s]), NEW pc \in Mirroring
        PROVE  LET x == [r EXCEPT !.pc = pc, !.n = n]
               IN  LinkOK(x) /\ x.pc = pc /\ x.pay = r.pay /\ x.s = r.s
    <2> DEFINE x == [r EXCEPT !.pc = pc, !.n = n]
    <2>1. x.pc = pc /\ x.pay = r.pay /\ x.s = r.s /\ x.n = n
      BY <1>1 DEF Fields
    <2> HIDE DEF x
    <2>2. LinkOK(x)
      BY <1>2, <2>1 DEF LinkOK, Paying, Mirroring
    <2>. QED  BY <2>1, <2>2 DEF x
  <1>5. CASE Settled(r.s, r.pay) # {} \/ Target(r.s, r.n) = {}
    <2>1. PICK n : /\ n = IF Settled(r.s, r.pay) = {} \/ r.n # 0 THEN r.n ELSE Min(Settled(r.s, r.pay))
                   /\ Move(p, [r EXCEPT !.pc = "mirror", !.n = n])
                   /\ UNCHANGED <<now, invoices, customer, mirror, update>>
      BY <1>1, <1>5 DEF IngestList, Fields
    <2>2. n \in 0..Len(invoices[r.s])
      <3>1. Settled(r.s, r.pay) \subseteq 1..Len(invoices[r.s]) /\ Len(invoices[r.s]) \in Nat
        BY <1>3 DEF Settled
      <3>2. Settled(r.s, r.pay) # {} => Min(Settled(r.s, r.pay)) \in Settled(r.s, r.pay)
        BY <3>1, MinIsLeast
      <3>. QED  BY <1>2, <2>1, <3>1, <3>2
    <2> DEFINE x == [r EXCEPT !.pc = "mirror", !.n = n]
    <2>3. LinkOK(x) /\ x.pc = "mirror"
      BY <1>4, <2>2 DEF Mirroring
    <2>4. Move(p, x)
      BY <2>1
    <2> HIDE DEF x
    <2>5. Hand(p, x)
      BY <1>1, <2>1 DEF Hand
    <2>. QED  BY <2>1, <2>3, <2>4, <2>5, CalmMove
  <1>6. CASE ~(Settled(r.s, r.pay) # {} \/ Target(r.s, r.n) = {})
    <2>1. PICK n \in Target(r.s, r.n) :
            /\ PatchInvoice(p, r.s, n, [status |-> "paid", mp |-> r.pay])
            /\ Move(p, [r EXCEPT !.pc = "settleGet", !.n = n])
            /\ UNCHANGED <<now, invoices, customer, mirror>>
      BY <1>6 DEF IngestList
    <2>2. n \in 0..Len(invoices[r.s])
      BY <1>3, TargetIsUnpaid
    <2> DEFINE x == [r EXCEPT !.pc = "settleGet", !.n = n]
    <2>3. LinkOK(x) /\ x.pc = "settleGet" /\ x.pay = r.pay /\ x.s = r.s
      BY <1>4, <2>2 DEF Mirroring
    <2>4. Move(p, x)
      BY <2>1
    <2> HIDE DEF x
    <2>5. OnlyMoves(p) /\ proc'[p] = x /\ update'[p].phase = "get" /\ HandOK(update'[p], x)
      BY <1>2, <2>1, <2>3, <2>4, PaidHand
    <2>. QED  BY <1>2, <1>6, <2>1, <2>3, <2>5 DEF Opens
  <1>. QED  BY <1>5, <1>6

LEMMA ChargeListStep ==
  ASSUME IInv, Typing, NEW p \in Processes, ChargeList(p)
  PROVE  (Calm(p) \/ Opens(p)) /\ UNCHANGED <<now, customer, mirror>>
  <1> DEFINE r == proc[p]
  <1>1. /\ r.pc = "charge" /\ update[p] = NoUpdate /\ DOMAIN r = Fields /\ LinkOK(r)
        /\ r.pay \in Payments \cup {NoPayment} /\ Ready(p, "charge")
        /\ UNCHANGED <<now, invoices, customer, mirror>>
    BY ReadyLinks DEF ChargeList
  <1>2. r.pay \in Payments /\ r.pay # NoPayment /\ r.s = PaidSub[r.pay]
    BY <1>1 DEF LinkOK, Paying, Charging
  <1>3. ASSUME NEW pc \in {"chargeCreate", "chargeEnd"}
        PROVE  LET x == [r EXCEPT !.pc = pc]
               IN  LinkOK(x) /\ x.pc = pc /\ x.pay = r.pay /\ x.s = r.s
    <2> DEFINE x == [r EXCEPT !.pc = pc]
    <2>1. LinkOK(x) /\ x.pc = pc
      BY <1>1, GotoLinks DEF Charging
    <2>2. x.pay = r.pay /\ x.s = r.s
      BY <1>1 DEF Fields
    <2>. QED  BY <2>1, <2>2
  <1>4. CASE Settled(r.s, r.pay) # {}
    BY <1>1, <1>4, StopsFree DEF ChargeList
  <1>5. CASE Settled(r.s, r.pay) = {} /\ Target(r.s, 0) = {}
    <2> DEFINE x == [r EXCEPT !.pc = "chargeCreate"]
    <2>1. LinkOK(x) /\ x.pc = "chargeCreate" /\ x.pay = r.pay
      BY <1>3
    <2>2. Move(p, x) /\ UNCHANGED update
      BY <1>5 DEF ChargeList, Goto
    <2> HIDE DEF x
    <2>3. OnlyMoves(p) /\ proc'[p] = x /\ update'[p] = NoUpdate
      BY <1>1, <2>2, Facts DEF Move, OnlyMoves
    <2>4. HandOK(NoUpdate, x)
      BY DEF HandOK, NoUpdate
    <2>. QED  BY <1>1, <1>2, <1>5, <2>1, <2>3, <2>4 DEF Opens
  <1>6. CASE Settled(r.s, r.pay) = {} /\ Target(r.s, 0) # {}
    <2> DEFINE x == [r EXCEPT !.pc = "chargeEnd"]
    <2>1. LinkOK(x) /\ x.pc = "chargeEnd" /\ x.pay = r.pay /\ x.s = r.s
      BY <1>3
    <2>2. PICK n : PatchInvoice(p, r.s, n, [status |-> "paid", mp |-> r.pay]) /\ Move(p, x)
      BY <1>6 DEF ChargeList, Goto
    <2> HIDE DEF x
    <2>3. OnlyMoves(p) /\ proc'[p] = x /\ update'[p].phase = "get" /\ HandOK(update'[p], x)
      BY <1>2, <2>1, <2>2, PaidHand
    <2>. QED  BY <1>1, <1>2, <1>6, <2>1, <2>3 DEF Opens
  <1>. QED  BY <1>4, <1>5, <1>6

LEMMA SettleCalm ==
  ASSUME IInv, Typing, NEW p \in Processes,
         SettleGet(p) \/ SettleList(p) \/ SaveMirror(p) \/ ChargeEnd(p)
  PROVE  /\ Calm(p) /\ UNCHANGED <<now, customer>>
         /\ \/ UNCHANGED mirror
            \/ /\ mirror' = [mirror EXCEPT ![proc[p].pay] = proc[p].n] /\ proc[p].pay \in Payments
               /\ proc[p].n \in 0..Len(invoices[PaidSub[proc[p].pay]])
  <1> DEFINE r == proc[p]
  <1>1. PICK pc \in {"settleGet", "settleList", "mirror", "chargeEnd"} :
          Ready(p, pc) /\ UNCHANGED <<now, invoices, customer>>
    BY DEF SettleGet, SettleList, SaveMirror, ChargeEnd
  <1>2. /\ r.pc = pc /\ update[p] = NoUpdate /\ DOMAIN r = Fields /\ LinkOK(r)
        /\ r.pay \in Payments \cup {NoPayment}
    BY <1>1, ReadyLinks
  <1>3. ASSUME NEW to \in {"settleList", "mirror", "sync"}, Goto(p, to), r.pc \in Mirroring,
               (\E s, d : PatchSub(p, s, d)) \/ UNCHANGED update
        PROVE  Calm(p)
    <2> DEFINE x == [r EXCEPT !.pc = to]
    <2>1. LinkOK(x) /\ x.pc = to
      BY <1>2, <1>3, GotoLinks DEF Mirroring, Syncing
    <2>2. Move(p, x)
      BY <1>3 DEF Goto
    <2> HIDE DEF x
    <2>3. Hand(p, x)
      BY <1>2, <1>3, <2>1, SubHand DEF Hand
    <2>. QED  BY <1>1, <2>1, <2>2, <2>3, CalmMove
  <1>4. CASE SettleGet(p)
    <2>1. r.pc \in Mirroring
      BY <1>4, ReadyLinks DEF SettleGet, Mirroring
    <2>. QED  BY <1>1, <1>3, <1>4, <2>1 DEF SettleGet
  <1>5. CASE SettleList(p)
    <2>1. r.pc \in Mirroring
      BY <1>5, ReadyLinks DEF SettleList, Mirroring
    <2>. QED  BY <1>1, <1>3, <1>5, <2>1 DEF SettleList
  <1>6. CASE SaveMirror(p)
    <2>1. r.pc = "mirror"
      BY <1>6, ReadyLinks DEF SaveMirror
    <2>2. r.pay \in Payments /\ r.s = PaidSub[r.pay] /\ r.n \in 0..Len(invoices[r.s])
      BY <1>2, <2>1 DEF LinkOK, Paying, Mirroring, Charging
    <2>. QED  BY <1>1, <1>6, <2>2, StopsFree DEF SaveMirror
  <1>7. CASE ChargeEnd(p)
    <2>1. CASE Move(p, Idle) /\ UNCHANGED update
      BY <1>1, <1>7, <2>1, StopsFree DEF ChargeEnd
    <2>2. CASE ~(Move(p, Idle) /\ UNCHANGED update)
      <3> DEFINE x == [Idle EXCEPT !.pc = "sync"]
      <3>1. Move(p, x) /\ PatchSub(p, r.s, [status |-> "active"]) /\ UNCHANGED mirror
        BY <1>7, <2>2 DEF ChargeEnd
      <3>2. x.pc = "sync" /\ x.pay = NoPayment
        BY IdleFree DEF Fields
      <3> HIDE DEF x
      <3>. QED  BY <1>1, <3>1, <3>2, SubHand, FreeMove DEF Paying, Mirroring, Charging
    <2>. QED  BY <2>1, <2>2
  <1>. QED  BY <1>4, <1>5, <1>6, <1>7

LEMMA FailCalm ==
  ASSUME IInv, NEW p \in Processes, Fails(p)
  PROVE  Calm(p) /\ UNCHANGED <<now, customer, mirror>>
  <1>1. OnlyMoves(p) /\ proc'[p] = Idle /\ update'[p] = NoUpdate
        /\ UNCHANGED <<now, invoices, customer, mirror>>
    BY Facts DEF Fails, Move, OnlyMoves
  <1>. QED  BY <1>1, IdleFree DEF Calm, LinkOK, Paying, Mirroring, Charging

-----------------------------------------------------------------------------
(* Lists of invoices only grow, so the numbers that point into them stay.  *)
Longer == \A s \in Subs : DOMAIN invoices[s] \subseteq DOMAIN invoices'[s]

LEMMA LenKept ==
  ASSUME IInv, IInv', Longer
  PROVE  \A s \in Subs : /\ Len(invoices[s]) \in Nat /\ Len(invoices'[s]) \in Nat
                         /\ Len(invoices[s]) <= Len(invoices'[s])
  <1> SUFFICES ASSUME NEW s \in Subs
               PROVE  /\ Len(invoices[s]) \in Nat /\ Len(invoices'[s]) \in Nat
                      /\ Len(invoices[s]) <= Len(invoices'[s])
    OBVIOUS
  <1>1. invoices[s] \in Seq(InvoiceDoc) /\ invoices'[s] \in Seq(InvoiceDoc)
    BY DEF IInv, Typed
  <1>2. \A n \in DOMAIN invoices[s] : n \in DOMAIN invoices'[s]
    BY DEF Longer
  <1>. QED  BY <1>1, <1>2

LEMMA TypingKeeps ==
  ASSUME IInv, IInv', Typing, NEW p \in Processes, OnlyMoves(p), Longer,
         NEW r, proc'[p] = r, LinkOK(r), HandOK(update'[p], r),
         now' <= MaxNow, customer' \in CustomerDoc, DOMAIN mirror' = Payments,
         \A m \in Payments : mirror'[m] \in 0..Len(invoices[PaidSub[m]])
  PROVE  Typing'
  <1>1. \A s \in Subs : /\ Len(invoices[s]) \in Nat /\ Len(invoices'[s]) \in Nat
                        /\ Len(invoices[s]) <= Len(invoices'[s])
    BY LenKept
  <1>2. \A m \in Payments : PaidSub[m] \in Subs
    BY BillingAssumption
  <1>3. \A m \in Payments : mirror'[m] \in 0..Len(invoices'[PaidSub[m]])
    BY <1>1, <1>2
  <1>4. ASSUME NEW x, x.pay \in Payments \cup {NoPayment}, LinkOK(x) PROVE LinkOK(x)'
    <2>1. CASE x.pay = NoPayment
      BY <1>4, <2>1 DEF LinkOK
    <2>2. CASE x.pay # NoPayment
      <3>1. x.s = PaidSub[x.pay] /\ PaidSub[x.pay] \in Subs
        BY <1>2, <1>4, <2>2 DEF LinkOK
      <3>2. x.n \in 0..Len(invoices[x.s]) => x.n \in 0..Len(invoices'[x.s])
        BY <1>1, <3>1
      <3>. QED  BY <1>4, <2>2, <3>2 DEF LinkOK
    <2>. QED  BY <2>1, <2>2
  <1>5. ASSUME NEW q \in Processes PROVE LinksOK(q)'
    <2>1. proc'[q].pay \in Payments \cup {NoPayment}
      BY DEF IInv, ProcessOK, Locals
    <2>2. CASE q = p
      BY <1>4, <2>1, <2>2 DEF LinksOK
    <2>3. CASE q # p
      <3>1. proc'[q] = proc[q] /\ update'[q] = update[q] /\ LinkOK(proc[q]) /\ HandOK(update[q], proc[q])
        BY <2>3 DEF OnlyMoves, Typing, LinksOK
      <3>. QED  BY <1>4, <2>1, <3>1 DEF LinksOK
    <2>. QED  BY <2>2, <2>3
  <1>. QED  BY <1>3, <1>5 DEF Typing

LEMMA HarmlessHand == ASSUME NEW u, NEW r, Harmless(u), r.pc \notin {"charge", "chargeCreate"} PROVE HandOK(u, r)
  BY DEF Harmless, HandOK

LEMMA CalmTyping ==
  ASSUME IInv, IInv', Typing, NEW p \in Processes, Calm(p) \/ Opens(p), now' <= MaxNow,
         customer' \in CustomerDoc, DOMAIN mirror' = Payments,
         \A m \in Payments : mirror'[m] \in 0..Len(invoices[PaidSub[m]])
  PROVE  Typing'
  <1>1. Longer /\ OnlyMoves(p) /\ LinkOK(proc'[p])
    BY DEF Calm, Opens, Longer
  <1>2. HandOK(update'[p], proc'[p])
    <2>1. CASE Opens(p)
      BY <2>1 DEF Opens
    <2>2. CASE Calm(p) /\ update'[p] = NoUpdate
      BY <2>2 DEF Calm, HandOK, NoUpdate
    <2>3. CASE Calm(p) /\ update'[p] # NoUpdate
      BY <2>3, HarmlessHand DEF Calm
    <2>. QED  BY <2>1, <2>2, <2>3
  <1>. QED  BY <1>1, <1>2, TypingKeeps

(* repo.update.                                                            *)
LEMMA MergeCustomer ==
  ASSUME NEW doc \in CustomerDoc, NEW d, CustomerPatch(d)
  PROVE  Merge(doc, d) \in CustomerDoc
  <1> DEFINE m == Merge(doc, d)
  <1>1. m = [f \in {"arr", "left"} |-> IF f \in DOMAIN d THEN d[f] ELSE doc[f]]
    BY DEF Merge, CustomerDoc
  <1>2. m.arr \in Nat /\ m.left \in {"no", "manual", "mp"}
    BY <1>1 DEF CustomerPatch, CustomerDoc
  <1>. QED  BY <1>1, <1>2 DEF CustomerDoc

LEMMA UpdateShape ==
  ASSUME IInv, NEW p \in Processes, update[p].phase # "none"
  PROVE  /\ DOMAIN update[p] = {"phase", "table", "id", "doc"}
         /\ update[p].table \in {"subscriptions", "invoices", "customers"}
         /\ update[p].phase \in {"get", "put"} /\ proc[p].pc # "idle"
         /\ update[p].table = "invoices" => IsInvoiceId(update[p].id)
         /\ update[p].table = "invoices" /\ update[p].phase = "get" => InvoicePatch(update[p].doc)
         /\ update[p].table = "invoices" /\ update[p].phase = "put" => update[p].doc \in InvoiceDoc
  <1>1. UpdateOK(update[p], proc[p]) /\ update[p] # NoUpdate
    BY DEF IInv, ProcessOK, NoUpdate
  <1>2. CASE proc[p].pc = "bill" /\ Renewing(update[p], proc[p])
    BY <1>2 DEF Renewing
  <1>3. CASE proc[p].pc # "idle" /\ Begun(update[p])
    BY <1>3 DEF Begun
  <1>4. CASE proc[p].pc # "idle" /\ Merged(update[p])
    BY <1>4 DEF Merged, IsInvoiceId
  <1>. QED  BY <1>1, <1>2, <1>3, <1>4 DEF UpdateOK

LEMMA GetShape ==
  ASSUME IInv, NEW p \in Processes, UpdateGet(p)
  PROVE  /\ OnlyMoves(p) /\ proc'[p] = proc[p] /\ update[p].phase = "get"
         /\ update'[p].phase = "put" /\ update'[p].table = update[p].table
         /\ update'[p].id = update[p].id
         /\ update'[p].doc = Merge(Stored(update[p]), update[p].doc)
         /\ UNCHANGED <<now, invoices, customer, mirror, proc>>
  <1> DEFINE u == update[p]
  <1>1. u.phase = "get" /\ DOMAIN u = {"phase", "table", "id", "doc"}
    BY UpdateShape DEF UpdateGet
  <1>2. update' = [update EXCEPT ![p] = [u EXCEPT !.phase = "put", !.doc = Merge(Stored(u), u.doc)]]
        /\ UNCHANGED <<now, invoices, customer, mirror, proc>>
    BY DEF UpdateGet
  <1>3. PICK v : v = [u EXCEPT !.phase = "put", !.doc = Merge(Stored(u), u.doc)]
    OBVIOUS
  <1>4. v.phase = "put" /\ v.table = u.table /\ v.id = u.id /\ v.doc = Merge(Stored(u), u.doc)
    BY <1>1, <1>3
  <1>5. update'[p] = v /\ OnlyMoves(p)
    BY <1>2, <1>3, Facts DEF OnlyMoves
  <1>. QED  BY <1>1, <1>2, <1>4, <1>5

LEMMA GetTyping ==
  ASSUME IInv, IInv', Typing, NEW p \in Processes, UpdateGet(p)
  PROVE  Typing'
  <1> DEFINE r == proc[p]
  <1>1. LinkOK(r) /\ HandOK(update[p], r) /\ Longer
    BY GetShape DEF Typing, LinksOK, Longer
  <1>2. HandOK(update'[p], r)
    <2>1. r.pc \notin {"charge", "chargeCreate"}
      BY <1>1, GetShape DEF HandOK, NoUpdate
    <2>2. ASSUME update[p].table = "customers" PROVE update'[p].doc \in CustomerDoc
      BY <1>1, <2>2, GetShape, MergeCustomer DEF HandOK, Stored, Typing
    <2>. QED  BY <2>1, <2>2, GetShape DEF HandOK
  <1>. QED  BY <1>1, <1>2, GetShape, TypingKeeps DEF Typing

LEMMA PutShape ==
  ASSUME IInv, NEW p \in Processes, UpdatePut(p)
  PROVE  /\ OnlyMoves(p) /\ update'[p] = NoUpdate /\ update[p].phase = "put"
         /\ UNCHANGED <<now, mirror>>
         /\ \/ proc'[p] = Idle
            \/ /\ proc'[p].pc = proc[p].pc /\ proc'[p].pay = proc[p].pay
               /\ proc'[p].s = proc[p].s /\ proc'[p].n = proc[p].n
         /\ customer' = IF update[p].table = "customers" THEN update[p].doc ELSE customer
         /\ update[p].table # "invoices" => invoices' = invoices
         /\ update[p].table = "invoices" =>
              \E s \in Subs : \E n \in DOMAIN invoices[s] :
                 update[p].id = <<s, n>> /\ invoices' = [invoices EXCEPT ![s][n] = update[p].doc]
  <1> DEFINE u == update[p]
             r == proc[p]
             x == IF r.pc = "return" THEN Idle
                  ELSE IF r.pc \in {"run", "bill"} THEN [r EXCEPT !.docs[r.s] = u.doc] ELSE r
  <1>1. /\ invoices' = IF u.table = "invoices"
                       THEN [invoices EXCEPT ![u.id[1]][u.id[2]] = u.doc] ELSE invoices
        /\ proc' = [proc EXCEPT ![p] = x] /\ update' = [update EXCEPT ![p] = NoUpdate]
        /\ UNCHANGED <<now, mirror>> /\ u.phase = "put"
        /\ customer' = IF u.table = "customers" THEN u.doc ELSE customer
    BY DEF UpdatePut
  <1>2. x = Idle \/ (x.pc = r.pc /\ x.pay = r.pay /\ x.s = r.s /\ x.n = r.n)
    BY Facts DEF Fields
  <1> HIDE DEF x
  <1>3. OnlyMoves(p) /\ proc'[p] = x /\ update'[p] = NoUpdate
    BY <1>1, Facts DEF OnlyMoves
  <1>4. ASSUME u.table = "invoices"
        PROVE  \E s \in Subs : \E n \in DOMAIN invoices[s] :
                 u.id = <<s, n>> /\ invoices' = [invoices EXCEPT ![s][n] = u.doc]
    <2>1. PICK s \in Subs : \E n \in DOMAIN invoices[s] : u.id = <<s, n>>
      BY <1>1, <1>4, UpdateShape DEF IsInvoiceId
    <2>2. PICK n \in DOMAIN invoices[s] : u.id = <<s, n>>
      BY <2>1
    <2>3. invoices' = [invoices EXCEPT ![s][n] = u.doc]
      BY <1>1, <1>4, <2>2
    <2>. QED  BY <2>2, <2>3
  <1>. QED  BY <1>1, <1>2, <1>3, <1>4

LEMMA PutTyping ==
  ASSUME IInv, IInv', Typing, NEW p \in Processes, UpdatePut(p)
  PROVE  Typing'
  <1>0. LinkOK(proc[p]) /\ HandOK(update[p], proc[p])
    BY DEF Typing, LinksOK
  <1>1. Longer
    <2>1. CASE update[p].table # "invoices"
      BY <2>1, PutShape DEF Longer
    <2>2. CASE update[p].table = "invoices"
      <3>1. PICK s \in Subs : \E n \in DOMAIN invoices[s] :
              update[p].id = <<s, n>> /\ invoices' = [invoices EXCEPT ![s][n] = update[p].doc]
        BY <2>2, PutShape
      <3>2. DOMAIN invoices = Subs
        BY DEF IInv, Typed
      <3>3. \A t \in Subs : DOMAIN invoices'[t] = DOMAIN invoices[t]
        BY <3>1, <3>2
      <3>. QED  BY <3>3 DEF Longer
    <2>. QED  BY <2>1, <2>2
  <1>2. LinkOK(proc'[p])
    <2>1. CASE proc'[p] = Idle
      BY <2>1, IdleFree DEF LinkOK, Paying, Mirroring, Charging
    <2>2. CASE proc'[p] # Idle
      BY <1>0, <2>2, PutShape DEF LinkOK
    <2>. QED  BY <2>1, <2>2
  <1>3. HandOK(update'[p], proc'[p])
    BY PutShape DEF HandOK, NoUpdate
  <1>4. customer' \in CustomerDoc
    BY <1>0, PutShape DEF Typing, HandOK
  <1>. QED  BY <1>1, <1>2, <1>3, <1>4, PutShape, TypingKeeps DEF Typing

(* What adds an invoice.                                                   *)
LEMMA AddsInvoice ==
  ASSUME IInv, Typing, NEW p \in Processes, Bill(p) \/ Prorata(p) \/ ChargeCreate(p)
  PROVE  /\ OnlyMoves(p) /\ update'[p] = NoUpdate /\ LinkOK(proc'[p])
         /\ proc'[p].pc # "chargeCreate" /\ UNCHANGED <<now, customer, mirror>>
         /\ \E s \in Subs : \E i \in InvoiceDoc :
              /\ invoices' = [invoices EXCEPT ![s] = Append(@, i)]
              /\ \/ i.mp = NoPayment
                 \/ ChargeCreate(p) /\ proc[p].pay \in Payments /\ i.mp = proc[p].pay
                    /\ s = PaidSub[proc[p].pay]
  <1> DEFINE r == proc[p]
  <1>1. PICK pc \in {"bill", "prorata", "chargeCreate"}, to \in {"run", "sync", "chargeEnd"} :
          /\ Ready(p, pc) /\ Goto(p, to) /\ UNCHANGED <<now, customer, mirror, update>>
          /\ pc = "chargeCreate" <=> to = "chargeEnd"
    BY DEF Bill, Prorata, ChargeCreate
  <1>2. /\ r.pc = pc /\ update[p] = NoUpdate /\ DOMAIN r = Fields /\ LinkOK(r) /\ Locals(r)
        /\ r.s \in Subs /\ now \in Nat
    BY <1>1, ReadyLinks, Facts DEF Locals, OnOne
  <1>3. LinkOK([r EXCEPT !.pc = to]) /\ [r EXCEPT !.pc = to].pc = to
    <2>1. CASE pc = "chargeCreate"
      BY <1>1, <1>2, <2>1, GotoLinks DEF Charging
    <2>2. CASE pc # "chargeCreate"
      <3>1. r.pay = NoPayment
        BY <1>1, <2>2, ReadyLinks DEF Paying, Mirroring, Charging, Syncing
      <3>. QED  BY <1>1, <1>2, <2>2, <3>1, GotoLinks DEF Paying, Mirroring, Charging
    <2>. QED  BY <2>1, <2>2
  <1>4. OnlyMoves(p) /\ proc'[p] = [r EXCEPT !.pc = to] /\ update'[p] = NoUpdate
    BY <1>1, <1>2, Facts DEF Goto, Move, OnlyMoves
  <1>5. \E s \in Subs : \E i \in InvoiceDoc :
              /\ invoices' = [invoices EXCEPT ![s] = Append(@, i)]
              /\ \/ i.mp = NoPayment
                 \/ ChargeCreate(p) /\ r.pay \in Payments /\ i.mp = r.pay /\ s = PaidSub[r.pay]
    <2>1. CASE Bill(p)
      <3> DEFINE d == r.docs[r.s]
                 i == Invoice("renewal", d.start, d.end)
      <3>1. d.start \in Nat /\ d.end \in Nat
        BY <1>2 DEF Locals, Sub
      <3>2. i \in InvoiceDoc /\ i.mp = NoPayment
        BY <3>1 DEF Invoice, InvoiceDoc
      <3>3. invoices' = [invoices EXCEPT ![r.s] = Append(@, i)]
        BY <2>1 DEF Bill
      <3>. QED  BY <1>2, <3>2, <3>3
    <2>2. CASE Prorata(p)
      <3> DEFINE i == Invoice("prorata", r.at, r.at)
      <3>1. i \in InvoiceDoc /\ i.mp = NoPayment
        BY <1>2 DEF Locals, Invoice, InvoiceDoc
      <3>2. invoices' = [invoices EXCEPT ![r.s] = Append(@, i)]
        BY <2>2 DEF Prorata
      <3>. QED  BY <1>2, <3>1, <3>2
    <2>3. CASE ChargeCreate(p)
      <3> DEFINE i == [Invoice("renewal", now, now) EXCEPT !.status = "paid", !.mp = r.pay]
      <3>1. i \in InvoiceDoc /\ i.mp = r.pay
        BY <1>2 DEF Locals, Invoice, InvoiceDoc
      <3>2. invoices' = [invoices EXCEPT ![r.s] = Append(@, i)]
        BY <2>3 DEF ChargeCreate
      <3>3. r.pc = "chargeCreate"
        BY <2>3 DEF ChargeCreate, Ready
      <3>4. r.pay \in Payments /\ r.s = PaidSub[r.pay]
        BY <1>2, <3>3 DEF Locals, LinkOK, Paying, Charging
      <3>. QED  BY <1>2, <2>3, <3>1, <3>2, <3>4
    <2>. QED  BY <2>1, <2>2, <2>3
  <1>6. proc'[p].pc # "chargeCreate"
    BY <1>1, <1>3, <1>4
  <1>. QED  BY <1>1, <1>3, <1>4, <1>5, <1>6

LEMMA AddTyping ==
  ASSUME IInv, IInv', Typing, NEW p \in Processes, Bill(p) \/ Prorata(p) \/ ChargeCreate(p)
  PROVE  Typing'
  <1>1. Longer
    <2>1. PICK s \in Subs, i \in InvoiceDoc : invoices' = [invoices EXCEPT ![s] = Append(@, i)]
      BY AddsInvoice
    <2>2. invoices \in [Subs -> Seq(InvoiceDoc)]
      BY DEF IInv, Typed
    <2>3. invoices[s] \in Seq(InvoiceDoc) /\ invoices'[s] = Append(invoices[s], i)
          /\ \A t \in Subs \ {s} : invoices'[t] = invoices[t]
      BY <2>1, <2>2
    <2>4. DOMAIN invoices[s] \subseteq DOMAIN invoices'[s]
      BY <2>3
    <2>. QED  BY <2>3, <2>4 DEF Longer
  <1>2. HandOK(update'[p], proc'[p])
    BY AddsInvoice DEF HandOK, NoUpdate
  <1>. QED  BY <1>1, <1>2, AddsInvoice, TypingKeeps DEF Typing

(* Every step of a process is calm, opens a settlement, or is one of       *)
(* repo.update or of the three that add an invoice.                        *)
Other(p) == UpdateGet(p) \/ UpdatePut(p) \/ Bill(p) \/ Prorata(p) \/ ChargeCreate(p)

LEMMA StepsAre ==
  ASSUME IInv, Typing, NEW p \in Processes, StartRun(p) \/ Step(p) \/ Fails(p) \/ (p \in Desk /\ Call(p))
  PROVE  \/ Other(p)
         \/ /\ Calm(p) \/ Opens(p)
            /\ UNCHANGED <<now, customer>>
            /\ \/ UNCHANGED mirror
               \/ /\ mirror' = [mirror EXCEPT ![proc[p].pay] = proc[p].n] /\ proc[p].pay \in Payments
                  /\ proc[p].n \in 0..Len(invoices[PaidSub[proc[p].pay]])
  <1>1. CASE StartRun(p) \/ Fails(p) \/ (p \in Desk /\ Call(p))
    BY <1>1, RunCalm, FailCalm, CallCalm
  <1>2. CASE Step(p)
    <2>1. CASE SyncGet(p) \/ SyncList(p)
      BY <2>1, SyncCalm
    <2>2. CASE ListInvoices(p) \/ ListSubs(p) \/ (\E i \in proc[p].mark : Mark(p, i))
               \/ \E s \in Subs : ApplyChange(p, s) \/ Renew(p, s) \/ SetStatus(p, s)
      BY <2>2, RunCalm
    <2>3. CASE PayList(p) \/ PayGet(p) \/ UnpayGet(p) \/ MarkChurn(p) \/ Leaves(p) \/ LeavesList(p)
               \/ Returns(p) \/ \E s \in Subs : Cancel(p, s)
      BY <2>3, RouteCalm
    <2>4. CASE IngestList(p) \/ ChargeList(p)
      BY <2>4, IngestListStep, ChargeListStep
    <2>5. CASE SettleGet(p) \/ SettleList(p) \/ SaveMirror(p) \/ ChargeEnd(p)
      BY <2>5, SettleCalm
    <2>. QED  BY <1>2, <2>1, <2>2, <2>3, <2>4, <2>5 DEF Step, Other
  <1>. QED  BY <1>1, <1>2

LEMMA TypingNext == IInv /\ IInv' /\ Typing /\ [Next]_vars => Typing'
  <1> SUFFICES ASSUME IInv, IInv', Typing, [Next]_vars PROVE Typing'
    OBVIOUS
  <1>1. ASSUME NEW p \in Processes, StartRun(p) \/ Step(p) \/ Fails(p) \/ (p \in Desk /\ Call(p))
        PROVE  Typing'
    <2>1. CASE Other(p)
      BY <2>1, GetTyping, PutTyping, AddTyping DEF Other
    <2>2. CASE ~Other(p)
      <3>1. Calm(p) \/ Opens(p)
        BY <1>1, <2>2, StepsAre
      <3>2. now' <= MaxNow /\ customer' \in CustomerDoc
        BY <1>1, <2>2, StepsAre DEF Typing
      <3>3. DOMAIN mirror' = Payments /\ \A m \in Payments : mirror'[m] \in 0..Len(invoices[PaidSub[m]])
        BY <1>1, <2>2, StepsAre DEF Typing
      <3>. QED  BY <3>1, <3>2, <3>3, CalmTyping
    <2>. QED  BY <2>1, <2>2
  <1>2. CASE Wait \/ UNCHANGED vars
    <2>1. now' <= MaxNow /\ UNCHANGED <<invoices, customer, mirror, update, proc>>
      <3>1. now \in Nat /\ MaxNow \in Nat
        BY BillingAssumption DEF IInv, Typed
      <3>. QED  BY <1>2, <3>1 DEF Wait, vars, Typing
    <2>. QED  BY <2>1 DEF Typing, LinksOK, LinkOK
  <1>3. CASE \E p \in Processes : StartRun(p) \/ Step(p) \/ Fails(p)
    BY <1>1, <1>3
  <1>4. CASE \E q \in Desk : Call(q)
    BY <1>1, <1>4 DEF Processes
  <1>. QED  BY <1>2, <1>3, <1>4 DEF Next

LEMMA TypingInit == Init => Typing
  <1> SUFFICES ASSUME Init PROVE Typing
    OBVIOUS
  <1>1. Cardinality(Subs) \in Nat /\ Annualized(NewSub) \in Nat
    BY BillingAssumption, FS_CardinalityType, NewSubType, AnnualizedIsNat
  <1>2. customer \in CustomerDoc
    BY <1>1 DEF Init, CustomerDoc
  <1>3. now <= MaxNow /\ DOMAIN mirror = Payments
    BY BillingAssumption DEF Init
  <1>4. ASSUME NEW m \in Payments PROVE mirror[m] \in 0..Len(invoices[PaidSub[m]])
    <2>1. PaidSub[m] \in Subs
      BY BillingAssumption
    <2>2. Len(invoices[PaidSub[m]]) = 1 /\ mirror[m] = 0
      BY <2>1 DEF Init
    <2>. QED  BY <2>2
  <1>5. ASSUME NEW p \in Processes PROVE LinksOK(p)
    <2>1. proc[p] = Idle /\ update[p] = NoUpdate
      BY DEF Init
    <2>2. LinkOK(Idle)
      BY IdleFree DEF LinkOK, Paying, Mirroring, Charging
    <2>3. HandOK(NoUpdate, Idle)
      BY DEF HandOK, NoUpdate
    <2>. QED  BY <2>1, <2>2, <2>3 DEF LinksOK
  <1>. QED  BY <1>2, <1>3, <1>4, <1>5 DEF Typing

(* The inductive invariant of the types: what a call holds of a payment    *)
(* names an invoice that exists, and what it writes is of its table.       *)
THEOREM TypingHolds == Spec => []Typing
  <1>1. Init => Typing
    BY TypingInit
  <1>2. IInv /\ IInv' /\ Typing /\ [Next]_vars => Typing'
    BY TypingNext
  <1>. QED  BY <1>1, <1>2, Invariance, PTL DEF Spec

(* The values of each variable, of the invoice each payment is mirrored    *)
(* with, and no update without the call that began it.                     *)
THEOREM TypesHold == Spec => []TypeOK
  <1>1. IInv /\ Typing => TypeOK
    <2> SUFFICES ASSUME IInv, Typing PROVE TypeOK
      OBVIOUS
    <2>1. now \in 0..MaxNow
      BY BillingAssumption DEF IInv, Typed, Typing
    <2>2. \A p \in Processes : update[p].phase # "none" => proc[p].pc # "idle"
      BY UpdateShape
    <2>. QED  BY <2>1, <2>2 DEF TypeOK, IInv, Typed, Typing, CustomerDoc
  <1>. QED  BY <1>1, Invariance, TypingHolds, PTL
-----------------------------------------------------------------------------
(* A call is settling a payment from the list in which it did not find it  *)
(* to the write of the invoice.                                            *)
Writing(p) == update[p].phase # "none" /\ update[p].table = "invoices"
Settling(p, m) == proc[p].pay = m /\ (Writing(p) \/ proc[p].pc = "chargeCreate")

(* No two calls settle one payment at once, nor write one invoice at once. *)
OneAtATime ==
    \A p, q \in Processes : p # q =>
        /\ \A m \in Payments : ~(Settling(p, m) /\ Settling(q, m))
        /\ ~(Writing(p) /\ Writing(q) /\ update[p].id = update[q].id)

(* An invoice about to be written keeps its payment, or takes the one of   *)
(* the call, which no invoice has.                                         *)
KeepsPayment(p) ==
    update[p].phase = "put" /\ update[p].table = "invoices" =>
        \E s \in Subs : \E n \in DOMAIN invoices[s] :
            /\ update[p].id = <<s, n>>
            /\ \/ update[p].doc.mp = invoices[s][n].mp
               \/ proc[p].pay # NoPayment /\ update[p].doc.mp = proc[p].pay /\ s = PaidSub[proc[p].pay]

NotYet(m) == \A n \in DOMAIN invoices[PaidSub[m]] : invoices[PaidSub[m]][n].mp # m

SettleInv ==
    /\ \A p \in Processes : KeepsPayment(p)
    /\ \A p \in Processes, m \in Payments : Settling(p, m) => NotYet(m)
    /\ \A m \in Payments : \A a, b \in DOMAIN invoices[PaidSub[m]] :
         invoices[PaidSub[m]][a].mp = m /\ invoices[PaidSub[m]][b].mp = m => a = b

(* A step changes the payments of the invoices of s: none does, or it adds *)
(* an invoice, or it writes one.                                           *)
SamePayments ==
    \A s \in Subs : /\ DOMAIN invoices[s] \subseteq DOMAIN invoices'[s]
                    /\ \A n \in DOMAIN invoices[s] : invoices'[s][n].mp = invoices[s][n].mp
                    /\ \A n \in DOMAIN invoices'[s] \ DOMAIN invoices[s] : invoices'[s][n].mp = NoPayment

LEMMA PaidSubIsSub == \A m \in Payments : PaidSub[m] \in Subs /\ m # NoPayment
  BY BillingAssumption DEF NoPayment

LEMMA NotYetKept ==
  ASSUME SamePayments, NEW m \in Payments, NotYet(m)
  PROVE  NotYet(m)'
  BY PaidSubIsSub DEF SamePayments, NotYet

LEMMA OneStaysOne ==
  ASSUME SamePayments, NEW m \in Payments, SettleInv
  PROVE  \A a, b \in DOMAIN invoices'[PaidSub[m]] :
           invoices'[PaidSub[m]][a].mp = m /\ invoices'[PaidSub[m]][b].mp = m => a = b
  BY PaidSubIsSub DEF SamePayments, SettleInv

(* The update of a process that does not move.                             *)
LEMMA KeepsKept ==
  ASSUME SamePayments, NEW q \in Processes, proc'[q] = proc[q], update'[q] = update[q],
         KeepsPayment(q)
  PROVE  KeepsPayment(q)'
  <1> SUFFICES ASSUME update[q].phase = "put", update[q].table = "invoices"
               PROVE  \E s \in Subs : \E n \in DOMAIN invoices'[s] :
                        /\ update[q].id = <<s, n>>
                        /\ \/ update[q].doc.mp = invoices'[s][n].mp
                           \/ /\ proc[q].pay # NoPayment /\ update[q].doc.mp = proc[q].pay
                              /\ s = PaidSub[proc[q].pay]
    BY DEF KeepsPayment
  <1>1. PICK s \in Subs : \E n \in DOMAIN invoices[s] :
            /\ update[q].id = <<s, n>>
            /\ \/ update[q].doc.mp = invoices[s][n].mp
               \/ proc[q].pay # NoPayment /\ update[q].doc.mp = proc[q].pay /\ s = PaidSub[proc[q].pay]
    BY DEF KeepsPayment
  <1>2. PICK n \in DOMAIN invoices[s] :
            /\ update[q].id = <<s, n>>
            /\ \/ update[q].doc.mp = invoices[s][n].mp
               \/ proc[q].pay # NoPayment /\ update[q].doc.mp = proc[q].pay /\ s = PaidSub[proc[q].pay]
    BY <1>1
  <1>3. n \in DOMAIN invoices'[s] /\ invoices'[s][n].mp = invoices[s][n].mp
    BY DEF SamePayments
  <1>. QED  BY <1>2, <1>3

(* Steps that change no payment of an invoice: what p does of its own is   *)
(* what matters.                                                           *)
LEMMA SettleKeeps ==
  ASSUME SettleInv, SamePayments, NEW p \in Processes, OnlyMoves(p),
         KeepsPayment(p)', \A m \in Payments : Settling(p, m)' => Settling(p, m) \/ NotYet(m)
  PROVE  SettleInv'
  <1>1. ASSUME NEW q \in Processes PROVE KeepsPayment(q)'
    <2>1. CASE q = p
      BY <2>1
    <2>2. CASE q # p
      BY <2>2, KeepsKept DEF OnlyMoves, SettleInv
    <2>. QED  BY <2>1, <2>2
  <1>2. ASSUME NEW q \in Processes, NEW m \in Payments, Settling(q, m)' PROVE NotYet(m)'
    <2>1. CASE q = p
      BY <1>2, <2>1, NotYetKept DEF SettleInv
    <2>2. CASE q # p
      <3>1. Settling(q, m)
        BY <1>2, <2>2 DEF OnlyMoves, Settling, Writing
      <3>. QED  BY <3>1, NotYetKept DEF SettleInv
    <2>. QED  BY <2>1, <2>2
  <1>3. ASSUME NEW m \in Payments
        PROVE  \A a, b \in DOMAIN invoices'[PaidSub[m]] :
                 invoices'[PaidSub[m]][a].mp = m /\ invoices'[PaidSub[m]][b].mp = m => a = b
    BY OneStaysOne
  <1>. QED  BY <1>1, <1>2, <1>3 DEF SettleInv

LEMMA Same == ASSUME invoices' = invoices PROVE SamePayments
  BY DEF SamePayments

LEMMA CalmSettle ==
  ASSUME IInv, SettleInv, NEW p \in Processes, Calm(p)
  PROVE  SettleInv'
  <1>1. SamePayments /\ OnlyMoves(p)
    BY Same DEF Calm
  <1>2. KeepsPayment(p)'
    BY DEF Calm, KeepsPayment, NoUpdate, Harmless
  <1>3. \A m \in Payments : ~Settling(p, m)'
    BY PaidSubIsSub DEF Calm, Settling, Writing, NoUpdate
  <1>. QED  BY <1>1, <1>2, <1>3, SettleKeeps

LEMMA OpensSettle ==
  ASSUME IInv, SettleInv, NEW p \in Processes, Opens(p)
  PROVE  SettleInv'
  <1>1. SamePayments /\ OnlyMoves(p)
    BY Same DEF Opens
  <1>2. KeepsPayment(p)'
    BY DEF Opens, KeepsPayment, NoUpdate
  <1>3. \A m \in Payments : Settling(p, m)' => NotYet(m)
    BY DEF Opens, Settling, Settled, NotYet
  <1>. QED  BY <1>1, <1>2, <1>3, SettleKeeps

LEMMA GetSettle ==
  ASSUME IInv, Typing, SettleInv, NEW p \in Processes, UpdateGet(p)
  PROVE  SettleInv'
  <1> DEFINE r == proc[p]
             u == update[p]
             v == update'[p]
  <1>1. SamePayments
    BY Same, GetShape
  <1>2. KeepsPayment(p)'
    <2> SUFFICES ASSUME u.table = "invoices"
                 PROVE  \E s \in Subs : \E n \in DOMAIN invoices[s] :
                          /\ v.id = <<s, n>>
                          /\ \/ v.doc.mp = invoices[s][n].mp
                             \/ r.pay # NoPayment /\ v.doc.mp = r.pay /\ s = PaidSub[r.pay]
      BY GetShape DEF KeepsPayment
    <2>1. PICK s \in Subs : \E n \in DOMAIN invoices[s] : u.id = <<s, n>>
      BY GetShape, UpdateShape DEF IsInvoiceId
    <2>2. PICK n \in DOMAIN invoices[s] : u.id = <<s, n>>
      BY <2>1
    <2>3. invoices[s][n] \in InvoiceDoc /\ Stored(u) = invoices[s][n]
      BY <2>2 DEF Stored, IInv, Typed
    <2>4. v.doc.mp = IF "mp" \in DOMAIN u.doc THEN u.doc.mp ELSE invoices[s][n].mp
      <3>1. v.doc = Merge(invoices[s][n], u.doc) /\ "mp" \in DOMAIN invoices[s][n]
        BY <2>3, GetShape DEF InvoiceDoc
      <3>. QED  BY <3>1 DEF Merge
    <2>5. "mp" \in DOMAIN u.doc => r.pay # NoPayment /\ u.doc.mp = r.pay /\ s = PaidSub[r.pay]
      BY <2>2, GetShape DEF Typing, LinksOK, HandOK, LinkOK
    <2>. QED  BY <2>2, <2>4, <2>5, GetShape
  <1>3. \A m \in Payments : Settling(p, m)' => Settling(p, m)
    BY GetShape DEF Settling, Writing
  <1>. QED  BY <1>1, <1>2, <1>3, GetShape, SettleKeeps

(* The write of an invoice: of the payment it had, or of one no other call *)
(* settles and no invoice has.                                             *)
LEMMA PutSettle ==
  ASSUME IInv, IInv', Typing, SettleInv, OneAtATime, NEW p \in Processes, UpdatePut(p)
  PROVE  SettleInv'
  <1> DEFINE r == proc[p]
             u == update[p]
  <1>0. /\ KeepsPayment(p)'
        /\ \A m \in Payments : ~Settling(p, m)'
    <2>1. proc'[p].pc # "chargeCreate"
      BY PutShape, IdleFree DEF Typing, LinksOK, HandOK, NoUpdate
    <2>. QED  BY <2>1, PutShape DEF KeepsPayment, Settling, Writing, NoUpdate
  <1>1. CASE u.table # "invoices"
    BY <1>0, <1>1, PutShape, Same, SettleKeeps
  <1>2. CASE u.table = "invoices"
    <2>1. PICK s \in Subs : \E n \in DOMAIN invoices[s] :
            /\ u.id = <<s, n>>
            /\ \/ u.doc.mp = invoices[s][n].mp
               \/ r.pay # NoPayment /\ u.doc.mp = r.pay /\ s = PaidSub[r.pay]
      BY <1>2, PutShape DEF SettleInv, KeepsPayment
    <2>2. PICK n \in DOMAIN invoices[s] :
            /\ u.id = <<s, n>>
            /\ \/ u.doc.mp = invoices[s][n].mp
               \/ r.pay # NoPayment /\ u.doc.mp = r.pay /\ s = PaidSub[r.pay]
      BY <2>1
    <2>3. invoices' = [invoices EXCEPT ![s][n] = u.doc]
      BY <1>2, <2>2, PutShape
    <2>4. /\ \A t \in Subs : DOMAIN invoices'[t] = DOMAIN invoices[t]
          /\ invoices'[s][n] = u.doc
          /\ \A t \in Subs : \A k \in DOMAIN invoices[t] : t # s \/ k # n => invoices'[t][k] = invoices[t][k]
      BY <2>3 DEF IInv, Typed
    <2>5. CASE u.doc.mp = invoices[s][n].mp
      <3>1. SamePayments
        <4>1. ASSUME NEW t \in Subs, NEW k \in DOMAIN invoices[t]
              PROVE  invoices'[t][k].mp = invoices[t][k].mp
          <5>1. CASE t = s /\ k = n
            BY <2>4, <2>5, <5>1
          <5>2. CASE ~(t = s /\ k = n)
            BY <2>4, <5>2
          <5>. QED  BY <5>1, <5>2
        <4>. QED  BY <2>4, <4>1 DEF SamePayments
      <3>. QED  BY <1>0, <3>1, PutShape, SettleKeeps
    <2>6. CASE r.pay # NoPayment /\ u.doc.mp = r.pay /\ s = PaidSub[r.pay]
      <3>1. PICK m \in Payments : m = r.pay
        BY <2>6, Facts DEF Locals
      <3>2. Settling(p, m) /\ NotYet(m) /\ s = PaidSub[m]
        BY <1>2, <2>6, <3>1, PutShape DEF SettleInv, Settling, Writing
      <3>3. ASSUME NEW q \in Processes, q # p PROVE ~Settling(q, m)
        BY <3>2, <3>3 DEF OneAtATime
      <3>4. ASSUME NEW q \in Processes PROVE KeepsPayment(q)'
        <4>1. CASE q = p
          BY <1>0, <4>1
        <4>2. CASE q # p
          <5>1. proc'[q] = proc[q] /\ update'[q] = update[q]
            BY <4>2, PutShape DEF OnlyMoves
          <5> SUFFICES ASSUME update[q].phase = "put", update[q].table = "invoices"
                       PROVE  \E t \in Subs : \E k \in DOMAIN invoices'[t] :
                                /\ update[q].id = <<t, k>>
                                /\ \/ update[q].doc.mp = invoices'[t][k].mp
                                   \/ /\ proc[q].pay # NoPayment /\ update[q].doc.mp = proc[q].pay
                                      /\ t = PaidSub[proc[q].pay]
            BY <5>1 DEF KeepsPayment
          <5>2. PICK t \in Subs : \E k \in DOMAIN invoices[t] :
                    /\ update[q].id = <<t, k>>
                    /\ \/ update[q].doc.mp = invoices[t][k].mp
                       \/ proc[q].pay # NoPayment /\ update[q].doc.mp = proc[q].pay /\ t = PaidSub[proc[q].pay]
            BY DEF SettleInv, KeepsPayment
          <5>3. PICK k \in DOMAIN invoices[t] :
                    /\ update[q].id = <<t, k>>
                    /\ \/ update[q].doc.mp = invoices[t][k].mp
                       \/ proc[q].pay # NoPayment /\ update[q].doc.mp = proc[q].pay /\ t = PaidSub[proc[q].pay]
            BY <5>2
          <5>4. update[q].id # u.id
            BY <1>2, <4>2, PutShape DEF OneAtATime, Writing
          <5>5. t # s \/ k # n
            BY <2>2, <5>3, <5>4
          <5>6. k \in DOMAIN invoices'[t] /\ invoices'[t][k] = invoices[t][k]
            BY <2>4, <5>5
          <5>. QED  BY <5>3, <5>6
        <4>. QED  BY <4>1, <4>2
      <3>5. ASSUME NEW q \in Processes, NEW z \in Payments, Settling(q, z)' PROVE NotYet(z)'
        <4>1. q # p
          BY <1>0, <3>5
        <4>2. Settling(q, z)
          BY <3>5, <4>1, PutShape DEF OnlyMoves, Settling, Writing
        <4>3. z # m /\ NotYet(z)
          BY <3>3, <4>1, <4>2 DEF SettleInv
        <4>4. \A k \in DOMAIN invoices[PaidSub[z]] : invoices'[PaidSub[z]][k].mp # z
          <5> TAKE k \in DOMAIN invoices[PaidSub[z]]
          <5>1. CASE PaidSub[z] = s /\ k = n
            BY <2>4, <2>6, <3>1, <4>3, <5>1
          <5>2. CASE ~(PaidSub[z] = s /\ k = n)
            BY <2>4, <4>3, <5>2, PaidSubIsSub DEF NotYet
          <5>. QED  BY <5>1, <5>2
        <4>. QED  BY <2>4, <4>4, PaidSubIsSub DEF NotYet
      <3>6. ASSUME NEW z \in Payments, NEW a \in DOMAIN invoices'[PaidSub[z]],
                   NEW b \in DOMAIN invoices'[PaidSub[z]],
                   invoices'[PaidSub[z]][a].mp = z, invoices'[PaidSub[z]][b].mp = z
            PROVE  a = b
        <4>1. a \in DOMAIN invoices[PaidSub[z]] /\ b \in DOMAIN invoices[PaidSub[z]] /\ PaidSub[z] \in Subs
          BY <2>4, PaidSubIsSub
        <4>2. CASE z = m
          <5>1. \A k \in DOMAIN invoices[s] : k # n => invoices'[s][k].mp # m
            BY <2>4, <3>2 DEF NotYet
          <5>. QED  BY <3>2, <3>6, <4>1, <4>2, <5>1
        <4>3. CASE z # m
          <5>1. \A k \in DOMAIN invoices[PaidSub[z]] : invoices'[PaidSub[z]][k].mp = z =>
                  invoices[PaidSub[z]][k].mp = z
            <6> TAKE k \in DOMAIN invoices[PaidSub[z]]
            <6>1. CASE PaidSub[z] = s /\ k = n
              BY <2>4, <2>6, <3>1, <4>3, <6>1
            <6>2. CASE ~(PaidSub[z] = s /\ k = n)
              BY <2>4, <4>1, <6>2
            <6>. QED  BY <6>1, <6>2
          <5>. QED  BY <3>6, <4>1, <5>1 DEF SettleInv
        <4>. QED  BY <4>2, <4>3
      <3>. QED  BY <3>4, <3>5, <3>6 DEF SettleInv
    <2>. QED  BY <2>2, <2>5, <2>6
  <1>. QED  BY <1>1, <1>2

(* An invoice created with a payment that no other call settles.           *)
LEMMA AddSettle ==
  ASSUME IInv, IInv', Typing, SettleInv, OneAtATime, NEW p \in Processes,
         Bill(p) \/ Prorata(p) \/ ChargeCreate(p)
  PROVE  SettleInv'
  <1>1. PICK s \in Subs : \E i \in InvoiceDoc :
          /\ invoices' = [invoices EXCEPT ![s] = Append(@, i)]
          /\ \/ i.mp = NoPayment
             \/ ChargeCreate(p) /\ proc[p].pay \in Payments /\ i.mp = proc[p].pay /\ s = PaidSub[proc[p].pay]
    BY AddsInvoice
  <1>2. PICK i \in InvoiceDoc :
          /\ invoices' = [invoices EXCEPT ![s] = Append(@, i)]
          /\ \/ i.mp = NoPayment
             \/ ChargeCreate(p) /\ proc[p].pay \in Payments /\ i.mp = proc[p].pay /\ s = PaidSub[proc[p].pay]
    BY <1>1
  <1>3. PICK l : l = Len(invoices[s]) + 1
    OBVIOUS
  <1>4. /\ \A t \in Subs : \A n \in DOMAIN invoices[t] : n \in DOMAIN invoices'[t] /\ invoices'[t][n] = invoices[t][n]
        /\ \A t \in Subs : t # s => invoices'[t] = invoices[t]
        /\ DOMAIN invoices'[s] = DOMAIN invoices[s] \cup {l} /\ l \notin DOMAIN invoices[s]
        /\ invoices'[s][l] = i
    <2>1. invoices \in [Subs -> Seq(InvoiceDoc)] /\ invoices[s] \in Seq(InvoiceDoc)
      BY DEF IInv, Typed
    <2>2. invoices'[s] = Append(invoices[s], i) /\ \A t \in Subs : t # s => invoices'[t] = invoices[t]
      BY <1>2, <2>1
    <2>3. /\ \A n \in DOMAIN invoices[s] : n \in DOMAIN invoices'[s] /\ invoices'[s][n] = invoices[s][n]
          /\ DOMAIN invoices'[s] = DOMAIN invoices[s] \cup {l} /\ l \notin DOMAIN invoices[s]
          /\ invoices'[s][l] = i
      BY <1>3, <2>1, <2>2
    <2>. QED  BY <2>2, <2>3
  <1>5. OnlyMoves(p) /\ KeepsPayment(p)' /\ \A m \in Payments : ~Settling(p, m)'
    BY AddsInvoice DEF KeepsPayment, Settling, Writing, NoUpdate
  <1>6. CASE i.mp = NoPayment
    <2>1. ASSUME NEW t \in Subs
          PROVE  /\ DOMAIN invoices[t] \subseteq DOMAIN invoices'[t]
                 /\ \A n \in DOMAIN invoices[t] : invoices'[t][n].mp = invoices[t][n].mp
                 /\ \A n \in DOMAIN invoices'[t] \ DOMAIN invoices[t] : invoices'[t][n].mp = NoPayment
      BY <1>4, <1>6
    <2>2. SamePayments
      BY <2>1 DEF SamePayments
    <2>. QED  BY <1>5, <2>2, SettleKeeps
  <1>7. CASE ChargeCreate(p) /\ proc[p].pay \in Payments /\ i.mp = proc[p].pay /\ s = PaidSub[proc[p].pay]
    <2>1. PICK m \in Payments : m = proc[p].pay
      BY <1>7
    <2>2. Settling(p, m) /\ NotYet(m) /\ s = PaidSub[m] /\ i.mp = m
      BY <1>7, <2>1 DEF ChargeCreate, Ready, SettleInv, Settling
    <2>3. ASSUME NEW q \in Processes, q # p PROVE ~Settling(q, m)
      BY <2>2, <2>3 DEF OneAtATime
    <2>4. ASSUME NEW q \in Processes PROVE KeepsPayment(q)'
      <3>1. CASE q = p
        BY <1>5, <3>1
      <3>2. CASE q # p
        <4>1. proc'[q] = proc[q] /\ update'[q] = update[q] /\ KeepsPayment(q)
          BY <1>5, <3>2 DEF OnlyMoves, SettleInv
        <4>. QED  BY <1>4, <4>1 DEF KeepsPayment
      <3>. QED  BY <3>1, <3>2
    <2>5. ASSUME NEW q \in Processes, NEW z \in Payments, Settling(q, z)' PROVE NotYet(z)'
      <3>1. q # p
        BY <1>5, <2>5
      <3>2. Settling(q, z)
        BY <1>5, <2>5, <3>1 DEF OnlyMoves, Settling, Writing
      <3>3. z # m /\ NotYet(z)
        BY <2>3, <3>1, <3>2 DEF SettleInv
      <3>. QED  BY <1>4, <2>2, <3>3, PaidSubIsSub DEF NotYet
    <2>6. ASSUME NEW z \in Payments, NEW a \in DOMAIN invoices'[PaidSub[z]],
                 NEW b \in DOMAIN invoices'[PaidSub[z]],
                 invoices'[PaidSub[z]][a].mp = z, invoices'[PaidSub[z]][b].mp = z
          PROVE  a = b
      <3>1. CASE z = m
        <4>1. \A k \in DOMAIN invoices[s] : invoices'[s][k].mp # m
          BY <1>4, <2>2 DEF NotYet
        <4>. QED  BY <1>4, <2>2, <2>6, <3>1, <4>1
      <3>2. CASE z # m
        <4>1. \A k \in DOMAIN invoices'[PaidSub[z]] : invoices'[PaidSub[z]][k].mp = z =>
                k \in DOMAIN invoices[PaidSub[z]] /\ invoices[PaidSub[z]][k].mp = z
          BY <1>4, <2>2, <3>2, PaidSubIsSub
        <4>. QED  BY <2>6, <4>1 DEF SettleInv
      <3>. QED  BY <3>1, <3>2
    <2>. QED  BY <2>4, <2>5, <2>6 DEF SettleInv
  <1>. QED  BY <1>2, <1>6, <1>7

LEMMA SettleNext == IInv /\ IInv' /\ Typing /\ SettleInv /\ OneAtATime /\ [Next]_vars => SettleInv'
  <1> SUFFICES ASSUME IInv, IInv', Typing, SettleInv, OneAtATime, [Next]_vars PROVE SettleInv'
    OBVIOUS
  <1>1. ASSUME NEW p \in Processes, StartRun(p) \/ Step(p) \/ Fails(p) \/ (p \in Desk /\ Call(p))
        PROVE  SettleInv'
    <2>1. CASE Other(p)
      BY <2>1, GetSettle, PutSettle, AddSettle DEF Other
    <2>2. CASE ~Other(p)
      <3>1. Calm(p) \/ Opens(p)
        BY <1>1, <2>2, StepsAre
      <3>. QED  BY <3>1, CalmSettle, OpensSettle
    <2>. QED  BY <2>1, <2>2
  <1>2. CASE Wait \/ UNCHANGED vars
    <2>1. UNCHANGED <<invoices, update, proc>>
      BY <1>2 DEF Wait, vars
    <2>. QED  BY <2>1 DEF SettleInv, KeepsPayment, Settling, Writing, NotYet
  <1>3. CASE \E p \in Processes : StartRun(p) \/ Step(p) \/ Fails(p)
    BY <1>1, <1>3
  <1>4. CASE \E q \in Desk : Call(q)
    BY <1>1, <1>4 DEF Processes
  <1>. QED  BY <1>2, <1>3, <1>4 DEF Next

LEMMA SettleInit == Init => SettleInv
  <1> SUFFICES ASSUME Init PROVE SettleInv
    OBVIOUS
  <1>1. \A p \in Processes : proc[p] = Idle /\ update[p] = NoUpdate
    BY DEF Init
  <1>2. \A p \in Processes : KeepsPayment(p) /\ \A m \in Payments : ~Settling(p, m)
    BY <1>1, IdleFree DEF KeepsPayment, Settling, Writing, NoUpdate
  <1>3. \A m \in Payments : \A a, b \in DOMAIN invoices[PaidSub[m]] : a = b
    <2> TAKE m \in Payments
    <2>1. invoices[PaidSub[m]] = <<Invoice("renewal", 0, FirstPlan.cycle)>>
      BY PaidSubIsSub DEF Init
    <2>2. DOMAIN invoices[PaidSub[m]] = {1}
      BY <2>1
    <2>. QED  BY <2>2
  <1>. QED  BY <1>2, <1>3 DEF SettleInv

(* A payment settles at most one invoice, through stops, redeliveries and  *)
(* whatever else runs, unless two calls settle it at once or two write one *)
(* invoice at once: the overlaps that nothing in the code keeps apart are  *)
(* the only way to settle it twice.                                        *)
THEOREM SettledOnceHolds == Spec /\ []OneAtATime => []SettledOnce
  <1>1. Init => SettleInv
    BY SettleInit
  <1>2. IInv /\ IInv' /\ Typing /\ SettleInv /\ OneAtATime /\ [Next]_vars => SettleInv'
    BY SettleNext
  <1>3. SettleInv => SettledOnce
    <2> SUFFICES ASSUME SettleInv, NEW m \in Payments
                 PROVE  Cardinality({n \in DOMAIN invoices[PaidSub[m]] : invoices[PaidSub[m]][n].mp = m}) <= 1
      BY DEF SettledOnce
    <2> DEFINE S == {n \in DOMAIN invoices[PaidSub[m]] : invoices[PaidSub[m]][n].mp = m}
    <2>1. \A a, b \in S : a = b
      BY DEF SettleInv
    <2>2. CASE S = {}
      BY <2>2, FS_EmptySet
    <2>3. CASE S # {}
      <3>1. PICK a \in S : S = {a}
        BY <2>1, <2>3
      <3>2. Cardinality({a}) = 1
        BY FS_Singleton
      <3>. QED  BY <3>1, <3>2
    <2>. QED  BY <2>2, <2>3
  <1>. QED  BY <1>1, <1>2, <1>3, Invariance, TypingHolds, PTL DEF Spec
====
