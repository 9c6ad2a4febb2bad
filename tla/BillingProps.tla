--------------------------- MODULE BillingProps ---------------------------
(***************************************************************************)
(* What billing is expected to do.                                         *)
(***************************************************************************)
EXTENDS Billing

ScheduledChange == {NoChange} \cup [at : Nat, price : Nat, cycle : Nat \ {0}]
Sub == [status : Live \cup {"paused", "canceled"}, start : Nat, end : Nat, price : Nat,
        cycle : Nat \ {0}, pending : ScheduledChange]
InvoiceDoc == [kind : {"renewal", "prorata"}, due : Nat, to : Nat,
               status : {"open", "overdue", "paid"}, mp : Payments \cup {NoPayment}]

(* The values each variable may hold.                                      *)
TypeOK ==
    /\ now \in 0..MaxNow
    /\ sub \in [Subs -> Sub]
    /\ invoices \in [Subs -> Seq(InvoiceDoc)]
    /\ customer \in [arr : Nat, left : {"no", "manual", "mp"}]
    /\ \A m \in Payments : mirror[m] \in 0..Len(invoices[PaidSub[m]])
    /\ \A p \in Processes : update[p].phase # "none" => proc[p].pc # "idle"

(* Every day of a subscription before the end of its period is in the      *)
(* period of an invoice, or the run that moved the period on is about to   *)
(* create it, or ended before it could: no overlap of runs, routes and     *)
(* payments skips a period.                                                *)
Billed(s, t) ==
    \/ \E n \in DOMAIN invoices[s] :
         invoices[s][n].kind = "renewal" /\ invoices[s][n].due <= t /\ t < invoices[s][n].to
    \/ \E p \in Processes : /\ Ready(p, "bill") /\ proc[p].s = s
                            /\ proc[p].docs[s].start <= t /\ t < proc[p].docs[s].end
    \/ \E x \in lost[s] : x.from <= t /\ t < x.to

PeriodsBilled == \A s \in Subs : \A t \in 0..(sub[s].end - 1) : Billed(s, t)

(* billing.js: past due when something stays unpaid after the grace,       *)
(* active again when nothing does, whatever happened meanwhile.            *)
DunningSettles ==
    \A s \in Subs : <>[](sub[s].status \in Live =>
        (sub[s].status = "past_due" <=>
            \E n \in DOMAIN invoices[s] : Unpaid(s, n) /\ IsLate(s, n, now)))

(* A live subscription's period ends up containing the present, through    *)
(* failed runs, late runs and changes of cycle.                            *)
RenewalsCatchUp == \A s \in Subs : <>[](sub[s].status \in Live => sub[s].end > now)

(* mp-payments.js: at most one invoice per payment, however the webhook,   *)
(* the sync and redeliveries of one payment overlap.                       *)
SettledOnce ==
    \A m \in Payments :
        Cardinality({n \in DOMAIN invoices[PaidSub[m]] : invoices[PaidSub[m]][n].mp = m}) <= 1
=============================================================================
