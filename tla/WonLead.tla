------------------------------- MODULE WonLead -------------------------------
(***************************************************************************)
(* A lead that is won and won back (crm/won-lead.js, lead-flow.js,         *)
(* sale-cancel.js, routes.crud.js, billing/routes.billing.js): moving the  *)
(* card to a won stage makes a customer with its subscription and first    *)
(* invoice; pulling it back, cancelling the sale or the button on the      *)
(* customer removes them, unless real money came in.                       *)
(*                                                                         *)
(* Every query of a request is a step and nothing keeps two requests       *)
(* apart.  A subscription and an invoice go by the name of their customer. *)
(***************************************************************************)
EXTENDS Integers

CONSTANTS
    Calls,       \* requests in flight at once
    Mixes        \* bound: what a behaviour may meet, one of a set of records

Events == {"move", "cancel", "revertWin", "pay", "error", "restart"}
ASSUME WonLeadAssumption == Mixes \subseteq [Events -> Nat]

VARIABLES
    lead,        \* the row: its stage by kind, and the stamps of the sale
    customers,   \* the customers born of the lead
    subs,        \* those with a subscription
    invoices,    \* those with an invoice
    paid,        \* those whose invoice the gateway settled
    made,        \* customers created so far
    call,        \* request -> its locals
    left,        \* what may still happen
    from,        \* auxiliary: the stage the lead came from
    clean,       \* auxiliary: no fault and no two requests at once, ever
    alone,       \* auxiliary: ... since the last request began
    crossed,     \* auxiliary: two conversions looked before either created
    late         \* auxiliary: customers paid after a request looked for money

baseVars == <<subs, invoices, paid>>
auxVars == <<clean, alone, crossed, late>>
vars == <<lead, customers, baseVars, made, call, left, from, auxVars>>

None == 0
Stages == {"open", "won", "lost"}   \* Integracao and post-sale stages are won too
Removing == {"unbill", "unsubscribe", "uncustomer"}

HasSale(l) == l.customer # None \/ l.won

(* What a request writes on the lead: the stage, no sale, both, a sale.    *)
Moved(to) == [stage |-> to]
Unsold == [customer |-> None, won |-> FALSE]
MovedUnsold(to) == [stage |-> to, customer |-> None, won |-> FALSE]
Stamp(c) == [customer |-> c, won |-> TRUE]
Merge(doc, patch) == [f \in DOMAIN doc |-> IF f \in DOMAIN patch THEN patch[f] ELSE doc[f]]

NoCall == [pc |-> "idle", op |-> "move", to |-> "open", doc |-> MovedUnsold("open"), patch |-> Unsold,
           next |-> "idle", c |-> None,
           sub |-> FALSE, bill |-> FALSE, swallow |-> FALSE]

Init ==
    /\ lead = MovedUnsold("open")
    /\ customers = {} /\ subs = {} /\ invoices = {} /\ paid = {}
    /\ made = 0
    /\ call = [p \in Calls |-> NoCall]
    /\ left \in Mixes
    /\ from = "open"
    /\ clean = TRUE /\ alone = TRUE
    /\ crossed = FALSE /\ late = {}

Spend(e) == left[e] > 0 /\ left' = [left EXCEPT ![e] = @ - 1]
Become(p, r) == call' = [call EXCEPT ![p] = r]
Goto(p, l) == Become(p, [call[p] EXCEPT !.pc = l])
At(p, l) == call[p].pc = l
RealBilling(c) == c \in paid /\ c \in invoices

(* The customer a request takes for the lead's: the stamped one, or the    *)
(* first of the list, which is in the order of random ids, that came of it.*)
CustomerOf(doc) ==
    IF doc.customer \in customers THEN {doc.customer}
    ELSE IF customers = {} THEN {None} ELSE customers

-----------------------------------------------------------------------------
(* The requests.                                                           *)
Begin(p, op, to, c) ==
    /\ At(p, "idle")
    /\ Spend(op)
    /\ Become(p, [NoCall EXCEPT !.pc = op, !.op = op, !.to = to, !.c = c])
    /\ alone' = \A q \in Calls : At(q, "idle")
    /\ clean' = (clean /\ alone')
    /\ UNCHANGED <<lead, customers, baseVars, made, from, crossed, late>>

PatchLead(p, to) == Begin(p, "move", to, None)
CancelSale(p, to) == Begin(p, "cancel", to, None)
RevertWin(p, c) == c \in customers /\ Begin(p, "revertWin", "open", c)

Steps(p) == UNCHANGED <<made, left, from, auxVars>>
Reads(p) == Steps(p) /\ UNCHANGED <<lead, customers, baseVars>>

(* applyStageMove undoes the sale when the card goes back to the open      *)
(* funnel from a stage of the sale.                                        *)
Undoes(doc, to) == doc.stage = "won" /\ to = "open" /\ HasSale(doc)

(* The patch is stored at once, or after revertWonLead.                    *)
Then(p, doc, patch, revert, swallow) ==
    Become(p, [call[p] EXCEPT !.pc = IF revert THEN "revert" ELSE "get", !.doc = doc,
                              !.patch = patch, !.swallow = swallow,
                              !.next = IF call[p].op = "move" /\ call[p].to = "won"
                                       THEN "convert" ELSE "idle"])

(* A slip: the stamps stay.                                                *)
MoveKeepsStamps(p) ==
    /\ At(p, "move")
    /\ Then(p, lead, Moved(call[p].to), Undoes(lead, call[p].to), TRUE)
    /\ Reads(p)

MoveLead(p) ==
    /\ At(p, "move")
    /\ LET to == call[p].to IN
       IF Undoes(lead, to)
       THEN Then(p, lead, MovedUnsold(to), TRUE, TRUE)
       ELSE Then(p, lead, Moved(to), FALSE, FALSE)
    /\ Reads(p)

(* cancelLeadSale, with a stage out of the sale: 409 when nothing was sold.*)
CancelRead(p) ==
    /\ At(p, "cancel")
    /\ IF lead.stage # "won" /\ ~HasSale(lead)
       THEN Become(p, NoCall)
       ELSE Become(p, [call[p] EXCEPT !.pc = "check", !.doc = lead])
    /\ Reads(p)

(* The move, which may undo the sale, and revertWonLead when it did not.   *)
CancelMove(p) ==
    LET doc == call[p].doc
        to == call[p].to
    IN  Then(p, doc, IF to = doc.stage THEN Unsold ELSE MovedUnsold(to), TRUE, Undoes(doc, to))

(* realBillingOf, its lists as one read: 409 on real money.                *)
CancelCheck(p) ==
    /\ At(p, "check") /\ call[p].op = "cancel"
    /\ \E c \in CustomerOf(call[p].doc) :
         IF RealBilling(c) THEN Become(p, NoCall) ELSE CancelMove(p)
    /\ Reads(p)

(* POST /api/customers/:id/revert-win: 409 on real money ...               *)
RevertWinCheck(p) ==
    /\ At(p, "revertWin")
    /\ IF RealBilling(call[p].c) THEN Become(p, NoCall) ELSE Goto(p, "check")
    /\ Reads(p)

(* ... else the card is pulled back, or what stuck to it is cleared.       *)
RevertWinLead(p) ==
    /\ At(p, "check") /\ call[p].op = "revertWin"
    /\ IF lead.stage = "won" /\ ~HasSale(lead)
       THEN Then(p, lead, Moved("open"), FALSE, FALSE)
       ELSE IF lead.stage = "won" THEN Then(p, lead, MovedUnsold("open"), TRUE, TRUE)
       ELSE Then(p, lead, Unsold, TRUE, FALSE)
    /\ Reads(p)

-----------------------------------------------------------------------------
(* revertWonLead.                                                          *)
RevertFind(p) ==
    /\ At(p, "revert")
    /\ \E c \in CustomerOf(call[p].doc) :
         Become(p, [call[p] EXCEPT !.pc = IF c = None THEN "get" ELSE "listSubs", !.c = c])
    /\ Reads(p)

RevertSubs(p) ==
    /\ At(p, "listSubs")
    /\ Become(p, [call[p] EXCEPT !.pc = "listBills", !.sub = call[p].c \in subs])
    /\ Reads(p)

(* A slip: nobody asks for real money.                                     *)
RevertUnasked(p) ==
    /\ At(p, "listBills")
    /\ Become(p, [call[p] EXCEPT !.pc = "unbill", !.bill = call[p].c \in invoices])
    /\ Reads(p)

RevertBills(p) ==
    LET c == call[p].c IN
    /\ At(p, "listBills")
    /\ Become(p, [call[p] EXCEPT !.pc = IF RealBilling(c) THEN "get" ELSE "unbill",
                                 !.bill = c \in invoices])
    /\ Reads(p)

Remove(p) ==
    LET r == call[p] IN
    \/ /\ At(p, "unbill")
       /\ invoices' = IF r.bill THEN invoices \ {r.c} ELSE invoices
       /\ Goto(p, "unsubscribe")
       /\ UNCHANGED <<customers, subs>>
    \/ /\ At(p, "unsubscribe")
       /\ subs' = IF r.sub THEN subs \ {r.c} ELSE subs
       /\ Goto(p, "uncustomer")
       /\ UNCHANGED <<customers, invoices>>
    \/ /\ At(p, "uncustomer")
       /\ customers' = customers \ {r.c}
       /\ Goto(p, "get")
       /\ UNCHANGED <<subs, invoices>>

RevertRemove(p) == Remove(p) /\ Steps(p) /\ UNCHANGED <<lead, paid>>

-----------------------------------------------------------------------------
(* repo.update of the lead: read, then written whole.                      *)
(* A slip: the patch becomes the document.                                 *)
UpdateReplaces(p) ==
    /\ At(p, "get")
    /\ Become(p, [call[p] EXCEPT !.pc = "put", !.doc = call[p].patch])
    /\ Reads(p)

UpdateGet(p) ==
    /\ At(p, "get")
    /\ Become(p, [call[p] EXCEPT !.pc = "put", !.doc = Merge(lead, call[p].patch)])
    /\ Reads(p)

UpdatePut(p) ==
    /\ At(p, "put")
    /\ lead' = call[p].doc
    /\ from' = IF lead'.stage = lead.stage THEN from ELSE lead.stage
    /\ IF call[p].next = "idle" THEN Become(p, NoCall) ELSE Goto(p, call[p].next)
    /\ UNCHANGED <<customers, baseVars, made, left, auxVars>>

(* convertWonLead: a customer born of the lead is linked again, ...        *)
Looked(p) ==
    /\ crossed' = (crossed \/ (customers = {} /\ \E q \in Calls : At(q, "create")))
    /\ UNCHANGED <<lead, customers, baseVars, made, left, from, clean, alone, late>>

(* Slips: the customer is looked for by the stamp; one found is left.      *)
ConvertByStamp(p) ==
    /\ At(p, "convert")
    /\ IF call[p].doc.customer \in customers THEN Become(p, NoCall) ELSE Goto(p, "create")
    /\ Looked(p)

ConvertLeaves(p) ==
    /\ At(p, "convert")
    /\ IF customers = {} THEN Goto(p, "create") ELSE Become(p, NoCall)
    /\ Looked(p)

ConvertList(p) ==
    LET doc == call[p].doc IN
    /\ At(p, "convert")
    /\ IF customers = {} THEN Goto(p, "create")
       ELSE \E c \in customers :
              IF doc.customer # c \/ ~doc.won
              THEN Become(p, [call[p] EXCEPT !.pc = "get", !.patch = Stamp(c), !.next = "idle"])
              ELSE Become(p, NoCall)
    /\ Looked(p)

(* ... and where there is none, one is created and stamped on the lead.    *)
ConvertCreate(p) ==
    LET c == made + 1 IN
    /\ At(p, "create")
    /\ customers' = customers \cup {c}
    /\ made' = c
    /\ Become(p, [call[p] EXCEPT !.pc = "get", !.c = c, !.patch = Stamp(c), !.next = "subscribe"])
    /\ UNCHANGED <<lead, baseVars, left, from, auxVars>>

(* createClosedSubscription, best effort.                                  *)
Subscribe(p) ==
    /\ At(p, "subscribe")
    /\ subs' = subs \cup {call[p].c}
    /\ Goto(p, "bill")
    /\ Steps(p) /\ UNCHANGED <<lead, customers, invoices, paid>>

Bill(p) ==
    /\ At(p, "bill")
    /\ invoices' = invoices \cup {call[p].c}
    /\ Become(p, NoCall)
    /\ Steps(p) /\ UNCHANGED <<lead, customers, subs, paid>>

-----------------------------------------------------------------------------
(* A payment of the gateway settles an invoice (Billing has the details).  *)
Pay(c) ==
    /\ c \in invoices \ paid
    /\ Spend("pay")
    /\ paid' = paid \cup {c}
    /\ late' = IF \E p \in Calls : call[p].c = c /\ call[p].pc \in Removing
               THEN late \cup {c} ELSE late
    /\ UNCHANGED <<lead, customers, subs, invoices, made, call, from, clean, alone, crossed>>

Fault(e) ==
    /\ Spend(e)
    /\ clean' = FALSE /\ alone' = FALSE
    /\ UNCHANGED <<lead, customers, baseVars, made, from, crossed, late>>

(* A query throws.  applyStageMove goes on when it is one of revertWonLead;*)
(* any other ends the request, with an error or, in the conversion, with   *)
(* what was stored by then.                                                *)
QueryFails(p) ==
    /\ call[p].pc \notin {"idle", "revert"}
    /\ IF call[p].pc \in {"listSubs", "listBills"} \cup Removing /\ call[p].swallow
       THEN Goto(p, "get") ELSE Become(p, NoCall)
    /\ Fault("error")

(* A failure of the list of customers is taken for an empty one.           *)
ListFails(p) ==
    /\ \/ At(p, "revert") /\ Goto(p, "get")
       \/ At(p, "check") /\ call[p].op = "cancel" /\ CancelMove(p)
    /\ Fault("error")

Restart ==
    /\ \E p \in Calls : ~At(p, "idle")
    /\ call' = [p \in Calls |-> NoCall]
    /\ Fault("restart")

CallNext(p) ==
    \/ \E to \in Stages : PatchLead(p, to)
    \/ \E to \in {"open", "lost"} : CancelSale(p, to)
    \/ \E c \in customers : RevertWin(p, c)
    \/ MoveLead(p) \/ CancelRead(p) \/ CancelCheck(p)
    \/ RevertWinCheck(p) \/ RevertWinLead(p)
    \/ RevertFind(p) \/ RevertSubs(p) \/ RevertBills(p) \/ RevertRemove(p)
    \/ UpdateGet(p) \/ UpdatePut(p)
    \/ ConvertList(p) \/ ConvertCreate(p) \/ Subscribe(p) \/ Bill(p)
    \/ QueryFails(p) \/ ListFails(p)

Next ==
    \/ \E p \in Calls : CallNext(p)
    \/ \E c \in invoices : Pay(c)
    \/ Restart

Spec == Init /\ [][Next]_vars
=============================================================================
