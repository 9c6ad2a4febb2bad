--------------------------- MODULE WonLead_proofs ---------------------------
(***************************************************************************)
(* For any number of requests, payments and faults: a lead has one         *)
(* customer unless two conversions crossed; what was paid before a request *)
(* looked for money stays; a move to a stage of the sale that meets nobody *)
(* links the lead to a customer that is there; and after requests one at a *)
(* time, without a fault, the stamps of the lead and the rows agree.       *)
(***************************************************************************)
EXTENDS WonLeadProps, TLAPS

Fields == {"pc", "op", "to", "doc", "patch", "next", "c", "sub", "bill", "swallow"}
Nexts == {"idle", "convert", "subscribe"}

(* The locals of each request are a record with these fields.              *)
Locals ==
    /\ call = [p \in Calls |-> call[p]]
    /\ \A p \in Calls : DOMAIN call[p] = Fields /\ call[p].next \in Nexts
    /\ crossed \in BOOLEAN

(* Before it crossed another, a conversion about to create is the only one *)
(* and has no customer to find.                                            *)
Lonely ==
    ~crossed => /\ \A c, d \in customers : c = d
                /\ \A p, q \in Calls : At(p, "create") /\ At(q, "create") => p = q
                /\ \A p \in Calls : At(p, "create") => customers = {}

(* Money that came in time keeps its invoice, and no request that removes  *)
(* is after it.                                                            *)
Safe ==
    /\ paid \ late \subseteq invoices
    /\ \A p \in Calls : call[p].pc \in Removing => call[p].c \notin paid \ late

IInv == Locals /\ Lonely /\ Safe

-----------------------------------------------------------------------------
LEMMA InitInv == Init => IInv
  <1> SUFFICES ASSUME Init PROVE IInv
    OBVIOUS
  <1>1. DOMAIN NoCall = Fields /\ NoCall.next \in Nexts /\ NoCall.pc = "idle"
    BY DEF NoCall, Fields, Nexts
  <1>2. call = [p \in Calls |-> call[p]] /\ \A p \in Calls : call[p] = NoCall
    BY DEF Init
  <1>3. customers = {} /\ paid = {} /\ crossed = FALSE
    BY DEF Init
  <1>4. QED
    BY <1>1, <1>2, <1>3 DEF IInv, Locals, Lonely, Safe, At, Removing

(* A request that goes on, but not to create, and to remove only what it   *)
(* already may, disturbs nothing.                                          *)
LEMMA GoesOn ==
  ASSUME IInv, NEW p \in Calls, NEW r, Become(p, r), DOMAIN r = Fields,
         r.next \in Nexts,
         r.pc # "create",
         r.pc \in Removing => r.c \notin paid \ late,
         customers' \subseteq customers,
         paid \ late \subseteq invoices',
         UNCHANGED <<crossed, paid, late>>
  PROVE  IInv'
  <1>1. Locals'
    BY DEF IInv, Locals, Become
  <1>2. Lonely'
    BY DEF IInv, Locals, Lonely, Become, At
  <1>3. Safe'
    BY DEF IInv, Locals, Safe, Become
  <1>. QED  BY <1>1, <1>2, <1>3 DEF IInv

-----------------------------------------------------------------------------
(* One step of one request.                                                *)
LEMMA CallStep ==
  ASSUME IInv, NEW p \in Calls, CallNext(p)
  PROVE  IInv'
  <1> DEFINE r == call[p]
  <1>0. DOMAIN r = Fields /\ r.next \in Nexts /\ DOMAIN NoCall = Fields /\ NoCall.next \in Nexts
    BY DEF IInv, Locals, NoCall, Fields, Nexts
  <1>a. /\ NoCall.pc = "idle" /\ paid \ late \subseteq invoices
    BY DEF IInv, Safe, NoCall
  <1> USE <1>0, <1>a
  <1>1. ASSUME NEW op \in {"move", "cancel", "revertWin"}, NEW to, NEW c, Begin(p, op, to, c)
        PROVE  IInv'
    <2>1. r.pc = "idle"
      BY <1>1 DEF Begin, At
    <2> DEFINE n == [NoCall EXCEPT !.pc = op, !.op = op, !.to = to, !.c = c]
    <2>2. Become(p, n) /\ n.pc = op /\ DOMAIN n = Fields /\ n.next \in Nexts
      BY <1>1 DEF Begin, NoCall, Fields, Nexts
    <2>3. QED
      BY <1>1, <2>2, GoesOn DEF Begin, baseVars, Removing
  <1>2. ASSUME NEW doc, NEW patch, NEW revert \in BOOLEAN, NEW swallow,
               Then(p, doc, patch, revert, swallow),
               UNCHANGED <<customers, invoices, crossed, paid, late>>
        PROVE  IInv'
    <2> DEFINE n == [r EXCEPT !.pc = IF revert THEN "revert" ELSE "get", !.doc = doc,
                              !.patch = patch, !.swallow = swallow,
                              !.next = IF r.op = "move" /\ r.to = "won" THEN "convert" ELSE "idle"]
    <2>1. Become(p, n)
      BY <1>2 DEF Then
    <2>2. n.pc \in {"revert", "get"} /\ DOMAIN n = Fields /\ n.next \in Nexts
      BY DEF Fields, Nexts
    <2>3. QED
      BY <1>2, <2>1, <2>2, GoesOn DEF Removing
  <1>3. ASSUME NEW l, Goto(p, l), l \notin Removing \cup {"create"},
               customers' \subseteq customers, paid \ late \subseteq invoices',
               UNCHANGED <<crossed, paid, late>>
        PROVE  IInv'
    <2>1. [r EXCEPT !.pc = l].pc = l /\ DOMAIN [r EXCEPT !.pc = l] = Fields
          /\ [r EXCEPT !.pc = l].next \in Nexts
      BY DEF Fields, Nexts
    <2>2. QED
      BY <1>3, <2>1, GoesOn DEF Goto
  <1>4. ASSUME Become(p, NoCall), customers' \subseteq customers, paid \ late \subseteq invoices',
               UNCHANGED <<crossed, paid, late>>
        PROVE  IInv'
    BY <1>4, GoesOn DEF Removing
  <1> HIDE DEF r
  <1> USE DEF Reads, Steps, baseVars, auxVars
  <1>5. CASE \E to \in Stages : PatchLead(p, to)
    BY <1>5, <1>1 DEF PatchLead
  <1>6. CASE \E to \in {"open", "lost"} : CancelSale(p, to)
    BY <1>6, <1>1 DEF CancelSale
  <1>7. CASE \E c \in customers : RevertWin(p, c)
    BY <1>7, <1>1 DEF RevertWin
  <1>8. CASE MoveLead(p)
    BY <1>8, <1>2 DEF MoveLead
  <1>9. CASE CancelRead(p)
    <2>1. CASE Become(p, NoCall)
      BY <1>9, <2>1, <1>4 DEF CancelRead
    <2>2. CASE Become(p, [call[p] EXCEPT !.pc = "check", !.doc = lead])
      <3> DEFINE n == [call[p] EXCEPT !.pc = "check", !.doc = lead]
      <3>1. n.pc = "check" /\ DOMAIN n = Fields /\ n.next \in Nexts
        BY DEF Fields, Nexts, r
      <3>2. QED
        BY <1>9, <2>2, <3>1, GoesOn DEF CancelRead, Removing
    <2>3. QED
      BY <1>9, <2>1, <2>2 DEF CancelRead
  <1>10. ASSUME CancelMove(p), UNCHANGED <<customers, invoices, crossed, paid, late>>
         PROVE  IInv'
    BY <1>10, <1>2 DEF CancelMove
  <1>11. CASE CancelCheck(p)
    BY <1>11, <1>4, <1>10 DEF CancelCheck
  <1>12. CASE RevertWinCheck(p)
    BY <1>12, <1>3, <1>4 DEF RevertWinCheck, Removing
  <1>13. CASE RevertWinLead(p)
    BY <1>13, <1>2 DEF RevertWinLead
  <1>14. CASE RevertFind(p)
    <2>1. PICK c : Become(p, [call[p] EXCEPT !.pc = IF c = None THEN "get" ELSE "listSubs", !.c = c])
      BY <1>14 DEF RevertFind
    <2> DEFINE n == [call[p] EXCEPT !.pc = IF c = None THEN "get" ELSE "listSubs", !.c = c]
    <2>2. n.pc \in {"get", "listSubs"} /\ DOMAIN n = Fields /\ n.next \in Nexts
      BY DEF Fields, Nexts, r
    <2>3. QED
      BY <1>14, <2>1, <2>2, GoesOn DEF RevertFind, Removing
  <1>15. CASE RevertSubs(p)
    <2> DEFINE n == [call[p] EXCEPT !.pc = "listBills", !.sub = call[p].c \in subs]
    <2>1. n.pc = "listBills" /\ DOMAIN n = Fields /\ n.next \in Nexts
      BY DEF Fields, Nexts, r
    <2>2. QED
      BY <1>15, <2>1, GoesOn DEF RevertSubs, Removing
  <1>16. CASE RevertBills(p)
    <2> DEFINE c == call[p].c
               n == [call[p] EXCEPT !.pc = IF RealBilling(c) THEN "get" ELSE "unbill",
                                    !.bill = c \in invoices]
    <2>1. n.pc = (IF RealBilling(c) THEN "get" ELSE "unbill") /\ n.c = c /\ DOMAIN n = Fields /\ n.next \in Nexts
      BY DEF Fields, Nexts, r
    <2>2. ~RealBilling(c) => c \notin paid \ late
      BY DEF RealBilling
    <2>3. Become(p, n) /\ UNCHANGED <<customers, invoices, crossed, paid, late>>
      BY <1>16 DEF RevertBills
    <2>4. n.pc # "create" /\ (n.pc \in Removing => n.c \notin paid \ late)
      BY <2>1, <2>2 DEF Removing
    <2> HIDE DEF n
    <2>5. QED
      BY <2>1, <2>3, <2>4, GoesOn
  <1>17. CASE RevertRemove(p)
    <2>1. r.pc \in Removing
      BY <1>17 DEF RevertRemove, Remove, At, Removing, r
    <2>2. r.c \notin paid \ late
      BY <2>1 DEF IInv, Safe, r
    <2>3. \E l \in {"unsubscribe", "uncustomer", "get"} : Goto(p, l)
      BY <1>17 DEF RevertRemove, Remove
    <2>4. PICK l \in {"unsubscribe", "uncustomer", "get"} : Goto(p, l)
      BY <2>3
    <2> DEFINE n == [call[p] EXCEPT !.pc = l]
    <2>5. n.pc = l /\ n.c = r.c /\ DOMAIN n = Fields /\ n.next \in Nexts /\ Become(p, n)
      BY <2>4 DEF Fields, Nexts, Goto, r
    <2>6. customers' \subseteq customers /\ paid \ late \subseteq invoices'
      BY <1>17, <2>2 DEF RevertRemove, Remove, r
    <2>7. QED
      BY <1>17, <2>2, <2>5, <2>6, GoesOn DEF RevertRemove
  <1>18. CASE UpdateGet(p)
    <2> DEFINE n == [call[p] EXCEPT !.pc = "put", !.doc = Merge(lead, call[p].patch)]
    <2>1. n.pc = "put" /\ DOMAIN n = Fields /\ n.next \in Nexts
      BY DEF Fields, Nexts, r
    <2>2. QED
      BY <1>18, <2>1, GoesOn DEF UpdateGet, Removing
  <1>19. CASE UpdatePut(p)
    <2>1. CASE r.next = "idle"
      BY <1>19, <2>1, <1>4 DEF UpdatePut, r
    <2>2. CASE r.next \in {"convert", "subscribe"}
      BY <1>19, <2>2, <1>3 DEF UpdatePut, r, Removing
    <2>3. QED
      BY <2>1, <2>2, <1>0 DEF Nexts
  <1>20. CASE ConvertList(p)
    <2>1. CASE customers = {}
      <3> DEFINE n == [call[p] EXCEPT !.pc = "create"]
      <3>1. n.pc = "create" /\ DOMAIN n = Fields /\ n.next \in Nexts /\ Become(p, n)
        BY <1>20, <2>1 DEF Fields, Nexts, r, ConvertList, Goto
      <3>2. Locals'
        BY <1>20, <3>1 DEF IInv, Locals, Become, ConvertList, Looked
      <3>3. Lonely'
        BY <1>20, <2>1, <3>1 DEF IInv, Locals, Lonely, Become, ConvertList, Looked, At
      <3>4. Safe'
        BY <1>20, <3>1 DEF IInv, Locals, Safe, Become, ConvertList, Looked, Removing
      <3>5. QED
        BY <3>2, <3>3, <3>4 DEF IInv
    <2>2. CASE customers # {}
      <3>1. crossed' = crossed
        BY <1>20, <2>2 DEF ConvertList, Looked, IInv, Locals
      <3>2. CASE Become(p, NoCall)
        BY <1>20, <3>1, <3>2, <1>4 DEF ConvertList, Looked
      <3>3. ASSUME NEW c \in customers,
                   Become(p, [call[p] EXCEPT !.pc = "get", !.patch = Stamp(c), !.next = "idle"])
            PROVE  IInv'
        <4> DEFINE n == [call[p] EXCEPT !.pc = "get", !.patch = Stamp(c), !.next = "idle"]
        <4>1. n.pc = "get" /\ DOMAIN n = Fields /\ n.next \in Nexts
          BY DEF Fields, Nexts, r
        <4>2. QED
          BY <1>20, <3>1, <3>3, <4>1, GoesOn DEF ConvertList, Looked, Removing
      <3>4. QED
        BY <1>20, <2>2, <3>2, <3>3 DEF ConvertList
    <2>3. QED
      BY <2>1, <2>2
  <1>21. CASE ConvertCreate(p)
    <2> DEFINE c == made + 1
               n == [call[p] EXCEPT !.pc = "get", !.c = c, !.patch = Stamp(c), !.next = "subscribe"]
    <2>1. n.pc = "get" /\ DOMAIN n = Fields /\ n.next \in Nexts /\ Become(p, n)
      BY <1>21 DEF Fields, Nexts, r, ConvertCreate
    <2>2. Locals'
      BY <1>21, <2>1 DEF IInv, Locals, Become, ConvertCreate
    <2>3. Lonely'
      <3>1. ASSUME ~crossed
            PROVE  customers = {} /\ \A q \in Calls : At(q, "create") => q = p
        BY <1>21, <3>1 DEF IInv, Lonely, ConvertCreate
      <3>2. QED
        BY <1>21, <2>1, <3>1 DEF IInv, Locals, Lonely, Become, ConvertCreate, At
    <2>4. Safe'
      BY <1>21, <2>1 DEF IInv, Locals, Safe, Become, ConvertCreate, Removing
    <2>5. QED
      BY <2>2, <2>3, <2>4 DEF IInv
  <1>22. CASE Subscribe(p)
    BY <1>22, <1>3 DEF Subscribe, Removing
  <1>23. CASE Bill(p)
    BY <1>23, <1>4 DEF Bill
  <1>24. CASE QueryFails(p)
    BY <1>24, <1>3, <1>4 DEF QueryFails, Fault, Removing
  <1>25. CASE ListFails(p)
    BY <1>25, <1>3, <1>10 DEF ListFails, Fault, Removing
  <1>26. QED
    BY <1>5, <1>7, <1>6, <1>8, <1>9, <1>11, <1>12, <1>13, <1>14, <1>15, <1>16, <1>17, <1>18,
       <1>19, <1>20, <1>21, <1>22, <1>23, <1>24, <1>25 DEF CallNext

LEMMA Step ==
  ASSUME IInv, [Next]_vars
  PROVE  IInv'
  <1>1. CASE \E p \in Calls : CallNext(p)
    BY <1>1, CallStep
  <1>2. ASSUME NEW c \in invoices, Pay(c)
        PROVE  IInv'
    <2>1. Locals' /\ Lonely'
      BY <1>2 DEF IInv, Locals, Lonely, Pay, At
    <2>2. Safe'
      BY <1>2 DEF IInv, Safe, Pay
    <2>3. QED
      BY <2>1, <2>2 DEF IInv
  <1>3. CASE Restart
    <2>1. DOMAIN NoCall = Fields /\ NoCall.next \in Nexts /\ NoCall.pc = "idle"
      BY DEF NoCall, Fields, Nexts
    <2>2. QED
      BY <1>3, <2>1 DEF IInv, Locals, Lonely, Safe, Restart, Fault, baseVars, At, Removing
  <1>4. CASE UNCHANGED vars
    BY <1>4 DEF IInv, Locals, Lonely, Safe, vars, baseVars, auxVars, At
  <1>5. QED
    BY <1>1, <1>2, <1>3, <1>4 DEF Next

(* The inductive invariant holds in every state.                           *)
THEOREM Invariance == Spec => []IInv
  BY InitInv, Step, PTL DEF Spec

(* A lead has one customer at most, unless two conversions crossed: the    *)
(* lookup by leadId of won-lead.js:70 is enough against everything else.   *)
THEOREM OneCustomerHolds == Spec => []OneCustomer
  <1>1. IInv => OneCustomer
    BY DEF IInv, Lonely, OneCustomer
  <1>2. QED
    BY Invariance, <1>1, PTL

(* No removal takes what was paid before its request looked for money.     *)
THEOREM PaidStays == Spec => RealMoneyStays
  <1>1. ASSUME IInv, [Next]_vars
        PROVE  [/\ customers \cap paid \subseteq customers' \cup late
                /\ invoices \cap paid \subseteq invoices' \cup late]_vars
    <2>1. ASSUME NEW p \in Calls, RevertRemove(p)
          PROVE  /\ customers \cap paid \subseteq customers' \cup late
                 /\ invoices \cap paid \subseteq invoices' \cup late
      <3>1. call[p].c \notin paid \ late
        BY <1>1, <2>1 DEF IInv, Safe, RevertRemove, Remove, Removing, At
      <3>2. QED
        BY <2>1, <3>1 DEF RevertRemove, Remove
    <2>2. ASSUME NEW p \in Calls, CallNext(p), ~RevertRemove(p)
          PROVE  customers \subseteq customers' /\ invoices \subseteq invoices'
      BY <2>2 DEF CallNext, PatchLead, CancelSale, RevertWin, Begin, MoveLead, CancelRead,
         CancelCheck, RevertWinCheck, RevertWinLead, RevertFind, RevertSubs, RevertBills, UpdateGet,
         UpdatePut, ConvertList, Looked, ConvertCreate, Subscribe, Bill, QueryFails, ListFails,
         Fault, Reads, baseVars
    <2>3. ASSUME (\E c \in invoices : Pay(c)) \/ Restart
          PROVE  customers \subseteq customers' /\ invoices \subseteq invoices'
      BY <2>3 DEF Pay, Restart, Fault, baseVars
    <2>4. QED
      BY <1>1, <2>1, <2>2, <2>3 DEF Next, vars, baseVars
  <1>2. QED
    BY Invariance, <1>1, PTL DEF Spec, RealMoneyStays

-----------------------------------------------------------------------------
(* The types, for as many customers as were made.                          *)
LeadOf(n) == [stage : Stages, customer : 0..n, won : BOOLEAN]
PatchOf(n) == [stage : Stages] \cup [customer : 0..n, won : BOOLEAN] \cup LeadOf(n)
Local(n) ==
    [pc : PCs, op : {"move", "cancel", "revertWin"}, to : Stages, doc : LeadOf(n), patch : PatchOf(n),
     next : Nexts, c : 0..n, sub : BOOLEAN, bill : BOOLEAN, swallow : BOOLEAN]

(* Who creates a subscription has created its customer.                    *)
Sequential(r, n) ==
    /\ r.pc \in {"subscribe", "bill"} => r.next = "subscribe"
    /\ r.next = "subscribe" => r.c \in 1..n /\ r.pc \in {"get", "put", "subscribe", "bill"}

TypeInv ==
    /\ made \in Nat /\ lead \in LeadOf(made)
    /\ customers \subseteq 1..made /\ subs \subseteq 1..made /\ invoices \subseteq 1..made
    /\ paid \subseteq 1..made /\ late \subseteq paid
    /\ call \in [Calls -> Local(made)] /\ \A p \in Calls : Sequential(call[p], made)
    /\ from \in Stages /\ clean \in BOOLEAN /\ alone \in BOOLEAN /\ crossed \in BOOLEAN

LEMMA TypeInvIs == TypeInv => TypeOK
<1> SUFFICES ASSUME TypeInv PROVE TypeOK
  OBVIOUS
<1>1. LeadOf(made) = Leads /\ PatchOf(made) = Patches /\ 0..made = Ids \cup {None}
  <2>1. 0..made = Ids \cup {None}
    BY DEF TypeInv, Ids, None
  <2> QED BY <2>1 DEF LeadOf, PatchOf, Leads, Patches
<1>2. \A p \in Calls : call[p] \in Local(made)
  BY DEF TypeInv
<1> QED BY <1>1, <1>2 DEF TypeInv, TypeOK, Local, Ids, Nexts

LEMMA Merged ==
    ASSUME NEW n \in Nat, NEW l \in LeadOf(n), NEW q \in PatchOf(n)
    PROVE  /\ Merge(l, q) \in LeadOf(n)
           /\ Merge(l, q).stage = IF "stage" \in DOMAIN q THEN q.stage ELSE l.stage
           /\ Merge(l, q).customer = IF "customer" \in DOMAIN q THEN q.customer ELSE l.customer
           /\ Merge(l, q).won = IF "won" \in DOMAIN q THEN q.won ELSE l.won
<1>1. DOMAIN l = {"stage", "customer", "won"}
  BY DEF LeadOf
<1>2. /\ Merge(l, q).stage = IF "stage" \in DOMAIN q THEN q.stage ELSE l.stage
      /\ Merge(l, q).customer = IF "customer" \in DOMAIN q THEN q.customer ELSE l.customer
      /\ Merge(l, q).won = IF "won" \in DOMAIN q THEN q.won ELSE l.won
  BY <1>1 DEF Merge
<1>3. Merge(l, q).stage \in Stages /\ Merge(l, q).customer \in 0..n /\ Merge(l, q).won \in BOOLEAN
  BY <1>2 DEF PatchOf, LeadOf
<1>4. Merge(l, q) = [f \in {"stage", "customer", "won"} |-> Merge(l, q)[f]]
  BY <1>1 DEF Merge
<1>5. Merge(l, q) = [stage |-> Merge(l, q).stage, customer |-> Merge(l, q).customer, won |-> Merge(l, q).won]
  BY <1>4
<1> QED BY <1>2, <1>3, <1>5 DEF LeadOf

LEMMA MoreIds ==
    ASSUME NEW n \in Nat, NEW m \in Nat, n <= m
    PROVE  /\ 0..n \subseteq 0..m /\ 1..n \subseteq 1..m /\ LeadOf(n) \subseteq LeadOf(m)
           /\ Local(n) \subseteq Local(m)
           /\ \A r : Sequential(r, n) => Sequential(r, m)
<1>1. 0..n \subseteq 0..m /\ 1..n \subseteq 1..m
  OBVIOUS
<1>2. LeadOf(n) \subseteq LeadOf(m)
  BY <1>1 DEF LeadOf
<1>3. PatchOf(n) \subseteq PatchOf(m)
  BY <1>1, <1>2 DEF PatchOf
<1>4. Local(n) \subseteq Local(m)
  BY <1>1, <1>2, <1>3 DEF Local
<1> QED BY <1>1, <1>2, <1>4 DEF Sequential

LEMMA InitTypes == Init => TypeInv
<1> SUFFICES ASSUME Init PROVE TypeInv
  OBVIOUS
<1>1. MovedUnsold("open") \in LeadOf(0) /\ Unsold \in PatchOf(0)
  BY DEF MovedUnsold, Unsold, LeadOf, PatchOf, None, Stages
<1>2. NoCall \in Local(0) /\ NoCall.pc = "idle" /\ NoCall.next = "idle"
  BY <1>1 DEF NoCall, Local, PCs, Nexts, Stages, None
<1>3. made = 0 /\ call = [p \in Calls |-> NoCall]
  BY DEF Init
<1>4. call \in [Calls -> Local(made)] /\ \A p \in Calls : Sequential(call[p], made)
  BY <1>2, <1>3 DEF Sequential
<1>5. lead = MovedUnsold("open") /\ lead \in LeadOf(made)
  BY <1>1, <1>3 DEF Init
<1>6. /\ customers = {} /\ subs = {} /\ invoices = {} /\ paid = {} /\ late = {} /\ from \in Stages
      /\ clean \in BOOLEAN /\ alone \in BOOLEAN /\ crossed \in BOOLEAN
  BY DEF Init, Stages
<1> QED BY <1>3, <1>4, <1>5, <1>6 DEF TypeInv

LEMMA NoCallTypes == ASSUME NEW n \in Nat PROVE NoCall \in Local(n) /\ Sequential(NoCall, n)
<1>1. MovedUnsold("open") \in LeadOf(n) /\ Unsold \in PatchOf(n)
  BY DEF MovedUnsold, Unsold, LeadOf, PatchOf, None, Stages
<1>2. NoCall \in Local(n) /\ NoCall.pc = "idle" /\ NoCall.next = "idle"
  BY <1>1 DEF NoCall, Local, PCs, Nexts, Stages, None
<1> QED BY <1>2 DEF Sequential

(* The rows of the sale, and the notes on the behaviour.                   *)
RowTypes ==
    /\ made \in Nat /\ lead \in LeadOf(made)
    /\ customers \subseteq 1..made /\ subs \subseteq 1..made /\ invoices \subseteq 1..made
    /\ paid \subseteq 1..made /\ late \subseteq paid
    /\ from \in Stages /\ clean \in BOOLEAN /\ alone \in BOOLEAN /\ crossed \in BOOLEAN

LEMMA BecomeTypes ==
    ASSUME TypeInv, NEW p \in Calls, NEW r, Become(p, r), made' \in Nat, made <= made',
           r \in Local(made'), Sequential(r, made'), RowTypes'
    PROVE  TypeInv'
<1>1. /\ call' = [call EXCEPT ![p] = r] /\ call \in [Calls -> Local(made)]
      /\ \A q \in Calls : Sequential(call[q], made) /\ made \in Nat
  BY DEF Become, TypeInv
<1>2. Local(made) \subseteq Local(made') /\ \A s : Sequential(s, made) => Sequential(s, made')
  BY <1>1, MoreIds
<1>3. call' \in [Calls -> Local(made')] /\ \A q \in Calls : Sequential(call'[q], made')
  BY <1>1, <1>2
<1> QED BY <1>3 DEF TypeInv, RowTypes

(* The steps that leave the rows alone.                                    *)
LEMMA SameRows ==
    ASSUME TypeInv, UNCHANGED <<lead, customers, baseVars, made, from, late>>,
           clean' \in BOOLEAN, alone' \in BOOLEAN, crossed' \in BOOLEAN
    PROVE  RowTypes'
BY DEF TypeInv, RowTypes, baseVars

LEMMA GotoTypes ==
    ASSUME TypeInv, NEW p \in Calls, NEW l \in PCs, Goto(p, l), made' = made, RowTypes',
           call[p].next = "subscribe" => l \in {"get", "put", "subscribe", "bill"},
           l \in {"subscribe", "bill"} => call[p].next = "subscribe"
    PROVE  TypeInv'
<1> DEFINE r == [call[p] EXCEPT !.pc = l]
<1>1. call[p] \in Local(made) /\ Sequential(call[p], made) /\ made \in Nat
  BY DEF TypeInv
<1>2. r \in Local(made) /\ r.pc = l /\ r.next = call[p].next /\ r.c = call[p].c
  BY <1>1 DEF Local
<1>3. Become(p, r)
  BY DEF Goto
<1> HIDE DEF r
<1>4. Sequential(r, made)
  BY <1>1, <1>2 DEF Sequential
<1> QED BY <1>1, <1>2, <1>3, <1>4, BecomeTypes

LEMMA StopTypes ==
    ASSUME TypeInv, NEW p \in Calls, Become(p, NoCall), made' = made, RowTypes'
    PROVE  TypeInv'
<1>1. made \in Nat
  BY DEF TypeInv
<1> QED BY <1>1, NoCallTypes, BecomeTypes

LEMMA ThenTypes ==
    ASSUME TypeInv, NEW p \in Calls, NEW doc \in LeadOf(made), NEW patch \in PatchOf(made),
           NEW revert \in BOOLEAN, NEW swallow \in BOOLEAN, Then(p, doc, patch, revert, swallow),
           made' = made, RowTypes'
    PROVE  TypeInv'
<1> DEFINE n == [call[p] EXCEPT !.pc = IF revert THEN "revert" ELSE "get", !.doc = doc,
                     !.patch = patch, !.swallow = swallow,
                     !.next = IF call[p].op = "move" /\ call[p].to = "won" THEN "convert" ELSE "idle"]
<1>1. call[p] \in Local(made) /\ made \in Nat
  BY DEF TypeInv
<1>2. n \in Local(made) /\ n.pc \in {"revert", "get"} /\ n.next \in {"convert", "idle"}
  BY <1>1 DEF Local, PCs, Nexts
<1>3. Become(p, n)
  BY DEF Then
<1> HIDE DEF n
<1> QED BY <1>1, <1>2, <1>3, BecomeTypes DEF Sequential

LEMMA PatchTypes ==
    ASSUME NEW n \in Nat
    PROVE  /\ Unsold \in PatchOf(n)
           /\ \A to \in Stages : Moved(to) \in PatchOf(n) /\ MovedUnsold(to) \in PatchOf(n)
           /\ \A c \in 1..n : Stamp(c) \in PatchOf(n)
BY DEF Unsold, Moved, MovedUnsold, Stamp, PatchOf, LeadOf, None

LEMMA CallTypes == ASSUME TypeInv, NEW p \in Calls, CallNext(p) PROVE TypeInv'
<1> DEFINE r == call[p]
<1>0. /\ r \in Local(made) /\ Sequential(r, made) /\ made \in Nat /\ lead \in LeadOf(made)
      /\ customers \subseteq 1..made
  BY DEF TypeInv
<1>a. /\ r.pc \in PCs /\ r.op \in {"move", "cancel", "revertWin"} /\ r.to \in Stages /\ r.doc \in LeadOf(made)
      /\ r.patch \in PatchOf(made) /\ r.next \in Nexts /\ r.c \in 0..made
  BY <1>0 DEF Local
<1>b. /\ \A q \in LeadOf(made) : \A s : Undoes(q, s) \in BOOLEAN
      /\ Unsold \in PatchOf(made)
      /\ \A to \in Stages : Moved(to) \in PatchOf(made) /\ MovedUnsold(to) \in PatchOf(made)
      /\ \A c \in 1..made : Stamp(c) \in PatchOf(made)
  BY <1>0, PatchTypes DEF Undoes
<1>r. Reads(p) => made' = made /\ RowTypes'
  BY SameRows DEF Reads, Steps, auxVars, baseVars, TypeInv
<1>1. ASSUME NEW op \in {"move", "cancel", "revertWin"}, NEW to \in Stages, NEW c \in 0..made,
             Begin(p, op, to, c)
      PROVE  TypeInv'
  <2> DEFINE n == [NoCall EXCEPT !.pc = op, !.op = op, !.to = to, !.c = c]
  <2>1. NoCall \in Local(made)
    BY <1>0, NoCallTypes
  <2>2. n \in Local(made)
    BY <2>1 DEF Local, PCs
  <2>3. n.next = "idle" /\ n.pc = op
    BY DEF NoCall
  <2>4. Become(p, n) /\ made' = made /\ RowTypes'
    BY <1>1, SameRows DEF Begin, TypeInv
  <2> HIDE DEF n
  <2> QED BY <1>0, <2>2, <2>3, <2>4, BecomeTypes DEF Sequential
<1>2. CASE \E to \in Stages : PatchLead(p, to)
  BY <1>0, <1>1, <1>2 DEF PatchLead, None
<1>3. CASE \E to \in {"open", "lost"} : CancelSale(p, to)
  BY <1>0, <1>1, <1>3 DEF CancelSale, None, Stages
<1>4. CASE \E c \in customers : RevertWin(p, c)
  BY <1>0, <1>1, <1>4 DEF RevertWin, Stages
<1>5. CASE MoveLead(p)
  BY <1>0, <1>a, <1>b, <1>r, <1>5, ThenTypes DEF MoveLead
<1>6. CASE CancelRead(p)
  <2>1. CASE Become(p, NoCall)
    BY <1>6, <1>r, <2>1, StopTypes DEF CancelRead
  <2>2. CASE Become(p, [call[p] EXCEPT !.pc = "check", !.doc = lead])
    <3> DEFINE n == [call[p] EXCEPT !.pc = "check", !.doc = lead]
    <3>1. n \in Local(made) /\ n.pc = "check" /\ n.next = r.next /\ n.c = r.c
      BY <1>0 DEF Local, PCs
    <3>2. r.next # "subscribe"
      BY <1>0, <1>6 DEF CancelRead, At, Sequential
    <3>3. Sequential(n, made)
      BY <3>1, <3>2 DEF Sequential
    <3> HIDE DEF n
    <3>4. Become(p, n)
      BY <2>2 DEF n
    <3> QED BY <1>0, <1>6, <1>r, <3>1, <3>3, <3>4, BecomeTypes DEF CancelRead
  <2> QED BY <1>6, <2>1, <2>2 DEF CancelRead
<1>7. ASSUME CancelMove(p), made' = made, RowTypes' PROVE TypeInv'
  <2>1. PICK patch \in PatchOf(made) : Then(p, r.doc, patch, TRUE, Undoes(r.doc, r.to))
    BY <1>a, <1>b, <1>7 DEF CancelMove
  <2> QED BY <1>a, <1>b, <1>7, <2>1, ThenTypes
<1>8. CASE CancelCheck(p)
  BY <1>7, <1>8, <1>r, StopTypes DEF CancelCheck
<1>9. CASE RevertWinCheck(p)
  <2>1. r.next # "subscribe"
    BY <1>0, <1>9 DEF RevertWinCheck, At, Sequential
  <2> QED BY <1>9, <1>r, <2>1, StopTypes, GotoTypes DEF RevertWinCheck, PCs
<1>10. CASE RevertWinLead(p)
  <2>1. PICK patch \in PatchOf(made), revert \in BOOLEAN, swallow \in BOOLEAN :
            Then(p, lead, patch, revert, swallow)
    BY <1>10, <1>b DEF RevertWinLead, Stages
  <2> QED BY <1>0, <1>10, <1>r, <2>1, ThenTypes DEF RevertWinLead
<1>11. CASE RevertFind(p)
  <2>1. PICK c \in CustomerOf(r.doc) :
            Become(p, [call[p] EXCEPT !.pc = IF c = None THEN "get" ELSE "listSubs", !.c = c])
    BY <1>11 DEF RevertFind
  <2> DEFINE n == [call[p] EXCEPT !.pc = IF c = None THEN "get" ELSE "listSubs", !.c = c]
  <2>2. c \in 0..made
    BY <1>0, <2>1 DEF CustomerOf, None
  <2>3. n \in Local(made) /\ n.pc \in {"get", "listSubs"} /\ n.next = r.next
    BY <1>0, <2>2 DEF Local, PCs
  <2>4. r.next # "subscribe"
    BY <1>0, <1>11 DEF RevertFind, At, Sequential
  <2>5. Become(p, n)
    BY <2>1
  <2> HIDE DEF n
  <2> QED BY <1>0, <1>11, <1>r, <2>3, <2>4, <2>5, BecomeTypes DEF RevertFind, Sequential
<1>12. CASE RevertSubs(p)
  <2> DEFINE b == r.c \in subs
             n == [call[p] EXCEPT !.pc = "listBills", !.sub = b]
  <2>0. b \in BOOLEAN
    OBVIOUS
  <2>3. Become(p, n)
    BY <1>12 DEF RevertSubs
  <2> HIDE DEF b
  <2>1. n \in Local(made) /\ n.pc = "listBills" /\ n.next = r.next
    BY <1>0, <2>0 DEF Local, PCs
  <2>2. r.next # "subscribe"
    BY <1>0, <1>12 DEF RevertSubs, At, Sequential
  <2> HIDE DEF n
  <2> QED BY <1>0, <1>12, <1>r, <2>1, <2>2, <2>3, BecomeTypes DEF RevertSubs, Sequential
<1>13. CASE RevertBills(p)
  <2> DEFINE b == r.c \in invoices
             n == [call[p] EXCEPT !.pc = IF RealBilling(r.c) THEN "get" ELSE "unbill", !.bill = b]
  <2>0. b \in BOOLEAN
    OBVIOUS
  <2>3. Become(p, n)
    BY <1>13 DEF RevertBills
  <2> HIDE DEF b
  <2>1. n \in Local(made) /\ n.pc \in {"get", "unbill"} /\ n.next = r.next
    BY <1>0, <2>0 DEF Local, PCs, Removing
  <2>2. r.next # "subscribe"
    BY <1>0, <1>13 DEF RevertBills, At, Sequential
  <2> HIDE DEF n
  <2> QED BY <1>0, <1>13, <1>r, <2>1, <2>2, <2>3, BecomeTypes DEF RevertBills, Sequential
<1>14. CASE RevertRemove(p)
  <2>1. PICK l \in {"unsubscribe", "uncustomer", "get"} : Goto(p, l)
    BY <1>14 DEF RevertRemove, Remove
  <2>2. r.next # "subscribe"
    BY <1>0, <1>14 DEF RevertRemove, Remove, At, Sequential
  <2>3. customers' \subseteq customers /\ subs' \subseteq subs /\ invoices' \subseteq invoices
    BY <1>14 DEF RevertRemove, Remove
  <2>4. made' = made /\ RowTypes'
    BY <1>14, <2>3 DEF RevertRemove, Steps, auxVars, RowTypes, TypeInv
  <2>5. l \in PCs
    BY DEF PCs, Removing
  <2> QED BY <2>1, <2>2, <2>4, <2>5, GotoTypes
<1>15. CASE UpdateGet(p)
  <2> DEFINE n == [call[p] EXCEPT !.pc = "put", !.doc = Merge(lead, call[p].patch)]
  <2>1. Merge(lead, r.patch) \in LeadOf(made)
    BY <1>0, <1>a, Merged
  <2>2. n \in Local(made) /\ n.pc = "put" /\ n.next = r.next /\ n.c = r.c
    BY <1>0, <2>1 DEF Local, PCs
  <2>3. Become(p, n)
    BY <1>15 DEF UpdateGet
  <2> HIDE DEF n
  <2>4. Sequential(n, made)
    BY <1>0, <1>15, <2>2 DEF UpdateGet, At, Sequential
  <2> QED BY <1>0, <1>15, <1>r, <2>2, <2>3, <2>4, BecomeTypes DEF UpdateGet
<1>16. CASE UpdatePut(p)
  <2>1. made' = made /\ RowTypes'
    BY <1>a, <1>16 DEF UpdatePut, auxVars, baseVars, RowTypes, TypeInv, LeadOf
  <2>2. CASE r.next = "idle"
    BY <1>16, <2>1, <2>2, StopTypes DEF UpdatePut
  <2>3. CASE r.next # "idle"
    <3>1. r.next \in {"convert", "subscribe"} /\ r.next \in PCs /\ Goto(p, r.next)
      BY <1>a, <1>16, <2>3 DEF UpdatePut, Nexts, PCs
    <3> QED BY <2>1, <3>1, GotoTypes
  <2> QED BY <2>2, <2>3
<1>17. CASE ConvertList(p)
  <2>1. made' = made /\ RowTypes'
    BY <1>17, SameRows DEF ConvertList, Looked, TypeInv
  <2>2. r.next # "subscribe"
    BY <1>0, <1>17 DEF ConvertList, At, Sequential
  <2>3. CASE Goto(p, "create")
    BY <2>1, <2>2, <2>3, GotoTypes DEF PCs
  <2>4. CASE Become(p, NoCall)
    BY <2>1, <2>4, StopTypes
  <2>5. ASSUME NEW c \in customers, Become(p, [call[p] EXCEPT !.pc = "get", !.patch = Stamp(c), !.next = "idle"])
        PROVE  TypeInv'
    <3> DEFINE n == [call[p] EXCEPT !.pc = "get", !.patch = Stamp(c), !.next = "idle"]
    <3>1. n \in Local(made) /\ n.pc = "get" /\ n.next = "idle"
      BY <1>0, <1>b DEF Local, PCs, Nexts
    <3>2. Become(p, n)
      BY <2>5
    <3> HIDE DEF n
    <3> QED BY <1>0, <2>1, <3>1, <3>2, BecomeTypes DEF Sequential
  <2> QED BY <1>17, <2>3, <2>4, <2>5 DEF ConvertList
<1>18. CASE ConvertCreate(p)
  <2> DEFINE c == made + 1
             n == [call[p] EXCEPT !.pc = "get", !.c = c, !.patch = Stamp(c), !.next = "subscribe"]
  <2>1. made' = c /\ c \in Nat /\ made <= c /\ c \in 1..c
    BY <1>0, <1>18 DEF ConvertCreate
  <2>2. r \in Local(c) /\ LeadOf(made) \subseteq LeadOf(c) /\ 1..made \subseteq 1..c
    BY <1>0, <2>1, MoreIds
  <2>3. Stamp(c) \in PatchOf(c) /\ c \in 0..c
    BY <2>1, PatchTypes
  <2>4. n \in Local(c) /\ n.pc = "get" /\ n.next = "subscribe" /\ n.c = c
    BY <2>2, <2>3 DEF Local, PCs, Nexts
  <2>5. Become(p, n)
    BY <1>18 DEF ConvertCreate
  <2>6. RowTypes'
    BY <1>18, <2>1, <2>2 DEF ConvertCreate, auxVars, baseVars, RowTypes, TypeInv
  <2> HIDE DEF n
  <2>7. Sequential(n, c)
    BY <2>1, <2>4 DEF Sequential
  <2> QED BY <2>1, <2>4, <2>5, <2>6, <2>7, BecomeTypes
<1>19. CASE Subscribe(p)
  <2>1. r.next = "subscribe" /\ r.c \in 1..made
    BY <1>0, <1>19 DEF Subscribe, At, Sequential
  <2>2. made' = made /\ RowTypes'
    BY <1>19, <2>1 DEF Subscribe, Steps, auxVars, RowTypes, TypeInv
  <2> QED BY <1>19, <2>1, <2>2, GotoTypes DEF Subscribe, PCs
<1>20. CASE Bill(p)
  <2>1. r.c \in 1..made
    BY <1>0, <1>20 DEF Bill, At, Sequential
  <2>2. made' = made /\ RowTypes'
    BY <1>20, <2>1 DEF Bill, Steps, auxVars, RowTypes, TypeInv
  <2> QED BY <1>20, <2>2, StopTypes DEF Bill
<1>f. \A e : Fault(e) => made' = made /\ RowTypes'
  BY SameRows DEF Fault, TypeInv
<1>21. CASE QueryFails(p)
  <2>1. made' = made /\ RowTypes'
    BY <1>21, <1>f DEF QueryFails
  <2>2. CASE Become(p, NoCall)
    BY <2>1, <2>2, StopTypes
  <2>3. CASE r.pc \in {"listSubs", "listBills"} \cup Removing /\ Goto(p, "get")
    <3>1. r.next # "subscribe"
      BY <1>0, <2>3 DEF Removing, Sequential
    <3> QED BY <2>1, <2>3, <3>1, GotoTypes DEF PCs
  <2> QED BY <1>21, <2>2, <2>3 DEF QueryFails
<1>22. CASE ListFails(p)
  <2>1. made' = made /\ RowTypes'
    BY <1>22, <1>f DEF ListFails
  <2>2. CASE At(p, "revert") /\ Goto(p, "get")
    BY <2>1, <2>2, GotoTypes DEF PCs
  <2> QED BY <1>7, <1>22, <2>1, <2>2 DEF ListFails
<1> HIDE DEF r
<1> QED BY <1>2, <1>3, <1>4, <1>5, <1>6, <1>8, <1>9, <1>10, <1>11, <1>12, <1>13, <1>14, <1>15, <1>16, <1>17,
        <1>18, <1>19, <1>20, <1>21, <1>22 DEF CallNext

LEMMA TypeStep == TypeInv /\ [Next]_vars => TypeInv'
<1> SUFFICES ASSUME TypeInv, [Next]_vars PROVE TypeInv'
  OBVIOUS
<1>1. CASE \E p \in Calls : CallNext(p)
  BY <1>1, CallTypes
<1>2. ASSUME NEW c \in invoices, Pay(c) PROVE TypeInv'
  BY <1>2 DEF Pay, TypeInv
<1>3. CASE Restart
  <2>1. RowTypes' /\ made' = made /\ made \in Nat
    BY <1>3, SameRows DEF Restart, Fault, TypeInv
  <2>2. call' \in [Calls -> Local(made)] /\ \A p \in Calls : Sequential(call'[p], made)
    BY <1>3, <2>1, NoCallTypes DEF Restart
  <2> QED BY <2>1, <2>2 DEF RowTypes, TypeInv
<1>4. CASE UNCHANGED vars
  BY <1>4 DEF vars, baseVars, auxVars, TypeInv
<1> QED BY <1>1, <1>2, <1>3, <1>4 DEF Next

(* Whatever meets whatever, the rows and the locals keep their types, and  *)
(* no request subscribes or bills a customer that was never made.          *)
THEOREM TypesHold == Spec => []TypeOK
BY InitTypes, TypeStep, TypeInvIs, PTL DEF Spec

-----------------------------------------------------------------------------
(* As long as a request is alone, what it read of the lead is the lead.    *)
Only == alone => \A p, q \in Calls : ~At(p, "idle") /\ ~At(q, "idle") => p = q

(* A move to a stage of the sale on its way: every way to its end stamps   *)
(* the lead with a customer that is there.                                 *)
Winning(p) ==
    LET r == call[p]
    IN  alone /\ ~At(p, "idle") /\ r.op = "move" /\ r.to = "won" =>
          /\ r.pc \in {"move", "get", "put", "convert", "create", "subscribe", "bill"}
          /\ r.pc = "get" /\ r.next # "convert" => \E c \in customers : r.patch = Stamp(c)
          /\ r.pc = "put" /\ r.next # "convert" => r.doc.won /\ r.doc.customer \in customers
          /\ r.pc = "convert" => r.doc = lead
          /\ r.pc \in {"subscribe", "bill"} => lead.won /\ lead.customer \in customers

LEMMA OneMoves ==
    ASSUME TypeInv, NEW p \in Calls, CallNext(p)
    PROVE  /\ \A q \in Calls : q # p => call'[q] = call[q]
           /\ \/ /\ At(p, "idle") /\ alone' = \A q \in Calls : At(q, "idle")
                 /\ clean' = (clean /\ alone') /\ crossed' = crossed
                 /\ UNCHANGED <<lead, customers, subs, invoices, paid, from>>
                 /\ call'[p].pc = call'[p].op /\ call'[p].op \in {"move", "cancel", "revertWin"}
                 /\ call'[p].next = "idle"
                 /\ call'[p].op = "cancel" => call'[p].to \in {"open", "lost"}
              \/ alone' = FALSE /\ clean' = FALSE /\ (QueryFails(p) \/ ListFails(p))
              \/ ~At(p, "idle") /\ alone' = alone /\ clean' = clean
<1> DEFINE r == call[p]
<1>0. call \in [Calls -> Local(made)] /\ NoCall.pc = "idle"
  BY DEF TypeInv, NoCall
<1>1. \E s : Become(p, s)
  BY DEF CallNext, PatchLead, CancelSale, RevertWin, Begin, MoveLead, CancelRead, CancelCheck, CancelMove,
     RevertWinCheck, RevertWinLead, RevertFind, RevertSubs, RevertBills, RevertRemove, Remove, UpdateGet,
     UpdatePut, ConvertList, ConvertCreate, Subscribe, Bill, QueryFails, ListFails, Goto, Then
<1>2. \A q \in Calls : q # p => call'[q] = call[q]
  BY <1>0, <1>1 DEF Become
<1>3. ASSUME NEW op \in {"move", "cancel", "revertWin"}, NEW to, NEW c, Begin(p, op, to, c),
             op = "cancel" => to \in {"open", "lost"}
      PROVE  /\ At(p, "idle") /\ alone' = \A q \in Calls : At(q, "idle")
             /\ clean' = (clean /\ alone') /\ crossed' = crossed
             /\ UNCHANGED <<lead, customers, subs, invoices, paid, from>>
             /\ call'[p].pc = call'[p].op /\ call'[p].op \in {"move", "cancel", "revertWin"}
             /\ call'[p].next = "idle"
             /\ call'[p].op = "cancel" => call'[p].to \in {"open", "lost"}
  <2>1. call' = [call EXCEPT ![p] = [NoCall EXCEPT !.pc = op, !.op = op, !.to = to, !.c = c]]
    BY <1>3 DEF Begin, Become
  <2>2. call'[p].pc = op /\ call'[p].op = op /\ call'[p].to = to /\ call'[p].next = "idle"
    BY <1>0, <2>1 DEF NoCall
  <2> QED BY <1>3, <2>2 DEF Begin, baseVars
<1>4. CASE \/ \E to \in Stages : PatchLead(p, to)
           \/ \E to \in {"open", "lost"} : CancelSale(p, to)
           \/ \E c \in customers : RevertWin(p, c)
  BY <1>2, <1>3, <1>4 DEF PatchLead, CancelSale, RevertWin
<1>5. CASE QueryFails(p) \/ ListFails(p)
  BY <1>2, <1>5 DEF QueryFails, ListFails, Fault
<1>6. CASE \/ MoveLead(p) \/ CancelRead(p) \/ CancelCheck(p)
           \/ RevertWinCheck(p) \/ RevertWinLead(p)
           \/ RevertFind(p) \/ RevertSubs(p) \/ RevertBills(p) \/ RevertRemove(p)
           \/ UpdateGet(p) \/ UpdatePut(p)
           \/ ConvertList(p) \/ ConvertCreate(p) \/ Subscribe(p) \/ Bill(p)
  <2>1. alone' = alone /\ clean' = clean
    BY <1>6 DEF MoveLead, CancelRead, CancelCheck, RevertWinCheck, RevertWinLead, RevertFind, RevertSubs,
       RevertBills, RevertRemove, UpdateGet, UpdatePut, ConvertList, Looked, ConvertCreate, Subscribe, Bill,
       Reads, Steps, auxVars
  <2>2. ~At(p, "idle")
    BY <1>6 DEF MoveLead, CancelRead, CancelCheck, RevertWinCheck, RevertWinLead, RevertFind, RevertSubs,
       RevertBills, RevertRemove, Remove, UpdateGet, UpdatePut, ConvertList, ConvertCreate, Subscribe, Bill, At
  <2> QED BY <1>2, <2>1, <2>2
<1> QED BY <1>4, <1>5, <1>6 DEF CallNext

LEMMA OnlyStep ==
    ASSUME TypeInv, Only, [Next]_vars
    PROVE  /\ Only'
           /\ alone' => \/ /\ UNCHANGED <<call, alone, clean, crossed, lead, customers, subs, invoices, from>>
                           /\ paid \subseteq paid'
                        \/ \E p \in Calls : CallNext(p) /\ \A q \in Calls : q # p => At(q, "idle") /\ At(q, "idle")'
<1>1. ASSUME NEW p \in Calls, CallNext(p), alone'
      PROVE  \A q \in Calls : q # p => At(q, "idle") /\ At(q, "idle")'
  BY <1>1, OneMoves, ZenonT(30) DEF Only, At
<1>2. ASSUME (\E c \in invoices : Pay(c)) \/ UNCHANGED vars
      PROVE  /\ UNCHANGED <<call, alone, clean, crossed, lead, customers, subs, invoices, from>>
             /\ paid \subseteq paid'
  BY <1>2 DEF Pay, vars, baseVars, auxVars
<1>3. Restart => ~alone'
  BY DEF Restart, Fault
<1>4. Only'
  <2>1. CASE ~alone'
    BY <2>1 DEF Only
  <2>2. CASE alone' /\ \E p \in Calls : CallNext(p)
    BY <1>1, <2>2 DEF Only
  <2>3. CASE (\E c \in invoices : Pay(c)) \/ UNCHANGED vars
    BY <1>2, <2>3 DEF Only, At
  <2> QED BY <1>3, <2>1, <2>2, <2>3 DEF Next
<1> QED BY <1>1, <1>2, <1>3, <1>4 DEF Next

(* One step of a move to a stage of the sale.                              *)
LEMMA WinningSteps ==
    ASSUME TypeInv, NEW p \in Calls, Winning(p), alone, alone', CallNext(p), ~At(p, "idle"),
           call[p].op = "move", call[p].to = "won"
    PROVE  Winning(p)' /\ (call'[p].pc = "idle" => lead'.won /\ lead'.customer \in customers')
<1> DEFINE r == call[p]
<1>0. call \in [Calls -> Local(made)] /\ r \in Local(made) /\ NoCall.pc = "idle" /\ r.next \in Nexts
      /\ lead \in LeadOf(made) /\ made \in Nat /\ r.patch \in PatchOf(made)
  BY DEF TypeInv, NoCall, Local
<1>1. /\ r.pc \in {"move", "get", "put", "convert", "create", "subscribe", "bill"}
      /\ r.pc = "get" /\ r.next # "convert" => \E c \in customers : r.patch = Stamp(c)
      /\ r.pc = "put" /\ r.next # "convert" => r.doc.won /\ r.doc.customer \in customers
      /\ r.pc = "convert" => r.doc = lead
      /\ r.pc \in {"subscribe", "bill"} => lead.won /\ lead.customer \in customers
  BY DEF Winning
<1>2. ASSUME Become(p, NoCall) PROVE At(p, "idle")'
  BY <1>0, <1>2 DEF Become, At
<1>3. CASE MoveLead(p)
  <2>1. Then(p, lead, Moved("won"), FALSE, FALSE)
    BY <1>3 DEF MoveLead, Undoes
  <2>2. call'[p].pc = "get" /\ call'[p].next = "convert"
    BY <1>0, <2>1 DEF Then, Become, Local
  <2> QED BY <2>2 DEF Winning
<1>4. CASE UpdateGet(p)
  <2>1. call'[p].pc = "put" /\ call'[p].next = r.next /\ call'[p].doc = Merge(lead, r.patch)
        /\ customers' = customers /\ lead' = lead /\ r.pc = "get"
    BY <1>0, <1>4 DEF UpdateGet, Become, Local, Reads, At
  <2>2. ASSUME NEW c \in customers, r.patch = Stamp(c)
        PROVE  Merge(lead, r.patch).won /\ Merge(lead, r.patch).customer \in customers
    BY <1>0, <2>2, Merged DEF Stamp
  <2>3. call'[p].next # "convert" => call'[p].doc.won /\ call'[p].doc.customer \in customers'
    BY <1>1, <2>1, <2>2
  <2> QED BY <2>1, <2>3 DEF Winning
<1>5. CASE UpdatePut(p)
  <2>1. lead' = r.doc /\ customers' = customers /\ r.pc = "put"
    BY <1>5 DEF UpdatePut, At
  <2>2. CASE r.next = "idle"
    BY <1>1, <1>2, <1>5, <2>1, <2>2 DEF UpdatePut, Winning
  <2>3. CASE r.next # "idle"
    <3>1. call'[p].pc = r.next /\ call'[p].doc = r.doc /\ r.next \in {"convert", "subscribe"}
      BY <1>0, <1>5, <2>3 DEF UpdatePut, Goto, Become, Local, Nexts
    <3> QED BY <1>1, <2>1, <3>1 DEF Winning
  <2> QED BY <2>2, <2>3
<1>6. CASE ConvertList(p)
  <2>1. customers' = customers /\ lead' = lead /\ r.pc = "convert" /\ r.doc = lead
    BY <1>1, <1>6 DEF ConvertList, Looked, At
  <2>2. CASE customers = {}
    <3>1. call'[p].pc = "create"
      BY <1>0, <1>6, <2>2 DEF ConvertList, Goto, Become, Local
    <3> QED BY <3>1 DEF Winning
  <2>3. CASE customers # {}
    <3>1. PICK c \in customers :
              IF r.doc.customer # c \/ ~r.doc.won
              THEN Become(p, [call[p] EXCEPT !.pc = "get", !.patch = Stamp(c), !.next = "idle"])
              ELSE Become(p, NoCall)
      BY <1>6, <2>3 DEF ConvertList
    <3>2. CASE r.doc.customer # c \/ ~r.doc.won
      <4>1. call'[p].pc = "get" /\ call'[p].patch = Stamp(c)
        BY <1>0, <3>1, <3>2 DEF Become, Local
      <4> QED BY <2>1, <4>1 DEF Winning
    <3>3. CASE ~(r.doc.customer # c \/ ~r.doc.won)
      <4>1. At(p, "idle")'
        BY <1>2, <3>1, <3>3
      <4> QED BY <2>1, <3>3, <4>1 DEF Winning
    <3> QED BY <3>2, <3>3
  <2> QED BY <2>2, <2>3
<1>7. CASE ConvertCreate(p)
  <2>1. call'[p].pc = "get" /\ call'[p].patch = Stamp(made + 1) /\ made + 1 \in customers'
    BY <1>0, <1>7 DEF ConvertCreate, Become, Local
  <2> QED BY <2>1 DEF Winning
<1>8. CASE Subscribe(p)
  <2>1. call'[p].pc = "bill" /\ lead' = lead /\ customers' = customers /\ r.pc = "subscribe"
    BY <1>0, <1>8 DEF Subscribe, Goto, Become, Local, At
  <2> QED BY <1>1, <2>1 DEF Winning
<1>9. CASE Bill(p)
  <2>1. At(p, "idle")' /\ lead' = lead /\ customers' = customers /\ r.pc = "bill"
    BY <1>2, <1>9 DEF Bill, At
  <2> QED BY <1>1, <2>1 DEF Winning
<1>10. ~(QueryFails(p) \/ ListFails(p))
  BY DEF QueryFails, ListFails, Fault
<1>11. ~(\/ \E to \in Stages : PatchLead(p, to)
         \/ \E to \in {"open", "lost"} : CancelSale(p, to)
         \/ \E c \in customers : RevertWin(p, c))
  BY DEF PatchLead, CancelSale, RevertWin, Begin
<1>12. ~(\/ CancelRead(p) \/ CancelCheck(p) \/ RevertWinCheck(p) \/ RevertWinLead(p)
         \/ RevertFind(p) \/ RevertSubs(p) \/ RevertBills(p) \/ RevertRemove(p))
  BY <1>1 DEF CancelRead, CancelCheck, RevertWinCheck, RevertWinLead, RevertFind, RevertSubs, RevertBills,
     RevertRemove, Remove, At
<1> QED BY <1>3, <1>4, <1>5, <1>6, <1>7, <1>8, <1>9, <1>10, <1>11, <1>12 DEF CallNext

(* What a request was asked for stays.                                     *)
LEMMA KeepsAim ==
    ASSUME TypeInv, NEW p \in Calls, CallNext(p), ~At(p, "idle")
    PROVE  call'[p].pc = "idle" \/ (call'[p].op = call[p].op /\ call'[p].to = call[p].to)
<1> DEFINE r == call[p]
           Kept == call'[p].pc = "idle" \/ (call'[p].op = r.op /\ call'[p].to = r.to)
<1> SUFFICES Kept
  OBVIOUS
<1>0. call \in [Calls -> Local(made)] /\ NoCall.pc = "idle" /\ r \in Local(made)
  BY DEF TypeInv, NoCall
<1>1. ASSUME NEW s, Become(p, s), s.pc = "idle" \/ (s.op = r.op /\ s.to = r.to) PROVE Kept
  BY <1>0, <1>1 DEF Become
<1>2. ASSUME NEW l, Goto(p, l) PROVE Kept
  <2>1. [r EXCEPT !.pc = l].op = r.op /\ [r EXCEPT !.pc = l].to = r.to
    BY <1>0 DEF Local
  <2> QED BY <1>1, <1>2, <2>1 DEF Goto
<1>3. Become(p, NoCall) => Kept
  BY <1>0, <1>1
<1>4. ASSUME NEW doc, NEW patch, NEW revert, NEW swallow, Then(p, doc, patch, revert, swallow) PROVE Kept
  BY <1>0, <1>4 DEF Then, Become, Local
<1> HIDE DEF Kept
<1>5. CASE MoveLead(p)
  BY <1>4, <1>5 DEF MoveLead
<1>6. CASE CancelRead(p)
  <2>1. CASE Become(p, [call[p] EXCEPT !.pc = "check", !.doc = lead])
    BY <1>0, <2>1 DEF Become, Local, Kept
  <2> QED BY <1>3, <1>6, <2>1 DEF CancelRead
<1>7. CASE CancelCheck(p)
  BY <1>3, <1>4, <1>7 DEF CancelCheck, CancelMove
<1>8. CASE RevertWinCheck(p)
  BY <1>2, <1>3, <1>8 DEF RevertWinCheck
<1>9. CASE RevertWinLead(p)
  BY <1>4, <1>9 DEF RevertWinLead
<1>10. CASE RevertFind(p)
  BY <1>0, <1>10 DEF RevertFind, Become, Local, Kept
<1>11. CASE RevertSubs(p)
  BY <1>0, <1>11 DEF RevertSubs, Become, Local, Kept
<1>12. CASE RevertBills(p)
  BY <1>0, <1>12 DEF RevertBills, Become, Local, Kept
<1>13. CASE RevertRemove(p)
  BY <1>2, <1>13 DEF RevertRemove, Remove
<1>14. CASE UpdateGet(p)
  BY <1>0, <1>14 DEF UpdateGet, Become, Local, Kept
<1>15. CASE UpdatePut(p)
  BY <1>2, <1>3, <1>15 DEF UpdatePut
<1>16. CASE ConvertList(p)
  <2>1. ASSUME NEW c \in customers, Become(p, [call[p] EXCEPT !.pc = "get", !.patch = Stamp(c), !.next = "idle"])
        PROVE  Kept
    BY <1>0, <2>1 DEF Become, Local, Kept
  <2> QED BY <1>2, <1>3, <1>16, <2>1 DEF ConvertList
<1>17. CASE ConvertCreate(p)
  BY <1>0, <1>17 DEF ConvertCreate, Become, Local, Kept
<1>18. CASE Subscribe(p) \/ Bill(p)
  BY <1>2, <1>3, <1>18 DEF Subscribe, Bill
<1>19. CASE QueryFails(p)
  BY <1>2, <1>3, <1>19 DEF QueryFails
<1>20. CASE ListFails(p)
  BY <1>2, <1>4, <1>20 DEF ListFails, CancelMove
<1>21. /\ \A to : ~PatchLead(p, to) /\ ~CancelSale(p, to)
       /\ \A c : ~RevertWin(p, c)
  BY DEF PatchLead, CancelSale, RevertWin, Begin
<1> QED
  BY <1>5, <1>6, <1>7, <1>8, <1>9, <1>10, <1>11, <1>12, <1>13, <1>14, <1>15, <1>16, <1>17, <1>18, <1>19, <1>20,
     <1>21 DEF CallNext

WinInv == Only /\ \A p \in Calls : Winning(p)

LEMMA WinInit == Init => WinInv
<1> SUFFICES ASSUME Init PROVE WinInv
  OBVIOUS
<1>1. \A p \in Calls : At(p, "idle")
  BY DEF Init, At, NoCall
<1> QED BY <1>1 DEF WinInv, Only, Winning

LEMMA WinStep ==
    ASSUME TypeInv, WinInv, [Next]_vars
    PROVE  /\ WinInv'
           /\ \A p \in Calls :
                 ~At(p, "idle") /\ call'[p].pc = "idle" /\ call[p].op = "move" /\ call[p].to = "won" /\ alone'
                 => lead'.won /\ lead'.customer \in customers'
<1>1. Only' /\ (alone' => \/ UNCHANGED <<call, alone, lead, customers>>
                          \/ \E p \in Calls : CallNext(p) /\ \A q \in Calls : q # p => At(q, "idle") /\ At(q, "idle")')
  BY OnlyStep DEF WinInv
<1>2. ASSUME alone', NEW p \in Calls, CallNext(p), \A q \in Calls : q # p => At(q, "idle") /\ At(q, "idle")'
      PROVE  /\ Winning(p)'
             /\ ~At(p, "idle") /\ call'[p].pc = "idle" /\ call[p].op = "move" /\ call[p].to = "won"
                => lead'.won /\ lead'.customer \in customers'
  <2>1. CASE At(p, "idle")
    <3>1. call'[p].op = "move" => call'[p].pc = "move"
      BY <1>2, <2>1, OneMoves
    <3> QED BY <2>1, <3>1 DEF Winning
  <2>2. CASE ~At(p, "idle") /\ call[p].op = "move" /\ call[p].to = "won"
    <3>1. alone
      BY <1>2, <2>2, OneMoves
    <3> QED BY <1>2, <2>2, <3>1, WinningSteps DEF WinInv
  <2>3. CASE ~At(p, "idle") /\ ~(call[p].op = "move" /\ call[p].to = "won")
    <3>1. call'[p].pc = "idle" \/ (call'[p].op = call[p].op /\ call'[p].to = call[p].to)
      BY <1>2, <2>3, KeepsAim
    <3> QED BY <2>3, <3>1 DEF Winning, At
  <2> QED BY <2>1, <2>2, <2>3
<1>3. ASSUME alone', UNCHANGED <<call, alone, lead, customers>> PROVE \A p \in Calls : Winning(p)'
  BY <1>3 DEF WinInv, Winning, At
<1>4. \A p \in Calls : Winning(p)'
  <2>1. CASE ~alone'
    BY <2>1 DEF Winning
  <2>2. CASE alone' /\ ~UNCHANGED <<call, alone, lead, customers>>
    <3>1. PICK p \in Calls : CallNext(p) /\ \A q \in Calls : q # p => At(q, "idle") /\ At(q, "idle")'
      BY <1>1, <2>2
    <3>2. Winning(p)'
      BY <1>2, <2>2, <3>1
    <3>3. \A q \in Calls : q # p => Winning(q)'
      BY <3>1 DEF Winning
    <3> QED BY <3>2, <3>3
  <2> QED BY <1>3, <2>1, <2>2
<1> QED BY <1>1, <1>2, <1>4 DEF WinInv, At

(* won-lead.js:71-78,126: whatever went wrong before, a move to a stage of *)
(* the sale that meets nothing ends with a customer that is there.         *)
THEOREM WinsLink == Spec => WinLinks
<1>1. Spec => []TypeInv
  BY InitTypes, TypeStep, PTL DEF Spec
<1>2. TypeInv /\ WinInv /\ [Next]_vars => WinInv'
  BY WinStep
<1>3. TypeInv /\ WinInv /\ [Next]_vars =>
        [\A p \in Calls :
           ~At(p, "idle") /\ call'[p].pc = "idle" /\ call[p].op = "move" /\ call[p].to = "won" /\ alone'
           => lead'.won /\ lead'.customer \in customers']_vars
  BY WinStep
<1> QED BY <1>1, <1>2, <1>3, WinInit, PTL DEF Spec, WinLinks

-----------------------------------------------------------------------------
(* A request by itself, query by query, from one agreement to the next.    *)
Even == subs = customers /\ invoices = customers
Settled ==
    /\ lead.won <=> lead.customer # None
    /\ lead.customer \in customers \cup {None}
    /\ lead.stage = "open" /\ lead.customer # None => from = "lost"
    /\ customers \ {lead.customer} \subseteq paid
    /\ Even
Agreed == Settled /\ (lead.stage = "won" => lead.customer # None)

(* What a request is about to write: no sale, another stage, ...           *)
Takes(r) ==
    r.next = "idle" /\ \/ r.patch = Unsold /\ lead.stage # "won"
                       \/ \E to \in {"open", "lost"} : r.patch = MovedUnsold(to)
Moves(r) ==
    \E to \in Stages : /\ r.patch = Moved(to) /\ r.next = IF to = "won" THEN "convert" ELSE "idle"
                       /\ to = "open" => lead.stage # "won" \/ lead.customer = None

(* ... or the customer of the sale, found or created.                      *)
Finds(r) == r.next = "idle" /\ lead.stage = "won" /\ Even /\ \E c \in customers : r.patch = Stamp(c)
Makes(r) ==
    /\ r.next = "subscribe" /\ r.patch = Stamp(r.c) /\ lead.stage = "won"
    /\ customers = {r.c} /\ subs = {} /\ invoices = {}
Writes(r) == \/ Takes(r) /\ Even /\ customers \subseteq paid
             \/ Moves(r) /\ Agreed
             \/ Finds(r) \/ Makes(r)

Outline(r) ==
    /\ r.pc \in {"idle", "move", "cancel", "revertWin", "check", "revert", "listSubs", "listBills", "unbill"} => Agreed
    /\ r.pc \in {"move", "cancel", "revertWin"} => r.op = r.pc
    /\ r.pc \in {"cancel", "check"} /\ r.op = "cancel" => r.to \in {"open", "lost"}
    /\ r.pc = "check" => r.op # "move" /\ (r.op = "cancel" => r.doc = lead)
    /\ r.pc = "revert" => r.doc = lead
    /\ r.pc \in {"revert", "listSubs", "listBills"} \cup Removing => Takes(r)
    /\ r.pc \in {"listSubs", "listBills"} \cup Removing => customers = {r.c}
    /\ r.pc \in {"listBills", "unbill", "unsubscribe"} => r.sub
    /\ r.pc = "unbill" => r.bill
    /\ r.pc = "unsubscribe" => subs = customers /\ invoices = {}
    /\ r.pc = "uncustomer" => subs = {} /\ invoices = {}
    /\ r.pc \in {"get", "put"} => Writes(r)
    /\ r.pc = "put" => r.doc = Merge(lead, r.patch)
    /\ r.pc = "convert" => Settled /\ lead.stage = "won" /\ r.doc = lead
    /\ r.pc = "create" => lead.stage = "won" /\ customers = {} /\ Even
    /\ r.pc \in {"subscribe", "bill"} =>
          /\ lead.stage = "won" /\ lead.won /\ lead.customer = r.c /\ customers = {r.c}
          /\ subs = (IF r.pc = "bill" THEN {r.c} ELSE {}) /\ invoices = {}

Tidy ==
    clean => /\ alone /\ ~crossed
             /\ AtRest => Agreed
             /\ \A p \in Calls : ~At(p, "idle") => Outline(call[p])

LEMMA SameAgreed ==
    ASSUME UNCHANGED <<lead, customers, subs, invoices, from>>, paid \subseteq paid'
    PROVE  /\ Even <=> Even'
           /\ Settled => Settled'
           /\ Agreed => Agreed'
BY DEF Even, Settled, Agreed

LEMMA TidyInit == Init => Tidy
<1> SUFFICES ASSUME Init PROVE Tidy
  OBVIOUS
<1>1. \A p \in Calls : At(p, "idle")
  BY DEF Init, At, NoCall
<1>2. lead.customer = None /\ lead.won = FALSE /\ lead.stage = "open"
  BY DEF Init, MovedUnsold
<1> QED BY <1>1, <1>2 DEF Tidy, Agreed, Settled, Even, Init

(* A payment, or nothing: what is agreed stays agreed.                     *)
LEMMA TidyPay ==
    ASSUME Tidy, UNCHANGED <<call, alone, clean, crossed, lead, customers, subs, invoices, from>>, paid \subseteq paid'
    PROVE  Tidy'
<1>1. (Even <=> Even') /\ (Settled => Settled') /\ (Agreed => Agreed')
  BY SameAgreed
<1>2. \A p \in Calls : Outline(call[p]) => Outline(call[p])'
  <2> SUFFICES ASSUME NEW p \in Calls, Outline(call[p]) PROVE Outline(call[p])'
    OBVIOUS
  <2>1. /\ Takes(call[p]) => Takes(call[p])'
        /\ Moves(call[p]) => Moves(call[p])'
        /\ Finds(call[p]) => Finds(call[p])'
        /\ Makes(call[p]) => Makes(call[p])'
    BY <1>1 DEF Takes, Moves, Finds, Makes
  <2>2. Writes(call[p]) => Writes(call[p])'
    BY <1>1, <2>1 DEF Writes
  <2> QED BY <1>1, <2>1, <2>2 DEF Outline
<1> QED BY <1>1, <1>2 DEF Tidy, AtRest, At

-----------------------------------------------------------------------------
(* What a step makes of the locals of its request.                         *)
LEMMA Becomes ==
    ASSUME TypeInv, NEW p \in Calls, NEW s, Become(p, s)
    PROVE  call'[p] = s
BY DEF TypeInv, Become

LEMMA Ends ==
    ASSUME TypeInv, NEW p \in Calls, Become(p, NoCall), Agreed'
    PROVE  Outline(call[p])'
<1>1. call'[p].pc = "idle"
  BY Becomes DEF NoCall
<1> QED BY <1>1 DEF Outline, Removing


LEMMA ThenIs ==
    ASSUME TypeInv, NEW p \in Calls, NEW doc, NEW patch, NEW revert \in BOOLEAN, NEW swallow,
           Then(p, doc, patch, revert, swallow)
    PROVE  /\ call'[p].pc = IF revert THEN "revert" ELSE "get"
           /\ call'[p].doc = doc /\ call'[p].patch = patch
           /\ call'[p].next = IF call[p].op = "move" /\ call[p].to = "won" THEN "convert" ELSE "idle"
BY DEF TypeInv, Local, Then, Become

(* A step that only reads leaves every agreement as it was.                *)
LEMMA ReadsAgreed ==
    ASSUME NEW p \in Calls, Reads(p)
    PROVE  UNCHANGED <<lead, customers, subs, invoices, paid, from, crossed>> /\ (Agreed => Agreed')
BY DEF Reads, Steps, baseVars, auxVars, Agreed, Settled, Even

(* The steps of a move, a cancellation and the button up to revertWonLead. *)
LEMMA TidyMove ==
    ASSUME TypeInv, NEW p \in Calls, Outline(call[p]), MoveLead(p)
    PROVE  Outline(call[p])'
<1> DEFINE r == call[p]
<1>0. r.pc = "move" /\ r.op = "move" /\ Agreed /\ r.to \in Stages
  BY DEF MoveLead, At, Outline, TypeInv, Local
<1>1. UNCHANGED <<lead, customers, subs, invoices, paid, from, crossed>> /\ Agreed'
  BY <1>0, ReadsAgreed DEF MoveLead
<1>2. CASE Undoes(lead, r.to)
  <2>1. Then(p, lead, MovedUnsold("open"), TRUE, TRUE) /\ r.to = "open"
    BY <1>2 DEF MoveLead, Undoes
  <2>2. call'[p].pc = "revert" /\ call'[p].doc = lead /\ call'[p].patch = MovedUnsold("open") /\ call'[p].next = "idle"
    BY <2>1, ThenIs
  <2> QED BY <1>1, <2>2 DEF Outline, Takes, Removing
<1>3. CASE ~Undoes(lead, r.to)
  <2>1. Then(p, lead, Moved(r.to), FALSE, FALSE)
    BY <1>3 DEF MoveLead
  <2>2. /\ call'[p].pc = "get" /\ call'[p].patch = Moved(r.to)
        /\ call'[p].next = IF r.to = "won" THEN "convert" ELSE "idle"
    BY <1>0, <2>1, ThenIs, ZenonT(30)
  <2>3. r.to = "open" => lead.stage # "won" \/ lead.customer = None
    BY <1>3 DEF Undoes, HasSale
  <2>4. Moves(call[p])'
    BY <1>0, <1>1, <2>2, <2>3 DEF Moves
  <2> QED BY <1>1, <2>2, <2>4 DEF Outline, Writes, Removing
<1> QED BY <1>2, <1>3

LEMMA TidyCancelRead ==
    ASSUME TypeInv, NEW p \in Calls, Outline(call[p]), CancelRead(p)
    PROVE  Outline(call[p])'
<1>0. At(p, "cancel") /\ call[p].op = "cancel" /\ call[p].to \in {"open", "lost"} /\ Agreed
  BY DEF CancelRead, At, Outline
<1>1. UNCHANGED <<lead, customers, subs, invoices, paid, from, crossed>> /\ Agreed'
  BY <1>0, ReadsAgreed DEF CancelRead
<1>2. CASE Become(p, NoCall)
  BY <1>1, <1>2, Ends
<1>3. CASE Become(p, [call[p] EXCEPT !.pc = "check", !.doc = lead])
  <2>1. call'[p].pc = "check" /\ call'[p].doc = lead /\ call'[p].op = "cancel" /\ call'[p].to = call[p].to
    BY <1>0, <1>3 DEF TypeInv, Local, Become
  <2> QED BY <1>0, <1>1, <2>1 DEF Outline, Removing
<1> QED BY <1>2, <1>3 DEF CancelRead

LEMMA TidyCancelCheck ==
    ASSUME TypeInv, NEW p \in Calls, Outline(call[p]), CancelCheck(p)
    PROVE  Outline(call[p])'
<1> DEFINE r == call[p]
<1>0. r.pc = "check" /\ r.op = "cancel" /\ r.to \in {"open", "lost"} /\ r.doc = lead /\ Agreed
  BY DEF CancelCheck, At, Outline
<1>1. UNCHANGED <<lead, customers, subs, invoices, paid, from, crossed>> /\ Agreed'
  BY <1>0, ReadsAgreed DEF CancelCheck
<1>2. CASE Become(p, NoCall)
  BY <1>1, <1>2, Ends
<1>3. CASE CancelMove(p)
  <2> DEFINE q == IF r.to = lead.stage THEN Unsold ELSE MovedUnsold(r.to)
  <2>1. Then(p, lead, q, TRUE, Undoes(lead, r.to))
    BY <1>0, <1>3 DEF CancelMove
  <2>2. (q = Unsold /\ lead.stage # "won") \/ (\E to \in {"open", "lost"} : q = MovedUnsold(to))
    BY <1>0
  <2> HIDE DEF q
  <2>3. call'[p].pc = "revert" /\ call'[p].doc = lead /\ call'[p].patch = q /\ call'[p].next = "idle"
    BY <1>0, <2>1, ThenIs
  <2> QED BY <1>1, <2>2, <2>3 DEF Outline, Takes, Removing
<1> QED BY <1>2, <1>3 DEF CancelCheck

LEMMA TidyRevertWin ==
    ASSUME TypeInv, NEW p \in Calls, Outline(call[p]), RevertWinCheck(p) \/ RevertWinLead(p)
    PROVE  Outline(call[p])'
<1> DEFINE r == call[p]
<1>0. r.op = "revertWin" /\ Agreed /\ call[p] \in Local(made) /\ call \in [Calls -> Local(made)]
  BY DEF RevertWinCheck, RevertWinLead, At, Outline, TypeInv
<1>1. UNCHANGED <<lead, customers, subs, invoices, paid, from, crossed>> /\ Agreed'
  BY <1>0, ReadsAgreed DEF RevertWinCheck, RevertWinLead
<1>2. CASE RevertWinCheck(p)
  <2>1. CASE Become(p, NoCall)
    BY <1>1, <2>1, Ends
  <2>2. CASE Goto(p, "check")
    <3>1. call'[p].pc = "check" /\ call'[p].op = "revertWin"
      BY <1>0, <2>2 DEF Goto, Become, Local
    <3> QED BY <1>1, <3>1 DEF Outline, Removing
  <2> QED BY <1>2, <2>1, <2>2 DEF RevertWinCheck
<1>3. CASE RevertWinLead(p)
  <2>1. PICK q : /\ \E swallow : Then(p, lead, q, TRUE, swallow)
                 /\ (q = Unsold /\ lead.stage # "won") \/ (\E to \in {"open", "lost"} : q = MovedUnsold(to))
    BY <1>0, <1>3 DEF RevertWinLead, HasSale, Agreed
  <2>2. call'[p].pc = "revert" /\ call'[p].doc = lead /\ call'[p].patch = q /\ call'[p].next = "idle"
    BY <1>0, <2>1, ThenIs
  <2> QED BY <1>1, <2>1, <2>2 DEF Outline, Takes, Removing
<1> QED BY <1>2, <1>3

(* revertWonLead, of the one customer there is.                            *)
LEMMA TidyFind ==
    ASSUME TypeInv, \A c, d \in customers : c = d, NEW p \in Calls, Outline(call[p]), RevertFind(p)
    PROVE  Outline(call[p])'
<1> DEFINE r == call[p]
<1>0. r.pc = "revert" /\ r.doc = lead /\ Takes(r) /\ Agreed
  BY DEF RevertFind, At, Outline
<1>1. UNCHANGED <<lead, customers, subs, invoices, paid, from, crossed>> /\ Agreed'
  BY <1>0, ReadsAgreed DEF RevertFind
<1>2. PICK c \in CustomerOf(lead) :
          Become(p, [call[p] EXCEPT !.pc = IF c = None THEN "get" ELSE "listSubs", !.c = c])
  BY <1>0 DEF RevertFind
<1>3. /\ call'[p].pc = IF c = None THEN "get" ELSE "listSubs"
      /\ call'[p].c = c /\ call'[p].patch = r.patch /\ call'[p].next = r.next
  BY <1>2 DEF TypeInv, Local, Become
<1>4. Takes(call[p])'
  BY <1>0, <1>1, <1>3 DEF Takes
<1>5. None \notin customers
  BY DEF TypeInv, None
<1>6. IF c = None THEN customers = {} ELSE customers = {c}
  BY <1>2, <1>5 DEF CustomerOf
<1>7. CASE c = None
  <2>1. Writes(call[p])'
    BY <1>1, <1>4, <1>6, <1>7 DEF Writes, Agreed, Settled, Even
  <2> QED BY <1>3, <1>7, <2>1 DEF Outline, Removing
<1>8. CASE c # None
  BY <1>1, <1>3, <1>4, <1>6, <1>8 DEF Outline, Removing
<1> QED BY <1>7, <1>8

LEMMA TidyLists ==
    ASSUME TypeInv, NEW p \in Calls, Outline(call[p]), RevertSubs(p) \/ RevertBills(p)
    PROVE  Outline(call[p])'
<1> DEFINE r == call[p]
<1>0. /\ r.pc = (IF RevertSubs(p) THEN "listSubs" ELSE "listBills")
      /\ Takes(r) /\ Agreed /\ customers = {r.c} /\ subs = {r.c} /\ invoices = {r.c}
      /\ r.pc = "listBills" => r.sub
  BY DEF RevertSubs, RevertBills, At, Outline, Agreed, Settled, Even
<1>1. UNCHANGED <<lead, customers, subs, invoices, paid, from, crossed>> /\ Agreed'
  BY <1>0, ReadsAgreed DEF RevertSubs, RevertBills
<1>2. CASE RevertSubs(p)
  <2>1. Become(p, [call[p] EXCEPT !.pc = "listBills", !.sub = TRUE])
    BY <1>0, <1>2 DEF RevertSubs
  <2>2. /\ call'[p].pc = "listBills" /\ call'[p].sub = TRUE
        /\ call'[p].c = r.c /\ call'[p].patch = r.patch /\ call'[p].next = r.next
    BY <2>1 DEF TypeInv, Local, Become
  <2>3. Takes(call[p])'
    BY <1>0, <1>1, <2>2 DEF Takes
  <2> QED BY <1>0, <1>1, <2>2, <2>3 DEF Outline, Removing
<1>3. CASE RevertBills(p)
  <2>1. Become(p, [call[p] EXCEPT !.pc = IF RealBilling(r.c) THEN "get" ELSE "unbill", !.bill = TRUE])
    BY <1>0, <1>3 DEF RevertBills
  <2>2. /\ call'[p].pc = (IF RealBilling(r.c) THEN "get" ELSE "unbill") /\ call'[p].sub = r.sub /\ call'[p].bill = TRUE
        /\ call'[p].c = r.c /\ call'[p].patch = r.patch /\ call'[p].next = r.next
    BY <2>1 DEF TypeInv, Local, Become
  <2>3. Takes(call[p])'
    BY <1>0, <1>1, <2>2 DEF Takes
  <2>4. CASE RealBilling(r.c)
    <3>1. Writes(call[p])'
      BY <1>0, <1>1, <2>3, <2>4 DEF Writes, Agreed, Settled, Even, RealBilling
    <3> QED BY <2>2, <2>4, <3>1 DEF Outline, Removing
  <2>5. CASE ~RealBilling(r.c)
    <3>1. r.sub
      BY <1>0, <1>3 DEF RevertBills, At, Outline
    <3> QED BY <1>0, <1>1, <2>2, <2>3, <2>5, <3>1 DEF Outline, Removing
  <2> QED BY <2>4, <2>5
<1> QED BY <1>2, <1>3

LEMMA TidyRemove ==
    ASSUME TypeInv, NEW p \in Calls, Outline(call[p]), RevertRemove(p)
    PROVE  Outline(call[p])'
<1> DEFINE r == call[p]
<1>0. Takes(r) /\ customers = {r.c} /\ UNCHANGED <<lead, paid>>
  BY DEF RevertRemove, Remove, At, Outline, Removing
<1>g. ASSUME NEW l, Goto(p, l)
      PROVE  /\ call'[p].pc = l /\ call'[p].c = r.c /\ call'[p].sub = r.sub
             /\ Takes(call[p])'
  <2>1. /\ call'[p].pc = l /\ call'[p].c = r.c /\ call'[p].sub = r.sub
        /\ call'[p].patch = r.patch /\ call'[p].next = r.next
    BY <1>g DEF TypeInv, Local, Goto, Become
  <2> QED BY <1>0, <2>1 DEF Takes
<1>1. CASE r.pc = "unbill"
  <2>1. /\ Goto(p, "unsubscribe") /\ UNCHANGED <<customers, subs>>
        /\ invoices' = IF r.bill THEN invoices \ {r.c} ELSE invoices
    BY <1>1 DEF RevertRemove, Remove, At
  <2>2. r.bill /\ r.sub /\ invoices = customers /\ subs = customers
    BY <1>1 DEF Outline, Agreed, Settled, Even
  <2>3. invoices' = {} /\ subs' = {r.c} /\ customers' = {r.c}
    BY <1>0, <2>1, <2>2
  <2>4. /\ call'[p].pc = "unsubscribe" /\ call'[p].c = r.c /\ call'[p].sub /\ Takes(call[p])'
    BY <1>g, <2>1, <2>2
  <2> HIDE DEF r
  <2> QED BY <2>3, <2>4 DEF Outline, Removing
<1>2. CASE r.pc = "unsubscribe"
  <2>1. /\ Goto(p, "uncustomer") /\ UNCHANGED <<customers, invoices>>
        /\ subs' = IF r.sub THEN subs \ {r.c} ELSE subs
    BY <1>2 DEF RevertRemove, Remove, At
  <2>2. r.sub /\ invoices = {} /\ subs = customers
    BY <1>2 DEF Outline
  <2>3. invoices' = {} /\ subs' = {} /\ customers' = {r.c}
    BY <1>0, <2>1, <2>2
  <2> QED BY <1>g, <2>1, <2>3 DEF Outline, Removing
<1>3. CASE r.pc = "uncustomer"
  <2>1. Goto(p, "get") /\ UNCHANGED <<subs, invoices>> /\ customers' = customers \ {r.c}
    BY <1>3 DEF RevertRemove, Remove, At
  <2>2. invoices = {} /\ subs = {}
    BY <1>3 DEF Outline
  <2>3. invoices' = {} /\ subs' = {} /\ customers' = {}
    BY <1>0, <2>1, <2>2
  <2>4. Writes(call[p])'
    BY <1>g, <2>1, <2>3 DEF Writes, Even
  <2> QED BY <1>g, <2>1, <2>4 DEF Outline, Removing
<1> QED BY <1>1, <1>2, <1>3 DEF RevertRemove, Remove, At

-----------------------------------------------------------------------------
(* The lead is read and written.                                           *)
LEMMA TidyGet ==
    ASSUME TypeInv, NEW p \in Calls, Outline(call[p]), UpdateGet(p)
    PROVE  Outline(call[p])'
<1> DEFINE r == call[p]
<1>0. r.pc = "get" /\ Writes(r)
  BY DEF UpdateGet, At, Outline, Removing
<1>1. UNCHANGED <<lead, customers, subs, invoices, paid, from, crossed>> /\ (Agreed => Agreed')
  BY ReadsAgreed DEF UpdateGet
<1>2. /\ call'[p].pc = "put" /\ call'[p].doc = Merge(lead, r.patch)
      /\ call'[p].c = r.c /\ call'[p].patch = r.patch /\ call'[p].next = r.next
  BY DEF UpdateGet, TypeInv, Local, Become
<1> HIDE DEF r
<1>3. call'[p].doc = Merge(lead', call'[p].patch)
  BY <1>1, <1>2
<1>4. /\ Takes(r) => Takes(call[p])'
      /\ Moves(r) => Moves(call[p])'
      /\ Finds(r) => Finds(call[p])'
      /\ Makes(r) => Makes(call[p])'
      /\ Even => Even'
  BY <1>1, <1>2 DEF Takes, Moves, Finds, Makes, Even
<1>5. Writes(call[p])'
  BY <1>0, <1>1, <1>4 DEF Writes
<1> QED BY <1>2, <1>3, <1>5 DEF Outline, Removing

LEMMA TidyPut ==
    ASSUME TypeInv, \A c, d \in customers : c = d, NEW p \in Calls, Outline(call[p]), UpdatePut(p)
    PROVE  Outline(call[p])'
<1> DEFINE r == call[p]
<1>0. r.pc = "put" /\ Writes(r) /\ r.doc = Merge(lead, r.patch)
  BY DEF UpdatePut, At, Outline, Removing
<1>t. /\ r \in Local(made) /\ call \in [Calls -> Local(made)] /\ made \in Nat
      /\ lead \in LeadOf(made) /\ r.patch \in PatchOf(made) /\ customers \subseteq 1..made
  BY DEF TypeInv, Local
<1>1. lead' = Merge(lead, r.patch) /\ from' = (IF lead'.stage = lead.stage THEN from ELSE lead.stage)
      /\ UNCHANGED <<customers, subs, invoices, paid>>
  BY <1>0 DEF UpdatePut, baseVars
<1>2. /\ lead'.stage = IF "stage" \in DOMAIN r.patch THEN r.patch.stage ELSE lead.stage
      /\ lead'.customer = IF "customer" \in DOMAIN r.patch THEN r.patch.customer ELSE lead.customer
      /\ lead'.won = IF "won" \in DOMAIN r.patch THEN r.patch.won ELSE lead.won
  BY <1>1, <1>t, Merged
<1>3. r.next = "idle" => Become(p, NoCall)
  BY DEF UpdatePut
<1>4. r.next # "idle" => call'[p].pc = r.next /\ call'[p].doc = lead' /\ call'[p].c = r.c
  BY <1>0, <1>1, <1>t DEF UpdatePut, Goto, Become, Local
<1>5. None \notin customers
  BY <1>t DEF None
<1> HIDE DEF r
<1>6. CASE Takes(r) /\ Even /\ customers \subseteq paid
  <2>1. lead'.customer = None /\ lead'.won = FALSE /\ lead'.stage # "won"
    <3>1. CASE r.patch = Unsold /\ lead.stage # "won"
      BY <1>2, <3>1 DEF Unsold
    <3>2. ASSUME NEW to \in {"open", "lost"}, r.patch = MovedUnsold(to)
          PROVE  lead'.customer = None /\ lead'.won = FALSE /\ lead'.stage # "won"
      BY <1>2, <3>2 DEF MovedUnsold
    <3> QED BY <1>6, <3>1, <3>2 DEF Takes
  <2>2. Agreed'
    BY <1>1, <1>6, <2>1 DEF Agreed, Settled, Even
  <2> QED BY <1>3, <1>6, <2>2, Ends DEF Takes
<1>7. CASE Moves(r) /\ Agreed
  <2>1. PICK to \in Stages : /\ r.patch = Moved(to) /\ r.next = IF to = "won" THEN "convert" ELSE "idle"
                             /\ to = "open" => lead.stage # "won" \/ lead.customer = None
    BY <1>7 DEF Moves
  <2>2. lead'.stage = to /\ lead'.customer = lead.customer /\ lead'.won = lead.won
    BY <1>2, <2>1 DEF Moved
  <2>3. lead.stage \in Stages
    BY <1>t DEF LeadOf
  <2>4. lead'.stage = "open" /\ lead'.customer # None => from' = "lost"
    BY <1>1, <1>7, <2>1, <2>2, <2>3 DEF Agreed, Settled, Stages
  <2>5. Settled'
    BY <1>1, <1>7, <2>2, <2>4 DEF Agreed, Settled, Even
  <2>6. CASE to = "won"
    BY <1>4, <2>1, <2>2, <2>5, <2>6 DEF Outline, Removing
  <2>7. CASE to # "won"
    <3>1. Agreed'
      BY <2>2, <2>5, <2>7 DEF Agreed
    <3> QED BY <1>3, <2>1, <2>7, <3>1, Ends
  <2> QED BY <2>6, <2>7
<1>8. CASE Finds(r)
  <2>1. PICK c \in customers : r.patch = Stamp(c)
    BY <1>8 DEF Finds
  <2>2. lead'.stage = "won" /\ lead'.customer = c /\ lead'.won = TRUE
    BY <1>2, <1>8, <2>1 DEF Stamp, Finds
  <2>3. customers' \ {c} = {} /\ c # None
    BY <1>1, <1>5, <2>1
  <2>4. Agreed'
    BY <1>1, <1>8, <2>1, <2>2, <2>3 DEF Finds, Agreed, Settled, Even
  <2> QED BY <1>3, <1>8, <2>4, Ends DEF Finds
<1>9. CASE Makes(r)
  <2>1. lead'.stage = "won" /\ lead'.customer = r.c /\ lead'.won = TRUE
    BY <1>2, <1>9 DEF Stamp, Makes
  <2>2. call'[p].pc = "subscribe" /\ call'[p].c = r.c
    BY <1>4, <1>9 DEF Makes
  <2>3. customers' = {r.c} /\ subs' = {} /\ invoices' = {}
    BY <1>1, <1>9 DEF Makes
  <2> QED BY <2>1, <2>2, <2>3 DEF Outline, Removing
<1> QED BY <1>0, <1>6, <1>7, <1>8, <1>9 DEF Writes

(* The conversion.                                                         *)
LEMMA TidyList ==
    ASSUME TypeInv, NEW p \in Calls, Outline(call[p]), ConvertList(p)
    PROVE  Outline(call[p])'
<1> DEFINE r == call[p]
<1>0. Settled /\ lead.stage = "won" /\ r.doc = lead
  BY DEF ConvertList, At, Outline
<1>1. UNCHANGED <<lead, customers, subs, invoices, paid, from>> /\ Settled' /\ Even'
  BY <1>0 DEF ConvertList, Looked, baseVars, Settled, Even
<1>2. CASE customers = {}
  <2>1. call'[p].pc = "create"
    BY <1>2 DEF ConvertList, Goto, Become, TypeInv, Local
  <2> QED BY <1>0, <1>1, <1>2, <2>1 DEF Outline, Removing
<1>3. ASSUME NEW c \in customers, Become(p, [call[p] EXCEPT !.pc = "get", !.patch = Stamp(c), !.next = "idle"])
      PROVE  Outline(call[p])'
  <2>1. call'[p].pc = "get" /\ call'[p].patch = Stamp(c) /\ call'[p].next = "idle"
    BY <1>3 DEF Become, TypeInv, Local
  <2>2. Writes(call[p])'
    BY <1>0, <1>1, <2>1 DEF Writes, Finds
  <2> QED BY <2>1, <2>2 DEF Outline, Removing
<1>4. ASSUME NEW c \in customers, lead.customer = c, Become(p, NoCall)
      PROVE  Outline(call[p])'
  <2>1. c # None
    BY DEF TypeInv, None
  <2>2. Agreed'
    BY <1>1, <1>4, <2>1 DEF Agreed
  <2> QED BY <1>4, <2>2, Ends
<1> QED BY <1>0, <1>2, <1>3, <1>4 DEF ConvertList

LEMMA TidyCreate ==
    ASSUME TypeInv, NEW p \in Calls, Outline(call[p]), ConvertCreate(p)
    PROVE  Outline(call[p])'
<1> DEFINE c == made + 1
<1>0. lead.stage = "won" /\ customers = {} /\ subs = {} /\ invoices = {}
  BY DEF ConvertCreate, At, Outline, Even
<1>1. UNCHANGED <<lead, subs, invoices>> /\ customers' = {c}
  BY <1>0 DEF ConvertCreate, baseVars
<1>2. call'[p].pc = "get" /\ call'[p].c = c /\ call'[p].patch = Stamp(c) /\ call'[p].next = "subscribe"
  BY DEF ConvertCreate, Become, TypeInv, Local
<1> HIDE DEF c
<1>3. Writes(call[p])'
  BY <1>0, <1>1, <1>2 DEF Writes, Makes
<1> QED BY <1>2, <1>3 DEF Outline, Removing

LEMMA TidySubscribe ==
    ASSUME TypeInv, NEW p \in Calls, Outline(call[p]), Subscribe(p) \/ Bill(p)
    PROVE  Outline(call[p])'
<1> DEFINE r == call[p]
<1>0. /\ lead.stage = "won" /\ lead.won /\ lead.customer = r.c /\ customers = {r.c} /\ invoices = {}
      /\ subs = (IF r.pc = "bill" THEN {r.c} ELSE {})
      /\ UNCHANGED <<lead, customers, paid>>
  BY DEF Subscribe, Bill, At, Outline
<1>1. CASE Subscribe(p)
  <2>1. call'[p].pc = "bill" /\ call'[p].c = r.c
    BY <1>1 DEF Subscribe, Goto, Become, TypeInv, Local
  <2>2. subs' = {r.c} /\ invoices' = {}
    BY <1>0, <1>1 DEF Subscribe, At
  <2> HIDE DEF r
  <2> QED BY <1>0, <2>1, <2>2 DEF Outline, Removing
<1>2. CASE Bill(p)
  <2>1. subs' = {r.c} /\ invoices' = {r.c} /\ Become(p, NoCall)
    BY <1>0, <1>2 DEF Bill, At
  <2>2. r.c # None
    BY <1>0 DEF TypeInv, None
  <2> HIDE DEF r
  <2>3. Agreed'
    BY <1>0, <2>1, <2>2 DEF Agreed, Settled, Even
  <2> QED BY <2>1, <2>3, Ends
<1> QED BY <1>1, <1>2

LEMMA TidyCall ==
    ASSUME TypeInv, IInv, Tidy, NEW p \in Calls, CallNext(p), clean',
           \A q \in Calls : q # p => At(q, "idle") /\ At(q, "idle")'
    PROVE  Tidy'
<1>0. ~(QueryFails(p) \/ ListFails(p))
  BY DEF QueryFails, ListFails, Fault
<1>1. CASE At(p, "idle")
  <2>1. /\ alone' = \A q \in Calls : At(q, "idle")
        /\ clean' = (clean /\ alone') /\ crossed' = crossed
        /\ UNCHANGED <<lead, customers, subs, invoices, paid, from>>
        /\ call'[p].pc = call'[p].op /\ call'[p].op \in {"move", "cancel", "revertWin"}
        /\ call'[p].op = "cancel" => call'[p].to \in {"open", "lost"}
    BY <1>0, <1>1, OneMoves
  <2>2. clean /\ alone' /\ ~crossed' /\ Agreed
    BY <1>1, <2>1 DEF Tidy, AtRest, TypeInv
  <2>3. Agreed'
    BY <2>1, <2>2 DEF Agreed, Settled, Even
  <2>4. Outline(call[p])'
    BY <2>1, <2>3 DEF Outline, Removing
  <2>5. \A q \in Calls : ~At(q, "idle")' => Outline(call[q])'
    BY <2>4
  <2> QED BY <2>2, <2>3, <2>5 DEF Tidy
<1>2. CASE ~At(p, "idle")
  <2>1. alone' = alone /\ clean' = clean
    BY <1>0, <1>2, OneMoves
  <2>2. clean /\ alone /\ ~crossed /\ Outline(call[p])
    BY <1>2, <2>1 DEF Tidy
  <2>3. \A c, d \in customers : c = d
    BY <2>2 DEF IInv, Lonely
  <2>4. ~(\/ \E to \in Stages : PatchLead(p, to)
          \/ \E to \in {"open", "lost"} : CancelSale(p, to)
          \/ \E c \in customers : RevertWin(p, c))
    BY <1>2 DEF PatchLead, CancelSale, RevertWin, Begin
  <2>5. Outline(call[p])'
    BY <1>0, <2>2, <2>3, <2>4, TidyMove, TidyCancelRead, TidyCancelCheck, TidyRevertWin, TidyFind, TidyLists,
       TidyRemove, TidyGet, TidyPut, TidyList, TidyCreate, TidySubscribe DEF CallNext
  <2>6. ~crossed'
    <3>1. CASE ConvertList(p)
      <4>1. ~At(p, "create")
        BY <3>1 DEF ConvertList, At
      <4>2. \A q \in Calls : ~At(q, "create")
        BY <4>1 DEF At
      <4> QED BY <2>2, <3>1, <4>2 DEF ConvertList, Looked
    <3>2. CASE ~ConvertList(p)
      BY <1>0, <2>2, <2>4, <3>2 DEF CallNext, MoveLead, CancelRead, CancelCheck, RevertWinCheck, RevertWinLead,
         RevertFind, RevertSubs, RevertBills, RevertRemove, UpdateGet, UpdatePut, ConvertCreate, Subscribe, Bill,
         Reads, Steps, auxVars
    <3> QED BY <3>1, <3>2
  <2>7. AtRest' => Agreed'
    BY <2>5 DEF AtRest, At, Outline
  <2> QED BY <2>1, <2>2, <2>5, <2>6, <2>7 DEF Tidy
<1> QED BY <1>1, <1>2

LEMMA TidyStep == TypeInv /\ IInv /\ Only /\ Tidy /\ [Next]_vars => Tidy'
<1> SUFFICES ASSUME TypeInv, IInv, Only, Tidy, [Next]_vars PROVE Tidy'
  OBVIOUS
<1>1. CASE ~clean'
  BY <1>1 DEF Tidy
<1>3. CASE clean' /\ \E p \in Calls : CallNext(p)
  <2>1. PICK p \in Calls : CallNext(p)
    BY <1>3
  <2>2. alone'
    BY <1>3, <2>1, OneMoves DEF Tidy, TypeInv
  <2>3. \A q \in Calls : q # p => At(q, "idle") /\ At(q, "idle")'
    BY <2>1, <2>2, OneMoves, ZenonT(30) DEF Only, At
  <2> QED BY <1>3, <2>1, <2>3, TidyCall
<1>4. CASE (\E c \in invoices : Pay(c)) \/ UNCHANGED vars
  <2>1. UNCHANGED <<call, alone, clean, crossed, lead, customers, subs, invoices, from>> /\ paid \subseteq paid'
    BY <1>4 DEF Pay, vars, baseVars, auxVars
  <2> QED BY <2>1, TidyPay
<1>5. CASE Restart
  BY <1>1, <1>5 DEF Restart, Fault
<1> QED BY <1>1, <1>3, <1>4, <1>5 DEF Next

(* After requests one at a time and without a fault, whatever each of them *)
(* was and wherever it ended, the stamps of the lead and the rows that     *)
(* came of it agree (lead-flow.js, sale-cancel.js, won-lead.js).           *)
THEOREM AgreesAtRest == Spec => []AgreeAtRest
<1>1. Spec => []TypeInv
  BY InitTypes, TypeStep, PTL DEF Spec
<1>2. Spec => []WinInv
  BY <1>1, WinInit, WinStep, PTL DEF Spec
<1>3. WinInv => Only
  BY DEF WinInv
<1>4. Spec => []Tidy
  BY <1>1, <1>2, <1>3, Invariance, TidyInit, TidyStep, PTL DEF Spec
<1>5. Tidy => AgreeAtRest
  BY DEF Tidy, AgreeAtRest, Agreed, Settled, Even
<1> QED BY <1>4, <1>5, PTL
=============================================================================
