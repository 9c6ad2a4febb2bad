---------------------------- MODULE WonLeadProps ----------------------------
(* What WonLead promises of the sale of a lead.                            *)
EXTENDS WonLead

PCs == {"idle", "move", "cancel", "revertWin", "check", "get", "put", "revert", "listSubs",
        "listBills", "convert", "create", "subscribe", "bill"} \cup Removing
Ids == 1..made
Leads == [stage : Stages, customer : Ids \cup {None}, won : BOOLEAN]
Patches == [stage : Stages] \cup [customer : Ids \cup {None}, won : BOOLEAN] \cup Leads

(* The types of the rows and of the locals of every request; ids are those *)
(* of customers that were created.                                         *)
TypeOK ==
    /\ lead \in Leads
    /\ customers \subseteq Ids /\ subs \subseteq Ids /\ invoices \subseteq Ids /\ paid \subseteq Ids
    /\ made \in Nat
    /\ \A p \in Calls :
         /\ call[p].pc \in PCs
         /\ call[p].doc \in Leads /\ call[p].patch \in Patches
         /\ call[p].c \in Ids \cup {None}
         /\ call[p].next \in {"idle", "convert", "subscribe"}
    /\ from \in Stages
    /\ {clean, alone, crossed} \subseteq BOOLEAN
    /\ late \subseteq paid

(* A lead has one customer at most, through failed queries, restarts and   *)
(* sales undone and made again (the lookup by leadId, won-lead.js:70-78),  *)
(* unless two conversions both looked before either had created one.       *)
OneCustomer == ~crossed => \A c, d \in customers : c = d

(* No request removes a customer, or the invoice, whose money came in      *)
(* before the request looked for it (lead-flow.js:178, sale-cancel.js:61,  *)
(* routes.billing.js:115).                                                 *)
RealMoneyStays ==
    [][/\ customers \cap paid \subseteq customers' \cup late
       /\ invoices \cap paid \subseteq invoices' \cup late]_vars

(* After requests one at a time and without a fault, whichever they were,  *)
(* the stamps on the lead and the rows that came of it agree: a card in a  *)
(* stage of the sale names its customer, one that is back in the funnel    *)
(* does only after a loss, which is churn and undoes nothing, and what the *)
(* lead does not name is there only because it was paid.                   *)
AtRest == \A p \in Calls : At(p, "idle")
AgreeAtRest ==
    clean /\ AtRest =>
        /\ lead.won <=> lead.customer # None
        /\ lead.customer \in customers \cup {None}
        /\ lead.stage = "won" => lead.customer # None
        /\ lead.stage = "open" /\ lead.customer # None => from = "lost"
        /\ customers \ {lead.customer} \subseteq paid
        /\ subs = customers /\ invoices = customers

(* Whatever went wrong before, a move to a stage of the sale that meets no *)
(* other request and no fault leaves the lead with the stamps of a customer*)
(* that exists (won-lead.js:71-78,126).                                    *)
WinLinks ==
    [][\A p \in Calls :
         ~At(p, "idle") /\ call'[p].pc = "idle" /\ call[p].op = "move" /\ call[p].to = "won" /\ alone'
         => lead'.won /\ lead'.customer \in customers']_vars
=============================================================================
