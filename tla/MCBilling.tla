----------------------------- MODULE MCBilling -----------------------------
(* Small instances of billing.                                              *)
EXTENDS BillingProps
CONSTANTS p1, d1, d2

Low == [price |-> 1, cycle |-> 1]
High == [price |-> 2, cycle |-> 1]
Long == [price |-> 2, cycle |-> 2]
MCPlans == {Low, High, Long}

(* Any call; a fault in a run, a payment or a change, or in the tick then; a *)
(* payment that comes twice, with or without a fault; a manual payment with *)
(* another, or undone; an authorization that changes twice.                 *)
And(counts, kinds) == {[n EXCEPT ![k] = @ + 1] : n \in counts, k \in kinds}
One(kinds) == And({NothingYet}, kinds)
MCMixes == One(Operations) \cup And(One({"run", "pay", "settle", "change"}), {"fault"})
           \cup And(One({"pay"}), {"settle", "unpay", "charge"})
           \cup And(One({"preapproval"}), {"preapproval"})
           \cup And(One({"settle"}), {"settle"}) \cup And(And(One({"settle"}), {"settle"}), {"fault"})
TwoCharges == One({"pay"}) \cup And(One({"pay"}), {"charge"}) \cup And(And(One({"pay"}), {"charge"}), {"charge"})

(* Two calls at once, if one of them comes from the gateway.                *)
MCHandles == [q \in Desk |-> IF q = d1 THEN Operations ELSE {"settle"}]
ChargeHandles == [q \in Desk |-> IF q = d1 THEN {"pay", "charge"} ELSE {"charge"}]
MCPaidSub == [m \in Payments |-> CHOOSE s \in Subs : TRUE]
=============================================================================
