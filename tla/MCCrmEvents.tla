--------------------------- MODULE MCCrmEvents ---------------------------
(* Small instances of the inbox of product events.                          *)
EXTENDS CrmEventsProps
CONSTANTS e1, e2, v1, v2

(* Two events of one person that carry different LeverIds.                  *)
MCLeverIdOf == [e \in Events |-> IF e = e1 THEN v1 ELSE v2]
=============================================================================
