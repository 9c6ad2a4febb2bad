--------------------------- MODULE MCBroadcast ---------------------------
(* Small instances of the broadcasts.                                       *)
EXTENDS BroadcastProps, TLC
CONSTANTS c1, c2

AllWhatsapp == [c \in Campaigns |-> "whatsapp"]
AllBoth == [c \in Campaigns |-> "both"]
TwoPerTick == [ch \in {"wa", "em"} |-> 2]
NoBreaker == [ch \in {"wa", "em"} |-> 9]
LowBreaker == [ch \in {"wa", "em"} |-> 2]
NoOperations == {}
SameLeads == Permutations(Leads)

(* A refusal or a restart, not both.                                        *)
OneMishap == faults + restarts <= 1
=============================================================================
