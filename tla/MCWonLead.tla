----------------------------- MODULE MCWonLead -----------------------------
(* Small instances of a lead that is won and won back.                     *)
EXTENDS WonLeadProps

Mix(m, c, r, p, e, s) ==
    [move |-> m, cancel |-> c, revertWin |-> r, pay |-> p, error |-> e, restart |-> s]

(* Long runs of moves, each of the other requests among them, and faults.  *)
MCMixes == {Mix(4, 0, 0, 1, 1, 0), Mix(3, 1, 0, 1, 0, 1), Mix(3, 0, 1, 1, 0, 1),
            Mix(2, 1, 0, 1, 1, 0), Mix(2, 0, 1, 1, 1, 0), Mix(2, 1, 1, 1, 0, 0)}
=============================================================================
