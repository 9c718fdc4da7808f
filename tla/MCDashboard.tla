---------------------------- MODULE MCDashboard ----------------------------
EXTENDS Dashboard

Alike == Permutations(Sessions)

(* Of a page in doubt nothing is claimed until it is loaded anew; a page   *)
(* that was closed all the while reaches the same states after that.       *)
Undoubted == ~client.doubt /\ (untrue => client = Mounted)
=============================================================================
