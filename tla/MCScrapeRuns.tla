---------------------------- MODULE MCScrapeRuns ----------------------------
EXTENDS ScrapeRuns

MCKinds == {"one_shot", "persistent"}
MCErrors == {"login_failed", "unknown"}
Alike == Permutations(Runs)

(* What an execution does beside one that is over is what it does alone,   *)
(* after the other's row was pruned; both are of the account's type.  Once *)
(* torn, only two executions at a time show anything new; and to two at a  *)
(* time no other fault happens, as a refused write concerns one of them.   *)
Over(r) == Begun(r) /\ Judged(r) /\ exec[r].at = "over"
Apart ==
    /\ (\E r \in Runs : Over(r)) => \E r \in Runs : ~Begun(r)
    /\ \A q, r \in Runs : Begun(q) /\ Begun(r) => exec[q].kind = exec[r].kind
    /\ torn => \A r \in Runs : Begun(r)
    /\ (\A r \in Runs : Begun(r)) => torn \/ faults = 0
=============================================================================
