------------------------------- MODULE Alerts -------------------------------
(***************************************************************************)
(* The external alert about an account whose scrapes keep failing:         *)
(* RealtimeScrapeFailureNotifier over scrape_failure_alerts.  Failures to  *)
(* connect and failures to scrape have a streak each; the Threshold-th of  *)
(* a streak sends one alert, and the next success a recovery notice.       *)
(* Module ScrapeRuns calls it at the end of each one-shot run.             *)
(***************************************************************************)
EXTENDS Integers, SequencesExt

CONSTANT Threshold  \* DEFAULT_THRESHOLD

ASSUME ThresholdPositive == Threshold \in Nat \ {0}

VARIABLES
    alerts,  \* scrape_failure_alerts: streak and alerted of each group
    told,    \* the last notice put on the notify stream, of each group; none is
             \* like a recovery
    missed   \* failures since the last success, for each group

book == <<alerts, told, missed>>

Groups == {"connection", "scrape"}

AlertsInit ==
    /\ alerts = [g \in Groups |-> [streak |-> 0, alerted |-> FALSE]]
    /\ told = [g \in Groups |-> "recovered"]
    /\ missed = [g \in Groups |-> 0]

(* notifiableInternalType and the group it belongs to.                     *)
GroupOf(category) ==
    IF category \in {"login_failed", "navigation_failed"} THEN "connection" ELSE "scrape"

(* store.recordFailure; counting stops at the threshold (bound).           *)
CountFailure(g) ==
    /\ alerts' = [alerts EXCEPT ![g].streak = IF @ = Threshold THEN @ ELSE @ + 1]
    /\ missed' = [missed EXCEPT ![g] = IF @ = Threshold THEN @ ELSE @ + 1]
    /\ UNCHANGED told

IsDue(row) == row.streak >= Threshold /\ ~row.alerted

MarkAlerted(g) ==
    /\ alerts' = [alerts EXCEPT ![g].alerted = TRUE]
    /\ UNCHANGED <<told, missed>>

(* enqueueNotification: an alert on top of an alert is one too many.       *)
Tell(g, notice) ==
    /\ told' = [told EXCEPT ![g] = IF @ = notice THEN "twice" ELSE notice]
    /\ UNCHANGED <<alerts, missed>>

(* Mutation: a success ends the streak and keeps the alert out. *)
ClearOwnFlag(g) ==
    /\ alerts' = [alerts EXCEPT ![g].streak = 0]
    /\ missed' = [missed EXCEPT ![g] = 0]
    /\ UNCHANGED told

(* store.clear on a success; it answers whether an alert was out.          *)
Clear(g) ==
    /\ alerts' = [alerts EXCEPT ![g] = [streak |-> 0, alerted |-> FALSE]]
    /\ missed' = [missed EXCEPT ![g] = 0]
    /\ UNCHANGED told

=============================================================================
