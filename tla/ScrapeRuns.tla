----------------------------- MODULE ScrapeRuns -----------------------------
(***************************************************************************)
(* The diagnostics of one account's executions: bank_scrape_runs, their    *)
(* steps, and the verdict on each run.  An execution has two threads: the  *)
(* runner, which goes through the stages of PlaywrightRunner (one_shot) or *)
(* of PersistentPlaywrightRunner and runMonitor (persistent), and the      *)
(* verdict, which closes the row when the runner settles or is cut off by  *)
(* a timeout, a kill or a closed browser.  A runner that was cut off goes  *)
(* on, and records its stages under a run that is already judged.          *)
(***************************************************************************)
EXTENDS Alerts

CONSTANTS
    Runs,       \* bank_scrape_runs ids; one that is pruned is used again
    Kinds,      \* session types: one_shot, persistent
    Errors,     \* categories the scripts encode in what they throw
    MaxFaults,  \* bound: refused writes, crashes, stuck jobs, early prunes
    None

Stages == {"credentials", "launch", "load_script", "login", "auth_wait", "poll", "keep_alive",
           "close", "navigate", "movements_fetch", "detail_extraction"}
Categories == {"login_failed", "navigation_failed", "movements_fetch_failed",
               "detail_extraction_failed", "unknown", "timeout"}
StopReasons == {"auth_timeout", "logged_out", "watchdog_timeout", "stop_requested",
          "session_killed", "browser_closed"}

ASSUME TwoKinds == /\ Kinds \subseteq {"one_shot", "persistent"}
                   /\ None \notin {"one_shot", "persistent"}
                   /\ MaxFaults \in Nat

ASSUME NullIsNoValue == None \notin Stages \cup Categories \cup StopReasons

VARIABLES
    run,     \* each run's row: status, failure_type, stop_reason
    steps,   \* each run's bank_scrape_steps by step_index; a refused insert is "lost"
    exec,    \* the two threads of each execution
    boot,    \* down; up: the workers run; ready: orphans are reconciled
    torn,    \* the bookkeeping of an alert was interrupted or met another's
    faults

vars == <<run, steps, exec, boot, torn, faults, book>>

NoRun == [status |-> "none", type |-> None, reason |-> None]

(* Of the runner: the stage it is at, the index it opened (0: none yet),   *)
(* what it has noted and thrown.  Of the verdict: end, what it judges, the *)
(* failure type.  cause, cut and unmarked say where the failure arose,     *)
(* that it was cut off, and that its last write to the row was refused.    *)
Idle == [kind |-> None, at |-> "idle", open |-> 0, noted |-> {}, thrown |-> None,
         failedStage |-> None, end |-> "open", outcome |-> None, reason |-> None,
         type |-> None, cause |-> None, cut |-> FALSE, unmarked |-> FALSE]

Init ==
    /\ run = [r \in Runs |-> NoRun]
    /\ steps = [r \in Runs |-> <<>>]
    /\ exec = [r \in Runs |-> Idle]
    /\ boot = "ready"
    /\ torn = FALSE
    /\ faults = 0
    /\ AlertsInit

Fault == faults < MaxFaults /\ faults' = faults + 1
NoFault == UNCHANGED faults

Begun(r) == exec[r].kind # None
Judged(r) == exec[r].end = "over"
Tellings == {"notify", "alert", "enqueue", "cleared", "recovered"}
Telling(r) == exec[r].end \in Tellings

(* The stage that follows a stage.                                         *)
AfterStage(kind) ==
    IF kind = "one_shot"
    THEN [credentials |-> "launch", launch |-> "load_script", load_script |-> "script"]
    ELSE [credentials |-> "launch", launch |-> "load_script", load_script |-> "login",
          login |-> "auth_wait", auth_wait |-> "poll"]

(* What a stage may throw: the scripts' own hooks name a category.         *)
Throws(kind, stage) ==
    CASE stage \in {"login", "auth_wait"} -> Errors
      [] stage = "launch" /\ kind = "one_shot" -> {"unknown", "timeout"}
      [] OTHER -> {"unknown"}

(* CATEGORY_TO_STAGE and HARNESS_FAILURE_TYPE.                             *)
StageOf(category) ==
    CASE category = "login_failed" -> "login"
      [] category = "navigation_failed" -> "navigate"
      [] category = "movements_fetch_failed" -> "movements_fetch"
      [] category = "detail_extraction_failed" -> "detail_extraction"
      [] OTHER -> None

TypeOf(stage, category) ==
    CASE category # "unknown" -> category
      [] stage = "launch" -> "launch_failed"
      [] stage = "load_script" -> "script_load_failed"
      [] stage = "credentials" -> "credentials_failed"
      [] OTHER -> category

(* bestEffort: the step is written, or the refusal is logged.  Without its *)
(* run's row (the foreign key) a step is never stored.                     *)
Noted(r, stage, status) ==
    LET Added(s) == [steps EXCEPT ![r] = IF run[r].status = "none" THEN @
                                         ELSE Append(@, [stage |-> stage, status |-> s])]
    IN  \/ steps' = Added(status) /\ NoFault
        \/ steps' = Added("lost") /\ Fault

(* The runner's promise settles, unless it was cut off before.             *)
Settle(e, outcome, reason, cause) ==
    IF e.end # "open" THEN e
    ELSE [e EXCEPT !.end = IF outcome = "ok" /\ e.kind = "persistent" THEN "mark" ELSE "settled",
                   !.outcome = outcome, !.reason = reason, !.cause = cause]

-----------------------------------------------------------------------------
(* startFn and RunBankScrapeUseCase up to the row.  Without a row a        *)
(* persistent session goes on, and a one-shot run fails with its job.  An  *)
(* account's next execution begins when the one before is done.            *)
Start(r, kind) ==
    /\ boot # "down" /\ ~Begun(r)
    /\ \A q \in Runs : Begun(q) /\ ~Judged(q)
            => exec[q].kind = "persistent" /\ exec[q].end # "open"
    /\ \/ run' = [run EXCEPT ![r].status = "running"] /\ NoFault
       \/ UNCHANGED run /\ Fault /\ kind = "persistent"
    /\ exec' = [exec EXCEPT ![r] = [Idle EXCEPT !.kind = kind, !.at = "credentials"]]
    /\ UNCHANGED <<steps, boot, torn, book>>

(* The job timed out around a run that hangs, and is tried again.          *)
StartAgain(r) ==
    /\ boot # "down" /\ ~Begun(r) /\ Fault
    /\ \E q \in Runs : exec[q].kind = "one_shot" /\ exec[q].end \notin {"open", "over"}
    /\ run' = [run EXCEPT ![r].status = "running"]
    /\ exec' = [exec EXCEPT ![r] = [Idle EXCEPT !.kind = "one_shot", !.at = "credentials"]]
    /\ torn' = TRUE
    /\ UNCHANGED <<steps, boot, book>>

(* recorder.open: an index, and a row that says started.                   *)
OpenStage(r) ==
    /\ exec[r].at \in {"credentials", "launch", "load_script", "login", "auth_wait", "close"}
    /\ exec[r].open = 0
    /\ Noted(r, exec[r].at, "started")
    /\ exec' = [exec EXCEPT ![r].open = Len(steps[r]) + 1]
    /\ UNCHANGED <<run, boot, torn, book>>

(* finish: the row of this index, if it is there.                          *)
Finished(r, status) ==
    LET i == exec[r].open
        there == i \in DOMAIN steps[r] /\ steps[r][i].status = "started"
    IN  \/ steps' = (IF there THEN [steps EXCEPT ![r][i].status = status] ELSE steps) /\ NoFault
        \/ there /\ Fault /\ steps' = [steps EXCEPT ![r][i].status = "lost"]

StageSucceeds(r) ==
    /\ exec[r].open # 0 /\ exec[r].at # "close"
    /\ Finished(r, "success")
    /\ exec' = [exec EXCEPT ![r] = [@ EXCEPT !.open = 0,
                                             !.at = AfterStage(exec[r].kind)[exec[r].at]]]
    /\ UNCHANGED <<run, boot, torn, book>>

(* A one-shot run still closes its browser; otherwise the error goes up.   *)
StageFails(r) ==
    /\ exec[r].open # 0 /\ exec[r].at # "close"
    /\ Finished(r, "failed")
    /\ \E error \in Throws(exec[r].kind, exec[r].at) :
        LET stage == exec[r].at
            cause == IF StageOf(error) = None THEN stage ELSE StageOf(error)
            failed == [exec[r] EXCEPT !.open = 0, !.at = "over",
                           !.failedStage = IF @ = None THEN stage ELSE @]
        IN  exec' = [exec EXCEPT ![r] =
                IF exec[r].kind = "one_shot" /\ stage = "load_script"
                THEN [failed EXCEPT !.at = "close", !.thrown = error, !.cause = cause]
                ELSE Settle(failed, error, None, cause)]
    /\ UNCHANGED <<run, boot, torn, book>>

(* The authentication wait falls out of its loop.                          *)
AuthTimesOut(r) ==
    /\ exec[r].at = "auth_wait" /\ exec[r].open # 0
    /\ Finished(r, "failed")
    /\ exec' = [exec EXCEPT ![r] =
            Settle([exec[r] EXCEPT !.open = 0, !.at = "over",
                        !.failedStage = IF @ = None THEN "auth_wait" ELSE @],
                   "unknown", "auth_timeout", "auth_wait")]
    /\ UNCHANGED <<run, boot, torn, book>>

(* The one-shot script: a list, an error, or SCRIPT_TIMEOUT; close follows. *)
ScriptEnds(r) ==
    /\ exec[r].at = "script"
    /\ \E error \in Errors \cup {"timeout", None} :
        exec' = [exec EXCEPT ![r] = [@ EXCEPT !.at = "close", !.thrown = error,
                                              !.cause = IF error = None THEN None ELSE StageOf(error)]]
    /\ UNCHANGED <<run, steps, boot, torn, faults, book>>

(* A browser that does not close is logged and does not mask the result.   *)
BrowserClosed(r) ==
    /\ exec[r].at = "close" /\ exec[r].open # 0
    /\ \E status \in {"success", "failed"} :
        /\ Finished(r, status)
        /\ LET e == [exec[r] EXCEPT !.open = 0, !.at = "over",
                        !.failedStage = IF @ = None /\ status = "failed" THEN "close" ELSE @]
           IN  exec' = [exec EXCEPT ![r] =
                   Settle(e, IF e.thrown = None THEN "ok" ELSE e.thrown, None, e.cause)]
    /\ UNCHANGED <<run, boot, torn, book>>

(* runMonitor's loop, one turn.  Only the first poll that worked and the   *)
(* first that failed are noted.  After a kill the loop goes on over a      *)
(* closed page.                                                            *)
FirstPoll(r, status) ==
    /\ exec[r].at = "poll" /\ status \notin exec[r].noted
    /\ status = "success" => exec[r].end = "open"
    /\ Noted(r, "poll", status)
    /\ exec' = [exec EXCEPT ![r].noted = @ \cup {status}]
    /\ UNCHANGED <<run, boot, torn, book>>

(* logged_out and watchdog_timeout are noted before the loop returns them. *)
MonitorGivesUp(r) ==
    /\ exec[r].at = "poll"
    /\ \E stage \in {"poll", "keep_alive"}, reason \in {"logged_out", "watchdog_timeout"} :
        /\ stage = "keep_alive" => reason = "watchdog_timeout" /\ exec[r].noted # {}
        /\ Noted(r, stage, "failed")
        /\ exec' = [exec EXCEPT ![r] = Settle([@ EXCEPT !.at = "over"], "unknown", reason, stage)]
    /\ UNCHANGED <<run, boot, torn, book>>

(* A fatal isAuthenticated, or an ingestion that rejects; or a stop.       *)
MonitorEnds(r) ==
    /\ exec[r].at = "poll"
    /\ \/ \E error \in Errors :
            exec' = [exec EXCEPT ![r] =
                        Settle([@ EXCEPT !.at = "over"], error, None, StageOf(error))]
       \/ exec' = [exec EXCEPT ![r] =
                        Settle([@ EXCEPT !.at = "over"], "ok", "stop_requested", None)]
    /\ UNCHANGED <<run, steps, boot, torn, faults, book>>

(* kill, or the browser closes: done is rejected at once.                  *)
CutSession(r) ==
    /\ exec[r].kind = "persistent" /\ exec[r].end = "open"
    /\ exec[r].at \in {"login", "auth_wait", "poll"}
    /\ \E reason \in {"session_killed", "browser_closed"} :
        exec' = [exec EXCEPT ![r] = [Settle(@, "unknown", reason, None) EXCEPT !.cut = TRUE]]
    /\ UNCHANGED <<run, steps, boot, torn, faults, book>>

(* BANK_SCRAPE run timeout: the verdict falls while the runner goes on.    *)
RunTimeout(r) ==
    /\ exec[r].kind = "one_shot" /\ exec[r].end = "open"
    /\ exec' = [exec EXCEPT ![r] = [Settle(@, "timeout", None, None) EXCEPT !.cut = TRUE]]
    /\ UNCHANGED <<run, steps, boot, torn, faults, book>>

-----------------------------------------------------------------------------
(* The use case ingests what the script returned.                          *)
Ingest(r) ==
    /\ exec[r].end = "settled" /\ exec[r].outcome = "ok"
    /\ \/ exec' = [exec EXCEPT ![r].end = "mark"]
       \/ exec' = [exec EXCEPT ![r].outcome = "unknown"]
    /\ UNCHANGED <<run, steps, boot, torn, faults, book>>

Failing(r) == exec[r].end = "settled" /\ exec[r].outcome # "ok"

Verdict(r) ==
    LET e == exec[r]
        stage == IF StageOf(e.outcome) # None THEN StageOf(e.outcome) ELSE e.failedStage
    IN  [stage |-> stage,
         type |-> IF e.reason # None THEN e.reason ELSE TypeOf(stage, e.outcome)]

(* Mutation: the verdict notes its stage only when no step failed. *)
JudgeBriefly(r) ==
    /\ Failing(r)
    /\ IF Verdict(r).stage # None /\ exec[r].failedStage = None
       THEN Noted(r, Verdict(r).stage, "failed")
       ELSE UNCHANGED steps /\ NoFault
    /\ exec' = [exec EXCEPT ![r] = [@ EXCEPT !.end = "mark", !.type = Verdict(r).type]]
    /\ UNCHANGED <<run, boot, torn, book>>

(* recorder.fail up to its last write: the stage the error names gets a    *)
(* step of its own, unless it is the one that already failed.              *)
Judge(r) ==
    /\ Failing(r)
    /\ IF Verdict(r).stage \notin {None, exec[r].failedStage}
       THEN Noted(r, Verdict(r).stage, "failed")
       ELSE UNCHANGED steps /\ NoFault
    /\ exec' = [exec EXCEPT ![r] = [@ EXCEPT !.end = "mark", !.type = Verdict(r).type]]
    /\ UNCHANGED <<run, boot, torn, book>>

(* markSuccess keeps a failure type it finds; neither looks at the status. *)
Marked(r) ==
    IF run[r].status = "none" THEN run
    ELSE IF exec[r].outcome = "ok"
         THEN [run EXCEPT ![r] = [@ EXCEPT !.status = "success", !.reason = exec[r].reason]]
         ELSE [run EXCEPT ![r] = [status |-> "failed", type |-> exec[r].type,
                                  reason |-> exec[r].reason]]

Mark(r) ==
    /\ exec[r].end = "mark"
    /\ LET next == IF exec[r].kind = "one_shot" THEN "notify" ELSE "over"
       IN  \/ /\ run' = Marked(r) /\ NoFault
              /\ exec' = [exec EXCEPT ![r].end = next]
           \/ /\ UNCHANGED run /\ Fault
              /\ exec' = [exec EXCEPT ![r] = [@ EXCEPT !.end = next, !.unmarked = TRUE]]
    /\ UNCHANGED <<steps, boot, torn, book>>

(* The notifier after a one-shot run; its errors are swallowed.            *)
Tells(r, end, next) == exec[r].end = end /\ exec' = [exec EXCEPT ![r].end = next]
Rest == UNCHANGED <<run, steps, boot>>
Group(r) == GroupOf(exec[r].outcome)

NotifyFailure(r) ==
    /\ exec[r].outcome # "ok"
    /\ CountFailure(Group(r))
    /\ Tells(r, "notify", IF IsDue(alerts'[Group(r)]) THEN "alert" ELSE "over")
    /\ Rest /\ UNCHANGED torn /\ NoFault

AlertOnce(r) ==
    /\ Tells(r, "alert", "enqueue") /\ MarkAlerted(Group(r))
    /\ Rest /\ UNCHANGED torn /\ NoFault

EnqueueAlert(r) ==
    /\ exec[r].outcome # "ok"
    /\ Tells(r, "enqueue", "over") /\ Tell(Group(r), "failed")
    /\ Rest /\ UNCHANGED torn /\ NoFault

(* recordSuccess: for each group, clear and tell of the recovery.          *)
NotifySuccess(r) ==
    /\ exec[r].outcome = "ok"
    /\ \/ /\ Tells(r, "notify", IF alerts["connection"].alerted THEN "recovered" ELSE "cleared")
          /\ Clear("connection")
       \/ /\ Tells(r, "recovered", "cleared")
          /\ Tell("connection", "recovered")
       \/ /\ Tells(r, "cleared", IF alerts["scrape"].alerted THEN "enqueue" ELSE "over")
          /\ Clear("scrape")
    /\ Rest /\ UNCHANGED torn /\ NoFault

EnqueueRecovery(r) ==
    /\ exec[r].outcome = "ok"
    /\ Tells(r, "enqueue", "over") /\ Tell("scrape", "recovered")
    /\ Rest /\ UNCHANGED torn /\ NoFault

NotifyFails(r) ==
    /\ Telling(r) /\ Fault
    /\ exec' = [exec EXCEPT ![r].end = IF exec[r].outcome = "ok" /\ @ # "enqueue"
                                            /\ @ # "cleared" THEN "cleared" ELSE "over"]
    /\ torn' = TRUE
    /\ Rest /\ UNCHANGED book

-----------------------------------------------------------------------------
Crash ==
    /\ boot # "down" /\ Fault
    /\ boot' = "down"
    /\ torn' = (torn \/ \E r \in Runs : Telling(r))
    /\ exec' = [r \in Runs |-> IF Begun(r) THEN [exec[r] EXCEPT !.at = "over", !.open = 0,
                                                          !.end = "over", !.cut = TRUE]
                              ELSE Idle]
    /\ UNCHANGED <<run, steps, book>>

(* The workers start first; then markOrphaned, once in a process's life.   *)
Restart ==
    /\ boot = "down" /\ boot' = "up"
    /\ UNCHANGED <<run, steps, exec, torn, faults, book>>

Orphaned(r) == [status |-> "failed", type |-> "orphaned", reason |-> run[r].reason]

(* Mutation: the reset reaches the runs that are judged, too. *)
MarkAllOrphaned ==
    /\ boot = "up" /\ boot' = "ready"
    /\ run' = [r \in Runs |-> IF run[r].status # "none" THEN Orphaned(r) ELSE run[r]]
    /\ UNCHANGED <<steps, exec, torn, faults, book>>

(* Mutation: the reset forgets the runs of sessions. *)
MarkOldOrphaned ==
    /\ boot = "up" /\ boot' = "ready"
    /\ run' = [r \in Runs |-> IF run[r].status = "running" /\ exec[r].kind = "one_shot"
                             THEN Orphaned(r) ELSE run[r]]
    /\ UNCHANGED <<steps, exec, torn, faults, book>>

MarkOrphaned ==
    /\ boot = "up" /\ boot' = "ready"
    /\ run' = [r \in Runs |-> IF run[r].status = "running" THEN Orphaned(r) ELSE run[r]]
    /\ UNCHANGED <<steps, exec, torn, faults, book>>

(* A reconciliation that fails is logged and does not stop the boot.       *)
OrphansStay ==
    /\ boot = "up" /\ boot' = "ready"
    /\ exec' = [r \in Runs |-> [exec[r] EXCEPT !.unmarked = @ \/ Judged(r)]]
    /\ UNCHANGED <<run, steps, torn, faults, book>>

(* pruneOlderThan looks at the age alone: it takes the runs that are over, *)
(* with their steps, and the run of a session that lives long enough.      *)
Prune(r) ==
    /\ Begun(r)
    /\ run' = [run EXCEPT ![r] = NoRun]
    /\ steps' = [steps EXCEPT ![r] = <<>>]
    /\ \/ /\ Judged(r) /\ (exec[r].at = "over" \/ (exec[r].at = "poll" /\ exec[r].cut))
          /\ exec' = [exec EXCEPT ![r] = Idle]
          /\ NoFault
       \/ /\ exec[r].at = "poll" /\ exec[r].end = "open" /\ run[r].status = "running"
          /\ Fault
          /\ UNCHANGED exec
    /\ UNCHANGED <<boot, torn, book>>

Next ==
    \/ \E r \in Runs :
        \/ \E kind \in Kinds : Start(r, kind)
        \/ StartAgain(r)
        \/ OpenStage(r) \/ StageSucceeds(r) \/ StageFails(r) \/ AuthTimesOut(r)
        \/ ScriptEnds(r) \/ BrowserClosed(r)
        \/ FirstPoll(r, "success") \/ FirstPoll(r, "failed")
        \/ MonitorGivesUp(r) \/ MonitorEnds(r) \/ CutSession(r) \/ RunTimeout(r)
        \/ Ingest(r) \/ Judge(r) \/ Mark(r)
        \/ NotifyFailure(r) \/ AlertOnce(r) \/ EnqueueAlert(r)
        \/ NotifySuccess(r) \/ EnqueueRecovery(r) \/ NotifyFails(r)
        \/ Prune(r)
    \/ Crash \/ Restart \/ MarkOrphaned \/ OrphansStay

Spec == Init /\ [][Next]_vars

-----------------------------------------------------------------------------
Outcomes == Errors \cup {"unknown", "timeout", "ok", None}
Reasons == StopReasons \cup {None}
FailureTypes == Outcomes \cup Reasons
                \cup {"launch_failed", "script_load_failed", "credentials_failed", "orphaned"}
Ends == {"open", "settled", "mark", "over"}

RunRows == [status : {"none", "running", "success", "failed"}, type : FailureTypes, reason : Reasons]
StepRows == [stage : Stages, status : {"started", "success", "failed", "lost"}]
ExecStates ==
    [kind : {"one_shot", "persistent", None},
     at : Stages \cup {"idle", "script", "over"}, open : Nat, noted : SUBSET {"success", "failed"},
     thrown : Outcomes, failedStage : Stages \cup {None}, end : Ends \cup Tellings,
     outcome : Outcomes, reason : Reasons, type : FailureTypes, cause : Stages \cup {None},
     cut : BOOLEAN, unmarked : BOOLEAN]

(* The stages of each kind, and who tells.                                 *)
ExecOK(x) ==
    /\ x.open # 0 => x.at \in DOMAIN AfterStage(x.kind) \cup {"close"}
    /\ x.at \in Stages \ {"close", "poll"} => x.at \in DOMAIN AfterStage(x.kind)
    /\ x.at \in {"script", "close"} => x.kind = "one_shot"
    /\ x.end \in Tellings => x.kind = "one_shot"

(* Types of the tables and of the executions.                              *)
TypeOK ==
    /\ run \in [Runs -> RunRows]
    /\ steps \in [Runs -> Seq(StepRows)]
    /\ exec \in [Runs -> ExecStates]
    /\ \A r \in Runs : ExecOK(exec[r])
    /\ boot \in {"down", "up", "ready"}
    /\ torn \in BOOLEAN
    /\ faults \in Nat
    /\ alerts \in [Groups -> [streak : 0 .. Threshold, alerted : BOOLEAN]]
    /\ told \in [Groups -> {"failed", "recovered", "twice"}]
    /\ missed \in [Groups -> 0 .. Threshold]

(* FAILING_STAGE: the failed step of the greatest index.                   *)
FailingStep(trail, i) ==
    /\ i \in DOMAIN trail /\ trail[i].status = "failed"
    /\ \A j \in DOMAIN trail : trail[j].status = "failed" => j <= i

Shows(trail, stage) ==
    \E i \in DOMAIN trail : FailingStep(trail, i) /\ trail[i].stage = stage

NothingLost(trail) == \A i \in DOMAIN trail : trail[i].status # "lost"

FailedToClose(trail) == \E i \in DOMAIN trail : trail[i] = [stage |-> "close", status |-> "failed"]

(* The failing stage that the failure list shows, the last failed step, is *)
(* the one that ended the run, and the failure type is its own, wherever   *)
(* the error arose and whatever failed and was recovered before.  Exempt   *)
(* are runs cut off from outside, lost step writes, errors that name no    *)
(* stage, and a script that did not load in a browser that does not close. *)
NamedFailureShown ==
    \A r \in Runs :
        LET e == exec[r]
        IN  (/\ run[r].status = "failed" /\ run[r].type # "orphaned" /\ Judged(r)
             /\ ~e.cut /\ ~e.unmarked /\ e.cause # None
             /\ NothingLost(steps[r])
             /\ FailedToClose(steps[r]) => e.cause # "load_script")
            => /\ Shows(steps[r], e.cause)
               /\ run[r].type \in {e.reason, TypeOf(e.cause, e.outcome)}

(* A run that is closed keeps its verdict until it is pruned: only the     *)
(* orphan reset may be overwritten, by a run that began before it.         *)
VerdictStands ==
    [][\A r \in Runs :
        run[r].status \in {"success", "failed"} /\ run[r].type # "orphaned"
            => run'[r] \in {run[r], NoRun}]_vars

(* Once a process has reconciled the orphans of the one before, a run that *)
(* says running has an execution that will close it, unless the write that *)
(* should have was refused.                                                *)
RunningIsUnderWay ==
    \A r \in Runs :
        (boot = "ready" /\ run[r].status = "running") => ~Judged(r) \/ exec[r].unmarked

(* While no bookkeeping is under way or was torn, an alert is out exactly  *)
(* when its group failed Threshold times since the last success, and none  *)
(* was sent twice, although failures of both groups alternate and the      *)
(* streaks live through restarts.                                          *)
AlertIsDue ==
    (~torn /\ \A r \in Runs : ~Telling(r)) =>
        \A g \in Groups : /\ told[g] # "twice"
                          /\ (told[g] = "failed") <=> (missed[g] >= Threshold)

=============================================================================
