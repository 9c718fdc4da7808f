-------------------------- MODULE ScrapeRuns_proofs --------------------------
(***************************************************************************)
(* What is proved of the runs' diagnostics: for any number of executions   *)
(* and faults, a row that says running has an execution that will close it *)
(* (RunningIsUnderWay), a verdict is final (VerdictStands), alerts are     *)
(* sent when due and once (AlertIsDue), and the failure list names the     *)
(* stage that ended a run (NamedFailureShown).                             *)
(*                                                                         *)
(* VerdictInv follows a row along the verdict's thread: it is closed only  *)
(* from mark on, so that nothing before may touch a verdict.  Of alerts    *)
(* the quiet state is not inductive: in the middle of the bookkeeping it   *)
(* is half done, and it is one execution's alone (Alone), which holds      *)
(* until a job that timed out is tried again.  TrailInv says of a run that *)
(* was not cut off what its steps tell by how far it has come: the stage   *)
(* under way is the last step, and when it settles the verdict will note   *)
(* the stage that ended it, or that stage is the last one that failed.     *)
(***************************************************************************)
EXTENDS ScrapeRuns, TLAPS

(* What the row says, by how far the verdict has come.                     *)
VerdictInv ==
    \A r \in Runs :
        /\ ~Begun(r) => run[r] = NoRun
        /\ exec[r].end \in {"open", "settled", "mark"} =>
              run[r].status \in {"none", "running"} \/ run[r].type = "orphaned"
        /\ exec[r].end \in Tellings \cup {"over"} /\ run[r].status = "running" =>
              exec[r].unmarked \/ (boot # "ready" /\ exec[r].end = "over")

(* One execution keeps the books of the alerts at a time.                  *)
Alone ==
    ~torn => \A q, r \in Runs :
        exec[q].kind = "one_shot" /\ exec[r].kind = "one_shot" /\ ~Judged(q) /\ ~Judged(r) => q = r

Quiet(g) ==
    /\ alerts[g].alerted <=> missed[g] >= Threshold
    /\ told[g] = IF alerts[g].alerted THEN "failed" ELSE "recovered"

(* Between the steps of one who tells of a failure, or of a recovery.      *)
Alerting(r, g) ==
    /\ exec[r].outcome # "ok" /\ g = Group(r)
    /\ exec[r].end \in {"alert", "enqueue"}

Recovering(r, g) ==
    /\ exec[r].outcome = "ok"
    /\ exec[r].end = (IF g = "connection" THEN "recovered" ELSE "enqueue")

AlertHalf(r, g) ==
    /\ missed[g] >= Threshold /\ told[g] = "recovered"
    /\ alerts[g].alerted <=> exec[r].end = "enqueue"

RecoveryHalf(g) == missed[g] = 0 /\ ~alerts[g].alerted /\ told[g] = "failed"

AlertInv ==
    ~torn =>
        /\ \A g \in Groups : alerts[g].streak = missed[g]
        /\ \A r \in Runs : exec[r].end = "alert" => exec[r].outcome # "ok"
        /\ \A g \in Groups :
              \/ Quiet(g) /\ \A r \in Runs : ~Alerting(r, g) /\ ~Recovering(r, g)
              \/ \E r \in Runs : \/ Alerting(r, g) /\ AlertHalf(r, g)
                                 \/ Recovering(r, g) /\ RecoveryHalf(g)

IInv == TypeOK /\ VerdictInv /\ Alone /\ AlertInv

-----------------------------------------------------------------------------
LEMMA InitInv == Init => IInv
  <1> SUFFICES ASSUME Init PROVE IInv
    OBVIOUS
  <1>1. TypeOK
    <2>1. NoRun \in RunRows
      BY DEF NoRun, RunRows, FailureTypes, Reasons, StopReasons
    <2>2. Idle \in ExecStates /\ ExecOK(Idle)
      BY DEF Idle, ExecStates, ExecOK, FailureTypes, Outcomes, Reasons, StopReasons, Stages, Ends, Tellings
    <2>3. /\ alerts \in [Groups -> [streak : 0 .. Threshold, alerted : BOOLEAN]]
          /\ told \in [Groups -> {"failed", "recovered", "twice"}]
          /\ missed \in [Groups -> 0 .. Threshold]
      BY ThresholdPositive DEF Init, AlertsInit
    <2>4. <<>> \in Seq(StepRows)
      OBVIOUS
    <2> QED BY <2>1, <2>2, <2>3, <2>4 DEF Init, TypeOK
  <1>2. VerdictInv
    BY DEF Init, VerdictInv, NoRun
  <1>3. Alone
    BY TwoKinds DEF Init, Alone, Idle
  <1>4. AlertInv
    BY ThresholdPositive DEF Init, AlertsInit, AlertInv, Quiet, Alerting, Recovering, Idle
  <1> QED BY <1>1, <1>2, <1>3, <1>4 DEF IInv

(* The stages that categories name, and the failure types.                 *)
LEMMA StageNamed == \A c : StageOf(c) \in Stages \cup {None}
BY DEF StageOf, Stages

LEMMA ThrownTyped == \A kind, stage : Throws(kind, stage) \subseteq Outcomes
BY DEF Throws, Outcomes

LEMMA TypeNamed == \A stage : \A c \in Outcomes : TypeOf(stage, c) \in FailureTypes
BY DEF TypeOf, FailureTypes

LEMMA NoteTyped ==
  ASSUME TypeOK, NEW r \in Runs, NEW stage \in Stages, NEW status \in {"success", "failed", "started"},
         Noted(r, stage, status)
  PROVE  steps' \in [Runs -> Seq(StepRows)] /\ faults' \in Nat
<1>1. ASSUME NEW s \in {"started", "success", "failed", "lost"}
      PROVE  Append(steps[r], [stage |-> stage, status |-> s]) \in Seq(StepRows)
  <2>1. [stage |-> stage, status |-> s] \in StepRows
    BY DEF StepRows
  <2>2. steps[r] \in Seq(StepRows)
    BY DEF TypeOK
  <2> QED BY <2>1, <2>2
<1>2. faults' \in Nat
  BY DEF Noted, TypeOK, Fault, NoFault
<1>3. PICK s \in {"started", "success", "failed", "lost"} :
         steps' = [steps EXCEPT ![r] = IF run[r].status = "none" THEN @
                                       ELSE Append(@, [stage |-> stage, status |-> s])]
  BY DEF Noted
<1>4. steps' \in [Runs -> Seq(StepRows)]
  BY <1>1, <1>3 DEF TypeOK
<1> QED BY <1>2, <1>4

LEMMA FinishTyped ==
  ASSUME TypeOK, NEW r \in Runs, NEW status \in {"success", "failed"}, Finished(r, status)
  PROVE  steps' \in [Runs -> Seq(StepRows)] /\ faults' \in Nat
<1> DEFINE i == exec[r].open
<1>1. faults' \in Nat
  BY DEF Finished, TypeOK, Fault, NoFault
<1>2. CASE steps' = steps
  BY <1>1, <1>2 DEF TypeOK
<1>3. ASSUME i \in DOMAIN steps[r], NEW s \in {"success", "failed", "lost"},
             steps' = [steps EXCEPT ![r][i].status = s]
      PROVE  steps' \in [Runs -> Seq(StepRows)]
  <2>1. steps[r] \in Seq(StepRows) /\ steps[r][i] \in StepRows
    BY <1>3 DEF TypeOK
  <2>2. [steps[r][i] EXCEPT !.status = s] \in StepRows
    BY <2>1 DEF StepRows
  <2> DEFINE new == [steps[r] EXCEPT ![i] = [steps[r][i] EXCEPT !.status = s]]
  <2>3. new \in Seq(StepRows)
    BY <1>3, <2>1, <2>2
  <2>4. steps' = [steps EXCEPT ![r] = new]
    BY <1>3
  <2> HIDE DEF new
  <2> QED BY <2>3, <2>4 DEF TypeOK
<1> QED BY <1>1, <1>2, <1>3 DEF Finished

-----------------------------------------------------------------------------
(* The steps of an execution before its verdict is written.                *)
RunnerStep(r) ==
    \/ OpenStage(r) \/ StageSucceeds(r) \/ StageFails(r) \/ AuthTimesOut(r)
    \/ ScriptEnds(r) \/ BrowserClosed(r)
    \/ FirstPoll(r, "success") \/ FirstPoll(r, "failed")
    \/ MonitorGivesUp(r) \/ MonitorEnds(r) \/ CutSession(r) \/ RunTimeout(r)
    \/ Ingest(r) \/ Judge(r)

Before == {"open", "settled", "mark"}

(* They turn the record of an execution into another one of the same kind, *)
(* and once the verdict is written they leave it and its outcome alone.    *)
Turns(x, new) ==
    /\ new \in ExecStates /\ ExecOK(new)
    /\ new.kind = x.kind /\ new.unmarked = x.unmarked
    /\ IF x.end \in Before THEN new.end \in Before
       ELSE new.end = x.end /\ new.outcome = x.outcome

LEMMA SettleTyped ==
  ASSUME NEW x \in ExecStates, NEW outcome \in Outcomes, NEW reason \in Reasons,
         NEW cause \in Stages \cup {None}
  PROVE  LET y == Settle(x, outcome, reason, cause)
         IN  /\ y \in ExecStates
             /\ y.kind = x.kind /\ y.at = x.at /\ y.open = x.open /\ y.unmarked = x.unmarked
             /\ IF x.end = "open" THEN y.end \in {"settled", "mark"}
                ELSE y.end = x.end /\ y.outcome = x.outcome
<1> DEFINE y == Settle(x, outcome, reason, cause)
<1>1. CASE x.end = "open"
  <2>1. PICK end \in {"settled", "mark"} :
          y = [x EXCEPT !.end = end, !.outcome = outcome, !.reason = reason, !.cause = cause]
    BY <1>1 DEF Settle
  <2> HIDE DEF y
  <2>2. y \in ExecStates
    BY <2>1 DEF ExecStates, Ends
  <2>3. /\ y.kind = x.kind /\ y.at = x.at /\ y.open = x.open /\ y.unmarked = x.unmarked
        /\ y.end = end
    BY <2>1 DEF ExecStates
  <2>4. /\ y \in ExecStates
        /\ y.kind = x.kind /\ y.at = x.at /\ y.open = x.open /\ y.unmarked = x.unmarked
        /\ y.end \in {"settled", "mark"}
    BY <2>2, <2>3
  <2> QED BY <1>1, <2>4 DEF y
<1>2. CASE x.end # "open"
  <2>1. y = x
    BY <1>2 DEF Settle
  <2> QED BY <1>2, <2>1
<1> QED BY <1>1, <1>2

Edit(x, at, open, stage, thrown, cause) ==
    [x EXCEPT !.open = open, !.at = at, !.failedStage = stage, !.thrown = thrown, !.cause = cause]

LEMMA EditTurns ==
  ASSUME NEW x \in ExecStates, ExecOK(x),
         NEW at \in Stages \cup {"idle", "script", "over"}, NEW open \in Nat,
         NEW stage \in Stages \cup {None}, NEW thrown \in Outcomes, NEW cause \in Stages \cup {None},
         open # 0 => at \in DOMAIN AfterStage(x.kind) \cup {"close"},
         at \in Stages \ {"close", "poll"} => at \in DOMAIN AfterStage(x.kind),
         at \in {"script", "close"} => x.kind = "one_shot"
  PROVE  Turns(x, Edit(x, at, open, stage, thrown, cause))
<1> DEFINE y == Edit(x, at, open, stage, thrown, cause)
<1>a. y \in ExecStates
  BY DEF ExecStates, Edit
<1>b. /\ y.kind = x.kind /\ y.at = at /\ y.open = open
      /\ y.unmarked = x.unmarked /\ y.end = x.end /\ y.outcome = x.outcome
  BY DEF ExecStates, Edit
<1> HIDE DEF y
<1>1. /\ y \in ExecStates
      /\ y.kind = x.kind /\ y.at = at /\ y.open = open
      /\ y.unmarked = x.unmarked /\ y.end = x.end /\ y.outcome = x.outcome
  BY <1>a, <1>b
<1>2. ExecOK(y)
  BY <1>1 DEF ExecOK
<1>3. Turns(x, y)
  BY <1>1, <1>2 DEF Turns
<1> QED BY <1>3 DEF y

LEMMA Stops ==
  ASSUME NEW x \in ExecStates, ExecOK(x), NEW stage \in Stages \cup {None},
         NEW outcome \in Outcomes, NEW reason \in Reasons, NEW cause \in Stages \cup {None}
  PROVE  Turns(x, Settle([x EXCEPT !.open = 0, !.at = "over", !.failedStage = stage],
                         outcome, reason, cause))
<1> DEFINE y == [x EXCEPT !.open = 0, !.at = "over", !.failedStage = stage]
<1>1. /\ y \in ExecStates
      /\ y.kind = x.kind /\ y.at = "over" /\ y.open = 0 /\ y.unmarked = x.unmarked
      /\ y.end = x.end /\ y.outcome = x.outcome
  BY DEF ExecStates
<1> DEFINE z == Settle(y, outcome, reason, cause)
<1>2. /\ z \in ExecStates
      /\ z.kind = x.kind /\ z.at = "over" /\ z.open = 0 /\ z.unmarked = x.unmarked
      /\ IF x.end = "open" THEN z.end \in {"settled", "mark"}
         ELSE z.end = x.end /\ z.outcome = x.outcome
  <2> HIDE DEF y
  <2> QED BY <1>1, SettleTyped
<1>3. x.end \in Ends \cup Tellings
  BY DEF ExecStates
<1> HIDE DEF z
<1>4. ExecOK(z)
  BY <1>2, <1>3 DEF ExecOK, Tellings, Ends, Stages
<1>5. Turns(x, z)
  BY <1>2, <1>3, <1>4 DEF Turns, Before, Ends, Tellings
<1> QED BY <1>5 DEF z

LEMMA RunnerTurns ==
  ASSUME TypeOK, NEW r \in Runs, RunnerStep(r)
  PROVE  /\ UNCHANGED <<run, boot, torn, book>>
         /\ steps' \in [Runs -> Seq(StepRows)] /\ faults' \in Nat
         /\ \E new : exec' = [exec EXCEPT ![r] = new] /\ Turns(exec[r], new)
<1>0. exec[r] \in ExecStates /\ ExecOK(exec[r])
  BY DEF TypeOK
<1>1. PICK x \in ExecStates : x = exec[r] /\ ExecOK(x)
  BY <1>0
<1> USE <1>1
<1>2. Turns(x, x)
  BY DEF Turns
<1>3. UNCHANGED <<steps, faults>> => steps' \in [Runs -> Seq(StepRows)] /\ faults' \in Nat
  BY DEF TypeOK
<1>4. CASE OpenStage(r)
  <2>1. x.at \in Stages /\ Noted(r, x.at, "started")
    BY <1>4 DEF OpenStage, Stages
  <2>2. steps' \in [Runs -> Seq(StepRows)] /\ faults' \in Nat
    BY <2>1, NoteTyped
  <2> DEFINE new == [x EXCEPT !.open = Len(steps[r]) + 1]
  <2>3. exec' = [exec EXCEPT ![r] = new]
    BY <1>4 DEF OpenStage
  <2>4. Len(steps[r]) + 1 \in Nat
    BY DEF TypeOK
  <2>5. Turns(x, new)
    BY <1>4, <2>4 DEF Turns, ExecStates, ExecOK, OpenStage, Stages
  <2> QED BY <1>4, <2>2, <2>3, <2>5 DEF OpenStage
<1>5. CASE StageSucceeds(r)
  <2>1. steps' \in [Runs -> Seq(StepRows)] /\ faults' \in Nat
    BY <1>5, FinishTyped DEF StageSucceeds
  <2> DEFINE new == [x EXCEPT !.open = 0, !.at = AfterStage(x.kind)[x.at]]
  <2>2. exec' = [exec EXCEPT ![r] = new]
    BY <1>5 DEF StageSucceeds
  <2>3. x.open # 0 /\ x.at # "close"
    BY <1>5 DEF StageSucceeds
  <2>4. /\ AfterStage(x.kind)[x.at] \in Stages \cup {"script"}
        /\ AfterStage(x.kind)[x.at] # "close"
        /\ AfterStage(x.kind)[x.at] = "script" => x.kind = "one_shot"
        /\ AfterStage(x.kind)[x.at] \in Stages \ {"poll"}
              => AfterStage(x.kind)[x.at] \in DOMAIN AfterStage(x.kind)
    BY <2>3 DEF AfterStage, ExecOK, Stages
  <2>5. Turns(x, new)
    <3>1. PICK next : next = AfterStage(x.kind)[x.at]
      OBVIOUS
    <3>2. /\ x.failedStage \in Stages \cup {None}
          /\ x.thrown \in Outcomes /\ x.cause \in Stages \cup {None}
      BY DEF ExecStates
    <3>3. new = Edit(x, next, 0, x.failedStage, x.thrown, x.cause)
      BY <3>1 DEF ExecStates, Edit
    <3>4. Turns(x, Edit(x, next, 0, x.failedStage, x.thrown, x.cause))
      BY <2>4, <3>1, <3>2, EditTurns
    <3> QED BY <3>3, <3>4
  <2> QED BY <1>5, <2>1, <2>2, <2>5 DEF StageSucceeds
<1>6. CASE StageFails(r)
  <2>1. steps' \in [Runs -> Seq(StepRows)] /\ faults' \in Nat
    BY <1>6, FinishTyped DEF StageFails
  <2>2. x.at \in Stages
    BY <1>6 DEF StageFails, ExecOK, AfterStage, Stages
  <2>3. PICK error \in Throws(x.kind, x.at) :
          LET stage == x.at
              cause == IF StageOf(error) = None THEN stage ELSE StageOf(error)
              failed == [x EXCEPT !.open = 0, !.at = "over",
                             !.failedStage = IF @ = None THEN stage ELSE @]
          IN  exec' = [exec EXCEPT ![r] =
                  IF x.kind = "one_shot" /\ stage = "load_script"
                  THEN [failed EXCEPT !.at = "close", !.thrown = error, !.cause = cause]
                  ELSE Settle(failed, error, None, cause)]
    BY <1>6 DEF StageFails
  <2> DEFINE cause == IF StageOf(error) = None THEN x.at ELSE StageOf(error)
             fs == IF x.failedStage = None THEN x.at ELSE x.failedStage
             failed == [x EXCEPT !.open = 0, !.at = "over", !.failedStage = fs]
  <2>4. error \in Outcomes /\ cause \in Stages \cup {None} /\ fs \in Stages \cup {None}
    BY <2>2, StageNamed, ThrownTyped DEF ExecStates
  <2>5. CASE x.kind = "one_shot" /\ x.at = "load_script"
    <3> DEFINE new == [x EXCEPT !.open = 0, !.at = "close", !.failedStage = fs,
                                !.thrown = error, !.cause = cause]
    <3>1. exec' = [exec EXCEPT ![r] = new]
      BY <2>3, <2>5
    <3>2. "close" \in Stages
      BY DEF Stages
    <3>3. PICK k \in Stages \cup {None}, f \in Stages \cup {None} : k = cause /\ f = fs
      BY <2>4
    <3>4. new = Edit(x, "close", 0, f, error, k)
      BY <3>3 DEF Edit
    <3>5. Turns(x, Edit(x, "close", 0, f, error, k))
      BY <2>4, <2>5, <3>2, EditTurns
    <3> QED BY <1>6, <2>1, <3>1, <3>4, <3>5 DEF StageFails
  <2>6. CASE ~(x.kind = "one_shot" /\ x.at = "load_script")
    <3>1. exec' = [exec EXCEPT ![r] = Settle(failed, error, None, cause)]
      BY <2>3, <2>6
    <3>2. Turns(x, Settle(failed, error, None, cause))
      <4>1. None \in Reasons
        BY DEF Reasons, StopReasons
      <4> HIDE DEF cause, fs
      <4> QED BY <2>4, <4>1, Stops
    <3> QED BY <1>6, <2>1, <3>1, <3>2 DEF StageFails
  <2> QED BY <2>5, <2>6
<1>7. CASE AuthTimesOut(r)
  <2>1. steps' \in [Runs -> Seq(StepRows)] /\ faults' \in Nat
    BY <1>7, FinishTyped DEF AuthTimesOut
  <2> DEFINE fs == IF x.failedStage = None THEN "auth_wait" ELSE x.failedStage
             new == Settle([x EXCEPT !.open = 0, !.at = "over", !.failedStage = fs],
                           "unknown", "auth_timeout", "auth_wait")
  <2>2. exec' = [exec EXCEPT ![r] = new]
    BY <1>7 DEF AuthTimesOut
  <2>3. /\ fs \in Stages \cup {None} /\ "unknown" \in Outcomes
        /\ "auth_timeout" \in Reasons /\ "auth_wait" \in Stages \cup {None}
    BY DEF ExecStates, Stages, Outcomes, Reasons, StopReasons
  <2>4. Turns(x, new)
    <3> HIDE DEF fs
    <3> QED BY <2>3, Stops
  <2> QED BY <1>7, <2>1, <2>2, <2>4 DEF AuthTimesOut
<1>8. CASE ScriptEnds(r)
  <2>1. PICK error \in Errors \cup {"timeout", None} :
          exec' = [exec EXCEPT ![r] = [x EXCEPT !.at = "close", !.thrown = error,
                       !.cause = IF error = None THEN None ELSE StageOf(error)]]
    BY <1>8 DEF ScriptEnds
  <2> DEFINE cause == IF error = None THEN None ELSE StageOf(error)
             new == [x EXCEPT !.at = "close", !.thrown = error, !.cause = cause]
  <2>2. error \in Outcomes /\ cause \in Stages \cup {None}
    BY StageNamed DEF Outcomes
  <2>3. x.kind = "one_shot"
    BY <1>8 DEF ScriptEnds, ExecOK
  <2>4. Turns(x, new)
    <3>1. PICK k \in Stages \cup {None} : k = cause
      BY <2>2
    <3>2. "close" \in Stages /\ x.open \in Nat /\ x.failedStage \in Stages \cup {None}
      BY DEF Stages, ExecStates
    <3>3. new = Edit(x, "close", x.open, x.failedStage, error, k)
      BY <3>1 DEF ExecStates, Edit
    <3>4. Turns(x, Edit(x, "close", x.open, x.failedStage, error, k))
      BY <2>2, <2>3, <3>2, EditTurns
    <3> QED BY <3>3, <3>4
  <2> QED BY <1>3, <1>8, <2>1, <2>4 DEF ScriptEnds
<1>9. CASE BrowserClosed(r)
  <2>1. PICK status \in {"success", "failed"} :
          /\ Finished(r, status)
          /\ LET e == [x EXCEPT !.open = 0, !.at = "over",
                          !.failedStage = IF @ = None /\ status = "failed" THEN "close" ELSE @]
             IN  exec' = [exec EXCEPT ![r] =
                     Settle(e, IF e.thrown = None THEN "ok" ELSE e.thrown, None, e.cause)]
    BY <1>9 DEF BrowserClosed
  <2>2. steps' \in [Runs -> Seq(StepRows)] /\ faults' \in Nat
    BY <2>1, FinishTyped
  <2> DEFINE fs == IF x.failedStage = None /\ status = "failed" THEN "close" ELSE x.failedStage
             e == [x EXCEPT !.open = 0, !.at = "over", !.failedStage = fs]
             outcome == IF x.thrown = None THEN "ok" ELSE x.thrown
             new == Settle(e, outcome, None, x.cause)
  <2>3. e.thrown = x.thrown /\ e.cause = x.cause
    BY DEF ExecStates
  <2>4. exec' = [exec EXCEPT ![r] = new]
    BY <2>1, <2>3
  <2>5. /\ fs \in Stages \cup {None} /\ outcome \in Outcomes
        /\ None \in Reasons /\ x.cause \in Stages \cup {None}
    BY DEF ExecStates, Stages, Outcomes, Reasons, StopReasons
  <2>6. Turns(x, new)
    <3> HIDE DEF fs, outcome
    <3> QED BY <2>5, Stops
  <2> QED BY <1>9, <2>2, <2>4, <2>6 DEF BrowserClosed
<1>10. ASSUME NEW status \in {"success", "failed"}, FirstPoll(r, status)
       PROVE  /\ steps' \in [Runs -> Seq(StepRows)] /\ faults' \in Nat
              /\ \E new : exec' = [exec EXCEPT ![r] = new] /\ Turns(x, new)
  <2>1. steps' \in [Runs -> Seq(StepRows)] /\ faults' \in Nat
    BY <1>10, NoteTyped DEF FirstPoll, Stages
  <2> DEFINE new == [x EXCEPT !.noted = x.noted \cup {status}]
  <2>2. exec' = [exec EXCEPT ![r] = new]
    BY <1>10 DEF FirstPoll
  <2>3. Turns(x, new)
    <3> QED BY DEF Turns, ExecStates, ExecOK
  <2> QED BY <2>1, <2>2, <2>3
<1>11. ASSUME x.at = "poll", NEW outcome \in Outcomes, NEW reason \in Reasons,
              NEW cause \in Stages \cup {None}
       PROVE  Turns(x, Settle([x EXCEPT !.at = "over"], outcome, reason, cause))
  <2>1. x.open = 0
    BY <1>11 DEF ExecOK, AfterStage
  <2> DEFINE fs == x.failedStage
  <2>2. [x EXCEPT !.at = "over"] = [x EXCEPT !.open = 0, !.at = "over", !.failedStage = fs]
    BY <2>1 DEF ExecStates
  <2>3. fs \in Stages \cup {None}
    BY DEF ExecStates
  <2>4. Turns(x, Settle([x EXCEPT !.open = 0, !.at = "over", !.failedStage = fs],
                        outcome, reason, cause))
    <3> HIDE DEF fs
    <3> QED BY <1>11, <2>3, Stops
  <2> QED BY <2>2, <2>4
<1>12. CASE MonitorGivesUp(r)
  <2>1. PICK stage \in {"poll", "keep_alive"}, reason \in {"logged_out", "watchdog_timeout"} :
          /\ Noted(r, stage, "failed")
          /\ exec' = [exec EXCEPT ![r] = Settle([x EXCEPT !.at = "over"], "unknown", reason, stage)]
    BY <1>12 DEF MonitorGivesUp
  <2>2. steps' \in [Runs -> Seq(StepRows)] /\ faults' \in Nat
    BY <2>1, NoteTyped DEF Stages
  <2>3. Turns(x, Settle([x EXCEPT !.at = "over"], "unknown", reason, stage))
    BY <1>11, <1>12 DEF MonitorGivesUp, Outcomes, Reasons, StopReasons, Stages
  <2> QED BY <1>12, <2>1, <2>2, <2>3 DEF MonitorGivesUp
<1>13. CASE MonitorEnds(r)
  <2>1. \/ \E error \in Errors :
             exec' = [exec EXCEPT ![r] = Settle([x EXCEPT !.at = "over"], error, None, StageOf(error))]
        \/ exec' = [exec EXCEPT ![r] = Settle([x EXCEPT !.at = "over"], "ok", "stop_requested", None)]
    BY <1>13 DEF MonitorEnds
  <2>2. \A error \in Errors : Turns(x, Settle([x EXCEPT !.at = "over"], error, None, StageOf(error)))
    BY <1>11, <1>13, StageNamed DEF MonitorEnds, Outcomes, Reasons, StopReasons
  <2>3. Turns(x, Settle([x EXCEPT !.at = "over"], "ok", "stop_requested", None))
    BY <1>11, <1>13 DEF MonitorEnds, Outcomes, Reasons, StopReasons
  <2> QED BY <1>3, <1>13, <2>1, <2>2, <2>3 DEF MonitorEnds
<1>14. ASSUME NEW outcome \in Outcomes, NEW reason \in Reasons
       PROVE  Turns(x, [Settle(x, outcome, reason, None) EXCEPT !.cut = TRUE])
  <2> DEFINE y == Settle(x, outcome, reason, None)
  <2>1. /\ y \in ExecStates
        /\ y.kind = x.kind /\ y.at = x.at /\ y.open = x.open /\ y.unmarked = x.unmarked
        /\ IF x.end = "open" THEN y.end \in {"settled", "mark"}
           ELSE y.end = x.end /\ y.outcome = x.outcome
    BY SettleTyped
  <2> HIDE DEF y
  <2>2. /\ [y EXCEPT !.cut = TRUE] \in ExecStates
        /\ \A f \in {"kind", "at", "open", "unmarked", "end", "outcome"} :
              [y EXCEPT !.cut = TRUE][f] = y[f]
    BY <2>1 DEF ExecStates
  <2>3. Turns(x, [y EXCEPT !.cut = TRUE])
    BY <2>1, <2>2 DEF Turns, Before, ExecOK, Tellings
  <2> QED BY <2>3 DEF y
<1>15. CASE CutSession(r) \/ RunTimeout(r)
  <2>1. PICK outcome \in {"unknown", "timeout"}, reason \in {"session_killed", "browser_closed", None} :
          exec' = [exec EXCEPT ![r] = [Settle(x, outcome, reason, None) EXCEPT !.cut = TRUE]]
    BY <1>15 DEF CutSession, RunTimeout
  <2>2. Turns(x, [Settle(x, outcome, reason, None) EXCEPT !.cut = TRUE])
    BY <1>14 DEF Outcomes, Reasons, StopReasons
  <2> QED BY <1>3, <1>15, <2>1, <2>2 DEF CutSession, RunTimeout
<1>16. CASE Ingest(r)
  <2>1. \/ exec' = [exec EXCEPT ![r] = [x EXCEPT !.end = "mark"]]
        \/ exec' = [exec EXCEPT ![r] = [x EXCEPT !.outcome = "unknown"]]
    BY <1>16 DEF Ingest
  <2>2. x.end = "settled"
    BY <1>16 DEF Ingest
  <2>3. Turns(x, [x EXCEPT !.end = "mark"])
    BY <2>2 DEF Turns, ExecStates, ExecOK, Before, Ends, Tellings
  <2>4. Turns(x, [x EXCEPT !.outcome = "unknown"])
    BY <2>2 DEF Turns, ExecStates, ExecOK, Before, Outcomes
  <2> QED BY <1>3, <1>16, <2>1, <2>3, <2>4 DEF Ingest
<1>17. CASE Judge(r)
  <2>1. x.end = "settled" /\ x.failedStage \in Stages \cup {None} /\ x.outcome \in Outcomes
        /\ x.reason \in Reasons
    BY <1>17 DEF Judge, Failing, ExecStates
  <2>2. Verdict(r).stage \in Stages \cup {None} /\ Verdict(r).type \in FailureTypes
    <3>1. Verdict(r).stage \in Stages \cup {None}
      BY <2>1, StageNamed DEF Verdict
    <3>2. Verdict(r).type \in FailureTypes
      BY <2>1, TypeNamed DEF Verdict, FailureTypes
    <3> QED BY <3>1, <3>2
  <2>3. steps' \in [Runs -> Seq(StepRows)] /\ faults' \in Nat
    <3>1. CASE UNCHANGED steps /\ NoFault
      BY <1>3, <3>1 DEF NoFault
    <3>2. CASE Verdict(r).stage \in Stages /\ Noted(r, Verdict(r).stage, "failed")
      BY <3>2, NoteTyped
    <3> QED BY <1>17, <2>2, <3>1, <3>2 DEF Judge
  <2> DEFINE type == Verdict(r).type
             new == [x EXCEPT !.end = "mark", !.type = type]
  <2>4. exec' = [exec EXCEPT ![r] = new]
    BY <1>17 DEF Judge
  <2>5. Turns(x, new)
    <3>0. type \in FailureTypes
      BY <2>2
    <3> HIDE DEF type
    <3>1. /\ new \in ExecStates
          /\ new.kind = x.kind /\ new.at = x.at /\ new.open = x.open
          /\ new.unmarked = x.unmarked /\ new.end = "mark"
      BY <3>0 DEF ExecStates, Ends
    <3> HIDE DEF new
    <3> QED BY <2>1, <3>1 DEF Turns, ExecOK, Before, Tellings
  <2> QED BY <1>17, <2>3, <2>4, <2>5 DEF Judge
<1> QED BY <1>4, <1>5, <1>6, <1>7, <1>8, <1>9, <1>10, <1>12, <1>13, <1>15, <1>16, <1>17
    DEF RunnerStep, FirstPoll

-----------------------------------------------------------------------------
(* The other steps: those that begin an execution, write its verdict, tell *)
(* of it, and those of the process as a whole.                             *)
TellStep(r) ==
    \/ NotifyFailure(r) \/ AlertOnce(r) \/ EnqueueAlert(r)
    \/ NotifySuccess(r) \/ EnqueueRecovery(r) \/ NotifyFails(r)

OtherStep(r) ==
    \/ \E kind \in Kinds : Start(r, kind)
    \/ StartAgain(r) \/ Mark(r) \/ TellStep(r) \/ Prune(r)

LEMMA BegunTyped ==
  ASSUME NEW kind \in {"one_shot", "persistent"}
  PROVE  LET new == [Idle EXCEPT !.kind = kind, !.at = "credentials"]
         IN  new \in ExecStates /\ ExecOK(new)
BY DEF Idle, ExecStates, ExecOK, AfterStage, Stages, Ends, Tellings, Outcomes, Reasons, StopReasons, FailureTypes

LEMMA EndTyped ==
  ASSUME NEW x \in ExecStates, ExecOK(x), NEW end \in Ends \cup Tellings,
         end \in Tellings => x.kind = "one_shot"
  PROVE  /\ [x EXCEPT !.end = end] \in ExecStates /\ ExecOK([x EXCEPT !.end = end])
         /\ [x EXCEPT !.end = end, !.unmarked = TRUE] \in ExecStates
         /\ ExecOK([x EXCEPT !.end = end, !.unmarked = TRUE])
<1> DEFINE y == [x EXCEPT !.end = end]
           z == [x EXCEPT !.end = end, !.unmarked = TRUE]
<1>1. y \in ExecStates
  BY DEF ExecStates
<1>2. z \in ExecStates
  BY DEF ExecStates
<1>3. /\ y.kind = x.kind /\ y.at = x.at /\ y.open = x.open /\ y.end = end
      /\ z.kind = x.kind /\ z.at = x.at /\ z.open = x.open /\ z.end = end
  BY DEF ExecStates
<1> HIDE DEF y, z
<1>4. ExecOK(y) /\ ExecOK(z)
  BY <1>3 DEF ExecOK
<1> QED BY <1>1, <1>2, <1>4 DEF y, z

LEMMA Replaced ==
  ASSUME TypeOK, NEW r \in Runs, NEW new \in ExecStates, ExecOK(new),
         exec' = [exec EXCEPT ![r] = new]
  PROVE  exec' \in [Runs -> ExecStates] /\ \A q \in Runs : ExecOK(exec'[q])
BY DEF TypeOK

LEMMA FaultTyped == TypeOK /\ (Fault \/ NoFault) => faults' \in Nat
BY DEF TypeOK, Fault, NoFault

LEMMA BookTyped ==
  ASSUME TypeOK, NEW g \in Groups, NEW notice \in {"failed", "recovered"},
         \/ CountFailure(g) \/ MarkAlerted(g) \/ Tell(g, notice) \/ Clear(g) \/ UNCHANGED book
  PROVE  /\ alerts' \in [Groups -> [streak : 0 .. Threshold, alerted : BOOLEAN]]
         /\ told' \in [Groups -> {"failed", "recovered", "twice"}]
         /\ missed' \in [Groups -> 0 .. Threshold]
<1> USE ThresholdPositive DEF TypeOK
<1>1. CASE CountFailure(g)
  BY <1>1 DEF CountFailure
<1>2. CASE MarkAlerted(g)
  BY <1>2 DEF MarkAlerted
<1>3. CASE Tell(g, notice)
  BY <1>3 DEF Tell
<1>4. CASE Clear(g)
  BY <1>4 DEF Clear
<1>5. CASE UNCHANGED book
  BY <1>5 DEF book
<1> QED BY <1>1, <1>2, <1>3, <1>4, <1>5

LEMMA MarkTyped ==
  ASSUME TypeOK, NEW r \in Runs, Mark(r)
  PROVE  TypeOK'
<1> DEFINE next == IF exec[r].kind = "one_shot" THEN "notify" ELSE "over"
<1>1. exec[r] \in ExecStates /\ ExecOK(exec[r]) /\ run[r] \in RunRows
  BY DEF TypeOK
<1>2. run' \in [Runs -> RunRows]
  <2>1. exec[r].type \in FailureTypes /\ exec[r].reason \in Reasons
    BY <1>1 DEF ExecStates
  <2>2. [run[r] EXCEPT !.status = "success", !.reason = exec[r].reason] \in RunRows
    BY <1>1, <2>1 DEF RunRows
  <2>3. [status |-> "failed", type |-> exec[r].type, reason |-> exec[r].reason] \in RunRows
    BY <2>1 DEF RunRows
  <2> QED BY <2>2, <2>3 DEF Mark, Marked, TypeOK
<1>3. \/ exec' = [exec EXCEPT ![r] = [exec[r] EXCEPT !.end = next]]
      \/ exec' = [exec EXCEPT ![r] = [exec[r] EXCEPT !.end = next, !.unmarked = TRUE]]
  BY DEF Mark
<1>4. next \in Ends \cup Tellings /\ (next \in Tellings => exec[r].kind = "one_shot")
  BY DEF Ends, Tellings
<1>5. exec' \in [Runs -> ExecStates] /\ \A q \in Runs : ExecOK(exec'[q])
  BY <1>1, <1>3, <1>4, EndTyped, Replaced
<1>6. faults' \in Nat
  BY FaultTyped DEF Mark
<1> QED BY <1>2, <1>5, <1>6 DEF TypeOK, Mark, book

(* Who tells writes the books of a group and moves his own end on.         *)
LEMMA TellTyped ==
  ASSUME TypeOK, NEW r \in Runs, TellStep(r)
  PROVE  TypeOK'
<1>1. exec[r] \in ExecStates /\ ExecOK(exec[r]) /\ Group(r) \in Groups
  BY DEF TypeOK, Group, GroupOf, Groups
<1>2. /\ exec[r].end \in Tellings
      /\ \E end \in Ends \cup Tellings : exec' = [exec EXCEPT ![r] = [exec[r] EXCEPT !.end = end]]
  BY DEF TellStep, NotifyFailure, AlertOnce, EnqueueAlert, NotifySuccess, EnqueueRecovery,
         NotifyFails,
         Tells, Telling, Tellings, Ends
<1>3. exec' \in [Runs -> ExecStates] /\ \A q \in Runs : ExecOK(exec'[q])
  BY <1>1, <1>2, EndTyped, Replaced DEF ExecOK
<1>4. \E g \in Groups, notice \in {"failed", "recovered"} :
         CountFailure(g) \/ MarkAlerted(g) \/ Tell(g, notice) \/ Clear(g) \/ UNCHANGED book
  BY <1>1
  DEF TellStep, NotifyFailure, AlertOnce, EnqueueAlert, NotifySuccess, EnqueueRecovery, NotifyFails,
      Groups
<1>5. /\ UNCHANGED <<run, steps, boot>> /\ torn' \in BOOLEAN /\ (Fault \/ NoFault)
  BY DEF TellStep, NotifyFailure, AlertOnce, EnqueueAlert, NotifySuccess, EnqueueRecovery,
         NotifyFails,
         Rest, TypeOK
<1>6. /\ alerts' \in [Groups -> [streak : 0 .. Threshold, alerted : BOOLEAN]]
      /\ told' \in [Groups -> {"failed", "recovered", "twice"}]
      /\ missed' \in [Groups -> 0 .. Threshold]
  BY <1>4, BookTyped
<1>7. faults' \in Nat
  BY <1>5, FaultTyped
<1> QED BY <1>3, <1>5, <1>6, <1>7 DEF TypeOK

LEMMA OtherTyped ==
  ASSUME TypeOK, NEW r \in Runs, OtherStep(r)
  PROVE  TypeOK'
<1>r. run[r] \in RunRows
  BY DEF TypeOK
<1>a. [run[r] EXCEPT !.status = "running"] \in RunRows
  BY <1>r DEF RunRows
<1>b. NoRun \in RunRows
  BY DEF RunRows, NoRun, FailureTypes, Reasons, StopReasons
<1>1. run[r] \in RunRows /\ [run[r] EXCEPT !.status = "running"] \in RunRows /\ NoRun \in RunRows
  BY <1>r, <1>a, <1>b
<1>2. Idle \in ExecStates /\ ExecOK(Idle)
  BY DEF Idle, ExecStates, ExecOK, FailureTypes, Outcomes, Reasons, StopReasons, Stages, Ends, Tellings
<1>3. ASSUME NEW kind \in {"one_shot", "persistent"},
             exec' = [exec EXCEPT ![r] = [Idle EXCEPT !.kind = kind, !.at = "credentials"]]
      PROVE  exec' \in [Runs -> ExecStates] /\ \A q \in Runs : ExecOK(exec'[q])
  <2> DEFINE new == [Idle EXCEPT !.kind = kind, !.at = "credentials"]
  <2>1. new \in ExecStates /\ ExecOK(new)
    BY BegunTyped
  <2> HIDE DEF new
  <2> QED BY <1>3, <2>1, Replaced DEF new
<1>4. CASE \E kind \in Kinds : Start(r, kind)
  <2>1. PICK kind \in {"one_shot", "persistent"} : Start(r, kind)
    BY <1>4, TwoKinds
  <2>2. exec' \in [Runs -> ExecStates] /\ \A q \in Runs : ExecOK(exec'[q])
    BY <1>3, <2>1 DEF Start
  <2>3. run' \in [Runs -> RunRows]
    BY <1>1, <2>1 DEF Start, TypeOK
  <2>4. faults' \in Nat
    BY <2>1, FaultTyped DEF Start
  <2> QED BY <2>1, <2>2, <2>3, <2>4 DEF TypeOK, Start, book
<1>5. CASE StartAgain(r)
  <2>1. exec' \in [Runs -> ExecStates] /\ \A q \in Runs : ExecOK(exec'[q])
    BY <1>3, <1>5 DEF StartAgain
  <2>2. run' \in [Runs -> RunRows]
    BY <1>1, <1>5 DEF StartAgain, TypeOK
  <2>3. faults' \in Nat
    BY <1>5, FaultTyped DEF StartAgain
  <2> QED BY <1>5, <2>1, <2>2, <2>3 DEF TypeOK, StartAgain, book
<1>6. CASE Prune(r)
  <2>1. exec' \in [Runs -> ExecStates] /\ \A q \in Runs : ExecOK(exec'[q])
    BY <1>2, <1>6, Replaced DEF Prune, TypeOK
  <2>2. run' \in [Runs -> RunRows] /\ steps' \in [Runs -> Seq(StepRows)]
    BY <1>1, <1>6 DEF Prune, TypeOK
  <2>3. faults' \in Nat
    BY <1>6, FaultTyped DEF Prune
  <2> QED BY <1>6, <2>1, <2>2, <2>3 DEF TypeOK, Prune, book
<1> QED BY <1>4, <1>5, <1>6, MarkTyped, TellTyped DEF OtherStep

ProcessStep == Crash \/ Restart \/ MarkOrphaned \/ OrphansStay

LEMMA ProcessTyped ==
  ASSUME TypeOK, ProcessStep
  PROVE  TypeOK'
<1>1. \A r \in Runs : exec[r] \in ExecStates /\ ExecOK(exec[r]) /\ run[r] \in RunRows
  BY DEF TypeOK
<1>2. CASE Crash
  <2>1. Idle \in ExecStates /\ ExecOK(Idle)
    BY DEF Idle, ExecStates, ExecOK, FailureTypes, Outcomes, Reasons, StopReasons, Stages, Ends, Tellings
  <2>2. ASSUME NEW x \in ExecStates, ExecOK(x)
        PROVE  LET new == [x EXCEPT !.at = "over", !.open = 0, !.end = "over", !.cut = TRUE]
               IN  new \in ExecStates /\ ExecOK(new)
    <3> DEFINE new == [x EXCEPT !.at = "over", !.open = 0, !.end = "over", !.cut = TRUE]
    <3>1. new \in ExecStates
      BY DEF ExecStates, Ends
    <3>2. new.at = "over" /\ new.open = 0 /\ new.end = "over" /\ new.outcome = x.outcome
      BY DEF ExecStates
    <3> HIDE DEF new
    <3>3. ExecOK(new)
      BY <3>2 DEF ExecOK, Tellings, Stages
    <3> QED BY <3>1, <3>3 DEF new
  <2>3. \A r \in Runs : exec'[r] \in ExecStates /\ ExecOK(exec'[r])
    BY <1>1, <1>2, <2>1, <2>2 DEF Crash
  <2>4. exec' = [r \in Runs |-> exec'[r]]
    BY <1>2 DEF Crash
  <2>5. torn' \in BOOLEAN /\ faults' \in Nat
    BY <1>2, FaultTyped DEF Crash, TypeOK
  <2> QED BY <1>2, <2>3, <2>4, <2>5 DEF Crash, TypeOK, book
<1>3. CASE Restart
  BY <1>3 DEF Restart, TypeOK, book
<1>4. CASE MarkOrphaned
  <2>1. \A r \in Runs : Orphaned(r) \in RunRows
    BY <1>1 DEF Orphaned, RunRows, FailureTypes
  <2>2. run' \in [Runs -> RunRows]
    BY <1>1, <1>4, <2>1 DEF MarkOrphaned
  <2> QED BY <1>4, <2>2 DEF MarkOrphaned, TypeOK, book
<1>5. CASE OrphansStay
  <2>1. ASSUME NEW x \in ExecStates, ExecOK(x), NEW b \in BOOLEAN
        PROVE  [x EXCEPT !.unmarked = b] \in ExecStates /\ ExecOK([x EXCEPT !.unmarked = b])
    <3> DEFINE new == [x EXCEPT !.unmarked = b]
    <3>1. new \in ExecStates
      BY DEF ExecStates
    <3>2. /\ new.kind = x.kind /\ new.at = x.at /\ new.open = x.open
          /\ new.end = x.end /\ new.outcome = x.outcome
      BY DEF ExecStates
    <3> HIDE DEF new
    <3>3. ExecOK(new)
      BY <2>1, <3>2 DEF ExecOK
    <3> QED BY <3>1, <3>3 DEF new
  <2>4. ASSUME NEW r \in Runs
        PROVE  exec'[r] \in ExecStates /\ ExecOK(exec'[r])
    <3>1. \E b \in BOOLEAN : exec'[r] = [exec[r] EXCEPT !.unmarked = b]
      BY <1>5 DEF OrphansStay
    <3>2. PICK b \in BOOLEAN : exec'[r] = [exec[r] EXCEPT !.unmarked = b]
      BY <3>1
    <3>3. exec[r] \in ExecStates /\ ExecOK(exec[r])
      BY <1>1
    <3> QED BY <2>1, <3>2, <3>3
  <2>5. exec' = [r \in Runs |-> exec'[r]]
    BY <1>5 DEF OrphansStay
  <2> QED BY <1>5, <2>4, <2>5 DEF OrphansStay, TypeOK, book
<1> QED BY <1>2, <1>3, <1>4, <1>5 DEF ProcessStep

-----------------------------------------------------------------------------
(* Steps that do not tell leave the books as they found them.              *)
LEMMA AlertKept ==
  ASSUME AlertInv, UNCHANGED book, torn \in BOOLEAN, torn' = torn \/ torn' = TRUE,
         \A q \in Runs :
            \/ exec'[q].end = exec[q].end /\ exec'[q].outcome = exec[q].outcome
            \/ {exec[q].end, exec'[q].end} \cap {"alert", "enqueue", "recovered"} = {}
  PROVE  AlertInv'
<1> SUFFICES ASSUME ~torn'
             PROVE  /\ \A g \in Groups : alerts'[g].streak = missed'[g]
                    /\ \A r \in Runs : exec'[r].end = "alert" => exec'[r].outcome # "ok"
                    /\ \A g \in Groups :
                          \/ Quiet(g)' /\ \A r \in Runs : ~Alerting(r, g)' /\ ~Recovering(r, g)'
                          \/ \E r \in Runs : \/ Alerting(r, g)' /\ AlertHalf(r, g)'
                                             \/ Recovering(r, g)' /\ RecoveryHalf(g)'
  BY DEF AlertInv
<1>1. ~torn /\ UNCHANGED <<alerts, told, missed>>
  BY DEF book
<1>2. ASSUME NEW q \in Runs, NEW g \in Groups
      PROVE  /\ Alerting(q, g)' <=> Alerting(q, g)
             /\ Alerting(q, g) /\ AlertHalf(q, g) => AlertHalf(q, g)'
             /\ Recovering(q, g)' <=> Recovering(q, g)
  BY <1>1 DEF Alerting, AlertHalf, Recovering, Group
<1>3. \A g \in Groups : (Quiet(g)' <=> Quiet(g)) /\ (RecoveryHalf(g)' <=> RecoveryHalf(g))
  BY <1>1 DEF Quiet, RecoveryHalf
<1> QED BY <1>1, <1>2, <1>3 DEF AlertInv

(* What a runner does changes neither the row nor the books.               *)
LEMMA RunnerInv ==
  ASSUME IInv, NEW r \in Runs, RunnerStep(r)
  PROVE  IInv'
<1>1. TypeOK
  BY DEF IInv
<1>2. PICK new : exec' = [exec EXCEPT ![r] = new] /\ Turns(exec[r], new)
  BY <1>1, RunnerTurns
<1>3. /\ UNCHANGED <<run, boot, torn, book>>
      /\ steps' \in [Runs -> Seq(StepRows)] /\ faults' \in Nat
  BY <1>1, RunnerTurns
<1>4. /\ new \in ExecStates /\ ExecOK(new)
      /\ exec'[r] = new /\ \A q \in Runs : q # r => exec'[q] = exec[q]
  BY <1>1, <1>2 DEF Turns, TypeOK
<1>5. TypeOK'
  <2>1. exec' \in [Runs -> ExecStates] /\ \A q \in Runs : ExecOK(exec'[q])
    BY <1>1, <1>2, <1>4, Replaced
  <2> QED BY <1>1, <1>3, <2>1 DEF TypeOK, book
<1>6. \A q \in Runs :
        /\ exec'[q].kind = exec[q].kind /\ exec'[q].unmarked = exec[q].unmarked
        /\ IF exec[q].end \in Before THEN exec'[q].end \in Before
           ELSE exec'[q].end = exec[q].end /\ exec'[q].outcome = exec[q].outcome
  BY <1>2, <1>4 DEF Turns
<1>7. VerdictInv'
  BY <1>3, <1>6 DEF IInv, VerdictInv, Begun, Before, Tellings
<1>8. Alone'
  <2>1. \A q \in Runs : exec'[q].kind = exec[q].kind /\ (exec[q].end = "over" => exec'[q].end = "over")
    BY <1>6 DEF Before
  <2>2. Alone /\ torn' = torn
    BY <1>3 DEF IInv
  <2> QED BY <2>1, <2>2 DEF Alone, Judged
<1>9. AlertInv'
  <2>1. AlertInv /\ torn \in BOOLEAN
    BY <1>1 DEF IInv, TypeOK
  <2>2. ASSUME NEW q \in Runs
        PROVE  \/ exec'[q].end = exec[q].end /\ exec'[q].outcome = exec[q].outcome
               \/ {exec[q].end, exec'[q].end} \cap {"alert", "enqueue", "recovered"} = {}
    BY <1>6 DEF Before
  <2>3. UNCHANGED book /\ torn' = torn
    BY <1>3
  <2> QED BY <2>1, <2>2, <2>3, AlertKept
<1> QED BY <1>5, <1>7, <1>8, <1>9 DEF IInv

(* An execution begins alone, except after a timeout of its job.           *)
LEMMA StartInv ==
  ASSUME IInv, NEW r \in Runs, (\E kind \in Kinds : Start(r, kind)) \/ StartAgain(r)
  PROVE  IInv'
<1>1. PICK kind \in {"one_shot", "persistent"} :
        /\ ~Begun(r)
        /\ \/ run' = [run EXCEPT ![r].status = "running"]
           \/ UNCHANGED run
        /\ exec' = [exec EXCEPT ![r] = [Idle EXCEPT !.kind = kind, !.at = "credentials"]]
        /\ UNCHANGED <<steps, boot, book>>
        /\ \/ torn' = torn /\ \A q \in Runs : Begun(q) /\ ~Judged(q) => exec[q].kind = "persistent"
           \/ torn' = TRUE
  BY TwoKinds DEF Start, StartAgain
<1>2. TypeOK /\ TypeOK'
  BY OtherTyped DEF IInv, OtherStep
<1>3. /\ exec'[r].kind = kind /\ exec'[r].end = "open"
      /\ \A q \in Runs : q # r => exec'[q] = exec[q] /\ run'[q] = run[q]
      /\ run'[r].status \in {"none", "running"}
  <2>1. run[r] \in RunRows /\ run[r] = NoRun
    BY <1>1, <1>2 DEF TypeOK, IInv, VerdictInv
  <2>2. run'[r].status \in {"none", "running"}
    BY <1>1, <1>2, <2>1 DEF NoRun, RunRows, TypeOK
  <2>3. exec'[r].kind = kind /\ exec'[r].end = "open"
    BY <1>1, <1>2 DEF TypeOK, Idle
  <2> QED BY <1>1, <1>2, <2>2, <2>3 DEF TypeOK
<1>4. VerdictInv'
  BY <1>1, <1>3, TwoKinds DEF IInv, VerdictInv, Begun, Tellings
<1>5. Alone'
  BY <1>1, <1>3, TwoKinds DEF IInv, Alone, Judged, Begun
<1>6. AlertInv'
  <2>1. CASE torn' = TRUE
    BY <2>1 DEF AlertInv
  <2>2. CASE torn' = torn /\ \A q \in Runs : Begun(q) /\ ~Judged(q) => exec[q].kind = "persistent"
    <3>1. ASSUME NEW q \in Runs, exec[q].end \in Tellings
          PROVE  FALSE
      BY <1>2, <2>2, <3>1, TwoKinds DEF TypeOK, ExecOK, Begun, Judged, Tellings
    <3> QED BY <1>1, <1>2, <1>3, <2>2, <3>1, AlertKept DEF IInv, TypeOK, Tellings
  <2> QED BY <1>1, <2>1, <2>2
<1> QED BY <1>2, <1>4, <1>5, <1>6 DEF IInv

(* The verdict is written, or refused.                                     *)
LEMMA MarkInv ==
  ASSUME IInv, NEW r \in Runs, Mark(r)
  PROVE  IInv'
<1> DEFINE next == IF exec[r].kind = "one_shot" THEN "notify" ELSE "over"
<1>1. TypeOK /\ TypeOK'
  BY MarkTyped DEF IInv
<1>2. exec[r] \in ExecStates /\ run[r] \in RunRows
  BY <1>1 DEF TypeOK
<1>3. /\ exec[r].end = "mark" /\ exec'[r].end = next
      /\ exec'[r].kind = exec[r].kind /\ exec'[r].outcome = exec[r].outcome
      /\ \A q \in Runs : q # r => exec'[q] = exec[q] /\ run'[q] = run[q]
      /\ run'[r].status # "running" \/ exec'[r].unmarked
      /\ run[r].status = "none" => run'[r] = run[r]
      /\ UNCHANGED <<boot, torn, book>>
  <2>1. /\ exec[r].end = "mark" /\ UNCHANGED <<boot, torn, book>>
        /\ \/ run' = Marked(r) /\ exec' = [exec EXCEPT ![r].end = next]
           \/ run' = run /\ exec' = [exec EXCEPT ![r] = [@ EXCEPT !.end = next, !.unmarked = TRUE]]
    BY DEF Mark
  <2>2. /\ exec'[r].end = next /\ exec'[r].kind = exec[r].kind /\ exec'[r].outcome = exec[r].outcome
        /\ \A q \in Runs : q # r => exec'[q] = exec[q]
        /\ run' = Marked(r) \/ (run' = run /\ exec'[r].unmarked)
    <3>1. PICK n : n = next
      OBVIOUS
    <3>2. CASE run' = Marked(r) /\ exec' = [exec EXCEPT ![r].end = n]
      BY <1>1, <1>2, <3>1, <3>2 DEF TypeOK, ExecStates
    <3>3. CASE run' = run /\ exec' = [exec EXCEPT ![r] = [exec[r] EXCEPT !.end = n, !.unmarked = TRUE]]
      <4>1. exec'[r] = [exec[r] EXCEPT !.end = n, !.unmarked = TRUE]
        BY <1>1, <3>3 DEF TypeOK
      <4>2. exec'[r].unmarked
        BY <1>2, <4>1 DEF ExecStates
      <4>3. /\ exec'[r].end = n /\ exec'[r].kind = exec[r].kind
            /\ exec'[r].outcome = exec[r].outcome
        BY <1>2, <4>1 DEF ExecStates
      <4>4. \A q \in Runs : q # r => exec'[q] = exec[q]
        BY <1>1, <3>3 DEF TypeOK
      <4> QED BY <3>1, <3>3, <4>2, <4>3, <4>4
    <3> QED BY <2>1, <3>1, <3>2, <3>3
  <2>3. /\ \A q \in Runs : q # r => Marked(r)[q] = run[q]
        /\ Marked(r)[r].status # "running"
        /\ run[r].status = "none" => Marked(r) = run
    <3>1. CASE run[r].status = "none"
      BY <3>1 DEF Marked
    <3>2. CASE run[r].status # "none"
      BY <1>1, <1>2, <3>2 DEF Marked, TypeOK, RunRows
    <3> QED BY <3>1, <3>2
  <2> QED BY <2>1, <2>2, <2>3
<1>4. VerdictInv'
  BY <1>3 DEF IInv, VerdictInv, Begun, Tellings, NoRun
<1>5. Alone'
  BY <1>3 DEF IInv, Alone, Judged
<1>6. AlertInv'
  BY <1>1, <1>3, AlertKept DEF IInv, TypeOK, Before, Idle
<1> QED BY <1>1, <1>4, <1>5, <1>6 DEF IInv

LEMMA PruneInv ==
  ASSUME IInv, NEW r \in Runs, Prune(r)
  PROVE  IInv'
<1>1. TypeOK /\ TypeOK'
  BY OtherTyped DEF IInv, OtherStep
<1>2. /\ run'[r] = NoRun /\ \A q \in Runs : q # r => exec'[q] = exec[q] /\ run'[q] = run[q]
      /\ \/ exec[r].end = "over" /\ exec'[r] = Idle
         \/ exec'[r] = exec[r]
      /\ UNCHANGED <<boot, torn, book>>
  BY <1>1 DEF Prune, TypeOK, Judged
<1>3. VerdictInv'
  BY <1>2 DEF IInv, VerdictInv, Begun, NoRun, Idle
<1>4. Alone'
  BY <1>2, TwoKinds DEF IInv, Alone, Judged, Idle
<1>5. AlertInv'
  BY <1>1, <1>2, AlertKept DEF IInv, TypeOK, Before, Idle
<1> QED BY <1>1, <1>3, <1>4, <1>5 DEF IInv

(* A success clears one group after the other.                             *)
LEMMA SuccessQuiet ==
  ASSUME TypeOK, TypeOK', NEW r \in Runs, NotifySuccess(r),
         \A q \in Runs : q # r => exec'[q] = exec[q],
         \A q \in Runs : exec[q].end = "alert" => exec[q].outcome # "ok",
         exec'[r].outcome = exec[r].outcome,
         \A g \in Groups :
            /\ alerts[g].streak = missed[g]
            /\ \/ Quiet(g) /\ ~Alerting(r, g) /\ ~Recovering(r, g)
               \/ Alerting(r, g) /\ AlertHalf(r, g)
               \/ Recovering(r, g) /\ RecoveryHalf(g)
  PROVE  /\ \A g \in Groups : alerts'[g].streak = missed'[g]
         /\ \A q \in Runs : exec'[q].end = "alert" => exec'[q].outcome # "ok"
         /\ \A g \in Groups :
               \/ Quiet(g)' /\ ~Alerting(r, g)' /\ ~Recovering(r, g)'
               \/ Alerting(r, g)' /\ AlertHalf(r, g)'
               \/ Recovering(r, g)' /\ RecoveryHalf(g)'
<1>1. /\ exec[r].outcome = "ok" /\ exec'[r].outcome = "ok"
      /\ alerts \in [Groups -> [streak : 0 .. Threshold, alerted : BOOLEAN]]
      /\ missed \in [Groups -> 0 .. Threshold] /\ told \in [Groups -> {"failed", "recovered", "twice"}]
      /\ Threshold \in Nat \ {0}
  BY ThresholdPositive DEF NotifySuccess, TypeOK
<1>2. \A g \in Groups : ~Alerting(r, g) /\ ~Alerting(r, g)'
  BY <1>1 DEF Alerting
<1>3. CASE Tells(r, "notify", IF alerts["connection"].alerted THEN "recovered" ELSE "cleared")
           /\ Clear("connection")
  <2>1. /\ exec[r].end = "notify"
        /\ exec'[r].end = IF alerts["connection"].alerted THEN "recovered" ELSE "cleared"
        /\ alerts' = [alerts EXCEPT !["connection"] = [streak |-> 0, alerted |-> FALSE]]
        /\ missed' = [missed EXCEPT !["connection"] = 0]
        /\ told' = told
    BY <1>3 DEF Tells, Clear, TypeOK
  <2>2. Quiet("connection") /\ Quiet("scrape")
    BY <1>2, <2>1 DEF Recovering, Groups
  <2>3. /\ alerts'["connection"] = [streak |-> 0, alerted |-> FALSE]
        /\ missed'["connection"] = 0
        /\ alerts'["scrape"] = alerts["scrape"] /\ missed'["scrape"] = missed["scrape"]
    BY <1>1, <2>1 DEF Groups
  <2>4. Quiet("scrape")' /\ ~Recovering(r, "scrape")'
    BY <2>1, <2>2, <2>3 DEF Quiet, Recovering
  <2>5. \/ Quiet("connection")' /\ ~Recovering(r, "connection")'
        \/ Recovering(r, "connection")' /\ RecoveryHalf("connection")'
    BY <1>1, <2>1, <2>2, <2>3 DEF Quiet, Recovering, RecoveryHalf
  <2>6. \A g \in Groups : alerts'[g].streak = missed'[g]
    BY <2>3 DEF Groups
  <2> QED BY <1>1, <1>2, <2>1, <2>4, <2>5, <2>6 DEF Groups
<1>4. CASE Tells(r, "recovered", "cleared") /\ Tell("connection", "recovered")
  <2>1. /\ exec[r].end = "recovered" /\ exec'[r].end = "cleared"
        /\ told' = [told EXCEPT !["connection"] = IF @ = "recovered" THEN "twice" ELSE "recovered"]
        /\ UNCHANGED <<alerts, missed>>
    BY <1>4 DEF Tells, Tell, TypeOK
  <2>2. RecoveryHalf("connection") /\ Quiet("scrape")
    BY <1>1, <1>2, <2>1 DEF Recovering, Groups
  <2>3. told'["connection"] = "recovered" /\ told'["scrape"] = told["scrape"]
    BY <1>1, <2>1, <2>2 DEF RecoveryHalf, Groups
  <2>4. Quiet("connection")' /\ Quiet("scrape")'
    BY <1>1, <2>1, <2>2, <2>3 DEF Quiet, RecoveryHalf
  <2>5. \A g \in Groups : ~Recovering(r, g)'
    BY <2>1 DEF Recovering
  <2> QED BY <1>1, <1>2, <2>1, <2>4, <2>5 DEF Groups
<1>5. CASE Tells(r, "cleared", IF alerts["scrape"].alerted THEN "enqueue" ELSE "over")
           /\ Clear("scrape")
  <2>1. /\ exec[r].end = "cleared"
        /\ exec'[r].end = IF alerts["scrape"].alerted THEN "enqueue" ELSE "over"
        /\ alerts' = [alerts EXCEPT !["scrape"] = [streak |-> 0, alerted |-> FALSE]]
        /\ missed' = [missed EXCEPT !["scrape"] = 0]
        /\ told' = told
    BY <1>5 DEF Tells, Clear, TypeOK
  <2>2. Quiet("connection") /\ Quiet("scrape")
    BY <1>2, <2>1 DEF Recovering, Groups
  <2>3. /\ alerts'["scrape"] = [streak |-> 0, alerted |-> FALSE]
        /\ missed'["scrape"] = 0
        /\ alerts'["connection"] = alerts["connection"] /\ missed'["connection"] = missed["connection"]
    BY <1>1, <2>1 DEF Groups
  <2>4. Quiet("connection")' /\ ~Recovering(r, "connection")'
    BY <2>1, <2>2, <2>3 DEF Quiet, Recovering
  <2>5. \/ Quiet("scrape")' /\ ~Recovering(r, "scrape")'
        \/ Recovering(r, "scrape")' /\ RecoveryHalf("scrape")'
    BY <1>1, <2>1, <2>2, <2>3 DEF Quiet, Recovering, RecoveryHalf
  <2>6. \A g \in Groups : alerts'[g].streak = missed'[g]
    BY <2>3 DEF Groups
  <2> QED BY <1>1, <1>2, <2>1, <2>4, <2>5, <2>6 DEF Groups
<1> QED BY <1>3, <1>4, <1>5 DEF NotifySuccess

(* Who tells is alone, and takes the books from quiet to quiet.            *)
LEMMA TellInv ==
  ASSUME IInv, NEW r \in Runs, TellStep(r)
  PROVE  IInv'
<1>1. TypeOK /\ TypeOK'
  BY TellTyped DEF IInv
<1>2. exec[r] \in ExecStates /\ ExecOK(exec[r]) /\ Group(r) \in Groups
  BY <1>1 DEF TypeOK, Group, GroupOf, Groups
<1> PICK h \in Groups : h = Group(r)
  BY <1>2
<1>3. PICK end \in Tellings \cup {"over"} : exec' = [exec EXCEPT ![r].end = end]
  BY DEF TellStep, NotifyFailure, AlertOnce, EnqueueAlert, NotifySuccess, EnqueueRecovery,
         NotifyFails,
         Tells, Telling, Tellings
<1>4. /\ exec[r].end \in Tellings /\ exec[r].kind = "one_shot"
      /\ exec'[r].end = end /\ \A q \in Runs : q # r => exec'[q] = exec[q]
      /\ exec'[r].kind = exec[r].kind /\ exec'[r].outcome = exec[r].outcome
      /\ exec'[r].unmarked = exec[r].unmarked
      /\ UNCHANGED <<run, boot>>
  <2>1. exec[r].end \in Tellings /\ UNCHANGED <<run, boot>>
    BY DEF TellStep, NotifyFailure, AlertOnce, EnqueueAlert, NotifySuccess, EnqueueRecovery,
           NotifyFails,
           Tells, Telling, Tellings, Rest
  <2>2. exec[r].kind = "one_shot"
    BY <1>2, <2>1 DEF ExecOK
  <2> QED BY <1>1, <1>2, <1>3, <2>1, <2>2 DEF TypeOK, ExecStates
<1>5. VerdictInv'
  BY <1>4 DEF IInv, VerdictInv, Begun, Tellings
<1>6. torn' = torn \/ torn' = TRUE
  BY DEF TellStep, NotifyFailure, AlertOnce, EnqueueAlert, NotifySuccess, EnqueueRecovery,
         NotifyFails
<1>7. Alone'
  BY <1>4, <1>6 DEF IInv, Alone, Judged, Tellings
<1>8. ASSUME ~torn'
      PROVE  /\ \A g \in Groups : alerts'[g].streak = missed'[g]
             /\ \A q \in Runs : exec'[q].end = "alert" => exec'[q].outcome # "ok"
             /\ \A g \in Groups :
                   \/ Quiet(g)' /\ ~Alerting(r, g)' /\ ~Recovering(r, g)'
                   \/ Alerting(r, g)' /\ AlertHalf(r, g)'
                   \/ Recovering(r, g)' /\ RecoveryHalf(g)'
  <2>1. ~torn
    BY <1>1, <1>6, <1>8 DEF TypeOK
  <2>2. ASSUME NEW q \in Runs, q # r
        PROVE  exec[q].end \notin Tellings
    BY <1>1, <1>4, <2>1, <2>2 DEF IInv, Alone, Judged, TypeOK, ExecOK, Tellings
  <2>3. \A g \in Groups :
          /\ alerts[g].streak = missed[g]
          /\ \/ Quiet(g) /\ ~Alerting(r, g) /\ ~Recovering(r, g)
             \/ Alerting(r, g) /\ AlertHalf(r, g)
             \/ Recovering(r, g) /\ RecoveryHalf(g)
    BY <2>1, <2>2 DEF IInv, AlertInv, Alerting, Recovering, Tellings
  <2>4. Group(r)' = h
    BY <1>4 DEF Group
  <2>5. /\ alerts \in [Groups -> [streak : 0 .. Threshold, alerted : BOOLEAN]]
        /\ missed \in [Groups -> 0 .. Threshold] /\ told \in [Groups -> {"failed", "recovered", "twice"}]
        /\ Threshold \in Nat \ {0}
    BY <1>1, ThresholdPositive DEF TypeOK
  <2>6. \A q \in Runs : exec[q].end = "alert" => exec[q].outcome # "ok"
    BY <2>1 DEF IInv, AlertInv
  <2>7. CASE NotifyFailure(r)
    <3>1. /\ exec[r].outcome # "ok" /\ exec[r].end = "notify" /\ told' = told
          /\ alerts' = [alerts EXCEPT ![h].streak = IF @ = Threshold THEN @ ELSE @ + 1]
          /\ missed' = [missed EXCEPT ![h] = IF @ = Threshold THEN @ ELSE @ + 1]
          /\ exec'[r].end = IF IsDue(alerts'[h]) THEN "alert" ELSE "over"
      BY <1>1, <2>7 DEF NotifyFailure, CountFailure, Tells, TypeOK
    <3>2. \A g \in Groups : Quiet(g)
      BY <2>3, <3>1 DEF Alerting, Recovering
    <3>3. /\ \A g \in Groups : g # h => alerts'[g] = alerts[g] /\ missed'[g] = missed[g]
          /\ alerts'[h].alerted = alerts[h].alerted
          /\ alerts'[h].streak = IF alerts[h].streak = Threshold THEN Threshold ELSE alerts[h].streak + 1
          /\ missed'[h] = IF missed[h] = Threshold THEN Threshold ELSE missed[h] + 1
      <4> QED BY <1>2, <2>5, <3>1
    <3>4. \A g \in Groups :
            /\ g # h => Quiet(g)' /\ alerts'[g].streak = missed'[g]
            /\ g # h => ~Alerting(r, g)'
            /\ ~Recovering(r, g)'
      BY <1>4, <2>3, <2>4, <3>1, <3>2, <3>3 DEF Quiet, Alerting, Recovering
    <3>5. alerts'[h].streak = missed'[h]
      BY <1>2, <2>3, <3>3
    <3>6. Quiet(h) /\ missed[h] \in 0 .. Threshold /\ alerts[h].alerted \in BOOLEAN
      BY <1>2, <2>5, <3>2
    <3>7. \A q \in Runs : exec'[q].end = "alert" => exec'[q].outcome # "ok"
      BY <1>4, <2>6, <3>1
    <3>8. CASE IsDue(alerts'[h])
      <4>1. missed'[h] >= Threshold /\ ~alerts'[h].alerted /\ told'[h] = "recovered"
        BY <3>1, <3>3, <3>5, <3>6, <3>8 DEF IsDue, Quiet
      <4>2. Alerting(r, h)' /\ AlertHalf(r, h)'
        BY <1>4, <2>4, <3>1, <3>8, <4>1 DEF Alerting, AlertHalf
      <4> QED BY <3>4, <3>5, <3>7, <4>2
    <3>9. CASE ~IsDue(alerts'[h])
      <4>1. Quiet(h)'
        BY <2>5, <3>1, <3>3, <3>5, <3>6, <3>9 DEF IsDue, Quiet
      <4>2. ~Alerting(r, h)'
        BY <3>1, <3>9 DEF Alerting
      <4> QED BY <3>4, <3>5, <3>7, <4>1, <4>2
    <3> QED BY <3>8, <3>9
  <2>8. CASE AlertOnce(r)
    <3>1. /\ exec[r].end = "alert" /\ exec'[r].end = "enqueue" /\ exec[r].outcome # "ok"
          /\ alerts' = [alerts EXCEPT ![h].alerted = TRUE]
          /\ UNCHANGED <<told, missed>>
      BY <1>1, <2>6, <2>8 DEF AlertOnce, MarkAlerted, Tells, TypeOK
    <3>2. /\ \A g \in Groups : g # h => alerts'[g] = alerts[g]
          /\ alerts'[h].alerted = TRUE /\ alerts'[h].streak = alerts[h].streak
      <4> QED BY <1>2, <2>5, <3>1
    <3>3. Alerting(r, h)' /\ AlertHalf(r, h)' /\ alerts'[h].streak = missed'[h]
      BY <1>2, <1>4, <2>3, <2>4, <3>1, <3>2 DEF Alerting, AlertHalf, Recovering
    <3>4. \A g \in Groups :
             g # h => Quiet(g)' /\ ~Alerting(r, g)' /\ ~Recovering(r, g)' /\ alerts'[g].streak = missed'[g]
      BY <1>4, <2>3, <2>4, <3>1, <3>2 DEF Alerting, Recovering, Quiet
    <3> QED BY <1>4, <2>6, <3>1, <3>3, <3>4
  <2>9. CASE EnqueueAlert(r)
    <3>1. /\ exec[r].end = "enqueue" /\ exec[r].outcome # "ok" /\ exec'[r].end = "over"
          /\ told' = [told EXCEPT ![h] = IF @ = "failed" THEN "twice" ELSE "failed"]
          /\ UNCHANGED <<alerts, missed>>
      BY <1>1, <2>9 DEF EnqueueAlert, Tell, Tells, TypeOK
    <3>2. AlertHalf(r, h)
      BY <1>2, <2>3, <3>1 DEF Alerting, Recovering
    <3>3. /\ \A g \in Groups : g # h => told'[g] = told[g]
          /\ told[h] = "recovered" => told'[h] = "failed"
      <4> QED BY <1>2, <2>5, <3>1
    <3>4. \A g \in Groups : g # h => Quiet(g)
      BY <2>3, <3>1 DEF Alerting, Recovering
    <3>5. Quiet(h)'
      BY <3>1, <3>2, <3>3 DEF AlertHalf, Quiet
    <3>6. \A g \in Groups : Quiet(g)' /\ ~Alerting(r, g)' /\ ~Recovering(r, g)'
      BY <3>1, <3>3, <3>4, <3>5 DEF Alerting, Recovering, Quiet
    <3> QED BY <1>4, <2>3, <2>6, <3>1, <3>6
  <2>10. CASE EnqueueRecovery(r)
    <3>1. /\ exec[r].end = "enqueue" /\ exec[r].outcome = "ok" /\ exec'[r].end = "over"
          /\ told' = [told EXCEPT !["scrape"] = IF @ = "recovered" THEN "twice" ELSE "recovered"]
          /\ UNCHANGED <<alerts, missed>>
      BY <1>1, <2>10 DEF EnqueueRecovery, Tell, Tells, TypeOK
    <3>2. RecoveryHalf("scrape") /\ Quiet("connection")
      BY <2>3, <3>1 DEF Alerting, Recovering, Groups
    <3>3. told'["scrape"] = "recovered" /\ told'["connection"] = told["connection"]
      BY <2>5, <3>1, <3>2 DEF RecoveryHalf, Groups
    <3>4. \A g \in Groups : Quiet(g)' /\ ~Alerting(r, g)' /\ ~Recovering(r, g)'
      BY <2>5, <3>1, <3>2, <3>3 DEF Alerting, Recovering, Quiet, RecoveryHalf, Groups
    <3> QED BY <1>4, <2>3, <2>6, <3>1, <3>4
  <2>11. CASE NotifySuccess(r)
    BY <1>1, <1>4, <2>3, <2>5, <2>6, <2>11, SuccessQuiet
  <2>12. CASE NotifyFails(r)
    BY <1>8, <2>12 DEF NotifyFails
  <2> QED BY <2>7, <2>8, <2>9, <2>10, <2>11, <2>12 DEF TellStep
<1>9. AlertInv'
  <2> SUFFICES ASSUME ~torn' PROVE AlertInv'
    BY DEF AlertInv
  <2>1. ASSUME NEW q \in Runs, q # r
        PROVE  exec'[q].end \notin Tellings
    BY <1>1, <1>4, <1>6, <2>1 DEF IInv, Alone, Judged, TypeOK, ExecOK, Tellings
  <2>2. \A q \in Runs, g \in Groups : q # r => ~Alerting(q, g)' /\ ~Recovering(q, g)'
    BY <2>1 DEF Alerting, Recovering, Tellings
  <2> QED BY <1>8, <2>2 DEF AlertInv
<1> QED BY <1>1, <1>5, <1>7, <1>9 DEF IInv

LEMMA ProcessInv ==
  ASSUME IInv, ProcessStep
  PROVE  IInv'
<1>1. TypeOK /\ TypeOK'
  BY ProcessTyped DEF IInv
<1>2. CASE Crash
  <2>1. \A r \in Runs : IF Begun(r) THEN exec'[r].end = "over" /\ exec'[r].kind = exec[r].kind
                        ELSE exec'[r] = Idle
    <3> SUFFICES ASSUME NEW r \in Runs, Begun(r)
                 PROVE  exec'[r].end = "over" /\ exec'[r].kind = exec[r].kind
      BY <1>2 DEF Crash
    <3>1. exec'[r] = [exec[r] EXCEPT !.at = "over", !.open = 0, !.end = "over", !.cut = TRUE]
      BY <1>2 DEF Crash
    <3>2. exec[r] \in ExecStates
      BY <1>1 DEF TypeOK
    <3> QED BY <3>1, <3>2 DEF ExecStates
  <2>2. /\ boot' = "down" /\ run' = run /\ UNCHANGED book
        /\ torn' = (torn \/ \E r \in Runs : Telling(r))
    BY <1>2 DEF Crash
  <2>3. VerdictInv'
    <3> SUFFICES ASSUME NEW r \in Runs
                 PROVE  /\ ~Begun(r)' => run[r] = NoRun
                        /\ exec'[r].end \in {"open", "settled", "mark"} => run[r].status = "none"
                        /\ exec'[r].end \in {"over", "open"}
      BY <2>2 DEF VerdictInv, Tellings
    <3>1. ~Begun(r) => run[r] = NoRun /\ run[r].status = "none"
      BY DEF IInv, VerdictInv, NoRun
    <3>2. CASE Begun(r)
      BY <2>1, <3>2 DEF Begun
    <3>3. CASE ~Begun(r)
      BY <2>1, <3>1, <3>3 DEF Idle
    <3> QED BY <3>2, <3>3
  <2>4. Alone'
    BY <2>1, TwoKinds DEF Alone, Judged, Idle
  <2>5. AlertInv'
    <3>1. ASSUME ~torn', NEW r \in Runs
          PROVE  exec[r].end \notin Tellings
      BY <2>2, <3>1 DEF Telling
    <3>2. ASSUME NEW r \in Runs
          PROVE  exec'[r].end \notin Tellings
      BY <2>1 DEF Idle, Tellings
    <3>3. CASE torn'
      BY <3>3 DEF AlertInv
    <3>4. CASE ~torn'
      <4>1. torn' = torn
        BY <1>1, <2>2, <3>4 DEF TypeOK
      <4> QED BY <1>1, <2>2, <3>1, <3>2, <3>4, <4>1, AlertKept DEF IInv, TypeOK, Tellings
    <3> QED BY <3>3, <3>4
  <2> QED BY <1>1, <2>3, <2>4, <2>5 DEF IInv
<1>3. CASE Restart
  <2>1. UNCHANGED <<run, exec, torn, book>> /\ boot' = "up"
    BY <1>3 DEF Restart
  <2>2. VerdictInv' /\ Alone'
    BY <1>3, <2>1 DEF IInv, VerdictInv, Alone, Begun, Judged, Restart
  <2>3. AlertInv'
    BY <1>1, <2>1, AlertKept DEF IInv, TypeOK
  <2> QED BY <1>1, <2>2, <2>3 DEF IInv
<1>4. CASE MarkOrphaned
  <2>1. /\ UNCHANGED <<exec, torn, book>>
        /\ \A r \in Runs : run'[r] = IF run[r].status = "running" THEN Orphaned(r) ELSE run[r]
    BY <1>4 DEF MarkOrphaned
  <2>2. VerdictInv'
    <3>1. \A r \in Runs :
            \/ run[r].status # "running" /\ run'[r] = run[r]
            \/ /\ run[r].status = "running"
               /\ run'[r].status = "failed" /\ run'[r].type = "orphaned"
      <4> SUFFICES ASSUME NEW r \in Runs, run[r].status = "running"
                   PROVE  run'[r].status = "failed" /\ run'[r].type = "orphaned"
        BY <2>1
      <4>1. run'[r] = [status |-> "failed", type |-> "orphaned", reason |-> run[r].reason]
        BY <2>1 DEF Orphaned
      <4> QED BY <4>1
    <3>2. NoRun.status = "none"
      BY DEF NoRun
    <3> QED BY <2>1, <3>1, <3>2 DEF IInv, VerdictInv, Begun
  <2>3. Alone' /\ AlertInv'
    BY <1>1, <2>1, AlertKept DEF IInv, Alone, Judged, TypeOK
  <2> QED BY <1>1, <2>2, <2>3 DEF IInv
<1>5. CASE OrphansStay
  <2>1. /\ UNCHANGED <<run, torn, book>>
        /\ \A r \in Runs : /\ exec'[r].kind = exec[r].kind /\ exec'[r].end = exec[r].end
                           /\ exec'[r].outcome = exec[r].outcome
                           /\ exec'[r].unmarked = (exec[r].unmarked \/ Judged(r))
    <3>1. UNCHANGED <<run, torn, book>>
      BY <1>5 DEF OrphansStay
    <3>2. ASSUME NEW r \in Runs
          PROVE  /\ exec'[r].kind = exec[r].kind /\ exec'[r].end = exec[r].end
                 /\ exec'[r].outcome = exec[r].outcome
                 /\ exec'[r].unmarked = (exec[r].unmarked \/ Judged(r))
      <4>1. exec'[r] = [exec[r] EXCEPT !.unmarked = exec[r].unmarked \/ Judged(r)]
        BY <1>5 DEF OrphansStay
      <4>2. exec[r] \in ExecStates
        BY <1>1 DEF TypeOK
      <4> QED BY <4>1, <4>2 DEF ExecStates
    <3> QED BY <3>1, <3>2
  <2>5. boot = "up" /\ boot' = "ready"
    BY <1>5 DEF OrphansStay
  <2>2. VerdictInv'
    <3>1. VerdictInv
      BY DEF IInv
    <3>2. \A r \in Runs : exec'[r].kind = exec[r].kind /\ exec'[r].end = exec[r].end /\ run'[r] = run[r]
      BY <2>1
    <3>3. \A r \in Runs : (exec[r].unmarked \/ exec[r].end = "over") => exec'[r].unmarked
      BY <2>1 DEF Judged
    <3> QED BY <2>5, <3>1, <3>2, <3>3 DEF VerdictInv, Begun, Tellings
  <2>3. Alone'
    BY <2>1 DEF IInv, Alone, Judged
  <2>4. AlertInv'
    BY <1>1, <2>1, AlertKept DEF IInv, TypeOK
  <2> QED BY <1>1, <2>2, <2>3, <2>4 DEF IInv
<1> QED BY <1>2, <1>3, <1>4, <1>5 DEF ProcessStep

LEMMA NextInv == IInv /\ [Next]_vars => IInv'
<1> SUFFICES ASSUME IInv, [Next]_vars PROVE IInv'
  OBVIOUS
<1>1. CASE \E r \in Runs : RunnerStep(r)
  BY <1>1, RunnerInv
<1>2. CASE \E r \in Runs : OtherStep(r)
  BY <1>2, StartInv, MarkInv, TellInv, PruneInv DEF OtherStep
<1>3. CASE ProcessStep
  BY <1>3, ProcessInv
<1>4. CASE UNCHANGED vars
  BY <1>4
  DEF vars, book, IInv, TypeOK, VerdictInv, Alone, AlertInv, Begun, Judged, Quiet, Alerting,
      AlertHalf,
      Recovering, RecoveryHalf, Group
<1> QED BY <1>1, <1>2, <1>3, <1>4 DEF Next, RunnerStep, OtherStep, TellStep, ProcessStep

-----------------------------------------------------------------------------
(* What the steps of a run that nothing cut off tell, by how far it came.  *)
Whole(x, trail, row) ==
    x.kind # None /\ row.status # "none" /\ ~x.cut /\ NothingLost(trail)

Setup == {"credentials", "launch", "load_script", "login", "auth_wait", "script", "poll"}
Hidden(x, trail) == x.cause = "load_script" /\ FailedToClose(trail)

(* The stage under way is the last step.  Only a script that did not load  *)
(* leaves a failed stage behind that the runner goes on after.             *)
RunnerOK(x, trail) ==
    /\ x.at # "over" => x.end = "open" /\ x.reason = None
    /\ x.open # 0 => x.open = Len(trail) /\ trail[x.open] = [stage |-> x.at, status |-> "started"]
    /\ x.at \in Setup => x.failedStage = None
    /\ x.at = "close" =>
        \/ /\ x.failedStage = "load_script" /\ x.cause = "load_script" /\ x.thrown = "unknown"
           /\ Shows(trail, "load_script")
        \/ x.failedStage = None /\ x.cause = StageOf(x.thrown)

(* The verdict will note the stage, or it is the last one that failed.     *)
SettledOK(x, trail) ==
    x.end = "settled" /\ x.cause # None /\ ~Hidden(x, trail) =>
        /\ x.outcome # "ok"
        /\ \/ StageOf(x.outcome) = x.cause /\ (x.failedStage = x.cause => Shows(trail, x.cause))
           \/ /\ StageOf(x.outcome) = None /\ Shows(trail, x.cause)
              /\ x.failedStage = x.cause \/ (x.failedStage = None /\ x.reason # None)

JudgedOK(x, trail) ==
    x.end \notin {"open", "settled"} /\ x.outcome # "ok" /\ x.cause # None /\ ~Hidden(x, trail) =>
        Shows(trail, x.cause) /\ x.type \in {x.reason, TypeOf(x.cause, x.outcome)}

RowOK(x, row) ==
    (/\ x.end \in Tellings \cup {"over"} /\ ~x.unmarked
     /\ row.status = "failed" /\ row.type # "orphaned") => x.outcome # "ok" /\ row.type = x.type

Traced(x, trail, row) ==
    RunnerOK(x, trail) /\ SettledOK(x, trail) /\ JudgedOK(x, trail) /\ RowOK(x, row)

TracedAt(r) == Whole(exec[r], steps[r], run[r]) => Traced(exec[r], steps[r], run[r])

TrailInv == \A r \in Runs : TracedAt(r)

(* A step at the end of a trail: a failed one is the one it shows.         *)
LEMMA StepAdded ==
  ASSUME NEW s \in Seq(StepRows), NEW step \in StepRows
  PROVE  LET t == Append(s, step)
         IN  /\ NothingLost(t) => NothingLost(s) /\ step.status # "lost"
             /\ step.status = "failed" => Shows(t, step.stage)
             /\ step.status # "failed" => \A c : Shows(s, c) => Shows(t, c)
             /\ FailedToClose(s) => FailedToClose(t)
             /\ Len(t) = Len(s) + 1 /\ t[Len(s) + 1] = step
<1> DEFINE t == Append(s, step)
<1>1. /\ Len(s) \in Nat /\ DOMAIN s = 1 .. Len(s)
      /\ DOMAIN t = 1 .. (Len(s) + 1) /\ Len(t) = Len(s) + 1
      /\ t[Len(s) + 1] = step /\ \A i \in DOMAIN s : t[i] = s[i]
  OBVIOUS
<1> HIDE DEF t
<1>2. NothingLost(t) => NothingLost(s) /\ step.status # "lost"
  BY <1>1 DEF NothingLost
<1>3. step.status = "failed" => Shows(t, step.stage)
  BY <1>1 DEF Shows, FailingStep
<1>4. step.status # "failed" => \A c : Shows(s, c) => Shows(t, c)
  BY <1>1 DEF Shows, FailingStep
<1>5. FailedToClose(s) => FailedToClose(t)
  BY <1>1 DEF FailedToClose
<1> QED BY <1>1, <1>2, <1>3, <1>4, <1>5 DEF t

(* The last step of a trail is closed.                                     *)
Closed(s, stage, status) == [s EXCEPT ![Len(s)] = [stage |-> stage, status |-> status]]

LEMMA StepClosed ==
  ASSUME NEW s \in Seq(StepRows), Len(s) # 0, NEW stage \in Stages, NEW status \in {"success", "failed"},
         s[Len(s)] = [stage |-> stage, status |-> "started"],
         NEW t, t = Closed(s, stage, status)
  PROVE  /\ NothingLost(t) => NothingLost(s)
         /\ status = "failed" => Shows(t, stage)
         /\ status # "failed" => \A c : Shows(s, c) => Shows(t, c)
         /\ FailedToClose(s) => FailedToClose(t)
         /\ status = "failed" /\ stage = "close" => FailedToClose(t)
<1>1. /\ Len(s) \in Nat /\ DOMAIN s = 1 .. Len(s) /\ DOMAIN t = 1 .. Len(s)
      /\ Len(s) \in DOMAIN s
      /\ t[Len(s)] = [stage |-> stage, status |-> status]
      /\ \A i \in DOMAIN s : i # Len(s) => t[i] = s[i]
  BY DEF Closed
<1>2. NothingLost(t) => NothingLost(s)
  BY <1>1 DEF NothingLost
<1>3. status = "failed" => Shows(t, stage)
  BY <1>1 DEF Shows, FailingStep
<1>4. status # "failed" => \A c : Shows(s, c) => Shows(t, c)
  BY <1>1 DEF Shows, FailingStep
<1>5. FailedToClose(s) => FailedToClose(t)
  BY <1>1 DEF FailedToClose
<1>6. status = "failed" /\ stage = "close" => FailedToClose(t)
  BY <1>1 DEF FailedToClose
<1> QED BY <1>2, <1>3, <1>4, <1>5, <1>6

(* What a recorded step does to the trail when its write is not lost.      *)
LEMMA NotedTrail ==
  ASSUME TypeOK, NEW r \in Runs, NEW stage \in Stages, NEW status \in {"success", "failed", "started"},
         Noted(r, stage, status), run[r].status # "none", NothingLost(steps'[r])
  PROVE  steps'[r] = Append(steps[r], [stage |-> stage, status |-> status])
<1>1. steps[r] \in Seq(StepRows)
  BY DEF TypeOK
<1>2. ASSUME NEW s \in {status, "lost"},
             steps' = [steps EXCEPT ![r] = Append(steps[r], [stage |-> stage, status |-> s])]
      PROVE  s # "lost" /\ steps'[r] = Append(steps[r], [stage |-> stage, status |-> s])
  <2>1. steps'[r] = Append(steps[r], [stage |-> stage, status |-> s])
    BY <1>2 DEF TypeOK
  <2>2. [stage |-> stage, status |-> s] \in StepRows
    BY <1>2 DEF StepRows
  <2> QED BY <1>1, <2>1, <2>2, StepAdded
<1> QED BY <1>2 DEF Noted

LEMMA FinishedTrail ==
  ASSUME TypeOK, NEW r \in Runs, NEW status \in {"success", "failed"},
         exec[r].open # 0, RunnerOK(exec[r], steps[r]), Finished(r, status), NothingLost(steps'[r])
  PROVE  /\ Len(steps[r]) # 0 /\ steps[r] \in Seq(StepRows)
         /\ steps[r][Len(steps[r])] = [stage |-> exec[r].at, status |-> "started"]
         /\ steps'[r] = Closed(steps[r], exec[r].at, status)
<1> DEFINE n == Len(steps[r])
<1>1. steps[r] \in Seq(StepRows) /\ exec[r].open \in Nat
  BY DEF TypeOK, ExecStates
<1>2. /\ exec[r].open = n /\ n \in DOMAIN steps[r] /\ n # 0
      /\ steps[r][n] = [stage |-> exec[r].at, status |-> "started"]
  BY <1>1 DEF RunnerOK
<1>3. ASSUME NEW s \in {status, "lost"}, steps' = [steps EXCEPT ![r][n].status = s]
      PROVE  steps'[r] = [steps[r] EXCEPT ![n] = [stage |-> exec[r].at, status |-> s]]
  <2>1. steps'[r] = [steps[r] EXCEPT ![n].status = s]
    BY <1>3 DEF TypeOK
  <2>2. [steps[r][n] EXCEPT !.status = s] = [stage |-> exec[r].at, status |-> s]
    BY <1>2
  <2> QED BY <1>1, <1>2, <2>1, <2>2
<1>4. steps' # [steps EXCEPT ![r][n].status = "lost"]
  <2> SUFFICES ASSUME steps' = [steps EXCEPT ![r][n].status = "lost"] PROVE FALSE
    OBVIOUS
  <2>1. steps'[r] = [steps[r] EXCEPT ![n] = [stage |-> exec[r].at, status |-> "lost"]]
    BY <1>3
  <2>2. n \in DOMAIN steps'[r] /\ steps'[r][n].status = "lost"
    BY <1>1, <1>2, <2>1
  <2> QED BY <2>2 DEF NothingLost
<1>5. steps' = [steps EXCEPT ![r][n].status = status]
  BY <1>2, <1>4 DEF Finished
<1> QED BY <1>1, <1>2, <1>3, <1>5 DEF Closed

(* An edit of a run that is still going on tells nothing of a verdict.     *)
LEMMA StillOpen ==
  ASSUME NEW x, x.end = "open", NEW trail, NEW row, RunnerOK(x, trail)
  PROVE  Traced(x, trail, row)
BY DEF Traced, SettledOK, JudgedOK, RowOK, Tellings

(* A runner that settles: what its promise says goes to the verdict.       *)
SettlesAs(x, y, stage, outcome, reason, cause) ==
    /\ y.at = "over" /\ y.open = 0 /\ y.failedStage = stage
    /\ y.end = IF outcome = "ok" /\ x.kind = "persistent" THEN "mark" ELSE "settled"
    /\ y.outcome = outcome /\ y.reason = reason /\ y.cause = cause

Foretold(x, trail, stage, outcome, reason, cause) ==
    cause # None /\ ~(cause = "load_script" /\ FailedToClose(trail)) =>
        \/ StageOf(outcome) = cause /\ (stage = cause => Shows(trail, cause))
        \/ /\ StageOf(outcome) = None /\ Shows(trail, cause)
           /\ stage = cause \/ (stage = None /\ reason # None)
           /\ outcome = "ok" => x.kind = "persistent"

LEMMA SettledTrail ==
  ASSUME NEW x, NEW y, NEW trail, NEW row,
         NEW stage, NEW outcome, NEW reason, NEW cause,
         SettlesAs(x, y, stage, outcome, reason, cause),
         Foretold(x, trail, stage, outcome, reason, cause)
  PROVE  Traced(y, trail, row)
<1> USE DEF SettlesAs
<1>1. outcome = "ok" => StageOf(outcome) = None
  BY DEF StageOf
<1>2. RunnerOK(y, trail)
  BY DEF RunnerOK, Setup
<1>3. SettledOK(y, trail)
  BY <1>1 DEF SettledOK, Hidden, Foretold
<1>4. JudgedOK(y, trail) /\ RowOK(y, row)
  BY DEF JudgedOK, RowOK, Tellings
<1> QED BY <1>2, <1>3, <1>4 DEF Traced

(* Each step of a runner, and the verdict's own, keeps the trail readable. *)
LEMMA RunnerTraced ==
  ASSUME TypeOK, TrailInv, NEW r \in Runs, RunnerStep(r)
  PROVE  TrailInv'
<1>1. /\ UNCHANGED run /\ exec[r] \in ExecStates /\ ExecOK(exec[r]) /\ steps[r] \in Seq(StepRows)
      /\ exec' = [exec EXCEPT ![r] = exec'[r]] /\ exec'[r].kind = exec[r].kind
  BY RunnerTurns DEF TypeOK, Turns
<1>2. \A q \in Runs : q # r => steps'[q] = steps[q]
  BY DEF RunnerStep, OpenStage, StageSucceeds, StageFails, AuthTimesOut, ScriptEnds, BrowserClosed,
         FirstPoll, MonitorGivesUp, MonitorEnds, CutSession, RunTimeout, Ingest, Judge,
         Noted, Finished, TypeOK
<1>3. \A q \in Runs : q # r => TracedAt(q)'
  <2>1. \A q \in Runs : q # r => exec'[q] = exec[q] /\ run'[q] = run[q]
    BY <1>1 DEF TypeOK
  <2> QED BY <1>2, <2>1 DEF TrailInv, TracedAt
<1>4. SUFFICES ASSUME Whole(exec'[r], steps'[r], run[r])
               PROVE  Traced(exec'[r], steps'[r], run[r])
  BY <1>1, <1>3 DEF TrailInv, TracedAt
<1>5. PICK x \in ExecStates, s \in Seq(StepRows), row \in {run[r]} : x = exec[r] /\ s = steps[r]
  BY <1>1
<1>6. PICK t : t = steps'[r]
  OBVIOUS
<1> USE <1>5, <1>6
<1>7. /\ x.kind # None /\ row.status # "none" /\ NothingLost(t) /\ ~exec'[r].cut
      /\ ExecOK(x)
  BY <1>1, <1>4 DEF Whole
<1>8. TracedAt(r)
  BY DEF TrailInv
<1>9. ASSUME ~x.cut, NothingLost(s)
      PROVE  /\ RunnerOK(x, s) /\ SettledOK(x, s) /\ JudgedOK(x, s) /\ RowOK(x, row)
  BY <1>7, <1>8, <1>9 DEF TracedAt, Whole, Traced
<1>n. ASSUME NEW stage \in Stages, NEW status \in {"success", "failed", "started"},
             Noted(r, stage, status)
      PROVE  /\ t = Append(s, [stage |-> stage, status |-> status])
             /\ [stage |-> stage, status |-> status] \in StepRows
  <2>1. run[r].status # "none" /\ NothingLost(steps'[r])
    BY <1>7
  <2>2. steps'[r] = Append(steps[r], [stage |-> stage, status |-> status])
    BY <1>n, <2>1, NotedTrail
  <2>3. [stage |-> stage, status |-> status] \in StepRows
    BY DEF StepRows
  <2> QED BY <2>2, <2>3
<1>10. CASE OpenStage(r)
  <2> DEFINE y == [x EXCEPT !.open = Len(s) + 1]
             step == [stage |-> x.at, status |-> "started"]
  <2>1. exec'[r] = y /\ x.at \in Stages /\ Noted(r, x.at, "started") /\ x.at # "over"
    BY <1>10 DEF OpenStage, Stages, TypeOK
  <2>2. t = Append(s, step) /\ step \in StepRows
    BY <1>n, <2>1
  <2>3. /\ NothingLost(s) /\ Len(t) = Len(s) + 1 /\ t[Len(s) + 1] = step
        /\ \A c : Shows(s, c) => Shows(t, c)
    BY <1>7, <2>2, StepAdded
  <2>4. /\ y.at = x.at /\ y.end = x.end /\ y.reason = x.reason /\ y.failedStage = x.failedStage
        /\ y.cause = x.cause /\ y.thrown = x.thrown /\ y.open = Len(s) + 1 /\ y.cut = x.cut
    BY DEF ExecStates
  <2>5. RunnerOK(x, s)
    BY <1>7, <1>9, <2>1, <2>3, <2>4
  <2> HIDE DEF y
  <2>6. RunnerOK(y, t) /\ y.end = "open"
    BY <2>1, <2>3, <2>4, <2>5 DEF RunnerOK
  <2> QED BY <2>1, <2>6, StillOpen
<1>11. ASSUME NEW status \in {"success", "failed"}, Finished(r, status), x.open # 0, ~x.cut,
              x.at \in Stages
       PROVE  /\ NothingLost(s) /\ RunnerOK(x, s)
              /\ status = "failed" => Shows(t, x.at)
              /\ status # "failed" => \A c : Shows(s, c) => Shows(t, c)
              /\ FailedToClose(s) => FailedToClose(t)
              /\ status = "failed" /\ x.at = "close" => FailedToClose(t)
  <2>1. \A i \in DOMAIN s : s[i].status = "lost" => i \in DOMAIN t /\ t[i].status = "lost"
    BY <1>11 DEF Finished, TypeOK
  <2>2. NothingLost(s)
    BY <1>7, <2>1 DEF NothingLost
  <2>3. RunnerOK(x, s)
    BY <1>9, <1>11, <2>2
  <2>4. /\ Len(s) # 0 /\ s[Len(s)] = [stage |-> x.at, status |-> "started"]
        /\ t = Closed(s, x.at, status)
    BY <1>7, <1>11, <2>3, FinishedTrail
  <2>5. /\ status = "failed" => Shows(t, x.at)
        /\ status # "failed" => \A c : Shows(s, c) => Shows(t, c)
        /\ FailedToClose(s) => FailedToClose(t)
        /\ status = "failed" /\ x.at = "close" => FailedToClose(t)
    <3> HIDE <1>5, <1>6
    <3>1. s \in Seq(StepRows) /\ x.at \in Stages
      BY <1>11
    <3> QED BY <2>4, <3>1, StepClosed
  <2> QED BY <2>2, <2>3, <2>5
<1>12. CASE StageSucceeds(r)
  <2> DEFINE next == AfterStage(x.kind)[x.at]
             y == [x EXCEPT !.open = 0, !.at = next]
  <2>1. exec'[r] = y /\ Finished(r, "success") /\ x.open # 0 /\ x.at # "close"
    <3>1. exec \in [Runs -> ExecStates]
      BY DEF TypeOK
    <3> QED BY <1>12, <3>1 DEF StageSucceeds
  <2>2. /\ next \in {"launch", "load_script", "script", "login", "auth_wait", "poll"}
        /\ x.at \in Stages /\ x.at \in Setup
    BY <1>7, <2>1 DEF ExecOK, AfterStage, Setup, Stages
  <2>3. /\ y.at = next /\ y.end = x.end /\ y.reason = x.reason /\ y.failedStage = x.failedStage
        /\ y.open = 0 /\ y.cut = x.cut
    BY DEF ExecStates
  <2>4. RunnerOK(x, s)
    BY <1>7, <1>11, <2>1, <2>2, <2>3
  <2> HIDE DEF y, next
  <2>5. RunnerOK(y, t) /\ y.end = "open"
    BY <2>2, <2>3, <2>4 DEF RunnerOK, Setup
  <2> QED BY <2>1, <2>5, StillOpen
<1>13. CASE StageFails(r)
  <2>1. PICK error \in Throws(x.kind, x.at) :
          LET stage == x.at
              cause == IF StageOf(error) = None THEN stage ELSE StageOf(error)
              failed == [x EXCEPT !.open = 0, !.at = "over",
                             !.failedStage = IF @ = None THEN stage ELSE @]
          IN  exec'[r] =
                  IF x.kind = "one_shot" /\ stage = "load_script"
                  THEN [failed EXCEPT !.at = "close", !.thrown = error, !.cause = cause]
                  ELSE Settle(failed, error, None, cause)
    BY <1>13 DEF StageFails, TypeOK
  <2>2. Finished(r, "failed") /\ x.open # 0 /\ x.at \in Setup \ {"script", "poll"} /\ x.at \in Stages
    BY <1>7, <1>13 DEF StageFails, ExecOK, AfterStage, Setup, Stages
  <2> DEFINE cause == IF StageOf(error) = None THEN x.at ELSE StageOf(error)
             fs == IF x.failedStage = None THEN x.at ELSE x.failedStage
  <2>3. ~x.cut
    BY <1>7, <2>1 DEF Settle, ExecStates
  <2>4. RunnerOK(x, s) /\ Shows(t, x.at)
    BY <1>11, <2>2, <2>3
  <2>5. x.end = "open" /\ x.reason = None /\ fs = x.at
    BY <2>2, <2>4 DEF RunnerOK, Setup
  <2>6. CASE x.kind = "one_shot" /\ x.at = "load_script"
    <3> DEFINE y == [x EXCEPT !.open = 0, !.at = "close", !.failedStage = fs,
                              !.thrown = error, !.cause = cause]
    <3>1. exec'[r] = y
      BY <2>1, <2>6
    <3>2. error = "unknown" /\ cause = "load_script"
      BY <2>6 DEF Throws, StageOf
    <3>3. /\ y.open = 0 /\ y.at = "close" /\ y.failedStage = "load_script" /\ y.thrown = "unknown"
          /\ y.cause = "load_script" /\ y.end = "open" /\ y.reason = None
      BY <2>5, <2>6, <3>2 DEF ExecStates
    <3> HIDE DEF y
    <3>4. RunnerOK(y, t)
      BY <2>4, <2>6, <3>3 DEF RunnerOK, Setup
    <3> QED BY <3>1, <3>3, <3>4, StillOpen
  <2>7. CASE ~(x.kind = "one_shot" /\ x.at = "load_script")
    <3>1. exec'[r] = Settle([x EXCEPT !.open = 0, !.at = "over", !.failedStage = fs],
                            error, None, cause)
      BY <2>1, <2>7
    <3>2. error = "ok" => x.kind = "persistent"
      <4>1. x.kind \in {"one_shot", "persistent"}
        BY <1>7 DEF ExecStates
      <4>2. x.kind = "one_shot" => error \in {"unknown", "timeout"}
        BY <2>2, <1>7 DEF Throws, ExecOK, AfterStage, Setup
      <4> QED BY <4>1, <4>2
    <3>3. fs \in Stages \cup {None}
      BY <2>2, <2>5
    <3>4. \/ StageOf(error) = cause /\ (fs = cause => Shows(t, cause))
          \/ /\ StageOf(error) = None /\ Shows(t, cause) /\ fs = cause
      BY <2>4, <2>5
    <3>5. Foretold(x, t, fs, error, None, cause)
      BY <3>2, <3>4 DEF Foretold
    <3>6. SettlesAs(x, exec'[r], fs, error, None, cause)
      <4> HIDE DEF fs, cause
      <4> QED BY <2>5, <3>1 DEF SettlesAs, Settle, ExecStates
    <3> QED BY <3>5, <3>6, SettledTrail
  <2> QED BY <2>6, <2>7
<1>14. CASE AuthTimesOut(r)
  <2> DEFINE fs == IF x.failedStage = None THEN "auth_wait" ELSE x.failedStage
  <2>1. /\ exec'[r] = Settle([x EXCEPT !.open = 0, !.at = "over", !.failedStage = fs],
                             "unknown", "auth_timeout", "auth_wait")
        /\ Finished(r, "failed") /\ x.open # 0 /\ x.at = "auth_wait"
    BY <1>14 DEF AuthTimesOut, TypeOK
  <2>2. ~x.cut /\ "auth_wait" \in Stages
    BY <1>7, <2>1 DEF Settle, ExecStates, Stages
  <2>3. RunnerOK(x, s) /\ Shows(t, "auth_wait")
    BY <1>11, <2>1, <2>2
  <2>4. x.end = "open" /\ x.reason = None /\ fs = "auth_wait" /\ StageOf("unknown") = None
    BY <2>1, <2>3 DEF RunnerOK, Setup, StageOf
  <2>5. Foretold(x, t, fs, "unknown", "auth_timeout", "auth_wait")
    BY <2>3, <2>4 DEF Foretold
  <2>6. SettlesAs(x, exec'[r], fs, "unknown", "auth_timeout", "auth_wait")
    <3> HIDE DEF fs
    <3> QED BY <2>1, <2>4 DEF SettlesAs, Settle, ExecStates
  <2> QED BY <2>5, <2>6, SettledTrail
<1>15. CASE ScriptEnds(r)
  <2>e. exec \in [Runs -> ExecStates]
    BY DEF TypeOK
  <2>1. PICK error \in Errors \cup {"timeout", None} :
          exec'[r] = [x EXCEPT !.at = "close", !.thrown = error,
                               !.cause = IF error = None THEN None ELSE StageOf(error)]
    BY <1>15, <2>e DEF ScriptEnds
  <2> DEFINE cause == IF error = None THEN None ELSE StageOf(error)
             y == [x EXCEPT !.at = "close", !.thrown = error, !.cause = cause]
  <2>2. /\ y.at = "close" /\ y.thrown = error /\ y.cause = cause /\ y.open = x.open
        /\ y.end = x.end /\ y.reason = x.reason /\ y.failedStage = x.failedStage /\ y.cut = x.cut
    BY DEF ExecStates
  <2>3. x.at = "script" /\ t = s /\ exec'[r] = y /\ x.open = 0
    <3>1. x.at = "script" /\ t = s
      BY <1>15 DEF ScriptEnds
    <3>2. x.kind = "one_shot" /\ "script" \notin DOMAIN AfterStage("one_shot")
      BY <1>7, <3>1 DEF ExecOK, AfterStage
    <3> QED BY <1>7, <2>1, <3>1, <3>2 DEF ExecOK
  <2>4. cause = StageOf(error)
    BY NullIsNoValue DEF StageOf, Categories
  <2>5. RunnerOK(x, s)
    BY <1>7, <1>9, <2>2, <2>3
  <2> HIDE DEF y, cause
  <2>6. RunnerOK(y, t) /\ y.end = "open"
    BY <2>2, <2>3, <2>4, <2>5 DEF RunnerOK, Setup
  <2> QED BY <2>3, <2>6, StillOpen
<1>16. CASE BrowserClosed(r)
  <2>1. PICK status \in {"success", "failed"} :
          /\ Finished(r, status)
          /\ LET e == [x EXCEPT !.open = 0, !.at = "over",
                          !.failedStage = IF @ = None /\ status = "failed" THEN "close" ELSE @]
             IN  exec'[r] = Settle(e, IF e.thrown = None THEN "ok" ELSE e.thrown, None, e.cause)
    <3>1. exec \in [Runs -> ExecStates]
      BY DEF TypeOK
    <3> QED BY <1>16, <3>1 DEF BrowserClosed
  <2> DEFINE fs == IF x.failedStage = None /\ status = "failed" THEN "close" ELSE x.failedStage
             outcome == IF x.thrown = None THEN "ok" ELSE x.thrown
             y == Settle([x EXCEPT !.open = 0, !.at = "over", !.failedStage = fs],
                         outcome, None, x.cause)
  <2>2. exec'[r] = y
    BY <2>1 DEF ExecStates
  <2>3. x.at = "close" /\ x.open # 0 /\ "close" \in Stages /\ fs \in Stages \cup {None}
    BY <1>16 DEF BrowserClosed, Stages, ExecStates
  <2>4. ~x.cut
    BY <1>7, <2>2 DEF Settle, ExecStates
  <2>5. /\ RunnerOK(x, s)
        /\ status # "failed" => \A c : Shows(s, c) => Shows(t, c)
        /\ status = "failed" => FailedToClose(t)
    BY <1>11, <2>1, <2>3, <2>4
  <2>6. x.end = "open" /\ x.reason = None
    BY <2>3, <2>5 DEF RunnerOK
  <2>7. SettlesAs(x, exec'[r], fs, outcome, None, x.cause)
    <3> HIDE DEF fs, outcome
    <3> QED BY <2>2, <2>6 DEF SettlesAs, Settle, ExecStates
  <2>8. CASE /\ x.failedStage = "load_script" /\ x.cause = "load_script" /\ x.thrown = "unknown"
             /\ Shows(s, "load_script")
    <3>1. /\ "unknown" # None /\ "load_script" # None /\ StageOf("unknown") = None
      BY NullIsNoValue DEF Stages, Categories, StageOf
    <3>2. /\ fs = "load_script" /\ outcome = "unknown"
          /\ FailedToClose(t) \/ Shows(t, "load_script")
      BY <2>5, <2>8, <3>1
    <3> HIDE DEF fs, outcome
    <3>3. Foretold(x, t, fs, outcome, None, x.cause)
      BY <2>8, <3>1, <3>2 DEF Foretold
    <3> QED BY <2>7, <3>3, SettledTrail
  <2>9. CASE x.failedStage = None /\ x.cause = StageOf(x.thrown)
    <3>1. x.cause # None => x.thrown # None /\ x.cause # "close" /\ "close" # None
      BY <2>9, NullIsNoValue DEF Stages, Categories, StageOf
    <3>2. x.cause # None => StageOf(outcome) = x.cause /\ fs # x.cause
      BY <2>9, <3>1
    <3> HIDE DEF fs, outcome
    <3>3. Foretold(x, t, fs, outcome, None, x.cause)
      BY <3>2 DEF Foretold
    <3> QED BY <2>7, <3>3, SettledTrail
  <2> QED BY <2>3, <2>5, <2>8, <2>9 DEF RunnerOK
<1>17. CASE FirstPoll(r, "success") \/ FirstPoll(r, "failed")
  <2>1. PICK status \in {"success", "failed"} : FirstPoll(r, status)
    BY <1>17
  <2> DEFINE y == [x EXCEPT !.noted = @ \cup {status}]
             step == [stage |-> "poll", status |-> status]
  <2>2. exec'[r] = y /\ x.at = "poll" /\ Noted(r, "poll", status) /\ "poll" \in Stages
    BY <2>1 DEF FirstPoll, TypeOK, Stages
  <2> HIDE DEF y
  <2>9. t = Append(s, step) /\ step \in StepRows
    BY <1>n, <2>2
  <2>3. NothingLost(s)
    BY <1>7, <2>9, StepAdded
  <2> USE DEF y
  <2>4. /\ y.at = x.at /\ y.end = x.end /\ y.reason = x.reason /\ y.failedStage = x.failedStage
        /\ y.open = x.open /\ y.cut = x.cut
    BY DEF ExecStates
  <2>5. RunnerOK(x, s) /\ x.open = 0
    BY <1>7, <1>9, <2>2, <2>3, <2>4 DEF ExecOK, AfterStage
  <2> HIDE DEF y
  <2>6. RunnerOK(y, t) /\ y.end = "open"
    BY <2>2, <2>4, <2>5 DEF RunnerOK
  <2> QED BY <2>2, <2>6, StillOpen
(* The monitor returns, or throws.                                         *)
<1>18. ASSUME x.at = "poll", ~x.cut, NothingLost(s)
       PROVE  /\ x.end = "open" /\ x.reason = None /\ x.failedStage = None /\ x.open = 0
  <2>1. RunnerOK(x, s)
    BY <1>9, <1>18
  <2> QED BY <1>7, <1>18, <2>1 DEF RunnerOK, Setup, ExecOK, AfterStage
<1>19. CASE MonitorGivesUp(r)
  <2>1. PICK stage \in {"poll", "keep_alive"}, reason \in {"logged_out", "watchdog_timeout"} :
          /\ Noted(r, stage, "failed")
          /\ exec'[r] = Settle([x EXCEPT !.at = "over"], "unknown", reason, stage)
    BY <1>19 DEF MonitorGivesUp, TypeOK
  <2> DEFINE step == [stage |-> stage, status |-> "failed"]
  <2>2. x.at = "poll" /\ stage \in Stages /\ step \in StepRows
    BY <1>19 DEF MonitorGivesUp, Stages, StepRows
  <2>3. t = Append(s, step)
    BY <1>n, <2>1, <2>2
  <2>4. NothingLost(s) /\ Shows(t, stage)
    BY <1>7, <2>2, <2>3, StepAdded
  <2>5. ~x.cut /\ StageOf("unknown") = None /\ reason # None
    BY <1>7, <2>1, NullIsNoValue DEF Settle, ExecStates, StageOf, StopReasons
  <2>6. SettlesAs(x, exec'[r], None, "unknown", reason, stage)
    BY <1>18, <2>1, <2>2, <2>4, <2>5 DEF SettlesAs, Settle, ExecStates
  <2>7. Foretold(x, t, None, "unknown", reason, stage)
    BY <2>4, <2>5 DEF Foretold
  <2> QED BY <2>6, <2>7, SettledTrail
<1>20. CASE MonitorEnds(r)
  <2>1. x.at = "poll" /\ t = s /\ NothingLost(s)
    BY <1>7, <1>20 DEF MonitorEnds
  <2>2. CASE \E error \in Errors :
               exec'[r] = Settle([x EXCEPT !.at = "over"], error, None, StageOf(error))
    <3>1. PICK error : exec'[r] = Settle([x EXCEPT !.at = "over"], error, None, StageOf(error))
      BY <2>2
    <3>2. ~x.cut
      BY <1>7, <3>1 DEF Settle, ExecStates
    <3>3. SettlesAs(x, exec'[r], None, error, None, StageOf(error))
      BY <1>18, <2>1, <3>1, <3>2 DEF SettlesAs, Settle, ExecStates
    <3>4. Foretold(x, t, None, error, None, StageOf(error))
      BY DEF Foretold
    <3> QED BY <3>3, <3>4, SettledTrail
  <2>3. CASE exec'[r] = Settle([x EXCEPT !.at = "over"], "ok", "stop_requested", None)
    <3>1. ~x.cut
      BY <1>7, <2>3 DEF Settle, ExecStates
    <3>2. SettlesAs(x, exec'[r], None, "ok", "stop_requested", None)
      BY <1>18, <2>1, <2>3, <3>1 DEF SettlesAs, Settle, ExecStates
    <3>3. Foretold(x, t, None, "ok", "stop_requested", None)
      BY DEF Foretold
    <3> QED BY <3>2, <3>3, SettledTrail
  <2> QED BY <1>20, <2>2, <2>3 DEF MonitorEnds, TypeOK
<1>21. CASE CutSession(r) \/ RunTimeout(r)
  <2>1. PICK outcome \in Outcomes, reason \in Reasons :
          exec'[r] = [Settle(x, outcome, reason, None) EXCEPT !.cut = TRUE]
    <3>1. CASE CutSession(r)
      <4>1. PICK reason \in {"session_killed", "browser_closed"} :
              exec'[r] = [Settle(x, "unknown", reason, None) EXCEPT !.cut = TRUE]
        BY <3>1 DEF CutSession, TypeOK
      <4> QED BY <4>1 DEF Outcomes, Reasons, StopReasons
    <3>2. CASE RunTimeout(r)
      <4>1. exec'[r] = [Settle(x, "timeout", None, None) EXCEPT !.cut = TRUE]
        BY <3>2 DEF RunTimeout, TypeOK
      <4> QED BY <4>1 DEF Outcomes, Reasons, StopReasons
    <3> QED BY <1>21, <3>1, <3>2
  <2>2. Settle(x, outcome, reason, None) \in ExecStates
    BY SettleTyped
  <2> QED BY <1>7, <2>1, <2>2 DEF ExecStates
<1>22. CASE Ingest(r)
  <2>1. x.end = "settled" /\ x.outcome = "ok" /\ t = s
    BY <1>22 DEF Ingest
  <2>2. \/ exec'[r] = [x EXCEPT !.end = "mark"]
        \/ exec'[r] = [x EXCEPT !.outcome = "unknown"]
    BY <1>22 DEF Ingest, TypeOK
  <2>3. ~x.cut
    BY <1>7, <2>2 DEF ExecStates
  <2>4. RunnerOK(x, s) /\ SettledOK(x, s)
    BY <1>7, <1>9, <2>1, <2>3
  <2>5. x.at = "over" /\ x.open = 0 /\ (x.cause = None \/ Hidden(x, s))
    BY <1>7, <2>1, <2>4 DEF RunnerOK, SettledOK, ExecOK, AfterStage
  <2>6. ASSUME NEW y \in ExecStates, y.at = "over", y.open = 0, y.cause = x.cause,
               (y.end = "mark" /\ y.outcome = "ok") \/ y.end = "settled"
        PROVE  Traced(y, s, row)
    BY <2>5, <2>6
    DEF Traced, RunnerOK, SettledOK, JudgedOK, RowOK, Hidden, Setup, Tellings
  <2>7. /\ [x EXCEPT !.end = "mark"] \in ExecStates
        /\ [x EXCEPT !.outcome = "unknown"] \in ExecStates
    BY DEF ExecStates, Ends, Outcomes
  <2> QED BY <2>1, <2>2, <2>5, <2>6, <2>7 DEF ExecStates
<1>23. CASE Judge(r)
  <2> DEFINE v == Verdict(r)
             y == [x EXCEPT !.end = "mark", !.type = v.type]
             step == [stage |-> v.stage, status |-> "failed"]
             noted == v.stage \notin {None, x.failedStage}
  <2>1. /\ x.end = "settled" /\ x.outcome # "ok" /\ exec'[r] = y
        /\ IF noted THEN Noted(r, v.stage, "failed") ELSE t = s
    BY <1>23 DEF Judge, Failing, TypeOK
  <2>2. /\ v.stage = IF StageOf(x.outcome) # None THEN StageOf(x.outcome) ELSE x.failedStage
        /\ v.type = IF x.reason # None THEN x.reason ELSE TypeOf(v.stage, x.outcome)
    BY DEF Verdict
  <2>3. v.stage \in Stages \cup {None}
    BY <2>2, StageNamed DEF ExecStates
  <2>4. /\ y.at = x.at /\ y.open = x.open /\ y.end = "mark" /\ y.cause = x.cause /\ y.cut = x.cut
        /\ y.outcome = x.outcome /\ y.reason = x.reason /\ y.type = v.type
    BY DEF ExecStates
  <2> HIDE DEF v, y
  <2>5. noted => t = Append(s, step) /\ step \in StepRows
    BY <1>n, <2>1, <2>3
  <2>12. ASSUME noted
         PROVE  NothingLost(s) /\ (FailedToClose(s) => FailedToClose(t)) /\ Shows(t, v.stage)
    <3>1. PICK added \in StepRows : added = step /\ t = Append(s, added)
      BY <2>5, <2>12
    <3>2. added.stage = v.stage /\ added.status = "failed"
      BY <3>1
    <3> QED BY <1>7, <3>1, <3>2, StepAdded
  <2>6. /\ NothingLost(s) /\ (FailedToClose(s) => FailedToClose(t))
        /\ noted => Shows(t, v.stage)
    BY <1>7, <2>1, <2>12
  <2>7. RunnerOK(x, s) /\ SettledOK(x, s)
    BY <1>7, <1>9, <2>1, <2>4, <2>6
  <2>8. x.at = "over" /\ x.open = 0
    BY <1>7, <2>1, <2>7 DEF RunnerOK, ExecOK, AfterStage
  <2>9. ASSUME x.cause # None, ~Hidden(y, t)
        PROVE  Shows(t, x.cause) /\ v.type \in {x.reason, TypeOf(x.cause, x.outcome)}
    <3>1. \/ StageOf(x.outcome) = x.cause /\ (x.failedStage = x.cause => Shows(s, x.cause))
          \/ /\ StageOf(x.outcome) = None /\ Shows(s, x.cause)
             /\ x.failedStage = x.cause \/ (x.failedStage = None /\ x.reason # None)
      BY <2>1, <2>4, <2>6, <2>7, <2>9 DEF SettledOK, Hidden
    <3> QED BY <2>1, <2>2, <2>6, <2>9, <3>1
  <2>10. RunnerOK(y, t) /\ SettledOK(y, t) /\ RowOK(y, row)
    BY <2>4, <2>8 DEF RunnerOK, SettledOK, RowOK, Setup, Tellings
  <2>11. JudgedOK(y, t)
    BY <2>4, <2>9 DEF JudgedOK
  <2> QED BY <2>1, <2>10, <2>11 DEF Traced
<1> QED
  BY <1>10, <1>12, <1>13, <1>14, <1>15, <1>16, <1>17, <1>19, <1>20, <1>21, <1>22, <1>23
  DEF RunnerStep

(* The verdict's bookkeeping, a new execution, a pruned one: none of them  *)
(* is read through a trail that it did not write.                          *)
LEMMA OtherTraced ==
  ASSUME TypeOK, TrailInv, NEW r \in Runs, OtherStep(r)
  PROVE  TrailInv'
<1>1. \A q \in Runs : q # r => exec'[q] = exec[q] /\ steps'[q] = steps[q] /\ run'[q] = run[q]
  BY DEF OtherStep, Start, StartAgain, Mark, Marked, TellStep, NotifyFailure, AlertOnce, EnqueueAlert,
         NotifySuccess, EnqueueRecovery, NotifyFails, Tells, Rest, Prune, TypeOK
<1>2. SUFFICES ASSUME Whole(exec'[r], steps'[r], run'[r])
               PROVE  Traced(exec'[r], steps'[r], run'[r])
  BY <1>1 DEF TrailInv, TracedAt
<1>3. PICK x \in ExecStates : x = exec[r] /\ ExecOK(x)
  BY DEF TypeOK
<1> USE <1>3
<1>4. TracedAt(r)
  BY DEF TrailInv
<1>5. CASE (\E kind \in Kinds : Start(r, kind)) \/ StartAgain(r)
  <2>1. PICK kind : exec'[r] = [Idle EXCEPT !.kind = kind, !.at = "credentials"]
    BY <1>5 DEF Start, StartAgain, TypeOK
  <2> QED BY <2>1
      DEF Idle, Traced, RunnerOK, SettledOK, JudgedOK, RowOK, Setup, Tellings
<1>6. CASE Mark(r)
  <2> DEFINE next == IF x.kind = "one_shot" THEN "notify" ELSE "over"
  <2>1. /\ x.end = "mark" /\ steps'[r] = steps[r]
        /\ \/ exec'[r] = [x EXCEPT !.end = next] /\ run'[r] = Marked(r)[r]
           \/ exec'[r] = [x EXCEPT !.end = next, !.unmarked = TRUE] /\ run'[r] = run[r]
    BY <1>6 DEF Mark, Marked, TypeOK
  <2>2. PICK y : y = exec'[r]
    OBVIOUS
  <2>3. /\ y.at = x.at /\ y.open = x.open /\ y.failedStage = x.failedStage /\ y.cause = x.cause
        /\ y.outcome = x.outcome /\ y.reason = x.reason /\ y.type = x.type /\ y.kind = x.kind
        /\ y.cut = x.cut /\ y.end = next
    BY <2>1, <2>2 DEF ExecStates
  <2>4. /\ run'[r].status # "none" => run[r].status # "none"
        /\ ~y.unmarked /\ run'[r].status = "failed" => x.outcome # "ok" /\ run'[r].type = x.type
    <3>1. Marked(r)[r] = IF run[r].status = "none" THEN run[r]
                         ELSE IF x.outcome = "ok"
                         THEN [run[r] EXCEPT !.status = "success", !.reason = x.reason]
                         ELSE [status |-> "failed", type |-> x.type, reason |-> x.reason]
      BY DEF Marked, TypeOK
    <3>2. run[r] \in RunRows
      BY DEF TypeOK
    <3>3. CASE run'[r] = Marked(r)[r]
      BY <3>1, <3>2, <3>3 DEF RunRows
    <3>4. CASE exec'[r] = [x EXCEPT !.end = next, !.unmarked = TRUE] /\ run'[r] = run[r]
      BY <2>2, <3>4 DEF ExecStates
    <3> QED BY <2>1, <3>3, <3>4
  <2>5. Traced(x, steps[r], run[r])
    BY <1>2, <1>4, <2>1, <2>2, <2>3, <2>4 DEF TracedAt, Whole
  <2>6. x.at = "over" /\ x.open = 0
    BY <2>1, <2>5 DEF Traced, RunnerOK, ExecOK, AfterStage
  <2>7. RunnerOK(y, steps[r]) /\ SettledOK(y, steps[r])
    BY <2>3, <2>6 DEF RunnerOK, SettledOK, Setup
  <2>8. JudgedOK(y, steps[r])
    BY <2>1, <2>3, <2>5 DEF Traced, JudgedOK, Hidden
  <2>9. RowOK(y, run'[r])
    BY <2>3, <2>4 DEF RowOK
  <2> QED BY <2>1, <2>2, <2>7, <2>8, <2>9 DEF Traced
<1>7. CASE TellStep(r)
  <2>1. PICK end \in Tellings \cup {"over"} : exec'[r] = [x EXCEPT !.end = end]
    BY <1>7
    DEF TellStep, NotifyFailure, AlertOnce, EnqueueAlert, NotifySuccess, EnqueueRecovery,
        NotifyFails, Tells, Tellings, TypeOK
  <2>2. x.end \in Tellings /\ steps'[r] = steps[r] /\ run'[r] = run[r]
    BY <1>7
    DEF TellStep, NotifyFailure, AlertOnce, EnqueueAlert, NotifySuccess, EnqueueRecovery,
        NotifyFails, Tells, Telling, Tellings, Rest
  <2>3. PICK y : y = exec'[r]
    OBVIOUS
  <2>4. /\ y.at = x.at /\ y.open = x.open /\ y.failedStage = x.failedStage /\ y.cause = x.cause
        /\ y.outcome = x.outcome /\ y.reason = x.reason /\ y.type = x.type /\ y.kind = x.kind
        /\ y.cut = x.cut /\ y.unmarked = x.unmarked /\ y.end = end
    BY <2>1, <2>3 DEF ExecStates
  <2>5. Traced(x, steps[r], run[r])
    BY <1>2, <1>4, <2>2, <2>3, <2>4 DEF TracedAt, Whole
  <2>6. x.at = "over" /\ x.open = 0
    BY <2>2, <2>5 DEF Traced, RunnerOK, ExecOK, AfterStage, Tellings
  <2>7. RunnerOK(y, steps[r]) /\ SettledOK(y, steps[r])
    BY <2>4, <2>6 DEF RunnerOK, SettledOK, Setup, Tellings
  <2>8. JudgedOK(y, steps[r]) /\ RowOK(y, run[r])
    BY <2>2, <2>4, <2>5 DEF Traced, JudgedOK, RowOK, Hidden, Tellings
  <2> QED BY <2>2, <2>3, <2>7, <2>8 DEF Traced
<1>8. CASE Prune(r)
  BY <1>2, <1>8 DEF Prune, Whole, NoRun, TypeOK
<1> QED BY <1>5, <1>6, <1>7, <1>8 DEF OtherStep

LEMMA ProcessTraced ==
  ASSUME TypeOK, TrailInv, ProcessStep
  PROVE  TrailInv'
<1>1. UNCHANGED steps
  BY DEF ProcessStep, Crash, Restart, MarkOrphaned, OrphansStay
<1>2. SUFFICES ASSUME NEW r \in Runs, Whole(exec'[r], steps[r], run'[r])
               PROVE  Traced(exec'[r], steps[r], run'[r])
  BY <1>1 DEF TrailInv, TracedAt
<1>3. PICK x \in ExecStates : x = exec[r]
  BY DEF TypeOK
<1> USE <1>3
<1>4. Whole(x, steps[r], run[r]) => Traced(x, steps[r], run[r])
  BY DEF TrailInv, TracedAt
<1>5. CASE Crash
  BY <1>2, <1>5 DEF Crash, Whole, Idle, ExecStates
<1>6. CASE Restart
  BY <1>2, <1>4, <1>6 DEF Restart
<1>7. CASE MarkOrphaned
  <2>1. exec' = exec /\ run'[r] = IF run[r].status = "running" THEN Orphaned(r) ELSE run[r]
    BY <1>7 DEF MarkOrphaned
  <2>2. Traced(x, steps[r], run[r])
    BY <1>2, <1>4, <2>1 DEF Whole
  <2>3. RowOK(x, run'[r])
    BY <2>1, <2>2 DEF Traced, RowOK, Orphaned
  <2> QED BY <2>1, <2>2, <2>3 DEF Traced
<1>8. CASE OrphansStay
  <2>1. PICK y : /\ y = exec'[r] /\ y = [x EXCEPT !.unmarked = x.unmarked \/ Judged(r)]
                 /\ run' = run
    BY <1>8 DEF OrphansStay
  <2>2. /\ y.at = x.at /\ y.open = x.open /\ y.failedStage = x.failedStage /\ y.cause = x.cause
        /\ y.outcome = x.outcome /\ y.reason = x.reason /\ y.type = x.type /\ y.kind = x.kind
        /\ y.cut = x.cut /\ y.end = x.end /\ y.thrown = x.thrown /\ (~y.unmarked => ~x.unmarked)
    BY <2>1 DEF ExecStates
  <2>3. Traced(x, steps[r], run[r])
    BY <1>2, <1>4, <2>1, <2>2 DEF Whole
  <2>4. RunnerOK(y, steps[r])
    BY <2>2, <2>3 DEF Traced, RunnerOK
  <2>5. SettledOK(y, steps[r]) /\ JudgedOK(y, steps[r]) /\ RowOK(y, run[r])
    BY <2>2, <2>3 DEF Traced, SettledOK, JudgedOK, RowOK, Hidden
  <2> QED BY <2>1, <2>4, <2>5 DEF Traced
<1> QED BY <1>5, <1>6, <1>7, <1>8 DEF ProcessStep

LEMMA NextTraced == TypeOK /\ TrailInv /\ [Next]_vars => TrailInv'
<1> SUFFICES ASSUME TypeOK, TrailInv, [Next]_vars PROVE TrailInv'
  OBVIOUS
<1>1. CASE \E r \in Runs : RunnerStep(r)
  BY <1>1, RunnerTraced
<1>2. CASE \E r \in Runs : OtherStep(r)
  BY <1>2, OtherTraced
<1>3. CASE ProcessStep
  BY <1>3, ProcessTraced
<1>4. CASE UNCHANGED vars
  BY <1>4 DEF vars, TrailInv, TracedAt
<1> QED BY <1>1, <1>2, <1>3, <1>4 DEF Next, RunnerStep, OtherStep, TellStep, ProcessStep

-----------------------------------------------------------------------------
(* The inductive invariant holds of every behaviour.                       *)
THEOREM ScrapeRunsSafe == Spec => []IInv
BY InitInv, NextInv, PTL DEF Spec

(* Tables, steps and executions keep their types.                          *)
THEOREM ScrapeRunsTyped == Spec => []TypeOK
<1>1. IInv => TypeOK
  BY DEF IInv
<1> QED BY <1>1, ScrapeRunsSafe, PTL

(* A row that says running has an execution that will close it, once the   *)
(* orphans of the process before are reconciled: whatever is refused,      *)
(* killed or pruned, with any number of runs and faults.                   *)
THEOREM RunningHasExecution == Spec => []RunningIsUnderWay
<1>1. IInv => RunningIsUnderWay
  BY DEF IInv, TypeOK, VerdictInv, RunningIsUnderWay, Judged, ExecStates
<1> QED BY <1>1, ScrapeRunsSafe, PTL

(* A verdict once written is overwritten by nobody, neither by a zombie    *)
(* runner nor by the reconciliation, until its row is pruned.              *)
THEOREM VerdictIsFinal == Spec => VerdictStands
<1>1. IInv /\ [Next]_vars =>
        [\A r \in Runs :
           run[r].status \in {"success", "failed"} /\ run[r].type # "orphaned"
              => run'[r] \in {run[r], NoRun}]_vars
  <2> SUFFICES ASSUME IInv, Next, NEW r \in Runs,
                      run[r].status \in {"success", "failed"}, run[r].type # "orphaned"
               PROVE  run'[r] \in {run[r], NoRun}
    OBVIOUS
  <2>1. TypeOK /\ Begun(r) /\ exec[r].end \notin {"open", "settled", "mark"}
    BY DEF IInv, VerdictInv, NoRun
  <2>2. CASE \E q \in Runs : RunnerStep(q)
    BY <2>1, <2>2, RunnerTurns
  <2>3. ASSUME NEW q \in Runs, OtherStep(q)
        PROVE  run'[r] \in {run[r], NoRun}
    <3>1. CASE (\E kind \in Kinds : Start(q, kind)) \/ StartAgain(q)
      BY <2>1, <3>1 DEF Start, StartAgain, TypeOK
    <3>2. CASE Mark(q)
      BY <2>1, <3>2 DEF Mark, Marked, TypeOK
    <3>3. CASE TellStep(q)
      BY <3>3 DEF TellStep, NotifyFailure, AlertOnce, EnqueueAlert, NotifySuccess, EnqueueRecovery,
                  NotifyFails, Rest
    <3>4. CASE Prune(q)
      BY <2>1, <3>4 DEF Prune, TypeOK
    <3> QED BY <2>3, <3>1, <3>2, <3>3, <3>4 DEF OtherStep
  <2>4. CASE ProcessStep
    BY <2>4 DEF ProcessStep, Crash, Restart, MarkOrphaned, OrphansStay
  <2> QED BY <2>2, <2>3, <2>4 DEF Next, RunnerStep, OtherStep, TellStep, ProcessStep
<1> QED BY <1>1, ScrapeRunsSafe, PTL DEF Spec, VerdictStands

(* An alert is out exactly when it is due, and is never sent twice, with   *)
(* any threshold and any number of executions.                             *)
THEOREM AlertsAreDue == Spec => []AlertIsDue
<1>1. IInv => AlertIsDue
  <2> SUFFICES ASSUME IInv, ~torn, \A r \in Runs : ~Telling(r), NEW g \in Groups
               PROVE  told[g] # "twice" /\ (told[g] = "failed" <=> missed[g] >= Threshold)
    BY DEF AlertIsDue
  <2>1. \A r \in Runs : ~Alerting(r, g) /\ ~Recovering(r, g)
    BY DEF Alerting, Recovering, Telling, Tellings
  <2> QED BY <2>1 DEF IInv, AlertInv, Quiet
<1> QED BY <1>1, ScrapeRunsSafe, PTL

(* Of a failed run that nothing cut off, whose step writes were all stored *)
(* and whose error names a stage, the failure list shows that stage and    *)
(* the failure type is its own, whatever failed and was recovered before   *)
(* and with any number of other executions; but for a script that did not  *)
(* load in a browser that does not close.                                  *)
THEOREM FailureIsNamed == Spec => []NamedFailureShown
<1>1. Init => TrailInv
  BY DEF Init, TrailInv, TracedAt, Whole, Idle, NoRun
<1>2. IInv /\ TrailInv => NamedFailureShown
  <2> SUFFICES ASSUME IInv, TrailInv, NEW r \in Runs,
                      run[r].status = "failed", run[r].type # "orphaned", Judged(r),
                      ~exec[r].cut, ~exec[r].unmarked, exec[r].cause # None,
                      NothingLost(steps[r]),
                      FailedToClose(steps[r]) => exec[r].cause # "load_script"
               PROVE  /\ Shows(steps[r], exec[r].cause)
                      /\ run[r].type \in {exec[r].reason, TypeOf(exec[r].cause, exec[r].outcome)}
    BY DEF NamedFailureShown
  <2>1. Traced(exec[r], steps[r], run[r])
    BY DEF TrailInv, TracedAt, Whole, IInv, VerdictInv, Begun, NoRun
  <2> QED BY <2>1 DEF Traced, RowOK, JudgedOK, Hidden, Judged, Tellings
<1> QED BY <1>1, <1>2, NextTraced, ScrapeRunsSafe, ScrapeRunsTyped, PTL DEF Spec

=============================================================================
