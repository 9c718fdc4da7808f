--------------------------- MODULE SessionManager ---------------------------
(***************************************************************************)
(* Persistent bank sessions of one backend process: SessionManager, the    *)
(* callers of ensureRunning (the bank-scrape worker, the operator's        *)
(* reactivation), the health-check that queues the jobs, the boot and the  *)
(* end of the process.                                                     *)
(*                                                                         *)
(* JavaScript runs one callback at a time, so a step is what happens from  *)
(* one await to the next.  The answer of the database may be an error, the *)
(* browser may go at any moment, and the process may die at any moment.    *)
(***************************************************************************)
EXTENDS Integers

CONSTANTS
  Accounts,     \* persistent accounts
  Sessions,     \* handles, one for each launch, used again when forgotten
  None,         \* no session
  MaxTries,     \* attempts of a queued job (defaultJobOptions.attempts)
  MaxRestarts,  \* bound: deaths of the process in a behaviour
  MaxErrors     \* bound: writes of bank_sessions that fail

ASSUME SessionAssumption ==
  /\ None \notin Sessions
  /\ MaxTries \in Nat \ {0}
  /\ MaxRestarts \in Nat
  /\ MaxErrors \in Nat

VARIABLES
  phase,     \* the process: rows to be reset, scheduler to be started, up, without
             \* a scheduler since its boot failed, stopping
  row,       \* bank_sessions.status, "absent" before the first write
  live,      \* SessionManager.live
  starting,  \* SessionManager.starting
  sess,      \* the sessions this process has launched
  job,       \* tries left of the job scrape-<account>, 0 when there is none
  worker,    \* the launch the job in hand waits for, None when none does
  light,     \* the last lifecycle event sent to the dashboard
  restarts,  \* deaths of the process so far
  errors     \* failed writes so far

vars == <<phase, row, live, starting, sess, job, worker, light, restarts, errors>>

(* Where a launch and the handlers of its handle stand: the await of       *)
(* startFn, of recordStop after it threw, of markRunning; the handlers     *)
(* attached to done; the await of handleEnd in .then and in .catch.  A     *)
(* "lost" handle is in the registry without handlers.                      *)
Stages    == {"unused", "open", "refused", "mark", "watched", "end", "crash", "lost"}
Launching == {"open", "refused", "mark"}
Holding   == {"mark", "watched", "end", "crash", "lost"}

(* How done settles: stop_requested; auth_timeout, logged_out or           *)
(* watchdog_timeout; a thrown error or a closed browser; session_killed.   *)
Verdicts == {"pending", "stop_requested", "attention", "error", "session_killed"}
Resolved == {"stop_requested", "attention"}

Unused == [stage |-> "unused", account |-> None, assisted |-> FALSE,
           verdict |-> "pending", browser |-> FALSE, stopping |-> FALSE,
           parked |-> FALSE, authed |-> FALSE]

Init ==
  /\ phase = "boot"
  /\ row = [a \in Accounts |-> "absent"]
  /\ live = [a \in Accounts |-> None]
  /\ starting = [a \in Accounts |-> None]
  /\ sess = [s \in Sessions |-> Unused]
  /\ job = [a \in Accounts |-> 0]
  /\ worker = [a \in Accounts |-> None]
  /\ light = [a \in Accounts |-> "none"]
  /\ restarts = 0
  /\ errors = 0

-----------------------------------------------------------------------------
(* Mutation: ensureRunning without the map of starting sessions. *)
OnlyLive(a) == live[a] # None

IsRunning(a) == live[a] # None \/ starting[a] # None

(* The job in hand, if any, ends with the launch it waits for. *)
JobCompletes(a) == /\ job' = [job EXCEPT ![a] = IF worker[a] = None THEN @ ELSE 0]
                   /\ worker' = [worker EXCEPT ![a] = None]
JobFails(a) == /\ job' = [job EXCEPT ![a] = IF worker[a] = None THEN @ ELSE @ - 1]
               /\ worker' = [worker EXCEPT ![a] = None]

(* A launch begins: startFn is called and the promise goes into the map. *)
Launch(a, s) ==
  /\ ~IsRunning(a)
  /\ sess[s] = Unused
  /\ sess' = [sess EXCEPT ![s] = [Unused EXCEPT !.stage = "open", !.account = a]]
  /\ starting' = [starting EXCEPT ![a] = s]

-----------------------------------------------------------------------------
(* Who asks for a session. *)

Phases == {"boot", "starting", "up", "unscheduled", "stopping"}

(* start() makes each check once before it sets the timers. *)
Scheduling == phase \in {"starting", "up"}

(* enqueueBankScrape does nothing while the job exists. *)
Enqueue(a) ==
  /\ job[a] = 0
  /\ job' = [job EXCEPT ![a] = MaxTries]
  /\ UNCHANGED <<phase, row, live, starting, sess, worker, light, restarts, errors>>

(* Mutation: the health-check looks at the rows, not at the registry. *)
HealthCheckByRow(a) == Scheduling /\ row[a] # "running" /\ Enqueue(a)

(* The health-check queues every account that is not running, those in     *)
(* needs_attention included.                                               *)
HealthCheck(a) == Scheduling /\ ~IsRunning(a) /\ Enqueue(a)

(* POST /accounts/:id/scrape. *)
RequestScrape(a) == phase # "stopping" /\ Enqueue(a)

(* RunBankScrapeUseCase calls ensureRunning. *)
WorkerLaunches(a, s) ==
  /\ phase # "stopping" /\ job[a] > 0 /\ worker[a] = None
  /\ Launch(a, s)
  /\ worker' = [worker EXCEPT ![a] = s]
  /\ UNCHANGED <<phase, row, live, job, light, restarts, errors>>

WorkerJoins(a) ==
  /\ phase # "stopping" /\ job[a] > 0 /\ worker[a] = None
  /\ live[a] = None /\ starting[a] # None
  /\ worker' = [worker EXCEPT ![a] = starting[a]]
  /\ UNCHANGED <<phase, row, live, starting, sess, job, light, restarts, errors>>

WorkerFindsLive(a) ==
  /\ phase # "stopping" /\ job[a] > 0 /\ worker[a] = None
  /\ live[a] # None
  /\ job' = [job EXCEPT ![a] = 0]
  /\ UNCHANGED <<phase, row, live, starting, sess, worker, light, restarts, errors>>

(* withTimeout gives the job up; the launch goes on. *)
JobTimeout(a) ==
  /\ worker[a] # None
  /\ JobFails(a)
  /\ UNCHANGED <<phase, row, live, starting, sess, light, restarts, errors>>

(* POST /accounts/:id/reactivate, of an account that is assisted. *)
Reactivate(a, s) ==
  /\ phase # "stopping"
  /\ Launch(a, s)
  /\ UNCHANGED <<phase, row, live, job, worker, light, restarts, errors>>

-----------------------------------------------------------------------------
(* launch, from the answer of startFn on. *)

(* The handle is stamped with the login mode the account has at the time. *)
Opens(s, assisted) ==
  LET a == sess[s].account IN
  /\ sess[s].stage = "open"
  /\ sess' = [sess EXCEPT ![s] = [@ EXCEPT !.stage = "mark", !.browser = TRUE,
                                           !.assisted = assisted]]
  /\ live' = [live EXCEPT ![a] = s]
  /\ UNCHANGED <<phase, row, starting, job, worker, light, restarts, errors>>

OpenFails(s) ==
  /\ sess[s].stage = "open"
  /\ sess' = [sess EXCEPT ![s].stage = "refused"]
  /\ UNCHANGED <<phase, row, live, starting, job, worker, light, restarts, errors>>

(* recordStop of a failed start, then the error is thrown again. *)
RefusalEnds(s) ==
  LET a == sess[s].account IN
  /\ sess[s].stage = "refused"
  /\ sess' = [sess EXCEPT ![s] = Unused]
  /\ starting' = [starting EXCEPT ![a] = None]
  /\ JobFails(a)
  /\ UNCHANGED <<phase, live, light, restarts>>

RefusalRecorded(s) ==
  /\ RefusalEnds(s)
  /\ row' = [row EXCEPT ![sess[s].account] = "stopped"]
  /\ UNCHANGED errors

RefusalLost(s) ==
  /\ RefusalEnds(s)
  /\ errors < MaxErrors /\ errors' = errors + 1
  /\ UNCHANGED row

(* markRunning returned the previous status: the session is announced, its *)
(* recovery too if it has authenticated already, and the handlers of done  *)
(* are attached.                                                           *)
Marked(s) ==
  LET a == sess[s].account
      parked == row[a] = "needs_attention"
  IN
  /\ sess[s].stage = "mark"
  /\ row' = [row EXCEPT ![a] = "running"]
  /\ light' = [light EXCEPT ![a] =
                 IF parked /\ sess[s].authed THEN "recovered" ELSE "started"]
  /\ sess' = [sess EXCEPT ![s] = [@ EXCEPT !.stage = "watched", !.parked = parked]]
  /\ starting' = [starting EXCEPT ![a] = None]
  /\ JobCompletes(a)
  /\ UNCHANGED <<phase, live, restarts, errors>>

(* markRunning rejects: launch throws with the handle in the registry. *)
MarkFails(s) ==
  LET a == sess[s].account IN
  /\ sess[s].stage = "mark"
  /\ errors < MaxErrors /\ errors' = errors + 1
  /\ sess' = [sess EXCEPT ![s].stage = "lost"]
  /\ starting' = [starting EXCEPT ![a] = None]
  /\ JobFails(a)
  /\ UNCHANGED <<phase, row, live, light, restarts>>

-----------------------------------------------------------------------------
(* The life of a session. *)

Alive(s) == sess[s].browser /\ sess[s].verdict = "pending"

(* The login goes through; a session that was parked is announced. *)
Authenticates(s) ==
  LET a == sess[s].account IN
  /\ Alive(s) /\ ~sess[s].authed
  /\ sess' = [sess EXCEPT ![s].authed = TRUE]
  /\ light' = [light EXCEPT ![a] =
                 IF sess[s].stage = "watched" /\ sess[s].parked THEN "recovered" ELSE @]
  /\ UNCHANGED <<phase, row, live, starting, job, worker, restarts, errors>>

(* What wins the race between the monitor, the browser and a kill. *)
Settles(s, verdict) ==
  /\ Alive(s)
  /\ sess' = [sess EXCEPT ![s].verdict = verdict]
  /\ UNCHANGED <<phase, row, live, starting, job, worker, light, restarts, errors>>

SessionLost(s) == \E verdict \in {"attention", "error"} : Settles(s, verdict)
SessionStops(s) == sess[s].stopping /\ Settles(s, "stop_requested")
Kill(a) == \E s \in Sessions : live[a] = s /\ Settles(s, "session_killed")

(* The browser is closed before done settles, and in the same turn the     *)
(* handlers, if they are there, start handleEnd, which sends the event     *)
(* before it writes.                                                       *)
Ended(s) == sess[s].verdict # "pending" /\ ~sess[s].browser

BrowserCloses(s) ==
  /\ sess[s].verdict # "pending" /\ sess[s].browser
  /\ sess' = [sess EXCEPT ![s].browser = FALSE]
  /\ UNCHANGED <<phase, row, live, starting, job, worker, light, restarts, errors>>

(* Mutation: only the reasons of the monitor park, a crash does not. *)
ParksReasons(s) == sess[s].assisted /\ sess[s].verdict = "attention"

Parks(s) == /\ sess[s].assisted
            /\ sess[s].stage = "crash" \/ sess[s].verdict = "attention"
EndStatus(s) == IF Parks(s) THEN "needs_attention" ELSE "stopped"

(* handleEnd(reason, isCrash) up to its write. *)
HandleEnd(s, stage) ==
  LET a == sess[s].account IN
  /\ sess' = [sess EXCEPT ![s].stage = stage]
  /\ light' = [light EXCEPT ![a] = EndStatus(s)']

(* Mutation: the slot is given back before the stop is recorded. *)
DoneResolvesEarly(s) ==
  /\ sess[s].stage = "watched" /\ Ended(s) /\ sess[s].verdict \in Resolved
  /\ HandleEnd(s, "end")
  /\ live' = [live EXCEPT ![sess[s].account] = None]
  /\ UNCHANGED <<phase, row, starting, job, worker, restarts, errors>>

DoneResolves(s) ==
  /\ sess[s].stage = "watched" /\ Ended(s) /\ sess[s].verdict \in Resolved
  /\ HandleEnd(s, "end")
  /\ UNCHANGED <<phase, row, live, starting, job, worker, restarts, errors>>

DoneRejects(s) ==
  /\ sess[s].stage = "watched" /\ Ended(s) /\ sess[s].verdict \notin Resolved
  /\ HandleEnd(s, "crash")
  /\ UNCHANGED <<phase, row, live, starting, job, worker, restarts, errors>>

(* .finally: the slot is free and the handle forgotten. *)
Frees(s) ==
  /\ live' = [live EXCEPT ![sess[s].account] = None]
  /\ sess' = [sess EXCEPT ![s] = Unused]
  /\ UNCHANGED <<phase, starting, job, worker, light, restarts>>

EndRecorded(s) ==
  /\ sess[s].stage \in {"end", "crash"}
  /\ row' = [row EXCEPT ![sess[s].account] = EndStatus(s)]
  /\ Frees(s)
  /\ UNCHANGED errors

(* A write that fails in .then is caught by .catch, which takes it for a   *)
(* crash of the session.                                                   *)
EndWriteFails(s) ==
  /\ sess[s].stage = "end"
  /\ errors < MaxErrors /\ errors' = errors + 1
  /\ HandleEnd(s, "crash")
  /\ UNCHANGED <<phase, row, live, starting, job, worker, restarts>>

(* Mutation: a handler that throws skips the .finally. *)
CrashWriteFailsHard(s) ==
  /\ sess[s].stage = "crash"
  /\ errors < MaxErrors /\ errors' = errors + 1
  /\ sess' = [sess EXCEPT ![s].stage = "lost"]
  /\ UNCHANGED <<phase, row, live, starting, job, worker, light, restarts>>

CrashWriteFails(s) ==
  /\ sess[s].stage = "crash"
  /\ errors < MaxErrors /\ errors' = errors + 1
  /\ Frees(s)
  /\ UNCHANGED row

-----------------------------------------------------------------------------
(* The process. *)

(* Mutation: the boot trusts the rows it finds. *)
TrustRows == /\ phase = "boot"
             /\ phase' = "starting"
             /\ UNCHANGED <<row, live, starting, sess, job, worker, light, restarts, errors>>

(* The workers run before the rows of the last process are reset. *)
ResetOrphans ==
  /\ phase = "boot"
  /\ phase' = "starting"
  /\ row' = [a \in Accounts |-> IF row[a] = "running" THEN "stopped" ELSE row[a]]
  /\ UNCHANGED <<live, starting, sess, job, worker, light, restarts, errors>>

SchedulerStarts ==
  /\ phase = "starting"
  /\ phase' = "up"
  /\ UNCHANGED <<row, live, starting, sess, job, worker, light, restarts, errors>>

(* The reset, or a check that start() makes before it sets its timers, is  *)
(* awaited without a catch: the rejection is logged, and the process goes  *)
(* on without a scheduler.                                                 *)
BootFails ==
  /\ phase \in {"boot", "starting"}
  /\ errors < MaxErrors /\ errors' = errors + 1
  /\ phase' = "unscheduled"
  /\ UNCHANGED <<row, live, starting, sess, job, worker, light, restarts>>

(* SIGTERM: the scheduler stops, stopAll asks the live sessions to stop. *)
StopAll ==
  /\ phase \notin {"boot", "stopping"} /\ restarts < MaxRestarts
  /\ phase' = "stopping"
  /\ sess' = [s \in Sessions |->
                IF \E a \in Accounts : live[a] = s
                THEN [sess[s] EXCEPT !.stopping = TRUE] ELSE sess[s]]
  /\ UNCHANGED <<row, live, starting, job, worker, light, restarts, errors>>

(* The process exits or dies, and another one boots.  A job in hand        *)
(* returns to its queue.                                                   *)
Restart ==
  /\ restarts < MaxRestarts /\ restarts' = restarts + 1
  /\ phase' = "boot"
  /\ live' = [a \in Accounts |-> None]
  /\ starting' = [a \in Accounts |-> None]
  /\ sess' = [s \in Sessions |-> Unused]
  /\ worker' = [a \in Accounts |-> None]
  /\ light' = [a \in Accounts |-> "none"]
  /\ UNCHANGED <<row, job, errors>>

(* What the process owes once it has begun. *)
Handlers(s) == \/ RefusalRecorded(s) \/ Marked(s) \/ BrowserCloses(s)
               \/ DoneResolves(s) \/ DoneRejects(s) \/ EndRecorded(s)

WorkerStep(a) == WorkerJoins(a) \/ WorkerFindsLive(a) \/ \E s \in Sessions : WorkerLaunches(a, s)

Operator == \E a \in Accounts :
  RequestScrape(a) \/ Kill(a) \/ \E s \in Sessions : Reactivate(a, s)

Unattended ==
  \/ \E a \in Accounts : HealthCheck(a) \/ WorkerStep(a) \/ JobTimeout(a)
  \/ \E s \in Sessions : \/ Handlers(s) \/ OpenFails(s) \/ RefusalLost(s) \/ MarkFails(s)
                         \/ \E assisted \in BOOLEAN : Opens(s, assisted)
                         \/ Authenticates(s) \/ SessionLost(s) \/ SessionStops(s)
                         \/ EndWriteFails(s) \/ CrashWriteFails(s)
  \/ ResetOrphans \/ SchedulerStarts \/ BootFails \/ StopAll \/ Restart

Next == Operator \/ Unattended

Spec == Init /\ [][Next]_vars

(* Timers tick, the worker takes jobs and gives them up in time, a handler *)
(* goes on when the database answers.  A start, a login or a session may   *)
(* take for ever, and so may the operator.                                 *)
Fairness ==
  /\ \A a \in Accounts : WF_vars(HealthCheck(a)) /\ WF_vars(WorkerStep(a)) /\ WF_vars(JobTimeout(a))
  /\ \A s \in Sessions : WF_vars(Handlers(s))
  /\ WF_vars(ResetOrphans) /\ WF_vars(SchedulerStarts) /\ WF_vars(phase = "stopping" /\ Restart)

FairSpec == Spec /\ Fairness

-----------------------------------------------------------------------------
(* Properties *)

SessionStates ==
  [stage : Stages, account : Accounts \cup {None}, assisted : BOOLEAN,
   verdict : Verdicts, browser : BOOLEAN, stopping : BOOLEAN,
   parked : BOOLEAN, authed : BOOLEAN]

(* Types of the registry, the rows and the queue. *)
TypeOK ==
  /\ phase \in Phases
  /\ row \in [Accounts -> {"absent", "running", "stopped", "needs_attention"}]
  /\ live \in [Accounts -> Sessions \cup {None}]
  /\ starting \in [Accounts -> Sessions \cup {None}]
  /\ sess \in [Sessions -> SessionStates]
  /\ job \in [Accounts -> 0..MaxTries]
  /\ worker \in [Accounts -> Sessions \cup {None}]
  /\ light \in [Accounts -> {"none", "started", "recovered", "stopped", "needs_attention"}]
  /\ restarts \in 0..MaxRestarts
  /\ errors \in 0..MaxErrors

(* Chromium cannot share a profile: an account never has two launches or   *)
(* browsers at once, whoever asks for a session and whenever the last one  *)
(* ends.                                                                   *)
UsesProfile(s, a) ==
  sess[s].account = a /\ (sess[s].stage \in {"open", "refused"} \/ sess[s].browser)
OneBrowser ==
  \A a \in Accounts, s, u \in Sessions : UsesProfile(s, a) /\ UsesProfile(u, a) => s = u

(* As long as every write went through, a row says running only if a       *)
(* session holds the slot or the boot has yet to reset it: a late write of *)
(* an old session cannot undo that of a new one.                           *)
RunningIsHeld ==
  errors = 0 => \A a \in Accounts : row[a] = "running" => live[a] # None \/ phase = "boot"

(* Once the boot has dealt with the rows, no write reaches one while its   *)
(* session is alive: neither the late stop of an old session nor a launch  *)
(* that came to nothing.                                                   *)
AliveKeepsRow ==
  [][\A s \in Sessions :
       sess[s].stage = "watched" /\ Alive(s) /\ phase # "boot"
         => row'[sess[s].account] = row[sess[s].account]]_vars

(* An assisted session that was lost shows on the dashboard as needing     *)
(* attention when its slot becomes free, even if the database refused to   *)
(* say so.                                                                 *)
AlertOutlivesDatabase ==
  [][\A s \in Sessions :
       /\ sess[s].stage \in {"end", "crash"} /\ sess'[s].stage = "unused"
       /\ sess[s].assisted /\ sess[s].verdict # "stop_requested"
       /\ restarts' = restarts
       => light[sess[s].account] = "needs_attention"]_vars

(* A session with handlers whose done settles gives its slot back. *)
WatchedFreesSlot ==
  \A s \in Sessions : sess[s].stage = "watched" /\ Ended(s) ~> sess[s].stage = "unused"

(* An account without a session gets another launch, whatever ended the    *)
(* last one and whether it was parked for a human or not, unless the boot  *)
(* of this process failed: then nothing looks at the accounts any more.    *)
Relaunched == \A a \in Accounts : ~IsRunning(a) ~> IsRunning(a) \/ phase = "unscheduled"

(* The two maps, the handles and the handlers come to one lease for each   *)
(* account: its profile and its row belong to one launch at a time, from   *)
(* the call of startFn to the write of its end, and nobody else writes the *)
(* row but the boot.                                                       *)
Holder == [a \in Accounts |-> IF starting[a] # None THEN starting[a] ELSE live[a]]
PastLaunch == {a \in Accounts : live[a] # None /\ starting[a] = None}
LeaseView == INSTANCE Lease WITH holder <- Holder, settled <- PastLaunch,
                                 fresh <- phase = "boot"
ImplementsLease == LeaseView!Spec

=============================================================================
