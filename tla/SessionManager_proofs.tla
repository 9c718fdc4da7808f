----------------------- MODULE SessionManager_proofs -----------------------
(***************************************************************************)
(* Proofs about SessionManager, for every set of accounts and handles and  *)
(* every number of restarts and failed writes.                             *)
(*                                                                         *)
(* Inv is the inductive invariant.  Slots is its heart: the two maps of    *)
(* the registry say exactly which launch or session holds an account, and  *)
(* when both do they name the same one, so that whoever touches a row or a *)
(* profile is the only one who may.                                        *)
(*                                                                         *)
(* With two facts more, that ends come in order and that workers wait for  *)
(* what the map names, no slot and no job is stranded.  The last part      *)
(* takes each step to one of Lease.                                        *)
(***************************************************************************)
EXTENDS SessionManager, TLAPS

(* The registry and the handles say the same. *)
Slots ==
  /\ \A s \in Sessions : sess[s].stage # "unused" => sess[s].account \in Accounts
  /\ \A a \in Accounts, s \in Sessions :
       /\ starting[a] = s <=> sess[s].account = a /\ sess[s].stage \in Launching
       /\ live[a] = s <=> sess[s].account = a /\ sess[s].stage \in Holding
  /\ \A a \in Accounts :
       live[a] # None /\ starting[a] # None => live[a] = starting[a]

(* Only a session in the registry has a browser, and none whose end is     *)
(* being recorded.                                                         *)
Browsers ==
  \A s \in Sessions :
    /\ sess[s].browser => sess[s].stage \in Holding
    /\ sess[s].stage \in {"end", "crash"} => sess[s].verdict # "pending"

(* A worker holds a job that has an attempt left. *)
Jobs == \A a \in Accounts : worker[a] # None => job[a] > 0

(* The dashboard knows before the database does. *)
Lights ==
  \A s \in Sessions :
    /\ sess[s].stage \in {"end", "crash"}
    /\ sess[s].assisted /\ sess[s].verdict # "stop_requested"
    => light[sess[s].account] = "needs_attention"

Inv == TypeOK /\ Slots /\ Browsers /\ Jobs /\ Lights /\ RunningIsHeld

-----------------------------------------------------------------------------
LEMMA InitInv == Init => Inv
  BY SessionAssumption
  DEF Init, Inv, TypeOK, Phases, Slots, Browsers, Jobs, Lights, RunningIsHeld, SessionStates,
      Stages, Verdicts, Unused, Launching, Holding

(* Whoever is in the registry for an account is alone with it. *)
LEMMA Alone ==
  ASSUME Inv, NEW s \in Sessions, NEW u \in Sessions,
         sess[s].stage \in Holding, sess[u].stage \in Holding \cup Launching,
         sess[s].account = sess[u].account
  PROVE  s = u
  BY SessionAssumption DEF Inv, Slots, Holding, Launching

(* Each step of an account that begins nothing. *)
LEMMA AccountInv ==
  ASSUME Inv, NEW a \in Accounts,
         HealthCheck(a) \/ RequestScrape(a) \/ WorkerJoins(a) \/
         WorkerFindsLive(a) \/ JobTimeout(a)
  PROVE  Inv'
<1> USE SessionAssumption
    DEF Inv, TypeOK, SessionStates, Stages, Verdicts, Unused, Launching, Holding, Jobs
<1>1. CASE HealthCheck(a)
  BY <1>1
  DEF HealthCheck, Enqueue, Slots, Browsers, Lights, RunningIsHeld
<1>2. CASE RequestScrape(a)
  BY <1>2
  DEF RequestScrape, Enqueue, Slots, Browsers, Lights, RunningIsHeld
<1>3. CASE WorkerJoins(a)
  BY <1>3
  DEF WorkerJoins, Slots, Browsers, Lights, RunningIsHeld
<1>4. CASE WorkerFindsLive(a)
  BY <1>4
  DEF WorkerFindsLive, Slots, Browsers, Lights, RunningIsHeld
<1>5. CASE JobTimeout(a)
  BY <1>5
  DEF JobTimeout, JobFails, Slots, Browsers, Lights, RunningIsHeld
<1> QED
  BY <1>1, <1>2, <1>3, <1>4, <1>5

(* Each launch. *)
LEMMA LaunchInv ==
  ASSUME Inv, NEW a \in Accounts, NEW s \in Sessions,
         WorkerLaunches(a, s) \/ Reactivate(a, s)
  PROVE  Inv'
<1> USE SessionAssumption
    DEF Inv, TypeOK, SessionStates, Stages, Verdicts, Unused, Launching, Holding, Jobs
<1>1. CASE WorkerLaunches(a, s)
  <2> USE <1>1 DEF WorkerLaunches, Launch, IsRunning
  <2>1. TypeOK'
    OBVIOUS
  <2>2. Slots'
    BY DEF Slots
  <2>3. Browsers'
    BY DEF Browsers
  <2>4. Jobs'
    OBVIOUS
  <2>5. Lights'
    BY DEF Lights
  <2>6. RunningIsHeld'
    BY DEF RunningIsHeld
  <2> QED
    BY <2>1, <2>2, <2>3, <2>4, <2>5, <2>6
<1>2. CASE Reactivate(a, s)
  <2> USE <1>2 DEF Reactivate, Launch, IsRunning
  <2>1. TypeOK'
    OBVIOUS
  <2>2. Slots'
    BY DEF Slots
  <2>3. Browsers'
    BY DEF Browsers
  <2>4. Jobs'
    OBVIOUS
  <2>5. Lights'
    BY DEF Lights
  <2>6. RunningIsHeld'
    BY DEF RunningIsHeld
  <2> QED
    BY <2>1, <2>2, <2>3, <2>4, <2>5, <2>6
<1> QED
  BY <1>1, <1>2

(* A step that changes what is known of one session, and at most what the  *)
(* dashboard shows of one account.                                         *)
LEMMA SessionTyped ==
  ASSUME TypeOK, NEW s \in Sessions, NEW new \in SessionStates, sess' = [sess EXCEPT ![s] = new],
         UNCHANGED <<phase, row, live, starting, job, worker, restarts, errors>>,
         NEW a \in Accounts, NEW shown,
         shown \in {"none", "started", "recovered", "stopped", "needs_attention"},
         light' = light \/ light' = [light EXCEPT ![a] = shown]
  PROVE  TypeOK'
<1>1. sess' \in [Sessions -> SessionStates]
  BY DEF TypeOK
<1>2. light' \in [Accounts -> {"none", "started", "recovered", "stopped", "needs_attention"}]
  BY DEF TypeOK
<1> QED BY <1>1, <1>2 DEF TypeOK

(* A session that moves from one place of the registry to another one of   *)
(* the same kind leaves the registry in order.                             *)
LEMMA SlotsKept ==
  ASSUME Slots, UNCHANGED <<live, starting>>,
         \A u \in Sessions :
            /\ sess'[u].account = sess[u].account
            /\ sess'[u].stage = "unused" <=> sess[u].stage = "unused"
            /\ sess'[u].stage \in Launching <=> sess[u].stage \in Launching
            /\ sess'[u].stage \in Holding <=> sess[u].stage \in Holding
  PROVE  Slots'
  BY DEF Slots

(* Each step of a launch or of a session. *)
LEMMA SessionInv ==
  ASSUME Inv, NEW s \in Sessions,
         OpenFails(s) \/ RefusalRecorded(s) \/ RefusalLost(s) \/ Marked(s) \/
         MarkFails(s) \/ Authenticates(s) \/ BrowserCloses(s) \/ DoneResolves(s) \/
         DoneRejects(s) \/ EndRecorded(s) \/ EndWriteFails(s) \/ CrashWriteFails(s)
  PROVE  Inv'
<1> USE SessionAssumption
    DEF Inv, TypeOK, SessionStates, Stages, Verdicts, Unused, Launching, Holding, Jobs
<1>1. CASE OpenFails(s)
  BY <1>1
  DEF OpenFails, Slots, Browsers, Lights, RunningIsHeld
<1>2. CASE RefusalRecorded(s)
  <2>1. TypeOK'
    <3>0. sess[s].account \in Accounts
      BY <1>2 DEF RefusalRecorded, RefusalEnds, Slots
    <3>1. sess' \in [Sessions -> SessionStates]
      BY <1>2 DEF RefusalRecorded, RefusalEnds
    <3>2. starting' \in [Accounts -> Sessions \cup {None}] /\ worker' \in [Accounts -> Sessions \cup {None}]
      BY <1>2 DEF RefusalRecorded, RefusalEnds, JobFails
    <3>3. job' \in [Accounts -> 0..MaxTries]
      BY <1>2, <3>0 DEF RefusalRecorded, RefusalEnds, JobFails
    <3>4. /\ row' \in [Accounts -> {"absent", "running", "stopped", "needs_attention"}]
          /\ errors' \in 0..MaxErrors
      BY <1>2 DEF RefusalRecorded
    <3>5. UNCHANGED <<phase, live, light, restarts>>
      BY <1>2 DEF RefusalRecorded, RefusalEnds
    <3>6. TypeOK
      OBVIOUS
    <3> HIDE DEF SessionStates, Stages, Verdicts, Unused, Launching, Holding, Jobs, Inv
    <3> QED BY <3>1, <3>2, <3>3, <3>4, <3>5, <3>6
  <2>2. Slots'
    BY <1>2 DEF RefusalRecorded, RefusalEnds, JobFails, Slots
  <2>3. Browsers'
    BY <1>2 DEF RefusalRecorded, RefusalEnds, JobFails, Browsers
  <2>4. Jobs'
    BY <1>2 DEF RefusalRecorded, RefusalEnds, JobFails
  <2>5. Lights'
    BY <1>2 DEF RefusalRecorded, RefusalEnds, JobFails, Lights
  <2>6. RunningIsHeld'
    BY <1>2 DEF RefusalRecorded, RefusalEnds, JobFails, RunningIsHeld, Slots
  <2> QED BY <2>1, <2>2, <2>3, <2>4, <2>5, <2>6
<1>3. CASE RefusalLost(s)
  <2>1. TypeOK'
    <3>0. sess[s].account \in Accounts
      BY <1>3 DEF RefusalLost, RefusalEnds, Slots
    <3>1. sess' \in [Sessions -> SessionStates]
      BY <1>3 DEF RefusalLost, RefusalEnds
    <3>2. starting' \in [Accounts -> Sessions \cup {None}] /\ worker' \in [Accounts -> Sessions \cup {None}]
      BY <1>3 DEF RefusalLost, RefusalEnds, JobFails
    <3>3. job' \in [Accounts -> 0..MaxTries]
      BY <1>3, <3>0 DEF RefusalLost, RefusalEnds, JobFails
    <3>4. /\ row' \in [Accounts -> {"absent", "running", "stopped", "needs_attention"}]
          /\ errors' \in 0..MaxErrors
      BY <1>3 DEF RefusalLost
    <3>5. UNCHANGED <<phase, live, light, restarts>>
      BY <1>3 DEF RefusalLost, RefusalEnds
    <3>6. TypeOK
      OBVIOUS
    <3> HIDE DEF SessionStates, Stages, Verdicts, Unused, Launching, Holding, Jobs, Inv
    <3> QED BY <3>1, <3>2, <3>3, <3>4, <3>5, <3>6
  <2>2. Slots'
    BY <1>3 DEF RefusalLost, RefusalEnds, JobFails, Slots
  <2>3. Browsers'
    BY <1>3 DEF RefusalLost, RefusalEnds, JobFails, Browsers
  <2>4. Jobs'
    BY <1>3 DEF RefusalLost, RefusalEnds, JobFails
  <2>5. Lights'
    BY <1>3 DEF RefusalLost, RefusalEnds, JobFails, Lights
  <2>6. RunningIsHeld'
    BY <1>3 DEF RefusalLost, RefusalEnds, JobFails, RunningIsHeld, Slots
  <2> QED BY <2>1, <2>2, <2>3, <2>4, <2>5, <2>6
<1>4. CASE Marked(s)
  <2> USE <1>4 DEF Marked, JobCompletes
  <2>0. sess[s].account \in Accounts
    BY DEF Slots
  <2>1. TypeOK'
    <3> DEFINE r == [sess[s] EXCEPT !.stage = "watched",
                                   !.parked = row[sess[s].account] = "needs_attention"]
    <3>6. sess[s] \in SessionStates
      OBVIOUS
    <3>7. r \in SessionStates
      BY <3>6, Zenon
    <3>8. sess' = [sess EXCEPT ![s] = r]
      BY Zenon
    <3> HIDE DEF r
    <3>2. sess' \in [Sessions -> SessionStates]
      <4> HIDE <1>4 DEF SessionStates, Marked
      <4> QED BY <3>7, <3>8
    <3>3. /\ row' \in [Accounts -> {"absent", "running", "stopped", "needs_attention"}]
          /\ starting' \in [Accounts -> Sessions \cup {None}]
          /\ light' \in [Accounts -> {"none", "started", "recovered", "stopped", "needs_attention"}]
      BY <2>0
    <3>4. job' \in [Accounts -> 0..MaxTries] /\ worker' \in [Accounts -> Sessions \cup {None}]
      BY <2>0
    <3>5. UNCHANGED <<phase, live, restarts, errors>> /\ TypeOK
      BY Zenon
    <3> HIDE <1>4 DEF SessionStates, Stages, Verdicts, Unused, Launching, Holding, Jobs, Marked
    <3> QED
      BY <3>2, <3>3, <3>4, <3>5
  <2>2. Slots'
    BY DEF Slots
  <2>3. Browsers'
    BY DEF Browsers
  <2>4. Jobs'
    OBVIOUS
  <2>5. Lights'
    BY <2>0, Alone DEF Lights
  <2>6. RunningIsHeld'
    BY DEF RunningIsHeld, Slots
  <2> QED
    BY <2>1, <2>2, <2>3, <2>4, <2>5, <2>6
<1>5. CASE MarkFails(s)
  <2>1. TypeOK'
    <3>0. sess[s].account \in Accounts
      BY <1>5 DEF MarkFails, Slots
    <3>1. sess' \in [Sessions -> SessionStates]
      BY <1>5 DEF MarkFails
    <3>2. starting' \in [Accounts -> Sessions \cup {None}] /\ worker' \in [Accounts -> Sessions \cup {None}]
      BY <1>5 DEF MarkFails, JobFails
    <3>3. job' \in [Accounts -> 0..MaxTries]
      BY <1>5, <3>0 DEF MarkFails, JobFails
    <3>4. errors' \in 0..MaxErrors
      BY <1>5 DEF MarkFails
    <3>5. UNCHANGED <<phase, row, live, light, restarts>>
      BY <1>5 DEF MarkFails
    <3>6. TypeOK
      OBVIOUS
    <3> HIDE DEF SessionStates, Stages, Verdicts, Unused, Launching, Holding, Jobs, Inv
    <3> QED BY <3>1, <3>2, <3>3, <3>4, <3>5, <3>6
  <2>2. Slots'
    BY <1>5 DEF MarkFails, JobFails, Slots
  <2>3. Browsers'
    BY <1>5 DEF MarkFails, JobFails, Browsers
  <2>4. Jobs'
    BY <1>5 DEF MarkFails, JobFails
  <2>5. Lights'
    BY <1>5 DEF MarkFails, JobFails, Lights
  <2>6. RunningIsHeld'
    BY <1>5 DEF MarkFails, JobFails, RunningIsHeld, Slots
  <2> QED BY <2>1, <2>2, <2>3, <2>4, <2>5, <2>6
<1>6. CASE Authenticates(s)
  <2> DEFINE r == [sess[s] EXCEPT !.authed = TRUE]
             a == sess[s].account
             shown == IF sess[s].stage = "watched" /\ sess[s].parked THEN "recovered" ELSE light[a]
  <2>1. /\ Alive(s) /\ sess' = [sess EXCEPT ![s] = r] /\ light' = [light EXCEPT ![a] = shown]
        /\ UNCHANGED <<phase, row, live, starting, job, worker, restarts, errors>>
    BY <1>6 DEF Authenticates
  <2>2. sess[s] \in SessionStates /\ a \in Accounts /\ sess[s].stage \in Holding
    BY <2>1 DEF Alive, Slots, Browsers
  <2> HIDE DEF r, a, shown
  <2>3. r \in SessionStates
    BY <2>2 DEF r
  <2>4. /\ r.account = a /\ r.stage = sess[s].stage /\ r.browser = sess[s].browser
        /\ r.verdict = sess[s].verdict /\ r.assisted = sess[s].assisted
    BY <2>2 DEF r, a
  <2>5. shown \in {"none", "started", "recovered", "stopped", "needs_attention"}
    BY <2>2 DEF shown
  <2> HIDE DEF SessionStates, Stages, Verdicts, Unused, Inv, TypeOK
  <2>6. TypeOK
    BY DEF Inv
  <2>7. TypeOK'
    BY <2>1, <2>2, <2>3, <2>5, <2>6, SessionTyped
  <2>8. \A u \in Sessions :
          /\ sess'[u].account = sess[u].account /\ sess'[u].stage = sess[u].stage
          /\ sess'[u].browser = sess[u].browser /\ sess'[u].verdict = sess[u].verdict
          /\ sess'[u].assisted = sess[u].assisted
    BY <2>1, <2>4, <2>6 DEF TypeOK, a
  <2>9. Slots' /\ Browsers' /\ RunningIsHeld'
    <3>1. Slots'
      BY <2>1, <2>8, SlotsKept DEF Inv
    <3>2. Browsers'
      BY <2>8 DEF Inv, Browsers
    <3>3. RunningIsHeld'
      BY <2>1 DEF Inv, RunningIsHeld
    <3> QED BY <3>1, <3>2, <3>3
  <2>10. Jobs'
    BY <2>1 DEF Inv
  <2>11. Lights'
    <3> SUFFICES ASSUME NEW u \in Sessions, sess[u].stage \in {"end", "crash"},
                        sess[u].assisted, sess[u].verdict # "stop_requested"
                 PROVE  light'[sess[u].account] = "needs_attention"
      BY <2>8 DEF Lights
    <3>1. light[sess[u].account] = "needs_attention" /\ sess[u].stage \in Holding
      BY DEF Inv, Lights
    <3>2. u # s
      BY <2>1 DEF Alive, Inv, Browsers
    <3>3. sess[u].account # a
      BY <2>2, <3>1, <3>2, Alone DEF a
    <3> QED BY <2>1, <2>6, <3>1, <3>3 DEF TypeOK
  <2> QED BY <2>7, <2>9, <2>10, <2>11 DEF Inv
<1>7. CASE BrowserCloses(s)
  <2> DEFINE r == [sess[s] EXCEPT !.browser = FALSE]
  <2>1. /\ sess[s].browser /\ sess' = [sess EXCEPT ![s] = r]
        /\ UNCHANGED <<phase, row, live, starting, job, worker, light, restarts, errors>>
    BY <1>7 DEF BrowserCloses
  <2>2. sess[s] \in SessionStates /\ sess[s].account \in Accounts
    BY <2>1 DEF Slots, Browsers
  <2> HIDE DEF r
  <2>3. r \in SessionStates
    BY <2>2 DEF r
  <2>4. /\ r.account = sess[s].account /\ r.stage = sess[s].stage /\ ~r.browser
        /\ r.verdict = sess[s].verdict /\ r.assisted = sess[s].assisted
    BY <2>2 DEF r
  <2> HIDE DEF SessionStates, Stages, Verdicts, Unused, Inv, TypeOK
  <2>6. TypeOK
    BY DEF Inv
  <2>7. TypeOK'
    BY <2>1, <2>2, <2>3, <2>6, SessionTyped
  <2>8. \A u \in Sessions :
          /\ sess'[u].account = sess[u].account /\ sess'[u].stage = sess[u].stage
          /\ sess'[u].browser => sess[u].browser
          /\ sess'[u].verdict = sess[u].verdict /\ sess'[u].assisted = sess[u].assisted
    BY <2>1, <2>4, <2>6 DEF TypeOK
  <2>9. Slots'
    BY <2>1, <2>8, SlotsKept DEF Inv
  <2>10. Browsers' /\ RunningIsHeld' /\ Jobs' /\ Lights'
    BY <2>1, <2>8 DEF Inv, Browsers, RunningIsHeld, Lights
  <2> QED BY <2>7, <2>9, <2>10 DEF Inv
<1>8. CASE DoneResolves(s)
  <2> DEFINE r == [sess[s] EXCEPT !.stage = "end"]
             a == sess[s].account
  <2>1. /\ sess[s].stage = "watched" /\ Ended(s) /\ sess[s].verdict \in Resolved
        /\ sess' = [sess EXCEPT ![s] = r] /\ light' = [light EXCEPT ![a] = EndStatus(s)']
        /\ UNCHANGED <<phase, row, live, starting, job, worker, restarts, errors>>
    BY <1>8 DEF DoneResolves, HandleEnd
  <2>2. sess[s] \in SessionStates /\ a \in Accounts
    BY <2>1 DEF Slots
  <2> HIDE DEF r, a
  <2>3. r \in SessionStates
    BY <2>2 DEF r
  <2>4. /\ r.account = a /\ r.stage = "end" /\ r.browser = sess[s].browser
        /\ r.verdict = sess[s].verdict /\ r.assisted = sess[s].assisted
    BY <2>2 DEF r, a
  <2> HIDE DEF SessionStates, Stages, Verdicts, Unused, Inv, TypeOK
  <2>6. TypeOK /\ sess'[s] = r /\ \A u \in Sessions : u # s => sess'[u] = sess[u]
    BY <2>1 DEF Inv, TypeOK
  <2>5. EndStatus(s)' \in {"none", "started", "recovered", "stopped", "needs_attention"}
    BY DEF EndStatus
  <2>7. TypeOK'
    <3>1. PICK shown \in {"none", "started", "recovered", "stopped", "needs_attention"} :
            light' = [light EXCEPT ![a] = shown]
      BY <2>1, <2>5
    <3> QED BY <2>1, <2>2, <2>3, <2>6, <3>1, SessionTyped
  <2>8. \A u \in Sessions :
          /\ sess'[u].account = sess[u].account
          /\ sess'[u].stage = sess[u].stage
             \/ (u = s /\ sess[u].stage = "watched" /\ sess'[u].stage = "end")
          /\ sess'[u].browser = sess[u].browser /\ sess'[u].verdict = sess[u].verdict
          /\ sess'[u].assisted = sess[u].assisted
    BY <2>1, <2>4, <2>6 DEF a
  <2>9. Slots'
    BY <2>1, <2>8, SlotsKept DEF Inv
  <2>10. Browsers' /\ RunningIsHeld' /\ Jobs'
    BY <2>1, <2>8 DEF Inv, Browsers, RunningIsHeld, Resolved
  <2>11. Lights'
    <3> SUFFICES ASSUME NEW u \in Sessions, sess'[u].stage \in {"end", "crash"},
                        sess[u].assisted, sess[u].verdict # "stop_requested"
                 PROVE  light'[sess[u].account] = "needs_attention"
      BY <2>8 DEF Lights
    <3>1. CASE u = s
      <4>1. sess'[s].verdict = "attention" /\ sess'[s].assisted
        BY <2>1, <2>8, <3>1 DEF Resolved
      <4>2. EndStatus(s)' = "needs_attention"
        BY <4>1 DEF EndStatus, Parks
      <4> QED BY <2>1, <2>2, <2>6, <3>1, <4>2 DEF TypeOK, a
    <3>2. CASE u # s
      <4>1. sess[u].stage \in {"end", "crash"}
        BY <2>8, <3>2
      <4>2. light[sess[u].account] = "needs_attention" /\ sess[u].stage \in Holding
        BY <4>1 DEF Inv, Lights
      <4>3. sess[s].stage \in Holding
        BY <2>1
      <4>4. sess[u].account # a
        BY <3>2, <4>2, <4>3, Alone DEF a
      <4> QED BY <2>1, <2>6, <4>2, <4>4 DEF TypeOK
    <3> QED BY <3>1, <3>2
  <2> QED BY <2>7, <2>9, <2>10, <2>11 DEF Inv
<1>9. CASE DoneRejects(s)
  BY <1>9
  DEF DoneRejects, HandleEnd, Ended, EndStatus, Parks, Slots, Browsers, Lights,
      RunningIsHeld
<1>10. CASE EndRecorded(s)
  BY <1>10
  DEF EndRecorded, Frees, EndStatus, Parks, Slots, Browsers, Lights, RunningIsHeld
<1>11. CASE EndWriteFails(s)
  BY <1>11
  DEF EndWriteFails, HandleEnd, EndStatus, Parks, Slots, Browsers, Lights, RunningIsHeld
<1>12. CASE CrashWriteFails(s)
  BY <1>12
  DEF CrashWriteFails, Frees, Slots, Browsers, Lights, RunningIsHeld
<1> QED
  BY <1>1, <1>2, <1>3, <1>4, <1>5, <1>6, <1>7, <1>8, <1>9, <1>10, <1>11, <1>12

(* A start answers. *)
LEMMA OpensInv ==
  ASSUME Inv, NEW s \in Sessions, NEW assisted \in BOOLEAN,
         Opens(s, assisted)
  PROVE  Inv'
<1> USE SessionAssumption
    DEF Inv, TypeOK, SessionStates, Stages, Verdicts, Unused, Launching, Holding, Jobs
<1>1. CASE Opens(s, assisted)
  <2> USE <1>1 DEF Opens
  <2>0. sess[s].account \in Accounts
    BY DEF Slots
  <2>1. TypeOK'
    <3> DEFINE r == [sess[s] EXCEPT !.stage = "mark", !.browser = TRUE,
                                   !.assisted = assisted]
    <3>0. sess[s] \in SessionStates
      OBVIOUS
    <3>1. r \in SessionStates
      BY <3>0, Zenon
    <3>3. sess' = [sess EXCEPT ![s] = r]
      BY Zenon
    <3> HIDE DEF r
    <3>2. sess' \in [Sessions -> SessionStates]
      BY <3>1, <3>3
    <3> QED
      BY <2>0, <3>2
  <2>2. Slots'
    BY DEF Slots
  <2>3. Browsers'
    BY DEF Browsers
  <2>4. Jobs'
    OBVIOUS
  <2>5. Lights'
    BY <2>0, Alone DEF Lights
  <2>6. RunningIsHeld'
    BY DEF RunningIsHeld
  <2> QED
    BY <2>1, <2>2, <2>3, <2>4, <2>5, <2>6
<1> QED
  BY <1>1

(* A session ends. *)
LEMMA SettlesInv ==
  ASSUME Inv, NEW s \in Sessions, NEW verdict \in Verdicts, Settles(s, verdict)
  PROVE  Inv'
  BY SessionAssumption
  DEF Inv, TypeOK, Phases, SessionStates, Stages, Verdicts, Unused, Launching, Holding, Jobs,
      Settles, Alive, Slots, Browsers, Lights, RunningIsHeld

(* Each step of the process. *)
LEMMA ProcessInv ==
  ASSUME Inv, ResetOrphans \/ SchedulerStarts \/ BootFails \/ StopAll \/ Restart
  PROVE  Inv'
<1> USE SessionAssumption
    DEF Inv, TypeOK, Phases, SessionStates, Stages, Verdicts, Unused, Launching, Holding, Jobs
<1>1. CASE ResetOrphans \/ SchedulerStarts \/ BootFails
  BY <1>1
  DEF ResetOrphans, SchedulerStarts, BootFails, Slots, Browsers, Lights, RunningIsHeld
<1>2. CASE StopAll
  <2> USE <1>2 DEF StopAll
  <2>1. TypeOK'
    <3>1. ASSUME NEW s \in Sessions  PROVE sess'[s] \in SessionStates
      <4>1. sess[s] \in SessionStates
        BY Zenon
      <4>2. [sess[s] EXCEPT !.stopping = TRUE] \in SessionStates
        BY <4>1
      <4>3. sess'[s] = [sess[s] EXCEPT !.stopping = TRUE] \/ sess'[s] = sess[s]
        BY Zenon
      <4> HIDE DEF SessionStates
      <4> QED
        BY <4>1, <4>2, <4>3
    <3>2. sess' \in [Sessions -> SessionStates]
      BY <3>1
    <3> QED
      BY <3>2
  <2>2. Slots'
    BY DEF Slots
  <2>3. Browsers'
    BY DEF Browsers
  <2>4. Jobs'
    OBVIOUS
  <2>5. Lights'
    BY DEF Lights
  <2>6. RunningIsHeld'
    BY DEF RunningIsHeld
  <2> QED
    BY <2>1, <2>2, <2>3, <2>4, <2>5, <2>6
<1>3. CASE Restart
  BY <1>3
  DEF Restart, Slots, Browsers, Lights, RunningIsHeld
<1> QED
  BY <1>1, <1>2, <1>3

LEMMA StutterInv == Inv /\ UNCHANGED vars => Inv'
  BY DEF Inv, TypeOK, Slots, Browsers, Jobs, Lights, RunningIsHeld, SessionStates, vars

LEMMA NextInv == Inv /\ [Next]_vars => Inv'
<1> SUFFICES ASSUME Inv, Next  PROVE Inv'
  BY StutterInv
<1>1. CASE Operator
  BY <1>1, AccountInv, LaunchInv, SettlesInv DEF Operator, Kill, Verdicts
<1>2. CASE Unattended
  BY <1>2, AccountInv, LaunchInv, SessionInv, OpensInv, SettlesInv, ProcessInv
  DEF Unattended, WorkerStep, Handlers, SessionLost, SessionStops, Verdicts
<1> QED
  BY <1>1, <1>2 DEF Next

(* The invariant holds in every reachable state. *)
LEMMA AlwaysInv == Spec => []Inv
<1>1. Init => Inv
  BY InitInv
<1>2. Inv /\ [Next]_vars => Inv'
  BY NextInv
<1> QED
  BY <1>1, <1>2, PTL DEF Spec

-----------------------------------------------------------------------------
(* Types hold in every reachable state; a job is never asked to try more   *)
(* often than its budget.                                                  *)
THEOREM RegistryTyped == Spec => []TypeOK
<1>1. Inv => TypeOK
  BY DEF Inv
<1> QED
  BY <1>1, AlwaysInv, PTL

(* Whoever asks for sessions, and whenever they end, no two launches or    *)
(* browsers use the profile of one account.                                *)
THEOREM ProfilesAreNotShared == Spec => []OneBrowser
<1>1. Inv => OneBrowser
  <2> SUFFICES ASSUME Inv, NEW a \in Accounts, NEW s \in Sessions, NEW u \in Sessions,
                      UsesProfile(s, a), UsesProfile(u, a)
               PROVE  s = u
    BY DEF OneBrowser
  <2>1. /\ sess[s].stage \in Launching \cup Holding /\ sess[s].account = a
        /\ sess[u].stage \in Launching \cup Holding /\ sess[u].account = a
    BY DEF Inv, Browsers, UsesProfile, Launching
  <2>2. CASE sess[s].stage \in Holding \/ sess[u].stage \in Holding
    BY <2>1, <2>2, Alone
  <2>3. CASE sess[s].stage \in Launching /\ sess[u].stage \in Launching
    BY <2>1, <2>3 DEF Inv, Slots
  <2> QED
    BY <2>1, <2>2, <2>3
<1> QED
  BY <1>1, AlwaysInv, PTL

(* Without a failed write, a row says running only for a session that      *)
(* holds the slot, or before the boot has reset it.                        *)
THEOREM RunningRowsAreHeld == Spec => []RunningIsHeld
<1>1. Inv => RunningIsHeld
  BY DEF Inv
<1> QED
  BY <1>1, AlwaysInv, PTL

(* Only these steps write a row.                                           *)
LEMMA Writers ==
  ASSUME Next, row' # row
  PROVE  \/ \E u \in Sessions : RefusalRecorded(u) \/ Marked(u) \/ EndRecorded(u)
         \/ ResetOrphans
<1>1. CASE Operator
  BY <1>1 DEF Operator, RequestScrape, Enqueue, Kill, Settles, Reactivate
<1>2. CASE \E a \in Accounts : HealthCheck(a) \/ WorkerStep(a) \/ JobTimeout(a)
  BY <1>2 DEF HealthCheck, Enqueue, WorkerStep, WorkerJoins, WorkerFindsLive,
              WorkerLaunches, JobTimeout
<1>3. ASSUME NEW u \in Sessions,
             \/ BrowserCloses(u) \/ DoneResolves(u) \/ DoneRejects(u) \/ OpenFails(u)
             \/ RefusalLost(u) \/ MarkFails(u) \/ Authenticates(u) \/ SessionLost(u)
             \/ SessionStops(u) \/ EndWriteFails(u) \/ CrashWriteFails(u)
             \/ \E assisted \in BOOLEAN : Opens(u, assisted)
      PROVE  FALSE
  BY <1>3
  DEF BrowserCloses, DoneResolves, DoneRejects, OpenFails, RefusalLost, MarkFails,
              Authenticates, SessionLost, SessionStops, Settles, EndWriteFails,
              CrashWriteFails, Opens
<1>4. ~SchedulerStarts /\ ~BootFails /\ ~StopAll /\ ~Restart
  BY DEF SchedulerStarts, BootFails, StopAll, Restart
<1> QED
  BY <1>1, <1>2, <1>3, <1>4 DEF Next, Unattended, Handlers

(* Once the process is up, the row of an account keeps what it says while  *)
(* its session is alive.                                                   *)
THEOREM AliveRowsAreKept == Spec => AliveKeepsRow
<1> DEFINE Kept == \A s \in Sessions :
                     sess[s].stage = "watched" /\ Alive(s) /\ phase # "boot"
                       => row'[sess[s].account] = row[sess[s].account]
<1>1. Inv /\ [Next]_vars => [Kept]_vars
  <2> SUFFICES ASSUME Inv, Next, NEW s \in Sessions, sess[s].stage = "watched", Alive(s),
                      phase # "boot", row' # row
               PROVE  row'[sess[s].account] = row[sess[s].account]
    OBVIOUS
  <2> DEFINE a == sess[s].account
  <2>1. PICK u \in Sessions : RefusalRecorded(u) \/ Marked(u) \/ EndRecorded(u)
    BY Writers DEF ResetOrphans
  <2>2. sess[u].account # a
    <3>1. sess[u].stage \in Holding \cup Launching /\ sess[u].stage # "watched"
      BY <2>1 DEF RefusalRecorded, RefusalEnds, Marked, EndRecorded, Holding, Launching
    <3>2. sess[s].stage \in Holding
      BY DEF Holding
    <3> QED
      BY <3>1, <3>2, Alone
  <2>3. a \in Accounts
    BY DEF Inv, Slots
  <2>4. row'[a] = row[a]
    BY <2>1, <2>2, <2>3 DEF Inv, TypeOK, RefusalRecorded, Marked, EndRecorded
  <2> QED
    BY <2>4
<1> QED
  BY <1>1, AlwaysInv, PTL DEF AliveKeepsRow, Spec

(* The dashboard shows that an assisted session was lost by the time its   *)
(* slot is free, whatever the database answered.                           *)
THEOREM AlertsOutliveDatabase == Spec => AlertOutlivesDatabase
<1> DEFINE Shown == \A s \in Sessions :
                      /\ sess[s].stage \in {"end", "crash"} /\ sess'[s].stage = "unused"
                      /\ sess[s].assisted /\ sess[s].verdict # "stop_requested"
                      /\ restarts' = restarts
                      => light[sess[s].account] = "needs_attention"
<1>1. Inv => Shown
  BY DEF Inv, Lights
<1> QED
  BY <1>1, AlwaysInv, PTL DEF AlertOutlivesDatabase, Spec

-----------------------------------------------------------------------------
(* Nothing is stranded: the safety that WatchedFreesSlot and Relaunched    *)
(* rest on.  Who holds a slot is being launched, is alive, or has ended    *)
(* and a step is due that takes its end further, unless a write failed     *)
(* when its row was marked; and who waits for a launch has a job, and the  *)
(* launch is under way.                                                    *)
SeenTo(s) == \/ sess[s].stage \in Launching
             \/ sess[s].stage = "watched" /\ (sess[s].browser \/ Ended(s))
             \/ sess[s].stage \in {"end", "crash"}
             \/ sess[s].stage = "lost" /\ errors > 0

NothingStranded ==
  /\ \A a \in Accounts : IsRunning(a) => \E s \in Sessions : sess[s].account = a /\ SeenTo(s)
  /\ \A a \in Accounts : worker[a] # None =>
       job[a] > 0 /\ \E s \in Sessions : sess[s].account = a /\ sess[s].stage \in Launching

(* A browser goes with the verdict, never before it; the handlers of a     *)
(* handle are missing only after an error; a worker waits for the launch   *)
(* that the map of starting sessions names.                                *)
EndsInOrder ==
  \A s \in Sessions : /\ sess[s].stage \in {"mark", "watched"}
                           => sess[s].browser \/ sess[s].verdict # "pending"
                      /\ sess[s].stage = "lost" => errors > 0
WaitsInMap == \A a \in Accounts : worker[a] # None => starting[a] = worker[a]

(* A step of one session. *)
LEMMA EndsKept ==
  ASSUME EndsInOrder, errors \in Nat, errors' = errors \/ errors' = errors + 1,
         NEW s \in Sessions,
         \A u \in Sessions \ {s} : sess'[u] = sess[u],
         sess'[s].stage \in {"mark", "watched"} => sess'[s].browser \/ sess'[s].verdict # "pending",
         sess'[s].stage = "lost" => errors' > 0
  PROVE  EndsInOrder'
  BY DEF EndsInOrder

LEMMA EndsStep == Inv /\ EndsInOrder /\ [Next]_vars => EndsInOrder'
<1> SUFFICES ASSUME Inv, EndsInOrder, [Next]_vars  PROVE EndsInOrder'
  OBVIOUS
<1>0. sess \in [Sessions -> SessionStates] /\ errors \in Nat
  BY SessionAssumption DEF Inv, TypeOK
<1>1. CASE UNCHANGED <<sess, errors>>
  BY <1>1 DEF EndsInOrder
<1>2. ASSUME NEW a \in Accounts, NEW s \in Sessions, WorkerLaunches(a, s) \/ Reactivate(a, s)
      PROVE  EndsInOrder'
  <2>1. /\ errors' = errors \/ errors' = errors + 1
        /\ \A u \in Sessions \ {s} : sess'[u] = sess[u]
    BY <1>0, <1>2 DEF WorkerLaunches, Reactivate, Launch, Unused, SessionStates
  <2>2. sess'[s].stage \in {"mark", "watched"} => sess'[s].browser \/ sess'[s].verdict # "pending"
    BY <1>0, <1>2 DEF WorkerLaunches, Reactivate, Launch, Unused, SessionStates
  <2>3. sess'[s].stage = "lost" => errors' > 0
    BY <1>0, <1>2 DEF WorkerLaunches, Reactivate, Launch, Unused, SessionStates
  <2> QED
    BY <1>0, <2>1, <2>2, <2>3, EndsKept
<1>3. ASSUME NEW s \in Sessions, RefusalRecorded(s) \/ RefusalLost(s) \/ EndRecorded(s) \/ CrashWriteFails(s)
      PROVE  EndsInOrder'
  <2>1. /\ errors' = errors \/ errors' = errors + 1
        /\ \A u \in Sessions \ {s} : sess'[u] = sess[u]
    BY <1>0, <1>3 DEF RefusalRecorded, RefusalLost, RefusalEnds, EndRecorded, CrashWriteFails, Frees, Unused
  <2>2. sess'[s].stage \in {"mark", "watched"} => sess'[s].browser \/ sess'[s].verdict # "pending"
    BY <1>0, <1>3 DEF RefusalRecorded, RefusalLost, RefusalEnds, EndRecorded, CrashWriteFails, Frees, Unused
  <2>3. sess'[s].stage = "lost" => errors' > 0
    BY <1>0, <1>3 DEF RefusalRecorded, RefusalLost, RefusalEnds, EndRecorded, CrashWriteFails, Frees, Unused
  <2> QED
    BY <1>0, <2>1, <2>2, <2>3, EndsKept
<1>4. ASSUME NEW s \in Sessions, NEW assisted \in BOOLEAN, Opens(s, assisted)
      PROVE  EndsInOrder'
  BY <1>0, <1>4 DEF Opens, EndsInOrder
<1>5. ASSUME NEW s \in Sessions, Marked(s) \/ MarkFails(s)
      PROVE  EndsInOrder'
  <2>0. /\ sess[s].stage \in {"mark", "watched"} => sess[s].browser \/ sess[s].verdict # "pending"
        /\ sess[s].stage = "lost" => errors > 0
    BY DEF EndsInOrder
  <2>1. /\ errors' = errors \/ errors' = errors + 1
        /\ \A u \in Sessions \ {s} : sess'[u] = sess[u]
    BY <1>0, <1>5 DEF Marked, MarkFails, SessionStates
  <2>2. /\ sess'[s].stage \in {"watched", "lost"}
        /\ sess'[s].browser = sess[s].browser /\ sess'[s].verdict = sess[s].verdict
    <3>1. CASE Marked(s)
      <4> DEFINE p == row[sess[s].account] = "needs_attention"
      <4>1. sess' = [sess EXCEPT ![s] = [@ EXCEPT !.stage = "watched", !.parked = p]]
        BY <3>1, Zenon DEF Marked
      <4> HIDE DEF p
      <4> QED
        BY <1>0, <4>1 DEF SessionStates
    <3>2. CASE MarkFails(s)
      BY <1>0, <3>2 DEF MarkFails, SessionStates
    <3> QED
      BY <1>5, <3>1, <3>2
  <2>3. sess[s].stage = "mark" /\ (sess'[s].stage = "lost" => errors' = errors + 1)
    <3>1. CASE Marked(s)
      <4>1. sess'[s].stage = "watched"
        <5> DEFINE p == row[sess[s].account] = "needs_attention"
        <5>1. sess' = [sess EXCEPT ![s] = [@ EXCEPT !.stage = "watched", !.parked = p]]
          BY <3>1, Zenon DEF Marked
        <5> HIDE DEF p
        <5> QED
          BY <1>0, <5>1 DEF SessionStates
      <4> QED
        BY <3>1, <4>1 DEF Marked
    <3>2. CASE MarkFails(s)
      BY <3>2 DEF MarkFails
    <3> QED
      BY <1>5, <3>1, <3>2
  <2> QED
    BY <1>0, <2>0, <2>1, <2>2, <2>3, EndsKept
<1>6. ASSUME NEW s \in Sessions, DoneResolves(s) \/ DoneRejects(s) \/ EndWriteFails(s)
      PROVE  EndsInOrder'
  <2>1. /\ errors' = errors \/ errors' = errors + 1
        /\ \A u \in Sessions \ {s} : sess'[u] = sess[u]
    BY <1>0, <1>6 DEF DoneResolves, DoneRejects, EndWriteFails, HandleEnd, SessionStates
  <2>2. sess'[s].stage \in {"mark", "watched"} => sess'[s].browser \/ sess'[s].verdict # "pending"
    BY <1>0, <1>6 DEF DoneResolves, DoneRejects, EndWriteFails, HandleEnd, SessionStates
  <2>3. sess'[s].stage = "lost" => errors' > 0
    BY <1>0, <1>6 DEF DoneResolves, DoneRejects, EndWriteFails, HandleEnd, SessionStates
  <2> QED
    BY <1>0, <2>1, <2>2, <2>3, EndsKept
<1>7. ASSUME NEW s \in Sessions, NEW verdict \in Verdicts \ {"pending"}, Settles(s, verdict)
      PROVE  EndsInOrder'
  BY <1>0, <1>7 DEF Settles, EndsInOrder
<1>8. CASE StopAll
  <2>1. errors' = errors
    BY <1>8 DEF StopAll
  <2>2. \A s \in Sessions : /\ sess'[s].stage = sess[s].stage
                            /\ sess'[s].browser = sess[s].browser
                            /\ sess'[s].verdict = sess[s].verdict
    BY <1>0, <1>8 DEF StopAll, SessionStates
  <2> QED
    BY <2>1, <2>2 DEF EndsInOrder
<1>9. CASE Restart
  BY <1>9 DEF Restart, Unused, EndsInOrder
<1>10. ASSUME NEW s \in Sessions, OpenFails(s) \/ Authenticates(s) \/ BrowserCloses(s)
      PROVE  EndsInOrder'
  <2>0. /\ sess[s].stage \in {"mark", "watched"} => sess[s].browser \/ sess[s].verdict # "pending"
        /\ sess[s].stage = "lost" => errors > 0
    BY DEF EndsInOrder
  <2>1. /\ errors' = errors \/ errors' = errors + 1
        /\ \A u \in Sessions \ {s} : sess'[u] = sess[u]
    BY <1>0, <1>10 DEF OpenFails, Authenticates, BrowserCloses, SessionStates
  <2>2. sess'[s].stage \in {"mark", "watched"} => sess'[s].browser \/ sess'[s].verdict # "pending"
    BY <1>0, <1>10, <2>0 DEF OpenFails, Authenticates, BrowserCloses, SessionStates
  <2>3. sess'[s].stage = "lost" => errors' > 0
    BY <1>0, <1>10, <2>0 DEF OpenFails, Authenticates, BrowserCloses, SessionStates
  <2> QED
    BY <1>0, <2>1, <2>2, <2>3, EndsKept
<1>11. \A a \in Accounts :
        HealthCheck(a) \/ RequestScrape(a) \/ WorkerJoins(a) \/ WorkerFindsLive(a) \/ JobTimeout(a)
          => UNCHANGED <<sess, errors>>
  BY DEF HealthCheck, RequestScrape, Enqueue, WorkerJoins, WorkerFindsLive, JobTimeout
<1>12. ResetOrphans \/ SchedulerStarts \/ UNCHANGED vars => UNCHANGED <<sess, errors>>
  BY DEF ResetOrphans, SchedulerStarts, vars
<1>13. CASE BootFails
  BY <1>0, <1>13 DEF BootFails, EndsInOrder
<1> QED
  BY <1>1, <1>2, <1>3, <1>4, <1>5, <1>6, <1>7, <1>8, <1>9, <1>10, <1>11, <1>12, <1>13
  DEF Next, Operator, Unattended, Kill, WorkerStep, Handlers, SessionLost, SessionStops, Verdicts

LEMMA WaitsStep == Inv /\ WaitsInMap /\ [Next]_vars => WaitsInMap'
<1> SUFFICES ASSUME Inv, WaitsInMap, [Next]_vars  PROVE WaitsInMap'
  OBVIOUS
<1> USE DEF WaitsInMap
<1>0. /\ starting \in [Accounts -> Sessions \cup {None}]
      /\ worker \in [Accounts -> Sessions \cup {None}]
      /\ None \notin Sessions
  BY SessionAssumption DEF Inv, TypeOK
<1>1. CASE UNCHANGED <<starting, worker>>
  BY <1>1
<1>2. ASSUME NEW a \in Accounts, NEW s \in Sessions, WorkerLaunches(a, s) \/ Reactivate(a, s)
      PROVE  WaitsInMap'
  BY <1>0, <1>2 DEF WorkerLaunches, Reactivate, Launch, IsRunning
<1>3. ASSUME NEW a \in Accounts, WorkerJoins(a) \/ JobTimeout(a)
      PROVE  WaitsInMap'
  BY <1>0, <1>3 DEF WorkerJoins, JobTimeout, JobFails
<1>4. ASSUME NEW s \in Sessions, RefusalRecorded(s) \/ RefusalLost(s) \/ Marked(s) \/ MarkFails(s)
      PROVE  WaitsInMap'
  <2>1. LET a == sess[s].account IN
          /\ starting' = [starting EXCEPT ![a] = None]
          /\ worker' = [worker EXCEPT ![a] = None]
    BY <1>4 DEF RefusalRecorded, RefusalLost, RefusalEnds, Marked, MarkFails, JobCompletes, JobFails
  <2> QED
    BY <1>0, <2>1
<1>5. CASE Restart
  BY <1>5 DEF Restart
<1>6. \A a \in Accounts : HealthCheck(a) \/ RequestScrape(a) \/ WorkerFindsLive(a)
        => UNCHANGED <<starting, worker>>
  BY DEF HealthCheck, RequestScrape, Enqueue, WorkerFindsLive
<1>7. \A s \in Sessions :
        \/ OpenFails(s) \/ Authenticates(s) \/ BrowserCloses(s) \/ DoneResolves(s)
        \/ DoneRejects(s) \/ EndRecorded(s) \/ EndWriteFails(s) \/ CrashWriteFails(s)
        \/ (\E assisted \in BOOLEAN : Opens(s, assisted))
        \/ \E verdict \in Verdicts : Settles(s, verdict)
        => UNCHANGED <<starting, worker>>
  BY DEF OpenFails, Authenticates, BrowserCloses, DoneResolves, DoneRejects, EndRecorded, Frees,
         EndWriteFails, CrashWriteFails, Opens, Settles
<1>8. ResetOrphans \/ SchedulerStarts \/ BootFails \/ StopAll \/ UNCHANGED vars
        => UNCHANGED <<starting, worker>>
  BY DEF ResetOrphans, SchedulerStarts, BootFails, StopAll, vars
<1> QED
  BY <1>1, <1>2, <1>3, <1>4, <1>5, <1>6, <1>7, <1>8
  DEF Next, Operator, Unattended, Kill, WorkerStep, Handlers, SessionLost, SessionStops, Verdicts

(* No slot is left with a handle whose end nobody will take further,       *)
(* unless its row could not be marked, and no job waits for a launch that  *)
(* is over, whatever is lost, killed, timed out, refused or restarted.     *)
THEOREM NothingIsStranded == Spec => []NothingStranded
<1>1. Init => EndsInOrder /\ WaitsInMap
  BY DEF Init, EndsInOrder, WaitsInMap, Unused
<1>2. Inv /\ EndsInOrder /\ WaitsInMap => NothingStranded
  <2> SUFFICES ASSUME Inv, EndsInOrder, WaitsInMap  PROVE NothingStranded
    OBVIOUS
  <2>1. ASSUME NEW a \in Accounts, IsRunning(a)
        PROVE  \E s \in Sessions : sess[s].account = a /\ SeenTo(s)
    <3>1. PICK s \in Sessions : live[a] = s \/ starting[a] = s
      BY <2>1 DEF IsRunning, Inv, TypeOK
    <3>2. sess[s].account = a /\ sess[s].stage \in Launching \cup Holding
      BY <3>1 DEF Inv, Slots
    <3>3. SeenTo(s)
      BY <3>2 DEF EndsInOrder, SeenTo, Ended, Launching, Holding
    <3> QED
      BY <3>2, <3>3
  <2>2. ASSUME NEW a \in Accounts, worker[a] # None
        PROVE  job[a] > 0 /\ \E s \in Sessions : sess[s].account = a /\ sess[s].stage \in Launching
    <3>1. worker[a] \in Sessions /\ starting[a] = worker[a]
      BY <2>2 DEF WaitsInMap, Inv, TypeOK
    <3> QED
      BY <2>2, <3>1 DEF Inv, Slots, Jobs
  <2> QED
    BY <2>1, <2>2 DEF NothingStranded
<1> QED
  BY <1>1, <1>2, AlwaysInv, EndsStep, WaitsStep, PTL DEF Spec

-----------------------------------------------------------------------------
(* What the maps say of the holder of a handle's account. *)
LEMMA HolderOf ==
  ASSUME Inv, NEW s \in Sessions, sess[s].stage # "unused"
  PROVE  LET a == sess[s].account IN
         /\ a \in Accounts /\ s # None
         /\ sess[s].stage \in {"open", "refused"} => starting[a] = s /\ live[a] = None
         /\ sess[s].stage = "mark" => starting[a] = s /\ live[a] = s
         /\ sess[s].stage \in {"watched", "end", "crash"} => starting[a] = None /\ live[a] = s
<1>1. /\ sess[s].account \in Accounts /\ s # None
      /\ live[sess[s].account] \in Sessions \cup {None}
      /\ starting[sess[s].account] \in Sessions \cup {None}
  BY SessionAssumption DEF Inv, Slots, TypeOK
<1> QED
  BY <1>1 DEF Inv, Slots, Launching, Holding

(* A step that touches neither map nor the rows leaves the lease alone. *)
LEMMA LeaseStutters ==
  ASSUME UNCHANGED <<live, starting, row>>, (phase = "boot") <=> (phase' = "boot")
  PROVE  UNCHANGED <<Holder, PastLaunch, row, phase = "boot">>
  BY DEF Holder, PastLaunch

(* ensureRunning takes the lease: the account is in neither map. *)
LEMMA LaunchTakes ==
  ASSUME Inv, NEW a \in Accounts, NEW s \in Sessions,
         Launch(a, s), UNCHANGED <<live, row, phase>>
  PROVE  LeaseView!Take(a, s)
<1>1. s # None /\ starting' = [starting EXCEPT ![a] = s]
  BY SessionAssumption DEF Launch
<1>2. live[a] = None /\ starting[a] = None
  BY DEF Launch, IsRunning
<1>3. LeaseView!Free(a)
  BY <1>2 DEF LeaseView!Free, Holder
<1>4. sess[s].stage = "unused"
  BY DEF Launch, Unused
<1>5. \A b \in Accounts : Holder[b] # s
  BY <1>4 DEF Holder, Inv, Slots, Launching, Holding
<1>6. Holder' = [Holder EXCEPT ![a] = s]
  BY <1>1 DEF Holder, Inv, TypeOK
<1>7. PastLaunch' = PastLaunch
  BY <1>1, <1>2 DEF PastLaunch, Inv, TypeOK
<1> QED
  BY <1>3, <1>5, <1>6, <1>7 DEF LeaseView!Take

(* The rows are written by one step at a time, of one account. *)
LEMMA RowWritten ==
  ASSUME Inv, NEW a \in Accounts, NEW statuses,
         \/ row' = row
         \/ \E st \in statuses : row' = [row EXCEPT ![a] = st]
  PROVE  LeaseView!Writes(a, statuses)
<1>1. row = [row EXCEPT ![a] = row[a]]
  BY DEF Inv, TypeOK
<1> QED
  BY <1>1 DEF LeaseView!Writes

(* startFn answers: the handle goes into the second map, under the lease   *)
(* it has.                                                                 *)
LEMMA OpensKeeps ==
  ASSUME Inv, NEW s \in Sessions, NEW assisted \in BOOLEAN, Opens(s, assisted)
  PROVE  UNCHANGED <<Holder, PastLaunch, row, phase = "boot">>
<1>1. /\ sess[s].account \in Accounts /\ s # None
      /\ starting[sess[s].account] = s /\ live[sess[s].account] = None
  BY HolderOf DEF Opens
<1>2. live' = [live EXCEPT ![sess[s].account] = s] /\ UNCHANGED <<starting, row, phase>>
  BY DEF Opens
<1>3. Holder' = Holder
  BY <1>1, <1>2 DEF Holder, Inv, TypeOK
<1>4. PastLaunch' = PastLaunch
  BY <1>1, <1>2 DEF PastLaunch, Inv, TypeOK
<1> QED
  BY <1>2, <1>3, <1>4

(* markRunning answers or rejects: the launch is over, with a session. *)
LEMMA MarkSettles ==
  ASSUME Inv, NEW s \in Sessions, Marked(s) \/ MarkFails(s)
  PROVE  LeaseView!Settle(sess[s].account)
<1> DEFINE a == sess[s].account
<1>1. a \in Accounts /\ s # None /\ starting[a] = s /\ live[a] = s
  BY HolderOf DEF Marked, MarkFails
<1>2. starting' = [starting EXCEPT ![a] = None] /\ UNCHANGED <<live, phase>>
  BY DEF Marked, MarkFails
<1>3. row' = row \/ row' = [row EXCEPT ![a] = "running"]
  BY DEF Marked, MarkFails
<1> HIDE DEF a
<1>4. LeaseView!Writes(a, {"running"})
  BY <1>1, <1>3, RowWritten
<1>5. Holder' = Holder
  BY <1>1, <1>2 DEF Holder, Inv, TypeOK
<1>6. a \notin PastLaunch /\ PastLaunch' = PastLaunch \cup {a}
  BY <1>1, <1>2, SessionAssumption DEF PastLaunch, Inv, TypeOK
<1>7. ~LeaseView!Free(a)
  BY <1>1, SessionAssumption DEF LeaseView!Free, Holder
<1>8. LeaseView!Settle(a)
  BY <1>2, <1>4, <1>5, <1>6, <1>7 DEF LeaseView!Settle
<1> QED
  BY <1>8 DEF a

(* A refused start gives the lease up, recorded or not. *)
LEMMA RefusalGivesUp ==
  ASSUME Inv, NEW s \in Sessions, RefusalRecorded(s) \/ RefusalLost(s)
  PROVE  LeaseView!GiveUp(sess[s].account)
<1> DEFINE a == sess[s].account
<1>1. a \in Accounts /\ s # None /\ starting[a] = s /\ live[a] = None
  BY HolderOf DEF RefusalRecorded, RefusalLost, RefusalEnds
<1>2. starting' = [starting EXCEPT ![a] = None] /\ UNCHANGED <<live, phase>>
  BY DEF RefusalRecorded, RefusalLost, RefusalEnds
<1>3. row' = row \/ row' = [row EXCEPT ![a] = "stopped"]
  BY DEF RefusalRecorded, RefusalLost
<1> HIDE DEF a
<1>4. LeaseView!Writes(a, {"stopped"})
  BY <1>1, <1>3, RowWritten
<1>5. Holder' = [Holder EXCEPT ![a] = None]
  BY <1>1, <1>2 DEF Holder, Inv, TypeOK
<1>6. a \notin PastLaunch /\ PastLaunch' = PastLaunch
  BY <1>1, <1>2 DEF PastLaunch, Inv, TypeOK
<1>7. ~LeaseView!Free(a)
  BY <1>1, SessionAssumption DEF LeaseView!Free, Holder
<1>8. LeaseView!GiveUp(a)
  BY <1>2, <1>4, <1>5, <1>6, <1>7 DEF LeaseView!GiveUp
<1> QED
  BY <1>8 DEF a

(* The end of a session gives the lease back in the step that records it,  *)
(* or fails to.                                                            *)
LEMMA EndReleases ==
  ASSUME Inv, NEW s \in Sessions, EndRecorded(s) \/ CrashWriteFails(s)
  PROVE  LeaseView!Release(sess[s].account)
<1> DEFINE a == sess[s].account
<1>1. a \in Accounts /\ s # None /\ starting[a] = None /\ live[a] = s
  BY HolderOf DEF EndRecorded, CrashWriteFails
<1>2. live' = [live EXCEPT ![a] = None] /\ UNCHANGED <<starting, phase>>
  BY DEF EndRecorded, CrashWriteFails, Frees
<1>3. row' = row \/ \E st \in {"stopped", "needs_attention"} : row' = [row EXCEPT ![a] = st]
  BY DEF EndRecorded, CrashWriteFails, EndStatus
<1> HIDE DEF a
<1>4. LeaseView!Writes(a, {"stopped", "needs_attention"})
  BY <1>1, <1>3, RowWritten
<1>5. Holder' = [Holder EXCEPT ![a] = None]
  BY <1>1, <1>2 DEF Holder, Inv, TypeOK
<1>6. a \in PastLaunch /\ PastLaunch' = PastLaunch \ {a}
  BY <1>1, <1>2, SessionAssumption DEF PastLaunch, Inv, TypeOK
<1>7. LeaseView!Release(a)
  BY <1>2, <1>4, <1>5, <1>6 DEF LeaseView!Release
<1> QED
  BY <1>7 DEF a

(* SIGTERM leaves the leases with their sessions; the boot corrects the    *)
(* rows, a death ends all leases.                                          *)
LEMMA ProcessLeases ==
  ASSUME Inv, ResetOrphans \/ SchedulerStarts \/ BootFails \/ StopAll \/ Restart
  PROVE  [LeaseView!Next]_<<Holder, PastLaunch, row, phase = "boot">>
<1>1. CASE ResetOrphans
  <2>1. UNCHANGED <<Holder, PastLaunch>>
    BY <1>1 DEF ResetOrphans, Holder, PastLaunch
  <2>2. LeaseView!Reset
    BY <1>1, <2>1 DEF ResetOrphans, LeaseView!Reset
  <2> QED
    BY <2>2 DEF LeaseView!Next
<1>2. CASE SchedulerStarts \/ StopAll
  BY <1>2, LeaseStutters DEF SchedulerStarts, StopAll
<1>3. CASE Restart
  <2>1. Holder' = [a \in Accounts |-> None] /\ PastLaunch' = {}
    BY <1>3 DEF Restart, Holder, PastLaunch
  <2>2. LeaseView!Die
    BY <1>3, <2>1 DEF Restart, LeaseView!Die
  <2> QED
    BY <2>2 DEF LeaseView!Next
<1>4. CASE BootFails
  <2>1. UNCHANGED <<Holder, PastLaunch, row>>
    BY <1>4 DEF BootFails, Holder, PastLaunch
  <2>2. CASE phase = "boot"
    <3>1. LeaseView!Reset
      BY <1>4, <2>1, <2>2 DEF BootFails, LeaseView!Reset
    <3> QED
      BY <3>1 DEF LeaseView!Next
  <2>3. CASE phase # "boot"
    BY <1>4, <2>1, <2>3 DEF BootFails
  <2> QED
    BY <2>2, <2>3
<1> QED
  BY <1>1, <1>2, <1>3, <1>4

(* Every step of the manager, of its callers and of the sessions is one of *)
(* the lease, or does not concern it.                                      *)
LEMMA LeaseStep ==
  Inv /\ [Next]_vars => [LeaseView!Next]_<<Holder, PastLaunch, row, phase = "boot">>
<1> SUFFICES ASSUME Inv, [Next]_vars
             PROVE  [LeaseView!Next]_<<Holder, PastLaunch, row, phase = "boot">>
  OBVIOUS
<1>1. CASE UNCHANGED vars
  BY <1>1, LeaseStutters DEF vars
<1>2. ASSUME NEW a \in Accounts, NEW s \in Sessions, WorkerLaunches(a, s) \/ Reactivate(a, s)
      PROVE  LeaseView!Next
  BY <1>2, LaunchTakes DEF WorkerLaunches, Reactivate, LeaseView!Next
<1>3. ASSUME NEW a \in Accounts,
             \/ HealthCheck(a) \/ RequestScrape(a) \/ WorkerJoins(a) \/ WorkerFindsLive(a)
             \/ JobTimeout(a) \/ Kill(a)
      PROVE  UNCHANGED <<Holder, PastLaunch, row, phase = "boot">>
  <2>1. UNCHANGED <<live, starting, row, phase>>
    BY <1>3 DEF HealthCheck, RequestScrape, Enqueue, WorkerJoins, WorkerFindsLive,
                JobTimeout, Kill, Settles
  <2> QED
    BY <2>1, LeaseStutters
<1>4. ASSUME NEW s \in Sessions,
             \/ BrowserCloses(s) \/ DoneResolves(s) \/ DoneRejects(s) \/ OpenFails(s)
             \/ Authenticates(s) \/ SessionLost(s) \/ SessionStops(s) \/ EndWriteFails(s)
      PROVE  UNCHANGED <<Holder, PastLaunch, row, phase = "boot">>
  <2>1. UNCHANGED <<live, starting, row, phase>>
    BY <1>4 DEF BrowserCloses, DoneResolves, DoneRejects, OpenFails, Authenticates,
                SessionLost, SessionStops, Settles, EndWriteFails
  <2> QED
    BY <2>1, LeaseStutters
<1>5. ASSUME NEW s \in Sessions,
             \/ RefusalRecorded(s) \/ RefusalLost(s) \/ Marked(s) \/ MarkFails(s)
             \/ EndRecorded(s) \/ CrashWriteFails(s)
      PROVE  LeaseView!Next
  <2>1. sess[s].account \in Accounts
    BY <1>5, HolderOf DEF RefusalRecorded, RefusalLost, RefusalEnds, Marked, MarkFails,
                          EndRecorded, CrashWriteFails
  <2> QED
    BY <1>5, <2>1, RefusalGivesUp, MarkSettles, EndReleases DEF LeaseView!Next
<1>6. CASE Operator
  BY <1>2, <1>3, <1>6 DEF Operator
<1>7. CASE \E a \in Accounts : HealthCheck(a) \/ WorkerStep(a) \/ JobTimeout(a)
  BY <1>2, <1>3, <1>7 DEF WorkerStep
<1>8. CASE ResetOrphans \/ SchedulerStarts \/ BootFails \/ StopAll \/ Restart
  BY <1>8, ProcessLeases
<1> QED
  BY <1>1, <1>4, <1>5, <1>6, <1>7, <1>8, OpensKeeps DEF Next, Unattended, Handlers

(* SessionManager implements the lease: whoever asks for sessions, however *)
(* they end, and whatever the database refuses, the profile and the row of *)
(* an account belong to one launch at a time.                              *)
THEOREM ManagerImplementsLease == Spec => ImplementsLease
<1>1. Init => LeaseView!Init
  BY DEF Init, LeaseView!Init, Holder, PastLaunch
<1> QED
  BY <1>1, AlwaysInv, LeaseStep, PTL
  DEF Spec, ImplementsLease, LeaseView!Spec, LeaseView!leaseVars
=============================================================================
