------------------------------ MODULE Webhooks ------------------------------
(***************************************************************************)
(* Webhooks of bank movements and of matched orders: the two queues, their *)
(* workers (NotifyBankMovementUseCase, NotifyWebhookUseCase), the dead     *)
(* letters written when a job ends, and the operator who notifies a        *)
(* movement (ReNotifyBankMovementUseCase) or an order again.               *)
(*                                                                         *)
(* A step is what happens between two awaits.  The database or Redis may   *)
(* answer with an error, the endpoint may take a payload and its answer be *)
(* lost, and the process may die: these are the faults.                    *)
(***************************************************************************)
EXTENDS Integers

CONSTANTS
  Movements,    \* bank movements of a passthrough account, with a sender
  Requests,     \* orders that are matched
  MaxTries,     \* attempts of a job (webhookJobOptions.attempts)
  MaxRedrives,  \* bound: times an operator notifies a movement again
  MaxRepeats,   \* bound: times an operator notifies an order again
  MaxFaults     \* bound: faults in a behaviour

ASSUME WebhookAssumption ==
  /\ Movements \cap Requests = {}
  /\ MaxTries \in Nat \ {0}
  /\ MaxRedrives \in Nat
  /\ MaxRepeats \in Nat
  /\ MaxFaults \in Nat

Subjects == Movements \cup Requests

VARIABLES
  config,     \* the account's: "send", "silent" (silentIngestion), "off" (no url)
  stage,      \* "absent", "saved" (its event is not out yet), "seen"
  notified,   \* bank_transactions.notified_at, conciliated_transactions.is_notified
  job,        \* where the job of a subject stands, and the attempts it has left
  letter,     \* an unresolved row of webhook_dead_letters
  events,     \* handlers of "completed" and "failed" that are under way
  redrive,    \* where the operator's request for a movement stands
  delivered,  \* payloads the endpoint took, so far
  misheard,   \* those the code took for a failure
  redriven,   \* times the operator notified a subject again
  owed,       \* re-notified before its job had posted, and neither sent nor failed since
  faults      \* faults so far

vars == <<config, stage, notified, job, letter, events, redrive,
          delivered, misheard, redriven, owed, faults>>

database == <<notified, letter>>
history  == <<delivered, misheard, redriven, owed>>
operator == <<config, stage, redrive>>

Claimed == {"post", "audit", "release"}
Busy    == Claimed \cup {"claim", "log", "mark"}
NoJob   == [at |-> "none", tries |-> 0]
Queued  == [at |-> "waiting", tries |-> MaxTries]

Init ==
  /\ config \in {"send", "silent", "off"}
  /\ stage = [x \in Subjects |-> "absent"]
  /\ notified = [x \in Subjects |-> FALSE]
  /\ job = [x \in Subjects |-> NoJob]
  /\ letter = [x \in Subjects |-> FALSE]
  /\ events = [x \in Subjects |-> {}]
  /\ redrive = [m \in Movements |-> "idle"]
  /\ delivered = [x \in Subjects |-> 0]
  /\ misheard = [x \in Subjects |-> 0]
  /\ redriven = [x \in Subjects |-> 0]
  /\ owed = [x \in Subjects |-> FALSE]
  /\ faults = 0

Fault == faults < MaxFaults /\ faults' = faults + 1

-----------------------------------------------------------------------------
(* The queues: a job is known by its subject, and adding it again does     *)
(* nothing while it is there, be it failed.                                *)

Add(x) == job' = [job EXCEPT ![x] = IF @ = NoJob THEN Queued ELSE @]

Goes(x, at) == job' = [job EXCEPT ![x].at = at]

Completes(x) ==
  /\ job' = [job EXCEPT ![x] = NoJob]
  /\ events' = [events EXCEPT ![x] = @ \cup {"completed"}]

(* Mutation: the last attempt is not recognized as final. *)
AttemptFailsUnnoticed(x) ==
  /\ job' = [job EXCEPT ![x] = [at |-> IF @.tries = 1 THEN "failed" ELSE "waiting",
                               tries |-> @.tries - 1]]
  /\ owed' = [owed EXCEPT ![x] = @ /\ job[x].tries # 1]
  /\ UNCHANGED events

(* The attempt throws: another one later, or the last was final. *)
AttemptFails(x) ==
  LET final == job[x].tries = 1 IN
  /\ job' = [job EXCEPT ![x] = [at |-> IF final THEN "failed" ELSE "waiting",
                               tries |-> @.tries - 1]]
  /\ events' = [events EXCEPT ![x] = IF final THEN @ \cup {"failed"} ELSE @]
  /\ owed' = [owed EXCEPT ![x] = @ /\ ~final]

-----------------------------------------------------------------------------
(* Where the jobs come from. *)

MovementSaved(m) ==
  /\ stage[m] = "absent"
  /\ stage' = [stage EXCEPT ![m] = "saved"]
  /\ UNCHANGED <<config, database, job, events, redrive, history, faults>>

MovementPublished(m) ==
  /\ stage[m] = "saved"
  /\ stage' = [stage EXCEPT ![m] = "seen"]
  /\ Add(m)
  /\ UNCHANGED <<config, database, events, redrive, history, faults>>

(* Redis refuses, and a later scrape finds the movement in the table. *)
PublishFails(m) ==
  /\ stage[m] = "saved" /\ Fault
  /\ stage' = [stage EXCEPT ![m] = "seen"]
  /\ UNCHANGED <<config, database, job, events, redrive, history>>

MatchPublished(r) ==
  /\ stage[r] = "absent"
  /\ stage' = [stage EXCEPT ![r] = "seen"]
  /\ Add(r)
  /\ UNCHANGED <<config, database, events, redrive, history, faults>>

-----------------------------------------------------------------------------
(* An attempt. *)

(* No url: the use case returns and the job is done. *)
Skipped(x) ==
  /\ job[x].at = "waiting" /\ config = "off"
  /\ Completes(x)
  /\ UNCHANGED <<operator, database, history, faults>>

MovementTaken(m) ==
  /\ job[m].at = "waiting" /\ config # "off"
  /\ Goes(m, "claim")
  /\ UNCHANGED <<operator, database, events, history, faults>>

RequestTaken(r) ==
  /\ job[r].at = "waiting" /\ config # "off"
  /\ Goes(r, "post")
  /\ UNCHANGED <<operator, database, events, history, faults>>

(* claimNotification set notified_at; a silent account stops here. *)
ClaimWon(m) ==
  /\ job[m].at = "claim" /\ ~notified[m] /\ config # "silent"
  /\ notified' = [notified EXCEPT ![m] = TRUE]
  /\ Goes(m, "post")
  /\ UNCHANGED <<operator, letter, events, history, faults>>

ClaimSilenced(m) ==
  /\ job[m].at = "claim" /\ ~notified[m] /\ config = "silent"
  /\ notified' = [notified EXCEPT ![m] = TRUE]
  /\ Completes(m)
  /\ UNCHANGED <<operator, letter, history, faults>>

(* Mutation: the claim is not compared with what the row says. *)
ClaimIgnored(m) ==
  /\ job[m].at = "claim" /\ notified[m]
  /\ Goes(m, "post")
  /\ UNCHANGED <<operator, database, events, history, faults>>

ClaimRefused(m) ==
  /\ job[m].at = "claim" /\ notified[m]
  /\ Completes(m)
  /\ UNCHANGED <<operator, database, history, faults>>

ClaimFails(m) ==
  /\ job[m].at = "claim" /\ Fault
  /\ AttemptFails(m)
  /\ UNCHANGED <<operator, database, delivered, misheard, redriven>>

Delivers(x) ==
  /\ delivered' = [delivered EXCEPT ![x] = @ + 1]
  /\ owed' = [owed EXCEPT ![x] = FALSE]

PostAnswered(x) ==
  /\ job[x].at = "post"
  /\ Delivers(x)
  /\ Goes(x, "log")
  /\ UNCHANGED <<operator, database, events, misheard, redriven, faults>>

PostRefused(x) ==
  /\ job[x].at = "post"
  /\ Goes(x, "audit")
  /\ UNCHANGED <<operator, database, events, history, faults>>

(* The endpoint took the payload and its answer came after the timeout. *)
PostUnheard(x) ==
  /\ job[x].at = "post" /\ Fault
  /\ Delivers(x)
  /\ misheard' = [misheard EXCEPT ![x] = @ + 1]
  /\ Goes(x, "audit")
  /\ UNCHANGED <<operator, database, events, redriven>>

(* The audit row of a success. *)
MovementLogged(m) ==
  /\ job[m].at = "log"
  /\ Completes(m)
  /\ UNCHANGED <<operator, database, history, faults>>

RequestLogged(r) ==
  /\ job[r].at = "log"
  /\ Goes(r, "mark")
  /\ UNCHANGED <<operator, database, events, history, faults>>

(* It is refused inside the try, so that a success becomes a failure. *)
LogFails(x) ==
  /\ job[x].at = "log" /\ Fault
  /\ misheard' = [misheard EXCEPT ![x] = @ + 1]
  /\ Goes(x, "audit")
  /\ UNCHANGED <<operator, database, events, delivered, redriven, owed>>

(* The audit row of a failure; refused or not, an error is thrown. *)
MovementAudited(m) ==
  /\ job[m].at = "audit"
  /\ Goes(m, "release")
  /\ UNCHANGED <<operator, database, events, history, faults>>

RequestAudited(r) ==
  /\ job[r].at = "audit"
  /\ AttemptFails(r)
  /\ UNCHANGED <<operator, database, delivered, misheard, redriven, faults>>

(* Mutation: a failed attempt keeps its claim. *)
ReleasedNever(m) ==
  /\ job[m].at = "release"
  /\ AttemptFails(m)
  /\ UNCHANGED <<operator, database, delivered, misheard, redriven, faults>>

Released(m) ==
  /\ job[m].at = "release"
  /\ notified' = [notified EXCEPT ![m] = FALSE]
  /\ AttemptFails(m)
  /\ UNCHANGED <<operator, letter, delivered, misheard, redriven, faults>>

ReleaseFails(m) ==
  /\ job[m].at = "release" /\ Fault
  /\ AttemptFails(m)
  /\ UNCHANGED <<operator, database, delivered, misheard, redriven>>

(* matchRepo.markNotified. *)
RequestMarked(r) ==
  /\ job[r].at = "mark"
  /\ notified' = [notified EXCEPT ![r] = TRUE]
  /\ Completes(r)
  /\ UNCHANGED <<operator, letter, history, faults>>

MarkFails(r) ==
  /\ job[r].at = "mark" /\ Fault
  /\ AttemptFails(r)
  /\ UNCHANGED <<operator, database, delivered, misheard, redriven>>

-----------------------------------------------------------------------------
(* Dead letters: the handlers of the worker's events, which nobody waits   *)
(* for and which swallow the errors of the database.                       *)

Handled(x, event) ==
  /\ event \in events[x]
  /\ events' = [events EXCEPT ![x] = @ \ {event}]
  /\ UNCHANGED <<operator, notified, job, history>>

LetterRecorded(x) == /\ Handled(x, "failed")
                     /\ letter' = [letter EXCEPT ![x] = TRUE]
                     /\ UNCHANGED faults

LetterResolved(x) == /\ Handled(x, "completed")
                     /\ letter' = [letter EXCEPT ![x] = FALSE]
                     /\ UNCHANGED faults

LetterFails(x) == /\ \E event \in events[x] : Handled(x, event)
                  /\ Fault
                  /\ UNCHANGED letter

-----------------------------------------------------------------------------
(* POST .../:movementId/notify: release the claim, drop the job unless a   *)
(* worker has it in hand, add it.                                          *)

RedriveReleases(m) ==
  /\ stage[m] # "absent" /\ redrive[m] = "idle"
  /\ redriven[m] < MaxRedrives /\ redriven' = [redriven EXCEPT ![m] = @ + 1]
  /\ redrive' = [redrive EXCEPT ![m] = "remove"]
  /\ notified' = [notified EXCEPT ![m] = FALSE]
  /\ owed' = [owed EXCEPT ![m] = job[m].at # "log"]
  /\ UNCHANGED <<config, stage, letter, job, events, delivered, misheard, faults>>

(* Mutation: the failed job of the last time is left in the queue. *)
RedriveRemovesNothing(m) ==
  /\ redrive[m] = "remove"
  /\ redrive' = [redrive EXCEPT ![m] = "add"]
  /\ UNCHANGED <<config, stage, database, job, events, history, faults>>

RedriveRemoves(m) ==
  /\ redrive[m] = "remove"
  /\ redrive' = [redrive EXCEPT ![m] = "add"]
  /\ job' = [job EXCEPT ![m] = IF @.at \in Busy THEN @ ELSE NoJob]
  /\ UNCHANGED <<config, stage, database, events, history, faults>>

(* Mutation: notifying again closes the dead letter. *)
RedriveAddsAndResolves(m) ==
  /\ redrive[m] = "add"
  /\ redrive' = [redrive EXCEPT ![m] = "idle"]
  /\ letter' = [letter EXCEPT ![m] = FALSE]
  /\ Add(m)
  /\ UNCHANGED <<config, stage, notified, events, history, faults>>

RedriveAdds(m) ==
  /\ redrive[m] = "add"
  /\ redrive' = [redrive EXCEPT ![m] = "idle"]
  /\ Add(m)
  /\ UNCHANGED <<config, stage, database, events, history, faults>>

(* POST .../:requestId/notify: an order gets a job of its own, whatever    *)
(* its flag says and however the last one ended.                           *)
RequestRenotified(r) ==
  /\ stage[r] = "seen" /\ job[r].at \in {"none", "failed"}
  /\ redriven[r] < MaxRepeats /\ redriven' = [redriven EXCEPT ![r] = @ + 1]
  /\ job' = [job EXCEPT ![r] = Queued]
  /\ UNCHANGED <<operator, database, events, delivered, misheard, owed, faults>>

(* Redis refuses, with the claim released. *)
RedriveFails(m) ==
  /\ redrive[m] # "idle" /\ Fault
  /\ redrive' = [redrive EXCEPT ![m] = "idle"]
  /\ UNCHANGED <<config, stage, database, job, events, history>>

-----------------------------------------------------------------------------
(* The process dies: BullMQ gives a stalled job back to its queue; what    *)
(* only memory knew is lost.                                               *)
Crash ==
  /\ Fault
  /\ job' = [x \in Subjects |->
               IF job[x].at \in Busy THEN [job[x] EXCEPT !.at = "waiting"] ELSE job[x]]
  /\ stage' = [x \in Subjects |-> IF stage[x] = "saved" THEN "seen" ELSE stage[x]]
  /\ events' = [x \in Subjects |-> {}]
  /\ redrive' = [m \in Movements |-> "idle"]
  /\ UNCHANGED <<config, database, history>>

(* What goes on by itself when nothing fails. *)
Attempt(x) == Skipped(x) \/ PostAnswered(x) \/ PostRefused(x)
MovementGoes(m) ==
  \/ MovementPublished(m) \/ MovementTaken(m) \/ ClaimWon(m) \/ ClaimSilenced(m)
  \/ ClaimRefused(m) \/ MovementLogged(m) \/ MovementAudited(m) \/ Released(m)
  \/ Attempt(m)
RequestGoes(r) ==
  RequestTaken(r) \/ RequestLogged(r) \/ RequestAudited(r) \/ RequestMarked(r) \/ Attempt(r)
HandlerGoes(x) == LetterRecorded(x) \/ LetterResolved(x)
RedriveGoes(m) == RedriveRemoves(m) \/ RedriveAdds(m)

Next ==
  \/ \E m \in Movements :
       \/ MovementSaved(m) \/ MovementGoes(m) \/ PublishFails(m)
       \/ ClaimFails(m) \/ ReleaseFails(m)
       \/ RedriveReleases(m) \/ RedriveGoes(m) \/ RedriveFails(m)
  \/ \E r \in Requests :
       MatchPublished(r) \/ RequestGoes(r) \/ MarkFails(r) \/ RequestRenotified(r)
  \/ \E x \in Subjects : HandlerGoes(x) \/ PostUnheard(x) \/ LogFails(x) \/ LetterFails(x)
  \/ Crash

Spec == Init /\ [][Next]_vars

(* A worker goes on with its job, and a request or a handler with its      *)
(* awaits.  The operator and the endpoint owe nothing.                     *)
Fairness ==
  /\ \A m \in Movements : WF_vars(MovementGoes(m)) /\ WF_vars(RedriveGoes(m))
  /\ \A r \in Requests : WF_vars(RequestGoes(r))
  /\ \A x \in Subjects : WF_vars(HandlerGoes(x))

FairSpec == Spec /\ Fairness

-----------------------------------------------------------------------------
(* Properties *)

(* Types; an attempt is left as long as a job is not finished. *)
TypeOK ==
  /\ config \in {"send", "silent", "off"}
  /\ stage \in [Subjects -> {"absent", "saved", "seen"}]
  /\ notified \in [Subjects -> BOOLEAN]
  /\ job \in [Subjects -> [at : Busy \cup {"waiting"}, tries : 1..MaxTries]
                           \cup [at : {"none", "failed"}, tries : {0}]]
  /\ letter \in [Subjects -> BOOLEAN]
  /\ events \in [Subjects -> SUBSET {"completed", "failed"}]
  /\ redrive \in [Movements -> {"idle", "remove", "add"}]
  /\ delivered \in [Subjects -> Nat]
  /\ misheard \in [Subjects -> 0..MaxFaults]
  /\ redriven \in [Subjects -> Nat]
  /\ owed \in [Subjects -> BOOLEAN]
  /\ faults \in 0..MaxFaults

(* What the claim is for ("prevents double-send under concurrent           *)
(* retries"): the endpoint takes a movement once, once more for each time  *)
(* the operator asks, and once more for each success that was taken for a  *)
(* failure.  A crash, wherever it falls, adds none.                        *)
DeliveriesEarned ==
  \A m \in Movements : delivered[m] <= 1 + redriven[m] + misheard[m]

(* The flags are the source of truth: an order that says notified was      *)
(* delivered, and, without a fault, so was a movement that no attempt has  *)
(* in hand.                                                                *)
NotifiedMeansDelivered ==
  \A x \in Subjects :
    notified[x] /\ config = "send"
      => delivered[x] > 0 \/ (x \in Movements /\ (faults > 0 \/ job[x].at \in Claimed))

(* Without a fault, the dead letter of a subject that never arrived stays  *)
(* open, whoever notifies it again and in whatever order the handlers of   *)
(* the worker's events come.                                               *)
LetterStaysOpen ==
  [][\A x \in Subjects :
       letter[x] /\ ~letter'[x] => delivered[x] > 0 \/ faults > 0]_vars

(* Without a fault, what has to be sent is delivered or ends as a dead     *)
(* letter.                                                                 *)
Settled ==
  \A x \in Subjects :
    stage[x] # "absent" /\ config = "send" ~> delivered[x] > 0 \/ letter[x] \/ faults > 0

(* Without a fault, a movement notified again is delivered after that, or  *)
(* exhausts its attempts after that, unless its job has just posted and is *)
(* not gone yet: then the request is lost, although it is answered with    *)
(* "queued".                                                               *)
RedriveServed ==
  \A m \in Movements : owed[m] /\ config = "send" ~> ~owed[m] \/ faults > 0

=============================================================================
