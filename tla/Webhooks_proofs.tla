-------------------------- MODULE Webhooks_proofs --------------------------
(***************************************************************************)
(* Proofs about Webhooks, for every number of movements, orders, attempts, *)
(* requests of the operator and faults.                                    *)
(*                                                                         *)
(* Inv is the inductive invariant.  Budget is why the claim bounds what    *)
(* the endpoint takes: a movement is worth one more delivery while its row *)
(* is free to be claimed, and one while an attempt holds a claim it may    *)
(* still post under or give back; whoever adds to that worth (the          *)
(* operator, a success taken for a failure) is counted.  A crash only      *)
(* takes from it.                                                          *)
(*                                                                         *)
(* Kept is for behaviours without a fault: nothing that has to be sent,    *)
(* nor that the operator asked for, is dropped.                            *)
(***************************************************************************)
EXTENDS Webhooks, TLAPS

Heard == \A x \in Subjects : misheard[x] <= faults

Free(m)  == IF notified[m] THEN 0 ELSE 1
Armed(m) == IF job[m].at \in Claimed THEN 1 ELSE 0
Budget ==
  \A m \in Movements :
    delivered[m] + Free(m) + Armed(m) <= 1 + redriven[m] + misheard[m]

(* A worker has nothing in hand for an account that has no url. *)
Wanted == \A x \in Subjects : job[x].at \in Busy => config # "off"

(* A job that has posted and was told so was delivered. *)
Posted == \A x \in Subjects : job[x].at \in {"log", "mark"} => delivered[x] > 0

(* The configuration lets the subject be sent. *)
Sends(x) == config = "send" \/ (config = "silent" /\ x \in Requests)

(* Without a fault, only what may be sent can fail, and a job that is done *)
(* was delivered.                                                          *)
Letters ==
  faults = 0 =>
    \A x \in Subjects :
      /\ letter[x] \/ "failed" \in events[x] \/ job[x].at \in Claimed \cup {"log", "mark"}
           => Sends(x)
      /\ Sends(x) /\ "completed" \in events[x] => delivered[x] > 0

Inv == TypeOK /\ Heard /\ Budget /\ Wanted /\ Posted /\ NotifiedMeansDelivered /\ Letters

-----------------------------------------------------------------------------
LEMMA InitInv == Init => Inv
  BY WebhookAssumption
  DEF Init, Inv, TypeOK, Heard, Budget, Free, Armed, Wanted, Posted,
      NotifiedMeansDelivered,
      Letters, Sends, NoJob, Subjects, Claimed, Busy

(* Each step of a movement. *)
LEMMA MovementInv ==
  ASSUME Inv, NEW m \in Movements,
         MovementSaved(m) \/ MovementPublished(m) \/ PublishFails(m) \/
         MovementTaken(m) \/ ClaimWon(m) \/ ClaimSilenced(m) \/
         ClaimRefused(m) \/ ClaimFails(m) \/ MovementLogged(m) \/
         MovementAudited(m) \/ Released(m) \/ ReleaseFails(m) \/
         RedriveReleases(m) \/ RedriveRemoves(m) \/ RedriveAdds(m) \/
         RedriveFails(m)
  PROVE  Inv'
<1> USE WebhookAssumption
    DEF Inv, TypeOK, Heard, Budget, Free, Armed, Wanted, Posted, NotifiedMeansDelivered,
        Letters, Sends, Subjects, Busy, Claimed, NoJob, Queued, operator, database, history
<1>1. CASE MovementSaved(m)
  BY <1>1 DEF MovementSaved
<1>2. CASE MovementPublished(m)
  BY <1>2 DEF MovementPublished, Add
<1>3. CASE PublishFails(m)
  BY <1>3 DEF PublishFails, Fault
<1>4. CASE MovementTaken(m)
  BY <1>4 DEF MovementTaken, Goes
<1>5. CASE ClaimWon(m)
  BY <1>5 DEF ClaimWon, Goes
<1>6. CASE ClaimSilenced(m)
  BY <1>6 DEF ClaimSilenced, Completes
<1>7. CASE ClaimRefused(m)
  BY <1>7 DEF ClaimRefused, Completes
<1>8. CASE ClaimFails(m)
  BY <1>8 DEF ClaimFails, Fault, AttemptFails
<1>9. CASE MovementLogged(m)
  BY <1>9 DEF MovementLogged, Completes
<1>10. CASE MovementAudited(m)
  BY <1>10 DEF MovementAudited, Goes
<1>11. CASE Released(m)
  BY <1>11 DEF Released, AttemptFails
<1>12. CASE ReleaseFails(m)
  BY <1>12 DEF ReleaseFails, AttemptFails, Fault
<1>13. CASE RedriveReleases(m)
  BY <1>13 DEF RedriveReleases
<1>14. CASE RedriveRemoves(m)
  BY <1>14 DEF RedriveRemoves
<1>15. CASE RedriveAdds(m)
  BY <1>15 DEF RedriveAdds, Add
<1>16. CASE RedriveFails(m)
  BY <1>16 DEF RedriveFails, Fault
<1> QED
  BY <1>1, <1>2, <1>3, <1>4, <1>5, <1>6, <1>7, <1>8, <1>9, <1>10, <1>11,
     <1>12, <1>13, <1>14, <1>15, <1>16

(* Each step of an order. *)
LEMMA RequestInv ==
  ASSUME Inv, NEW r \in Requests,
         MatchPublished(r) \/ RequestTaken(r) \/ RequestLogged(r) \/
         RequestAudited(r) \/ RequestMarked(r) \/ MarkFails(r) \/ RequestRenotified(r)
  PROVE  Inv'
<1> USE WebhookAssumption
    DEF Inv, TypeOK, Heard, Budget, Free, Armed, Wanted, Posted, NotifiedMeansDelivered,
        Letters, Sends, Subjects, Busy, Claimed, NoJob, Queued, operator, database, history
<1>1. CASE MatchPublished(r)
  BY <1>1 DEF MatchPublished, Add
<1>2. CASE RequestTaken(r)
  BY <1>2 DEF RequestTaken, Goes
<1>3. CASE RequestLogged(r)
  BY <1>3 DEF RequestLogged, Goes
<1>4. CASE RequestAudited(r)
  BY <1>4 DEF RequestAudited, AttemptFails
<1>5. CASE RequestMarked(r)
  BY <1>5 DEF RequestMarked, Completes
<1>6. CASE MarkFails(r)
  BY <1>6 DEF MarkFails, Fault, AttemptFails
<1>7. CASE RequestRenotified(r)
  BY <1>7 DEF RequestRenotified
<1> QED
  BY <1>1, <1>2, <1>3, <1>4, <1>5, <1>6, <1>7

(* Each step that both kinds of subject have. *)
LEMMA SubjectInv ==
  ASSUME Inv, NEW x \in Subjects,
         Skipped(x) \/ PostAnswered(x) \/ PostRefused(x) \/ PostUnheard(x) \/
         LogFails(x) \/ LetterRecorded(x) \/ LetterResolved(x) \/
         LetterFails(x)
  PROVE  Inv'
<1> USE WebhookAssumption
    DEF Inv, TypeOK, Heard, Budget, Free, Armed, Wanted, Posted, NotifiedMeansDelivered,
        Letters, Sends, Subjects, Busy, Claimed, NoJob, Queued, operator, database, history
<1>1. CASE Skipped(x)
  BY <1>1 DEF Skipped, Completes
<1>2. CASE PostAnswered(x)
  BY <1>2 DEF PostAnswered, Delivers, Goes
<1>3. CASE PostRefused(x)
  BY <1>3 DEF PostRefused, Goes
<1>4. CASE PostUnheard(x)
  BY <1>4 DEF PostUnheard, Fault, Delivers, Goes
<1>5. CASE LogFails(x)
  BY <1>5 DEF LogFails, Fault, Goes
<1>6. CASE LetterRecorded(x)
  BY <1>6 DEF LetterRecorded, Handled
<1>7. CASE LetterResolved(x)
  BY <1>7 DEF LetterResolved, Handled
<1>8. CASE LetterFails(x)
  BY <1>8 DEF LetterFails, Handled, Fault
<1> QED
  BY <1>1, <1>2, <1>3, <1>4, <1>5, <1>6, <1>7, <1>8

LEMMA CrashInv == Inv /\ Crash => Inv'
<1> SUFFICES ASSUME Inv, Crash  PROVE Inv'
  OBVIOUS
<1> USE WebhookAssumption
    DEF Inv, TypeOK, Subjects, Busy, Claimed, NoJob, database, history, Crash, Fault
<1>1. TypeOK'
  OBVIOUS
<1>2. Heard'
  BY DEF Heard
<1>3. Budget' /\ Wanted' /\ Posted'
  BY DEF Budget, Free, Armed, Wanted, Posted
<1>4. NotifiedMeansDelivered' /\ Letters'
  BY DEF NotifiedMeansDelivered, Letters
<1> QED
  BY <1>1, <1>2, <1>3, <1>4

LEMMA StutterInv == Inv /\ UNCHANGED vars => Inv'
  BY
  DEF Inv, TypeOK, Heard, Budget, Free, Armed, Wanted, Posted, NotifiedMeansDelivered,
         Letters, Sends, vars, database, history, operator

LEMMA NextInv == Inv /\ [Next]_vars => Inv'
  BY MovementInv, RequestInv, SubjectInv, CrashInv, StutterInv
  DEF Next, MovementGoes, RequestGoes, HandlerGoes, RedriveGoes, Attempt, Subjects

(* The invariant holds in every reachable state. *)
LEMMA AlwaysInv == Spec => []Inv
<1>1. Init => Inv
  BY InitInv
<1>2. Inv /\ [Next]_vars => Inv'
  BY NextInv
<1> QED
  BY <1>1, <1>2, PTL DEF Spec

-----------------------------------------------------------------------------
(* Types hold in every reachable state; a job that is not finished has an  *)
(* attempt left.                                                           *)
THEOREM JobsTyped == Spec => []TypeOK
<1>1. Inv => TypeOK
  BY DEF Inv
<1> QED
  BY <1>1, AlwaysInv, PTL

(* The endpoint takes a movement no more often than the first time, the    *)
(* operator's requests and the misheard answers account for, wherever the  *)
(* process dies.                                                           *)
THEOREM ClaimBoundsDeliveries == Spec => []DeliveriesEarned
<1>1. Inv => DeliveriesEarned
  <2> SUFFICES ASSUME Inv, NEW m \in Movements
               PROVE  delivered[m] <= 1 + redriven[m] + misheard[m]
    BY DEF DeliveriesEarned
  <2>1. Free(m) >= 0 /\ Armed(m) >= 0 /\ Free(m) \in Int /\ Armed(m) \in Int
    BY DEF Free, Armed
  <2>2. /\ delivered[m] \in Int /\ redriven[m] \in Int /\ misheard[m] \in Int
        /\ delivered[m] + Free(m) + Armed(m) <= 1 + redriven[m] + misheard[m]
    BY WebhookAssumption DEF Inv, TypeOK, Budget, Subjects
  <2> HIDE DEF Free, Armed
  <2> QED
    BY <2>1, <2>2
<1> QED
  BY <1>1, AlwaysInv, PTL

(* What the flags say of an order is true, and without a fault what they   *)
(* say of a movement that no attempt has in hand.                          *)
THEOREM FlagsAreTrue == Spec => []NotifiedMeansDelivered
<1>1. Inv => NotifiedMeansDelivered
  BY DEF Inv
<1> QED
  BY <1>1, AlwaysInv, PTL

(* The handler of a completed job is the only one who closes a letter. *)
LEMMA OnlyResolvedCloses ==
  ASSUME TypeOK, Next, NEW x \in Subjects, letter[x], ~letter'[x]
  PROVE  LetterResolved(x)
<1> USE DEF Attempt, database
<1>1. ASSUME NEW m \in Movements, MovementGoes(m)  PROVE FALSE
  BY <1>1 DEF MovementGoes, MovementPublished, MovementTaken, ClaimWon, ClaimSilenced,
              ClaimRefused, MovementLogged, MovementAudited, Released, Skipped,
              PostAnswered, PostRefused
<1>2. ASSUME NEW m \in Movements,
             MovementSaved(m) \/ PublishFails(m) \/ ClaimFails(m) \/ ReleaseFails(m) \/
             RedriveReleases(m) \/ RedriveGoes(m) \/ RedriveFails(m)
      PROVE  FALSE
  BY <1>2 DEF MovementSaved, PublishFails, ClaimFails, ReleaseFails, RedriveReleases,
              RedriveGoes, RedriveRemoves, RedriveAdds, RedriveFails
<1>3. ASSUME NEW r \in Requests, MatchPublished(r) \/ RequestGoes(r) \/ MarkFails(r) \/
                                 RequestRenotified(r)
      PROVE  FALSE
  BY <1>3 DEF MatchPublished, RequestRenotified, RequestGoes, RequestTaken, RequestLogged,
              RequestAudited, RequestMarked, MarkFails, Skipped, PostAnswered, PostRefused
<1>4. ASSUME NEW y \in Subjects,
             LetterRecorded(y) \/ PostUnheard(y) \/ LogFails(y) \/ LetterFails(y)
      PROVE  FALSE
  BY <1>4 DEF TypeOK, LetterRecorded, PostUnheard, LogFails, LetterFails
<1>5. ASSUME NEW y \in Subjects, LetterResolved(y), y # x
      PROVE  FALSE
  BY <1>5 DEF TypeOK, LetterResolved
<1>6. ~Crash
  BY DEF Crash
<1> QED
  BY <1>1, <1>2, <1>3, <1>4, <1>5, <1>6 DEF Next, HandlerGoes

(* Without a fault, no order of handlers and of requests closes the dead   *)
(* letter of a subject that never arrived.                                 *)
THEOREM LettersOutliveHandlers == Spec => LetterStaysOpen
<1> DEFINE Kept == \A x \in Subjects :
                     letter[x] /\ ~letter'[x] => delivered[x] > 0 \/ faults > 0
<1>1. Inv /\ [Next]_vars => [Kept]_vars
  <2> SUFFICES ASSUME Inv, Next, NEW x \in Subjects, letter[x], ~letter'[x]
               PROVE  delivered[x] > 0 \/ faults > 0
    OBVIOUS
  <2>1. LetterResolved(x)
    BY OnlyResolvedCloses DEF Inv
  <2> QED
    BY <2>1 DEF Inv, TypeOK, Letters, LetterResolved, Handled
<1> QED
  BY <1>1, AlwaysInv, PTL DEF LetterStaysOpen, Spec
-----------------------------------------------------------------------------
(* Nothing is dropped: the safety that Settled and RedriveServed rest on.  *)
(* Without a fault, whatever has to be sent was taken by the endpoint, is  *)
(* a dead letter, or is in hand: about to be published, with a worker or   *)
(* in its queue, about to become a dead letter, or about to be queued      *)
(* again by the operator's request.                                        *)
InHand(x) ==
  \/ stage[x] = "saved"
  \/ job[x].at \in Busy \cup {"waiting"}
  \/ "failed" \in events[x]
  \/ x \in Movements /\ redrive[x] = "add"

NothingDropped ==
  faults = 0 /\ config = "send" =>
    \A x \in Subjects : stage[x] # "absent" => delivered[x] > 0 \/ letter[x] \/ InHand(x)

(* And while a movement owes the operator a delivery, the request is under *)
(* way, or there is a job that has not posted yet, or not in vain.         *)
RequestsHeld ==
  faults = 0 /\ config = "send" =>
    \A m \in Movements :
      owed[m] => redrive[m] # "idle" \/ job[m].at \in Claimed \cup {"waiting", "claim"}

(* They are inductive with two facts more: a job that failed has left its  *)
(* mark, and what is owed finds the row free, or its claim with a job that *)
(* may still use it or give it back, and no failed job in the way of       *)
(* queueing a new one.  (To mark the row at the end is an order's step.)   *)
FailuresShow ==
  faults = 0 /\ config = "send" =>
    \A x \in Subjects :
      job[x].at = "failed" => delivered[x] > 0 \/ letter[x] \/ "failed" \in events[x]

WayIsFree ==
  faults = 0 /\ config = "send" =>
    \A m \in Movements :
      /\ job[m].at # "mark"
      /\ owed[m] => /\ job[m].at # "log"
                    /\ notified[m] => job[m].at \in Claimed
                    /\ redrive[m] = "add" => job[m].at # "failed"

Kept == NothingDropped /\ RequestsHeld /\ FailuresShow /\ WayIsFree
(* Each step of a movement. *)
LEMMA MovementKept ==
  ASSUME Inv, Kept, NEW m \in Movements,
         MovementSaved(m) \/ MovementPublished(m) \/ MovementTaken(m) \/
         ClaimWon(m) \/ ClaimSilenced(m) \/ ClaimRefused(m) \/
         MovementLogged(m) \/ MovementAudited(m) \/ Released(m) \/
         RedriveReleases(m) \/ RedriveRemoves(m) \/ RedriveAdds(m)
  PROVE  Kept'
<1> USE WebhookAssumption
    DEF Inv, TypeOK, Kept, NothingDropped, InHand, RequestsHeld, FailuresShow, WayIsFree,
        Subjects, Busy, Claimed, NoJob, Queued, operator, database, history
<1>1. CASE MovementSaved(m)
  BY <1>1 DEF MovementSaved
<1>2. CASE MovementPublished(m)
  BY <1>2 DEF MovementPublished, Add
<1>3. CASE MovementTaken(m)
  BY <1>3 DEF MovementTaken, Goes
<1>4. CASE ClaimWon(m)
  BY <1>4 DEF ClaimWon, Goes
<1>5. CASE ClaimSilenced(m)
  BY <1>5 DEF ClaimSilenced, Completes
<1>6. CASE ClaimRefused(m)
  BY <1>6 DEF ClaimRefused, Completes, NotifiedMeansDelivered
<1>7. CASE MovementLogged(m)
  BY <1>7 DEF MovementLogged, Completes, Posted
<1>8. CASE MovementAudited(m)
  BY <1>8 DEF MovementAudited, Goes
<1>9. CASE Released(m)
  BY <1>9 DEF Released, AttemptFails
<1>10. CASE RedriveReleases(m)
  BY <1>10 DEF RedriveReleases
<1>11. CASE RedriveRemoves(m)
  BY <1>11 DEF RedriveRemoves
<1>12. CASE RedriveAdds(m)
  BY <1>12 DEF RedriveAdds, Add
<1> QED
  BY <1>1, <1>2, <1>3, <1>4, <1>5, <1>6, <1>7, <1>8, <1>9, <1>10, <1>11, <1>12

(* Each step of an order. *)
LEMMA RequestKept ==
  ASSUME Inv, Kept, NEW r \in Requests,
         MatchPublished(r) \/ RequestTaken(r) \/ RequestLogged(r) \/
         RequestAudited(r) \/ RequestMarked(r) \/ RequestRenotified(r)
  PROVE  Kept'
<1> USE WebhookAssumption
    DEF Inv, TypeOK, Kept, NothingDropped, InHand, RequestsHeld, FailuresShow, WayIsFree,
        Subjects, Busy, Claimed, NoJob, Queued, operator, database, history
<1>1. CASE MatchPublished(r)
  BY <1>1 DEF MatchPublished, Add
<1>2. CASE RequestTaken(r)
  BY <1>2 DEF RequestTaken, Goes
<1>3. CASE RequestLogged(r)
  BY <1>3 DEF RequestLogged, Goes
<1>4. CASE RequestAudited(r)
  BY <1>4 DEF RequestAudited, AttemptFails
<1>5. CASE RequestMarked(r)
  BY <1>5 DEF RequestMarked, Completes, Posted
<1>6. CASE RequestRenotified(r)
  BY <1>6 DEF RequestRenotified
<1> QED
  BY <1>1, <1>2, <1>3, <1>4, <1>5, <1>6

(* Each step that both kinds of subject have. *)
LEMMA SubjectKept ==
  ASSUME Inv, Kept, NEW x \in Subjects,
         Skipped(x) \/ PostAnswered(x) \/ PostRefused(x) \/
         LetterRecorded(x) \/ LetterResolved(x)
  PROVE  Kept'
<1> USE WebhookAssumption
    DEF Inv, TypeOK, Kept, NothingDropped, InHand, RequestsHeld, FailuresShow, WayIsFree,
        Subjects, Busy, Claimed, NoJob, Queued, operator, database, history
<1>1. CASE Skipped(x)
  BY <1>1 DEF Skipped, Completes
<1>2. CASE PostAnswered(x)
  BY <1>2 DEF PostAnswered, Delivers, Goes
<1>3. CASE PostRefused(x)
  BY <1>3 DEF PostRefused, Goes
<1>4. CASE LetterRecorded(x)
  BY <1>4 DEF LetterRecorded, Handled
<1>5. CASE LetterResolved(x)
  BY <1>5 DEF LetterResolved, Handled, Letters, Sends
<1> QED
  BY <1>1, <1>2, <1>3, <1>4, <1>5

(* After a fault nothing is claimed any more. *)
LEMMA FaultKept == Inv /\ Fault => Kept'
  BY WebhookAssumption
  DEF Inv, TypeOK, Fault, Kept, NothingDropped, RequestsHeld, FailuresShow, WayIsFree

LEMMA NextKept == Inv /\ Kept /\ [Next]_vars => Kept'
<1> SUFFICES ASSUME Inv, Kept, [Next]_vars  PROVE Kept'
  OBVIOUS
<1>1. CASE UNCHANGED vars
  BY <1>1 DEF vars, Kept, NothingDropped, InHand, RequestsHeld, FailuresShow, WayIsFree
<1>2. CASE \E m \in Movements : PublishFails(m) \/ ClaimFails(m) \/ ReleaseFails(m) \/
                               RedriveFails(m)
  BY <1>2, FaultKept DEF PublishFails, ClaimFails, ReleaseFails, RedriveFails
<1>3. CASE \/ \E r \in Requests : MarkFails(r)
           \/ \E x \in Subjects : PostUnheard(x) \/ LogFails(x) \/ LetterFails(x)
           \/ Crash
  BY <1>3, FaultKept DEF MarkFails, PostUnheard, LogFails, LetterFails, Crash
<1> QED
  BY <1>1, <1>2, <1>3, MovementKept, RequestKept, SubjectKept
  DEF Next, MovementGoes, RequestGoes, HandlerGoes, RedriveGoes, Attempt, Subjects

LEMMA AlwaysKept == Spec => []Kept
<1>1. Init => Kept
  BY DEF Init, Kept, NothingDropped, RequestsHeld, FailuresShow, WayIsFree, NoJob, Subjects
<1> QED
  BY <1>1, NextKept, AlwaysInv, PTL DEF Spec

(* Whatever the attempts, the handlers and the operator do to each other,  *)
(* no subject that has to be sent is left with neither a delivery, nor an  *)
(* open dead letter, nor anybody who will see to it.                       *)
THEOREM NoSubjectIsDropped == Spec => []NothingDropped
<1>1. Kept => NothingDropped
  BY DEF Kept
<1> QED
  BY <1>1, AlwaysKept, PTL

(* A movement the operator notified again is not left without a job that   *)
(* can still deliver it: an attempt that was under way gives the row back  *)
(* before it is over, and a failed job is out of the way in time.          *)
THEOREM NoRequestIsDropped == Spec => []RequestsHeld
<1>1. Kept => RequestsHeld
  BY DEF Kept
<1> QED
  BY <1>1, AlwaysKept, PTL
=============================================================================
