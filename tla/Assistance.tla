----------------------------- MODULE Assistance -----------------------------
(***************************************************************************)
(* The code a bank asks for at login, for one assisted account: the        *)
(* pending request (assistance_requests, one pending row per account), the *)
(* Redis stream of each request, OtpAssistanceCoordinator's wait, the      *)
(* script's retries and the cancel at a session's end.  A session that     *)
(* ends while its script waits leaves the waiting promise behind: it goes  *)
(* on reading, resending and re-opening.                                   *)
(*                                                                         *)
(* What is published goes to wire; module Dashboard reads it.              *)
(***************************************************************************)
EXTENDS Integers, SequencesExt

CONSTANTS
    Sessions,       \* sessions that may exist at a time, old ones included
    Rows,           \* assistance_requests ids: numbers, taken in order
    MaxCodes,       \* bound: codes people submit, numbered in order
    MaxResends,     \* OTP_MAX_RESENDS
    MaxOtpAttempts, \* OTP_MAX_ATTEMPTS of the script
    MaxFaults,      \* bound: failed calls, lost events and crashes
    None

ASSUME AssistanceBounds == /\ MaxResends \in Nat
                           /\ MaxOtpAttempts \in Nat \ {0}
                           /\ MaxFaults \in Nat
                           /\ None \notin Rows

VARIABLES
    row,      \* status of each request; "free" is an id not yet given out
    stream,   \* otp:req:<id>: has it its group, and the codes not yet read
    sess,     \* the sessions and what their scripts wait for
    submit,   \* the submission in progress: the row it found, who sent it
    submitted,\* how many codes were answered with 202
    owed,     \* those not yet read, nor deleted after a failed wait, by request
    orphan,   \* requests a dead session opened, or a failure left behind
    stray,    \* those a resend of the live session opened: it listens to another id
    untrue,   \* events contradict the table: one too many, or one left out
    wire,     \* events published and not yet routed
    faults

back == <<row, stream, sess, submit, submitted, owed, orphan, stray, untrue, wire, faults>>

NoStream == [group |-> FALSE, unread |-> <<>>]
NoSubmit == [row |-> None, panel |-> FALSE]
NoSession == [pc |-> "idle", row |-> None, resends |-> 0, attempt |-> 1, alive |-> FALSE,
              ok |-> FALSE, cancel |-> "none", found |-> None]

AssistanceInit ==
    /\ row = [r \in Rows |-> "free"]
    /\ stream = [r \in Rows |-> NoStream]
    /\ sess = [s \in Sessions |-> NoSession]
    /\ submit = NoSubmit
    /\ submitted = 0
    /\ owed = [r \in Rows |-> {}]
    /\ orphan = {} /\ stray = {} /\ untrue = FALSE
    /\ wire = <<>>
    /\ faults = 0

SessionStates ==
    [pc : {"idle", "login", "opened", "wait", "resent", "got", "close", "over"},
     row : Rows \cup {None}, resends : Nat, attempt : Nat, alive : BOOLEAN, ok : BOOLEAN,
     cancel : {"none", "find", "close"}, found : Rows \cup {None}]

Listening == {"opened", "wait", "resent", "got", "close"}

SessionOK(x) ==
    /\ x.pc \in Listening => x.row \in Rows
    /\ x.cancel = "close" <=> x.found \in Rows
    /\ x.alive => x.cancel = "none"

(* Types of the tables, the streams and what is in hand.                   *)
TypeOK ==
    /\ row \in [Rows -> {"free", "pending", "fulfilled", "cancelled"}]
    /\ stream \in [Rows -> [group : BOOLEAN, unread : Seq(Nat)]]
    /\ sess \in [Sessions -> SessionStates]
    /\ \A s \in Sessions : SessionOK(sess[s])
    /\ submit = NoSubmit \/ submit \in [row : Rows, panel : BOOLEAN]
    /\ submitted \in Nat
    /\ owed \in [Rows -> SUBSET Nat]
    /\ orphan \subseteq Rows /\ stray \subseteq Rows

Pending == {r \in Rows : row[r] = "pending"}
At(s, pc) == sess[s].pc = pc
Goto(s, pc) == sess' = [sess EXCEPT ![s].pc = pc]
LoginOver(s) == [NoSession EXCEPT !.pc = "over", !.alive = sess[s].alive,
                     !.cancel = sess[s].cancel, !.found = sess[s].found]
Fault == faults < MaxFaults /\ faults' = faults + 1

(* emit: fire and forget, in order on one connection.                      *)
Emit(event) == wire' = Append(wire, event)

(* open(): the upsert on uq_assistance_pending_account.                    *)
OpensRow(r) ==
    IF Pending # {} THEN r \in Pending
    ELSE row[r] = "free" /\ \A q \in Rows : row[q] = "free" => r <= q

Reopened(r) == row' = [row EXCEPT ![r] = "pending"]

(* startFn, one live session at a time (SessionManager); the login begins. *)
Launch(s) ==
    /\ \A z \in Sessions : ~sess[z].alive
    /\ sess[s] = NoSession
    /\ sess' = [sess EXCEPT ![s] = [@ EXCEPT !.pc = "login", !.alive = TRUE]]
    /\ UNCHANGED <<row, stream, submit, submitted, owed, orphan, stray, untrue, wire, faults>>

(* handleOtp finds no OTP page, or login fails before it.                  *)
NoOtp(s) ==
    /\ At(s, "login") /\ sess[s].attempt = 1
    /\ sess' = [sess EXCEPT ![s] = LoginOver(s)]
    /\ UNCHANGED <<row, stream, submit, submitted, owed, orphan, stray, untrue, wire, faults>>

OpenRequest(s) ==
    /\ At(s, "login")
    /\ \E r \in Rows :
        /\ OpensRow(r) /\ Reopened(r)
        /\ sess' = [sess EXCEPT ![s] = [@ EXCEPT !.pc = "opened", !.row = r, !.resends = 0]]
        /\ orphan' = IF sess[s].alive THEN orphan \ {r}
                     ELSE IF row[r] = "free" THEN orphan \cup {r} ELSE orphan
        /\ stray' = IF sess[s].alive THEN stray \ {r} ELSE stray
    /\ UNCHANGED <<stream, submit, submitted, owed, untrue, wire, faults>>

(* Mutation: the group is created at '$', what came before is skipped.    *)
OpenWaiterAtEnd(s) ==
    /\ At(s, "opened")
    /\ stream' = [stream EXCEPT ![sess[s].row] = [group |-> TRUE, unread |-> <<>>]]
    /\ Goto(s, "wait")
    /\ Emit("requested")
    /\ untrue' = (untrue \/ Pending = {})
    /\ UNCHANGED <<row, submit, submitted, owed, orphan, stray, faults>>

(* openOtpWaiter: the group is created at '0', so that it reads what came  *)
(* before it; then the request is announced.                               *)
OpenWaiter(s) ==
    /\ At(s, "opened")
    /\ stream' = [stream EXCEPT ![sess[s].row].group = TRUE]
    /\ Goto(s, "wait")
    /\ Emit("requested")
    /\ untrue' = (untrue \/ Pending = {})
    /\ UNCHANGED <<row, submit, submitted, owed, orphan, stray, faults>>

(* The upsert or the waiter fails; the script catches it and goes on to    *)
(* isAuthenticated, and a row that was opened stays pending.               *)
OpenFails(s) ==
    /\ sess[s].pc \in {"login", "opened"} /\ Fault
    /\ sess' = [sess EXCEPT ![s] = LoginOver(s)]
    /\ orphan' = IF At(s, "opened") THEN (orphan \cup {sess[s].row}) \cap Pending ELSE orphan
    /\ untrue' = (untrue \/ At(s, "opened"))
    /\ UNCHANGED <<row, stream, submit, submitted, owed, stray, wire>>

Mine(s) == stream[sess[s].row]

TakeCode(s) ==
    /\ At(s, "wait") /\ Mine(s).group /\ Mine(s).unread # <<>>
    /\ stream' = [stream EXCEPT ![sess[s].row].unread = Tail(@)]
    /\ owed' = [owed EXCEPT ![sess[s].row] = @ \ {Head(Mine(s).unread)}]
    /\ Goto(s, "got")
    /\ UNCHANGED <<row, submit, submitted, orphan, stray, untrue, wire, faults>>

(* A window without a code, under the cap: the row is opened again, or a   *)
(* new one if another session closed it, and the id that comes back is     *)
(* ignored.  Past the cap it waits another window.                         *)
Resend(s) ==
    /\ At(s, "wait") /\ Mine(s).group /\ Mine(s).unread = <<>>
    /\ sess[s].resends < MaxResends
    /\ \E r \in Rows :
        /\ OpensRow(r) /\ Reopened(r)
        /\ orphan' = IF row[r] = "free" /\ ~sess[s].alive THEN orphan \cup {r} ELSE orphan
        /\ stray' = IF row[r] = "free" /\ sess[s].alive THEN stray \cup {r} ELSE stray
    /\ sess' = [sess EXCEPT ![s] = [@ EXCEPT !.pc = "resent",
                                             !.resends = sess[s].resends + 1]]
    /\ UNCHANGED <<stream, submit, submitted, owed, untrue, wire, faults>>

ResendAnnounced(s) ==
    /\ At(s, "resent")
    /\ Goto(s, "wait")
    /\ Emit("requested")
    /\ untrue' = (untrue \/ Pending = {})
    /\ UNCHANGED <<row, stream, submit, submitted, owed, orphan, stray, faults>>

(* The read of a deleted stream, a failed re-opening or a failed           *)
(* markFulfilled reject: the waiter is closed and the error goes up.       *)
WaitFails(s) ==
    /\ sess' = [sess EXCEPT ![s] = [@ EXCEPT !.pc = "close", !.ok = FALSE]]
    /\ orphan' = (orphan \cup {sess[s].row}) \cap Pending
    /\ \/ /\ At(s, "wait") /\ ~Mine(s).group
          /\ UNCHANGED <<untrue, faults>>
       \/ /\ sess[s].pc \in {"wait", "got"} /\ Fault
          /\ untrue' = TRUE
    /\ UNCHANGED <<row, stream, submit, submitted, owed, stray, wire>>

MarkFulfilled(s) ==
    /\ At(s, "got")
    /\ row' = [row EXCEPT ![sess[s].row] = IF @ = "pending" THEN "fulfilled" ELSE @]
    /\ Emit("fulfilled")
    /\ untrue' = (untrue \/ Pending \ {sess[s].row} # {})
    /\ sess' = [sess EXCEPT ![s] = [@ EXCEPT !.pc = "close", !.ok = TRUE]]
    /\ orphan' = orphan \ {sess[s].row} /\ stray' = stray \ {sess[s].row}
    /\ UNCHANGED <<stream, submit, submitted, owed, faults>>

(* close() deletes the stream, whoever else reads it.  Then waitOtpOutcome:*)
(* a rejected code asks for another one, up to the cap; a failed wait, or  *)
(* typing into a closed page, throws out of handleOtp.                     *)
CloseWaiter(s) ==
    /\ At(s, "close")
    /\ stream' = [stream EXCEPT ![sess[s].row] = NoStream]
    /\ owed' = IF sess[s].ok THEN owed ELSE [owed EXCEPT ![sess[s].row] = {}]
    /\ untrue' = (untrue \/ ~sess[s].ok)
    /\ \/ sess' = [sess EXCEPT ![s] = LoginOver(s)]
       \/ /\ sess[s].ok /\ sess[s].alive /\ sess[s].attempt < MaxOtpAttempts
          /\ sess' = [sess EXCEPT ![s] = [@ EXCEPT !.pc = "login", !.row = None,
                                                   !.ok = FALSE,
                                                   !.attempt = sess[s].attempt + 1]]
    /\ UNCHANGED <<row, submit, submitted, orphan, stray, wire, faults>>

(* Mutation: the end of a session cancels nothing.                        *)
SessionEndsUncancelled(s) ==
    /\ sess[s].alive
    /\ sess' = [sess EXCEPT ![s].alive = FALSE]
    /\ UNCHANGED <<row, stream, submit, submitted, owed, orphan, stray, untrue, wire, faults>>

(* done settles, whatever the script is doing; done.finally cancels.       *)
SessionEnds(s) ==
    /\ sess[s].alive
    /\ sess' = [sess EXCEPT ![s] = [@ EXCEPT !.alive = FALSE, !.cancel = "find"]]
    /\ UNCHANGED <<row, stream, submit, submitted, owed, orphan, stray, untrue, wire, faults>>

(* cancel(): look the pending row up, close it, tell the dashboard.        *)
CancelFind(s) ==
    /\ sess[s].cancel = "find"
    /\ IF Pending = {} THEN sess' = [sess EXCEPT ![s].cancel = "none"]
       ELSE \E r \in Pending : sess' = [sess EXCEPT ![s] = [@ EXCEPT !.cancel = "close",
                                                            !.found = r]]
    /\ UNCHANGED <<row, stream, submit, submitted, owed, orphan, stray, untrue, wire, faults>>

(* Mutation: the row is closed and nobody is told.                        *)
CancelCloseSilently(s) ==
    /\ sess[s].cancel = "close"
    /\ row' = [row EXCEPT ![sess[s].found] = IF @ = "pending" THEN "cancelled" ELSE @]
    /\ orphan' = orphan \ {sess[s].found} /\ stray' = stray \ {sess[s].found}
    /\ sess' = [sess EXCEPT ![s] = [@ EXCEPT !.cancel = "none", !.found = None]]
    /\ UNCHANGED <<stream, submit, submitted, owed, untrue, wire, faults>>

CancelClose(s) ==
    /\ sess[s].cancel = "close"
    /\ row' = [row EXCEPT ![sess[s].found] = IF @ = "pending" THEN "cancelled" ELSE @]
    /\ Emit("cancelled")
    /\ untrue' = (untrue \/ Pending \ {sess[s].found} # {})
    /\ sess' = [sess EXCEPT ![s] = [@ EXCEPT !.cancel = "none", !.found = None]]
    /\ orphan' = orphan \ {sess[s].found} /\ stray' = stray \ {sess[s].found}
    /\ UNCHANGED <<stream, submit, submitted, owed, faults>>

CancelFails(s) ==
    /\ sess[s].cancel # "none" /\ Fault
    /\ sess' = [sess EXCEPT ![s] = [@ EXCEPT !.cancel = "none", !.found = None]]
    /\ orphan' = orphan \cup Pending
    /\ UNCHANGED <<row, stream, submit, submitted, owed, stray, untrue, wire>>

(* The remains of a session are forgotten once nothing of it is under way. *)
Forgotten(s) ==
    /\ At(s, "over") /\ ~sess[s].alive
    /\ sess[s].cancel = "none"
    /\ sess' = [sess EXCEPT ![s] = NoSession]
    /\ UNCHANGED <<row, stream, submit, submitted, owed, orphan, stray, untrue, wire, faults>>

(* SubmitAssistanceCodeUseCase: the lookup, then the code on that stream.  *)
SubmitFind(panel) ==
    /\ submit = NoSubmit
    /\ \E r \in Pending : submit' = [row |-> r, panel |-> panel]
    /\ UNCHANGED <<row, stream, sess, submitted, owed, orphan, stray, untrue, wire, faults>>

SubmitAdd ==
    /\ submit # NoSubmit /\ submitted < MaxCodes
    /\ submitted' = submitted + 1
    /\ stream' = [stream EXCEPT ![submit.row].unread = Append(@, submitted')]
    /\ owed' = [owed EXCEPT ![submit.row] = @ \cup {submitted'}]
    /\ submit' = NoSubmit
    /\ UNCHANGED <<row, sess, orphan, stray, untrue, wire, faults>>

(* The process dies: tables and streams stay, everything else is gone.     *)
Crash ==
    /\ Fault
    /\ sess' = [s \in Sessions |-> NoSession]
    /\ submit' = NoSubmit
    /\ orphan' = orphan \cup Pending
    /\ untrue' = TRUE
    /\ wire' = <<>>
    /\ UNCHANGED <<row, stream, submitted, owed, stray>>

SessionStep(s) ==
    \/ Launch(s) \/ NoOtp(s) \/ OpenRequest(s) \/ OpenWaiter(s) \/ OpenFails(s)
    \/ TakeCode(s) \/ Resend(s) \/ ResendAnnounced(s) \/ WaitFails(s)
    \/ MarkFulfilled(s) \/ CloseWaiter(s)
    \/ SessionEnds(s) \/ CancelFind(s) \/ CancelClose(s) \/ CancelFails(s) \/ Forgotten(s)

-----------------------------------------------------------------------------
Listens(s, r) == sess[s].row = r /\ sess[s].pc \in Listening

(* The dashboard's alert does not dangle: a pending request is listened to *)
(* by the live session, or the cancel at a session's end is under way.  It *)
(* may be a request the live session does not listen to, when the late     *)
(* cancel of an old session closed its own and its resend opened another;  *)
(* then the session lives, or its cancel is to come.  What the code leaves *)
(* behind is exempt: what a session opened after its end, and what a       *)
(* failure or a crash cut off.                                             *)
PendingIsHeard ==
    \A r \in Pending \ orphan :
        \/ \E s \in Sessions : sess[s].alive /\ (Listens(s, r) \/ r \in stray)
        \/ \E s \in Sessions : sess[s].cancel = "find" \/ sess[s].found = r

(* A code answered with 202 is not lost while its request is pending: some *)
(* session read it, or it still waits in the stream, unless a wait that    *)
(* failed deleted it.  Codes may come before the waiter and between its    *)
(* windows, and sessions may share the stream.                             *)
AcceptedCodeKept ==
    \A r \in Pending : owed[r] \subseteq ToSet(stream[r].unread)

=============================================================================
