-------------------------- MODULE Assistance_proofs --------------------------
(***************************************************************************)
(* What is proved of the bank codes: for any number of sessions, ids,      *)
(* codes, windows and failures a pending request has somebody who listens  *)
(* or a session whose end will cancel it (PendingIsHeard), a code accepted *)
(* for it is not lost (AcceptedCodeKept), and the page's alert follows the *)
(* table (AlertAgrees).                                                    *)
(*                                                                         *)
(* Neither holds by induction alone.  The first needs that sessions and    *)
(* pending rows come one at a time, and what is true of the row whose      *)
(* waiter is being closed; the second needs the same of closing, since     *)
(* close() deletes a stream whoever reads it, and has to speak of ids not  *)
(* yet given out, which opening turns into pending rows.                   *)
(* The third rests on both: an alert that is hidden too early needs an     *)
(* announcement, an unread code or a report still to come, and one row     *)
(* pending at a time makes every event that is not contradicted decisive.  *)
(***************************************************************************)
EXTENDS Dashboard, TLAPS

(* One session lives at a time, and one row of the account is pending.     *)
OneAtATime ==
    /\ \A s, z \in Sessions : sess[s].alive /\ sess[z].alive => s = z
    /\ \A r, q \in Pending : r = q

(* The row a script waits for was given out; when its waiter is closed the *)
(* row is done with, or a failure left it behind.                          *)
Closing ==
    \A s \in Sessions :
        /\ sess[s].pc \in Listening => row[sess[s].row] # "free"
        /\ sess[s].pc = "close" =>
              IF sess[s].ok THEN sess[s].row \notin Pending
              ELSE sess[s].alive /\ sess[s].row \in Pending => sess[s].row \in orphan

(* What AcceptedCodeKept says of pending rows holds of ids not given out.  *)
NothingLost ==
    \A r \in Rows :
        row[r] \in {"free", "pending"} => owed[r] \subseteq ToSet(stream[r].unread)

IInv == TypeOK /\ OneAtATime /\ Closing /\ PendingIsHeard /\ NothingLost

-----------------------------------------------------------------------------
LEMMA InitInv == Init => IInv
  BY AssistanceBounds
  DEF Init, AssistanceInit, IInv, TypeOK, SessionStates, SessionOK, NoSession, NoStream,
      NoSubmit, Listening,
      OneAtATime, Closing, PendingIsHeard, NothingLost, Pending, Listens

LEMMA SessionChanges ==
  ASSUME TypeOK, NEW s \in Sessions, NEW new \in SessionStates, SessionOK(new),
         sess' = [sess EXCEPT ![s] = new]
  PROVE  /\ sess' \in [Sessions -> SessionStates]
         /\ \A z \in Sessions : SessionOK(sess'[z])
  BY DEF TypeOK

LEMMA SessionsTyped ==
  ASSUME TypeOK, NEW s \in Sessions, SessionStep(s)
  PROVE  /\ sess' \in [Sessions -> SessionStates]
         /\ \A z \in Sessions : SessionOK(sess'[z])
<1>0. sess[s] \in SessionStates /\ SessionOK(sess[s]) /\ sess \in [Sessions -> SessionStates]
  BY DEF TypeOK
<1> USE AssistanceBounds DEF LoginOver, NoSession
<1>1. CASE Launch(s)
  <2> DEFINE new == [sess[s] EXCEPT !.pc = "login", !.alive = TRUE]
  <2>1. sess[s] = NoSession
    BY <1>1 DEF Launch
  <2>2. sess' = [sess EXCEPT ![s] = new]
    BY <1>1 DEF Launch
  <2>3. sess[s].cancel = "none"
    BY <2>1
  <2> HIDE DEF NoSession
  <2>4. new \in SessionStates /\ SessionOK(new)
    BY <1>0, <2>3 DEF SessionStates, SessionOK, Listening
  <2> QED BY <2>2, <2>4, SessionChanges
<1>2. CASE NoOtp(s)
  <2> DEFINE new == LoginOver(s)
  <2>1. /\ sess' = [sess EXCEPT ![s] = new]
        /\ sess[s].pc = "login"
    BY <1>2 DEF NoOtp, Goto, At
  <2>2. new \in SessionStates /\ SessionOK(new)
    BY <1>0, <2>1 DEF SessionStates, SessionOK, Listening
  <2> QED BY <2>1, <2>2, SessionChanges
<1>3. CASE OpenRequest(s)
  <2> PICK r \in Rows :
           sess' = [sess EXCEPT ![s] = [@ EXCEPT !.pc = "opened", !.row = r, !.resends = 0]]
    BY <1>3 DEF OpenRequest
  <2> DEFINE new == [sess[s] EXCEPT !.pc = "opened", !.row = r, !.resends = 0]
  <2>1. sess' = [sess EXCEPT ![s] = new]
    OBVIOUS
  <2>2. new \in SessionStates /\ SessionOK(new)
    BY <1>0 DEF SessionStates, SessionOK, Listening
  <2> QED BY <2>1, <2>2, SessionChanges
<1>4. CASE OpenWaiter(s)
  <2> DEFINE new == [sess[s] EXCEPT !.pc = "wait"]
  <2>1. /\ sess' = [sess EXCEPT ![s] = new]
        /\ sess[s].pc = "opened"
    BY <1>4 DEF OpenWaiter, Goto, At
  <2>2. new \in SessionStates /\ SessionOK(new)
    BY <1>0, <2>1 DEF SessionStates, SessionOK, Listening
  <2> QED BY <2>1, <2>2, SessionChanges
<1>5. CASE OpenFails(s)
  <2> DEFINE new == LoginOver(s)
  <2>1. /\ sess' = [sess EXCEPT ![s] = new]
        /\ sess[s].pc \in {"login", "opened"}
    BY <1>5 DEF OpenFails, Goto, At
  <2>2. new \in SessionStates /\ SessionOK(new)
    BY <1>0, <2>1 DEF SessionStates, SessionOK, Listening
  <2> QED BY <2>1, <2>2, SessionChanges
<1>6. CASE TakeCode(s)
  <2> DEFINE new == [sess[s] EXCEPT !.pc = "got"]
  <2>1. /\ sess' = [sess EXCEPT ![s] = new]
        /\ sess[s].pc = "wait"
    BY <1>6 DEF TakeCode, Goto, At
  <2>2. new \in SessionStates /\ SessionOK(new)
    BY <1>0, <2>1 DEF SessionStates, SessionOK, Listening
  <2> QED BY <2>1, <2>2, SessionChanges
<1>7. CASE Resend(s)
  <2> DEFINE new == [sess[s] EXCEPT !.pc = "resent", !.resends = sess[s].resends + 1]
  <2>1. /\ sess' = [sess EXCEPT ![s] = new]
        /\ sess[s].pc = "wait"
    BY <1>7 DEF Resend, Goto, At
  <2>2. sess[s].resends + 1 \in Nat
    BY <1>0 DEF SessionStates
  <2>3. new \in SessionStates /\ SessionOK(new)
    BY <1>0, <2>1, <2>2 DEF SessionStates, SessionOK, Listening
  <2> QED BY <2>1, <2>3, SessionChanges
<1>8. CASE ResendAnnounced(s)
  <2> DEFINE new == [sess[s] EXCEPT !.pc = "wait"]
  <2>1. /\ sess' = [sess EXCEPT ![s] = new]
        /\ sess[s].pc = "resent"
    BY <1>8 DEF ResendAnnounced, Goto, At
  <2>2. new \in SessionStates /\ SessionOK(new)
    BY <1>0, <2>1 DEF SessionStates, SessionOK, Listening
  <2> QED BY <2>1, <2>2, SessionChanges
<1>9. CASE WaitFails(s)
  <2> DEFINE new == [sess[s] EXCEPT !.pc = "close", !.ok = FALSE]
  <2>1. /\ sess' = [sess EXCEPT ![s] = new]
        /\ sess[s].pc \in {"wait", "got"}
    BY <1>9 DEF WaitFails, Goto, At
  <2>2. new \in SessionStates /\ SessionOK(new)
    BY <1>0, <2>1 DEF SessionStates, SessionOK, Listening
  <2> QED BY <2>1, <2>2, SessionChanges
<1>10. CASE MarkFulfilled(s)
  <2> DEFINE new == [sess[s] EXCEPT !.pc = "close", !.ok = TRUE]
  <2>1. /\ sess' = [sess EXCEPT ![s] = new]
        /\ sess[s].pc = "got"
    BY <1>10 DEF MarkFulfilled, Goto, At
  <2>2. new \in SessionStates /\ SessionOK(new)
    BY <1>0, <2>1 DEF SessionStates, SessionOK, Listening
  <2> QED BY <2>1, <2>2, SessionChanges
<1>11. CASE CloseWaiter(s)
  <2>1. CASE sess' = [sess EXCEPT ![s] = LoginOver(s)]
    <3>1. LoginOver(s) \in SessionStates /\ SessionOK(LoginOver(s))
      BY <1>0 DEF SessionStates, SessionOK, Listening
    <3> QED BY <2>1, <3>1, SessionChanges
  <2> DEFINE new == [sess[s] EXCEPT !.pc = "login", !.row = None, !.ok = FALSE,
                                !.attempt = sess[s].attempt + 1]
  <2>2. CASE sess' = [sess EXCEPT ![s] = new]
    <3>1. sess[s].attempt + 1 \in Nat
      BY <1>0 DEF SessionStates
    <3>2. new \in SessionStates /\ SessionOK(new)
      BY <1>0, <3>1 DEF SessionStates, SessionOK, Listening
    <3> QED BY <2>2, <3>2, SessionChanges
  <2> QED BY <1>11, <2>1, <2>2 DEF CloseWaiter
<1>12. CASE SessionEnds(s)
  <2> DEFINE new == [sess[s] EXCEPT !.alive = FALSE, !.cancel = "find"]
  <2>1. /\ sess' = [sess EXCEPT ![s] = new]
        /\ sess[s].alive
    BY <1>12 DEF SessionEnds, Goto, At
  <2>2. new \in SessionStates /\ SessionOK(new)
    BY <1>0, <2>1 DEF SessionStates, SessionOK, Listening
  <2> QED BY <2>1, <2>2, SessionChanges
<1>13. CASE CancelFind(s)
  <2>0. sess[s].cancel = "find"
    BY <1>13 DEF CancelFind
  <2>1. CASE Pending = {}
    <3> DEFINE new == [sess[s] EXCEPT !.cancel = "none"]
    <3>1. new \in SessionStates /\ SessionOK(new)
      BY <1>0, <2>0 DEF SessionStates, SessionOK
    <3> QED BY <1>13, <2>1, <3>1, SessionChanges DEF CancelFind
  <2>2. CASE Pending # {}
    <3> PICK r \in Rows :
             sess' = [sess EXCEPT ![s] = [@ EXCEPT !.cancel = "close", !.found = r]]
      BY <1>13, <2>2 DEF CancelFind, Pending
    <3> DEFINE new == [sess[s] EXCEPT !.cancel = "close", !.found = r]
    <3>1. new \in SessionStates /\ SessionOK(new)
      BY <1>0, <2>0 DEF SessionStates, SessionOK
    <3> QED BY <3>1, SessionChanges
  <2> QED BY <2>1, <2>2
<1>14. CASE CancelClose(s)
  <2> DEFINE new == [sess[s] EXCEPT !.cancel = "none", !.found = None]
  <2>1. /\ sess' = [sess EXCEPT ![s] = new]
        /\ sess[s].cancel = "close"
    BY <1>14 DEF CancelClose, Goto, At
  <2>2. new \in SessionStates /\ SessionOK(new)
    BY <1>0, <2>1 DEF SessionStates, SessionOK, Listening
  <2> QED BY <2>1, <2>2, SessionChanges
<1>15. CASE CancelFails(s)
  <2> DEFINE new == [sess[s] EXCEPT !.cancel = "none", !.found = None]
  <2>1. /\ sess' = [sess EXCEPT ![s] = new]
        /\ sess[s].cancel # "none"
    BY <1>15 DEF CancelFails, Goto, At
  <2>2. new \in SessionStates /\ SessionOK(new)
    BY <1>0, <2>1 DEF SessionStates, SessionOK, Listening
  <2> QED BY <2>1, <2>2, SessionChanges
<1>16. CASE Forgotten(s)
  <2> DEFINE new == NoSession
  <2>1. /\ sess' = [sess EXCEPT ![s] = new]
        /\ ~sess[s].alive
    BY <1>16 DEF Forgotten, Goto, At
  <2>2. new \in SessionStates /\ SessionOK(new)
    BY <1>0, <2>1 DEF SessionStates, SessionOK, Listening
  <2> QED BY <2>1, <2>2, SessionChanges
<1> QED BY <1>1, <1>2, <1>3, <1>4, <1>5, <1>6, <1>7, <1>8, <1>9, <1>10, <1>11, <1>12, <1>13,
    <1>14, <1>15, <1>16
  DEF SessionStep

LEMMA TypesStep ==
  ASSUME TypeOK, NEW s \in Sessions, SessionStep(s)
  PROVE  TypeOK'
<1>0. sess[s] \in SessionStates /\ SessionOK(sess[s])
  BY DEF TypeOK
<1>1. row' \in [Rows -> {"free", "pending", "fulfilled", "cancelled"}]
  BY <1>0 DEF TypeOK, SessionStep, Reopened,
      Launch, NoOtp, OpenRequest, OpenWaiter, OpenFails, TakeCode, Resend, ResendAnnounced, WaitFails,
      MarkFulfilled, CloseWaiter, SessionEnds, CancelFind, CancelClose, CancelFails, Forgotten
<1>2. stream' \in [Rows -> [group : BOOLEAN, unread : Seq(Nat)]]
  <2>1. CASE OpenWaiter(s)
    BY <1>0, <2>1 DEF TypeOK, OpenWaiter, At, SessionOK, Listening
  <2>2. CASE TakeCode(s)
    <3>1. /\ sess[s].row \in Rows
          /\ stream[sess[s].row].unread \in Seq(Nat) /\ stream[sess[s].row].unread # <<>>
      BY <1>0, <2>2 DEF TypeOK, TakeCode, Mine, At, SessionOK, Listening
    <3>2. ASSUME NEW q \in Seq(Nat), q # <<>> PROVE Tail(q) \in Seq(Nat)
      BY <3>2
    <3>3. stream' = [stream EXCEPT ![sess[s].row].unread = Tail(stream[sess[s].row].unread)]
      BY <2>2 DEF TakeCode
    <3> QED BY <3>1, <3>2, <3>3 DEF TypeOK
  <2>3. CASE CloseWaiter(s)
    BY <1>0, <2>3 DEF TypeOK, CloseWaiter, NoStream, At, SessionOK, Listening
  <2>4. CASE UNCHANGED stream
    BY <2>4 DEF TypeOK
  <2> QED BY <2>1, <2>2, <2>3, <2>4 DEF SessionStep, Launch, NoOtp, OpenRequest, OpenFails, Resend,
        ResendAnnounced, WaitFails, MarkFulfilled, SessionEnds, CancelFind, CancelClose,
        CancelFails, Forgotten
<1>3. /\ submit' = NoSubmit \/ submit' \in [row : Rows, panel : BOOLEAN]
      /\ submitted' \in Nat
  BY <1>0
  DEF TypeOK, SessionStep, NoSubmit, Launch, NoOtp, OpenRequest, OpenWaiter, OpenFails, TakeCode,
      Resend, ResendAnnounced, WaitFails, MarkFulfilled, CloseWaiter, SessionEnds, CancelFind,
      CancelClose, CancelFails, Forgotten
<1>4. owed' \in [Rows -> SUBSET Nat]
  <2>1. CASE TakeCode(s)
    BY <2>1 DEF TypeOK, TakeCode
  <2>2. CASE CloseWaiter(s)
    BY <2>2 DEF TypeOK, CloseWaiter
  <2>3. CASE UNCHANGED owed
    BY <2>3 DEF TypeOK
  <2> QED BY <2>1, <2>2, <2>3 DEF SessionStep, Launch, NoOtp, OpenRequest, OpenWaiter, OpenFails,
        Resend, ResendAnnounced, WaitFails, MarkFulfilled, SessionEnds, CancelFind, CancelClose,
        CancelFails, Forgotten
<1>5. orphan' \subseteq Rows /\ stray' \subseteq Rows
  <2>1. CASE OpenRequest(s)
    BY <2>1 DEF TypeOK, OpenRequest
  <2>2. CASE OpenFails(s) \/ WaitFails(s)
    BY <2>2 DEF TypeOK, OpenFails, WaitFails, Pending
  <2>3. CASE Resend(s)
    BY <2>3 DEF TypeOK, Resend
  <2>4. CASE MarkFulfilled(s) \/ CancelClose(s) \/ CancelFails(s)
    BY <2>4 DEF TypeOK, MarkFulfilled, CancelClose, CancelFails, Pending
  <2>5. CASE UNCHANGED <<orphan, stray>>
    BY <2>5 DEF TypeOK
  <2> QED BY <2>1, <2>2, <2>3, <2>4, <2>5 DEF SessionStep, Launch, NoOtp, OpenWaiter, TakeCode,
        ResendAnnounced, CloseWaiter, SessionEnds, CancelFind, Forgotten
<1> QED BY <1>1, <1>2, <1>3, <1>4, <1>5, SessionsTyped DEF TypeOK

(* What a session's step leaves of the records of the sessions. *)
LEMMA OthersStay ==
  ASSUME TypeOK, NEW s \in Sessions, SessionStep(s), NEW z \in Sessions, z # s
  PROVE  sess'[z] = sess[z]
<1>0. sess \in [Sessions -> SessionStates]
  BY DEF TypeOK
<1>1. CASE Launch(s) \/ NoOtp(s) \/ OpenRequest(s) \/ OpenFails(s) \/ Forgotten(s)
  BY <1>0, <1>1 DEF Launch, NoOtp, OpenRequest, OpenFails, Forgotten
<1>2. CASE OpenWaiter(s) \/ TakeCode(s) \/ Resend(s) \/ ResendAnnounced(s)
  BY <1>0, <1>2 DEF OpenWaiter, TakeCode, Resend, ResendAnnounced, Goto
<1>3. CASE WaitFails(s) \/ MarkFulfilled(s)
  BY <1>0, <1>3 DEF WaitFails, MarkFulfilled
<1>4. CASE CloseWaiter(s)
  BY <1>0, <1>4 DEF CloseWaiter
<1>5. CASE SessionEnds(s) \/ CancelFind(s) \/ CancelClose(s) \/ CancelFails(s)
  BY <1>0, <1>5 DEF SessionEnds, CancelFind, CancelClose, CancelFails
<1> QED BY <1>1, <1>2, <1>3, <1>4, <1>5 DEF SessionStep

LEMMA LoginEnds ==
  ASSUME NEW s \in Sessions
  PROVE  /\ LoginOver(s).pc = "over" /\ LoginOver(s).alive = sess[s].alive
         /\ LoginOver(s).cancel = sess[s].cancel /\ LoginOver(s).found = sess[s].found
  BY DEF LoginOver, NoSession

LEMMA ClosesTo ==
  ASSUME TypeOK, NEW s \in Sessions, CloseWaiter(s)
  PROVE  /\ sess[s].pc = "close" /\ sess'[s].pc \in {"over", "login"}
         /\ sess'[s].alive = sess[s].alive
         /\ sess'[s].cancel = sess[s].cancel /\ sess'[s].found = sess[s].found
<1>0. sess \in [Sessions -> SessionStates] /\ sess[s] \in SessionStates
  BY DEF TypeOK
<1>1. CASE sess' = [sess EXCEPT ![s] = LoginOver(s)]
  BY <1>0, <1>1, LoginEnds DEF CloseWaiter, At
<1>2. CASE sess' = [sess EXCEPT ![s] = [@ EXCEPT !.pc = "login", !.row = None, !.ok = FALSE,
                                               !.attempt = sess[s].attempt + 1]]
  BY <1>0, <1>2 DEF CloseWaiter, At, SessionStates
<1> QED BY <1>1, <1>2 DEF CloseWaiter

LEMMA FindsTo ==
  ASSUME TypeOK, NEW s \in Sessions, CancelFind(s)
  PROVE  /\ sess'[s].pc = sess[s].pc /\ sess'[s].row = sess[s].row
         /\ sess'[s].alive = sess[s].alive /\ sess'[s].ok = sess[s].ok
<1>0. sess \in [Sessions -> SessionStates] /\ sess[s] \in SessionStates
  BY DEF TypeOK
<1>1. CASE sess' = [sess EXCEPT ![s].cancel = "none"]
  BY <1>0, <1>1 DEF SessionStates
<1>2. CASE \E q \in Pending :
                sess' = [sess EXCEPT ![s] = [@ EXCEPT !.cancel = "close", !.found = q]]
  BY <1>0, <1>2 DEF SessionStates
<1> QED BY <1>1, <1>2 DEF CancelFind

HeardBy(z, r) == \/ sess[z].alive /\ (Listens(z, r) \/ r \in stray)
                 \/ sess[z].cancel = "find"
                 \/ sess[z].found = r

(* Whoever heard a request before a step of s hears it after, or it is s.  *)
LEMMA HeardStays ==
  ASSUME IInv, NEW s \in Sessions, SessionStep(s),
         \A r \in Pending' \ orphan' : \/ HeardBy(s, r)'
                                       \/ /\ r \in Pending \ orphan /\ ~HeardBy(s, r)
                                          /\ r \in stray => r \in stray'
  PROVE  PendingIsHeard'
<1> SUFFICES ASSUME NEW r \in Pending' \ orphan'
             PROVE  \E z \in Sessions : HeardBy(z, r)'
  BY DEF PendingIsHeard, HeardBy
<1>1. CASE HeardBy(s, r)'
  BY <1>1
<1>2. CASE r \in Pending \ orphan /\ ~HeardBy(s, r) /\ (r \in stray => r \in stray')
  <2>1. PICK z \in Sessions : HeardBy(z, r)
    BY <1>2 DEF IInv, PendingIsHeard, HeardBy
  <2>2. sess'[z] = sess[z]
    BY <1>2, <2>1, OthersStay DEF IInv
  <2> QED BY <2>1, <2>2 DEF HeardBy, Listens
<1> QED BY <1>1, <1>2

LEMMA HeardStep ==
  ASSUME IInv, NEW s \in Sessions, SessionStep(s)
  PROVE  PendingIsHeard'
<1>0. /\ sess \in [Sessions -> SessionStates] /\ sess[s] \in SessionStates
      /\ SessionOK(sess[s])
  BY DEF IInv, TypeOK
<1> SUFFICES ASSUME NEW r \in Pending' \ orphan'
             PROVE  \/ HeardBy(s, r)'
                    \/ r \in Pending \ orphan /\ ~HeardBy(s, r) /\ (r \in stray => r \in stray')
  BY HeardStays
<1> USE <1>0 DEF HeardBy, Listens, Listening, SessionStates, SessionOK, At, Goto
<1>1. CASE Launch(s)
  BY <1>1 DEF Launch, Pending
<1>2. CASE NoOtp(s)
  BY <1>2 DEF NoOtp, Pending, LoginOver
<1>3. CASE OpenRequest(s)
  BY <1>3 DEF OpenRequest, Pending, OpensRow, Reopened
<1>4. CASE OpenWaiter(s)
  BY <1>4 DEF OpenWaiter, Pending, Emit
<1>5. CASE OpenFails(s)
  BY <1>5 DEF OpenFails, Pending, LoginOver
<1>6. CASE TakeCode(s)
  BY <1>6 DEF TakeCode, Pending, Mine
<1>7. CASE Resend(s)
  BY <1>7 DEF Resend, Pending, Mine, OpensRow, Reopened
<1>8. CASE ResendAnnounced(s)
  BY <1>8 DEF ResendAnnounced, Pending, Emit
<1>9. CASE WaitFails(s)
  BY <1>9 DEF WaitFails, Pending, Mine
<1>10. CASE MarkFulfilled(s)
  <2>1. /\ row' = [row EXCEPT ![sess[s].row] = IF @ = "pending" THEN "fulfilled" ELSE @]
        /\ orphan' = orphan \ {sess[s].row} /\ stray' = stray \ {sess[s].row}
        /\ sess' = [sess EXCEPT ![s] = [@ EXCEPT !.pc = "close", !.ok = TRUE]]
        /\ sess[s].pc = "got"
    BY <1>10 DEF MarkFulfilled
  <2>2. r # sess[s].row /\ r \in Pending \ orphan
    BY <2>1 DEF IInv, TypeOK, Pending
  <2> QED BY <2>1, <2>2
<1>11. CASE CloseWaiter(s)
  <2>1. r \in Pending \ orphan
    BY <1>11 DEF CloseWaiter, Pending
  <2>2. /\ sess[s].pc = "close"
        /\ sess'[s].cancel = sess[s].cancel /\ sess'[s].found = sess[s].found
    BY <1>11, ClosesTo DEF IInv
  <2>3. sess[s].alive => ~Listens(s, r)
    BY <2>1, <2>2 DEF IInv, Closing
  <2>4. sess'[s].alive = sess[s].alive /\ stray' = stray
    BY <1>11, ClosesTo DEF IInv, CloseWaiter
  <2> QED BY <2>1, <2>2, <2>3, <2>4
<1>12. CASE SessionEnds(s)
  BY <1>12 DEF SessionEnds, Pending
<1>13. CASE CancelFind(s)
  <2>1. /\ Pending' = Pending /\ orphan' = orphan /\ r \in Pending
        /\ sess[s].cancel = "find"
    BY <1>13 DEF CancelFind, Pending
  <2>2. PICK q \in Pending :
             sess' = [sess EXCEPT ![s] = [@ EXCEPT !.cancel = "close", !.found = q]]
    BY <1>13, <2>1 DEF CancelFind
  <2>3. q = r
    BY <2>1 DEF IInv, OneAtATime
  <2> QED BY <2>2, <2>3
<1>14. CASE CancelClose(s)
  <2>1. /\ r # sess[s].found /\ r \in Pending \ orphan /\ sess[s].cancel = "close"
        /\ ~sess[s].alive /\ (r \in stray => r \in stray')
    BY <1>14 DEF CancelClose, Pending, IInv, TypeOK
  <2> QED BY <2>1
<1>15. CASE CancelFails(s)
  BY <1>15 DEF CancelFails, Pending
<1>16. CASE Forgotten(s)
  BY <1>16 DEF Forgotten, Pending
<1> QED BY <1>1, <1>2, <1>3, <1>4, <1>5, <1>6, <1>7, <1>8, <1>9, <1>10, <1>11, <1>12, <1>13,
    <1>14, <1>15, <1>16
  DEF SessionStep

LEMMA OneStep ==
  ASSUME IInv, NEW s \in Sessions, SessionStep(s)
  PROVE  OneAtATime'
<1>11. CASE CloseWaiter(s)
  <2>1. UNCHANGED <<row, orphan>>
    BY <1>11 DEF CloseWaiter
  <2>2. ASSUME NEW z \in Sessions
        PROVE  /\ sess'[z].alive = sess[z].alive
               /\ sess'[z].pc \in Listening => sess'[z] = sess[z]
    BY <1>11, ClosesTo, OthersStay DEF IInv, Listening
  <2> QED BY <2>1, <2>2 DEF IInv, OneAtATime, Listening, Pending
<1>13. CASE CancelFind(s)
  <2>1. UNCHANGED <<row, orphan>>
    BY <1>13 DEF CancelFind
  <2>2. ASSUME NEW z \in Sessions
        PROVE  /\ sess'[z].alive = sess[z].alive /\ sess'[z].ok = sess[z].ok
               /\ sess'[z].pc = sess[z].pc /\ sess'[z].row = sess[z].row
    BY <1>13, FindsTo, OthersStay DEF IInv
  <2> QED BY <2>1, <2>2 DEF IInv, OneAtATime, Listening, Pending
<1> USE AssistanceBounds DEF IInv, TypeOK, SessionStates, SessionOK, Listening, At, Goto, Pending,
      NoSession, OneAtATime
<1>1. CASE Launch(s)
  BY <1>1 DEF Launch
<1>2. CASE NoOtp(s)
  BY <1>2 DEF NoOtp, LoginOver
<1>3. CASE OpenRequest(s)
  BY <1>3 DEF OpenRequest, OpensRow, Reopened
<1>4. CASE OpenWaiter(s)
  BY <1>4 DEF OpenWaiter, Emit
<1>5. CASE OpenFails(s)
  BY <1>5 DEF OpenFails, LoginOver
<1>6. CASE TakeCode(s)
  BY <1>6 DEF TakeCode, Mine
<1>7. CASE Resend(s)
  BY <1>7 DEF Resend, Mine, OpensRow, Reopened
<1>8. CASE ResendAnnounced(s)
  BY <1>8 DEF ResendAnnounced, Emit
<1>9. CASE WaitFails(s)
  BY <1>9 DEF WaitFails, Mine
<1>10. CASE MarkFulfilled(s)
  BY <1>10 DEF MarkFulfilled, Emit
<1>12. CASE SessionEnds(s)
  BY <1>12 DEF SessionEnds
<1>14. CASE CancelClose(s)
  BY <1>14 DEF CancelClose, Emit
<1>15. CASE CancelFails(s)
  BY <1>15 DEF CancelFails
<1>16. CASE Forgotten(s)
  BY <1>16 DEF Forgotten
<1> QED BY <1>1, <1>2, <1>3, <1>4, <1>5, <1>6, <1>7, <1>8, <1>9, <1>10, <1>11, <1>12, <1>13,
    <1>14, <1>15, <1>16
  DEF SessionStep

LEMMA ClosingStep ==
  ASSUME IInv, NEW s \in Sessions, SessionStep(s)
  PROVE  Closing'
<1>11. CASE CloseWaiter(s)
  <2>1. UNCHANGED <<row, orphan>>
    BY <1>11 DEF CloseWaiter
  <2>2. ASSUME NEW z \in Sessions
        PROVE  /\ sess'[z].alive = sess[z].alive
               /\ sess'[z].pc \in Listening => sess'[z] = sess[z]
    BY <1>11, ClosesTo, OthersStay DEF IInv, Listening
  <2> QED BY <2>1, <2>2 DEF IInv, Closing, Listening, Pending
<1>13. CASE CancelFind(s)
  <2>1. UNCHANGED <<row, orphan>>
    BY <1>13 DEF CancelFind
  <2>2. ASSUME NEW z \in Sessions
        PROVE  /\ sess'[z].alive = sess[z].alive /\ sess'[z].ok = sess[z].ok
               /\ sess'[z].pc = sess[z].pc /\ sess'[z].row = sess[z].row
    BY <1>13, FindsTo, OthersStay DEF IInv
  <2> QED BY <2>1, <2>2 DEF IInv, Closing, Listening, Pending
<1> USE AssistanceBounds DEF IInv, TypeOK, SessionStates, SessionOK, Listening, At, Goto, Pending,
      NoSession, OneAtATime, Closing
<1>1. CASE Launch(s)
  BY <1>1 DEF Launch
<1>2. CASE NoOtp(s)
  BY <1>2 DEF NoOtp, LoginOver
<1>3. CASE OpenRequest(s)
  BY <1>3 DEF OpenRequest, OpensRow, Reopened
<1>4. CASE OpenWaiter(s)
  BY <1>4 DEF OpenWaiter, Emit
<1>5. CASE OpenFails(s)
  BY <1>5 DEF OpenFails, LoginOver
<1>6. CASE TakeCode(s)
  BY <1>6 DEF TakeCode, Mine
<1>7. CASE Resend(s)
  BY <1>7 DEF Resend, Mine, OpensRow, Reopened
<1>8. CASE ResendAnnounced(s)
  BY <1>8 DEF ResendAnnounced, Emit
<1>9. CASE WaitFails(s)
  BY <1>9 DEF WaitFails, Mine
<1>10. CASE MarkFulfilled(s)
  BY <1>10 DEF MarkFulfilled, Emit
<1>12. CASE SessionEnds(s)
  BY <1>12 DEF SessionEnds
<1>14. CASE CancelClose(s)
  BY <1>14 DEF CancelClose, Emit
<1>15. CASE CancelFails(s)
  BY <1>15 DEF CancelFails
<1>16. CASE Forgotten(s)
  BY <1>16 DEF Forgotten
<1> QED BY <1>1, <1>2, <1>3, <1>4, <1>5, <1>6, <1>7, <1>8, <1>9, <1>10, <1>11, <1>12, <1>13,
    <1>14, <1>15, <1>16
  DEF SessionStep

LEMMA KeptStep ==
  ASSUME IInv, NEW s \in Sessions, SessionStep(s)
  PROVE  NothingLost'
<1>0. /\ sess[s] \in SessionStates /\ SessionOK(sess[s])
      /\ stream \in [Rows -> [group : BOOLEAN, unread : Seq(Nat)]]
      /\ owed \in [Rows -> SUBSET Nat]
      /\ row \in [Rows -> {"free", "pending", "fulfilled", "cancelled"}]
  BY DEF IInv, TypeOK
<1>1. \A r \in Rows : row'[r] \in {"free", "pending"} => row[r] \in {"free", "pending"}
  BY <1>0 DEF IInv, TypeOK, SessionStep, Launch, NoOtp, OpenRequest, OpenWaiter, OpenFails,
      TakeCode, Resend, ResendAnnounced, WaitFails, MarkFulfilled, CloseWaiter, SessionEnds,
      CancelFind, CancelClose, CancelFails, Forgotten, Reopened, OpensRow, Pending
<1>2. CASE TakeCode(s)
  <2> DEFINE q == sess[s].row
             codes == stream[q].unread
  <2>1. q \in Rows /\ codes \in Seq(Nat) /\ codes # <<>>
    BY <1>0, <1>2 DEF TakeCode, Mine, At, SessionOK, Listening
  <2>2. /\ stream' = [stream EXCEPT ![q].unread = Tail(codes)]
        /\ owed' = [owed EXCEPT ![q] = @ \ {Head(codes)}]
    BY <1>2 DEF TakeCode, Mine
  <2>3. ToSet(codes) \subseteq {Head(codes)} \cup ToSet(Tail(codes))
    <3> HIDE DEF codes
    <3>1. \A i \in DOMAIN codes :
             i = 1 \/ (i - 1 \in DOMAIN Tail(codes) /\ codes[i] = Tail(codes)[i - 1])
      BY <2>1
    <3>2. Head(codes) = codes[1]
      BY <2>1
    <3> QED BY <3>1, <3>2 DEF ToSet
  <2> HIDE DEF q, codes
  <2> QED BY <1>0, <1>1, <2>1, <2>2, <2>3 DEF IInv, NothingLost, codes
<1>3. CASE OpenWaiter(s)
  <2>1. \A r \in Rows : stream'[r].unread = stream[r].unread
    BY <1>0, <1>3 DEF OpenWaiter
  <2> QED BY <1>1, <1>3, <2>1 DEF IInv, NothingLost, OpenWaiter
<1>4. CASE CloseWaiter(s)
  <2>1. sess[s].row \in Rows /\ sess[s].pc = "close"
    BY <1>0, <1>4 DEF CloseWaiter, At, SessionOK, Listening
  <2>2. row' = row /\ \A r \in Rows \ {sess[s].row} : stream'[r] = stream[r] /\ owed'[r] = owed[r]
    BY <1>0, <1>4 DEF CloseWaiter
  <2>3. CASE sess[s].ok
    BY <1>0, <2>1, <2>2, <2>3 DEF IInv, Closing, Listening, Pending, NothingLost
  <2>4. CASE ~sess[s].ok
    <3>1. owed'[sess[s].row] = {}
      BY <1>0, <1>4, <2>1, <2>4 DEF CloseWaiter
    <3> QED BY <2>1, <2>2, <3>1 DEF IInv, NothingLost
  <2> QED BY <2>3, <2>4
<1>5. CASE UNCHANGED <<stream, owed>>
  BY <1>1, <1>5 DEF IInv, NothingLost
<1> QED BY <1>2, <1>3, <1>4, <1>5 DEF SessionStep, Launch, NoOtp, OpenRequest, OpenFails, Resend,
      ResendAnnounced, WaitFails, MarkFulfilled, SessionEnds, CancelFind, CancelClose,
      CancelFails, Forgotten

LEMMA SessionInv ==
  ASSUME IInv, NEW s \in Sessions, SessionStep(s)
  PROVE  IInv'
BY TypesStep, OneStep, ClosingStep, HeardStep, KeptStep DEF IInv

-----------------------------------------------------------------------------
(* The steps of the people, the page and the server as a whole.            *)
LEMMA PeopleInv ==
  ASSUME IInv, UNCHANGED <<row, stream, sess, submitted, owed, orphan, stray>>,
         submit' = NoSubmit \/ submit' \in [row : Rows, panel : BOOLEAN]
  PROVE  IInv'
BY DEF IInv, TypeOK, OneAtATime, Closing, PendingIsHeard, NothingLost, Pending, Listens, NoSubmit

LEMMA SubmitInv ==
  ASSUME IInv, SubmitAdd
  PROVE  IInv'
<1> DEFINE q == submit.row
<1>1. /\ q \in Rows /\ submitted + 1 \in Nat
      /\ stream \in [Rows -> [group : BOOLEAN, unread : Seq(Nat)]]
      /\ owed \in [Rows -> SUBSET Nat]
  BY DEF IInv, TypeOK, SubmitAdd
<1>2. /\ submitted' = submitted + 1 /\ submit' = NoSubmit
      /\ stream' = [stream EXCEPT ![q].unread = Append(@, submitted')]
      /\ owed' = [owed EXCEPT ![q] = @ \cup {submitted'}]
      /\ UNCHANGED <<row, sess, orphan, stray>>
  BY DEF SubmitAdd
<1>3. TypeOK'
  <2>1. stream' \in [Rows -> [group : BOOLEAN, unread : Seq(Nat)]]
    <3> DEFINE more == Append(stream[q].unread, submitted + 1)
    <3>1. more \in Seq(Nat)
      BY <1>1
    <3>2. stream' = [stream EXCEPT ![q].unread = more]
      BY <1>1, <1>2
    <3> HIDE DEF more, q
    <3> QED BY <1>1, <3>1, <3>2
  <2>2. owed' \in [Rows -> SUBSET Nat]
    BY <1>1, <1>2
  <2> QED BY <1>1, <1>2, <2>1, <2>2 DEF IInv, TypeOK
<1>4. NothingLost'
  <2> DEFINE codes == stream[q].unread
  <2>1. codes \in Seq(Nat) /\ stream'[q].unread = Append(codes, submitted + 1)
    BY <1>1, <1>2
  <2>2. ToSet(codes) \cup {submitted + 1} \subseteq ToSet(stream'[q].unread)
    <3>1. \A i \in DOMAIN codes : /\ i \in DOMAIN stream'[q].unread
                                  /\ stream'[q].unread[i] = codes[i]
      BY <1>1, <2>1
    <3>2. /\ Len(codes) + 1 \in DOMAIN stream'[q].unread
          /\ stream'[q].unread[Len(codes) + 1] = submitted + 1
      BY <1>1, <2>1
    <3> QED BY <3>1, <3>2 DEF ToSet
  <2>3. owed[q] \subseteq ToSet(codes) \/ row[q] \notin {"free", "pending"}
    BY <1>1 DEF IInv, NothingLost
  <2>4. owed'[q] = owed[q] \cup {submitted + 1}
    BY <1>1, <1>2
  <2>5. ASSUME NEW r \in Rows, r # q
        PROVE  stream'[r] = stream[r] /\ owed'[r] = owed[r]
    <3> HIDE DEF q
    <3>1. stream'[r] = stream[r]
      BY <1>1, <1>2, <2>5
    <3>2. owed'[r] = owed[r]
      BY <1>1, <1>2, <2>5
    <3> QED BY <3>1, <3>2
  <2> QED BY <1>2, <2>2, <2>3, <2>4, <2>5 DEF IInv, NothingLost
<1>5. OneAtATime' /\ Closing' /\ PendingIsHeard'
  BY <1>2 DEF IInv, OneAtATime, Closing, PendingIsHeard, Pending, Listens
<1> QED BY <1>3, <1>4, <1>5 DEF IInv

(* Everything that lived is gone, and what it left pending is orphaned.    *)
LEMMA CrashInv ==
  ASSUME IInv, Crash
  PROVE  IInv'
<1>1. sess' = [s \in Sessions |-> NoSession] /\ orphan' = orphan \cup Pending
  BY DEF Crash
<1>2. TypeOK'
  BY <1>1, AssistanceBounds
  DEF IInv, TypeOK, Crash, NoSession, SessionStates, SessionOK, Listening, Pending
<1>3. OneAtATime' /\ Closing' /\ PendingIsHeard'
  BY <1>1 DEF IInv, OneAtATime, Closing, PendingIsHeard, Pending, Crash, NoSession, Listening
<1>4. NothingLost'
  BY DEF IInv, NothingLost, Crash
<1> QED BY <1>2, <1>3, <1>4 DEF IInv

LEMMA NextInv == IInv /\ [Next]_vars => IInv'
<1> SUFFICES ASSUME IInv, [Next]_vars PROVE IInv'
  OBVIOUS
<1>1. submit = NoSubmit \/ submit \in [row : Rows, panel : BOOLEAN]
  BY DEF IInv, TypeOK
<1>2. CASE Route \/ DropConsumer \/ EventLost
  BY <1>1, <1>2, PeopleInv DEF Route, DropConsumer, EventLost, Rest
<1>3. CASE \E s \in Sessions : SessionStep(s)
  BY <1>3, SessionInv
<1>4. CASE ServerDies
  BY <1>4, CrashInv DEF ServerDies
<1>5. CASE Connect \/ Disconnect \/ Hydrate \/ HydrateArrives \/ PostArrives \/ UNCHANGED vars
  BY <1>1, <1>5, PeopleInv
  DEF Connect, Disconnect, Hydrate, HydrateArrives, PostArrives, vars, back
<1>6. CASE PanelSubmits \/ ApiSubmits
  <2>1. PICK r \in Pending, panel \in BOOLEAN : submit' = [row |-> r, panel |-> panel]
    BY <1>6 DEF PanelSubmits, ApiSubmits, SubmitFind
  <2>2. submit' \in [row : Rows, panel : BOOLEAN]
    BY <2>1 DEF Pending
  <2> QED BY <1>6, <2>2, PeopleInv DEF PanelSubmits, ApiSubmits, SubmitFind
<1>7. CASE CodeAdded
  BY <1>7, SubmitInv DEF CodeAdded
<1>8. CASE Reload
  <2>1. submit' = NoSubmit \/ submit' \in [row : Rows, panel : BOOLEAN]
    <3>1. submit' = [submit EXCEPT !.panel = FALSE]
      BY <1>8 DEF Reload
    <3>2. CASE submit = NoSubmit
      BY <3>1, <3>2 DEF NoSubmit
    <3>3. CASE submit \in [row : Rows, panel : BOOLEAN]
      BY <3>1, <3>3
    <3> QED BY <1>1, <3>2, <3>3
  <2> QED BY <1>8, <2>1, PeopleInv DEF Reload
<1> QED BY <1>2, <1>3, <1>4, <1>5, <1>6, <1>7, <1>8 DEF Next

-----------------------------------------------------------------------------
(* The inductive invariant holds of the composition with the page.         *)
THEOREM AssistanceSafe == Spec => []IInv
BY InitInv, NextInv, PTL DEF Spec

(* Rows, streams and sessions keep their types.                            *)
THEOREM AssistanceTyped == Spec => []TypeOK
<1>1. IInv => TypeOK
  BY DEF IInv
<1> QED BY <1>1, AssistanceSafe, PTL

(* A pending request is listened to by the live session, or its cancel is  *)
(* under way, or the live session's resend opened it after a late cancel   *)
(* had closed its own; but for requests that a session opened after its    *)
(* end, and those a failure or a crash cut off: handleOtp and waitForOtp   *)
(* against done and the sessions that outlive it.                          *)
THEOREM RequestsAreHeard == Spec => []PendingIsHeard
<1>1. IInv => PendingIsHeard
  BY DEF IInv
<1> QED BY <1>1, AssistanceSafe, PTL

(* A code accepted for a pending request waits in its stream or was read,  *)
(* with any number of sessions, codes, windows and crashes.                *)
THEOREM CodesAreKept == Spec => []AcceptedCodeKept
<1>1. IInv => AcceptedCodeKept
  BY DEF IInv, NothingLost, AcceptedCodeKept, Pending
<1> QED BY <1>1, AssistanceSafe, PTL

-----------------------------------------------------------------------------
(* The page.  What it shows is tied to the table by what is still on its   *)
(* way: an announcement, a code nobody read, a report of one that was.     *)
ClientOK ==
    /\ client \in [online : BOOLEAN, shown : BOOLEAN, hydrate : {"todo", "asked", "done"},
                   snap : BOOLEAN, post : {"none", "asked", "answered"}, doubt : BOOLEAN]
    /\ client.snap => client.hydrate = "asked"
    /\ client.post = "asked" <=> submit.panel
    /\ untrue \in BOOLEAN
    /\ wire \in {<<>>, <<"requested">>, <<"fulfilled">>, <<"cancelled">>}

Announced == \A s \in Sessions : sess[s].pc \notin {"opened", "resent"}
CodesRead == /\ \A r \in Pending : stream[r].unread = <<>>
             /\ \A s \in Sessions : sess[s].pc = "got" => sess[s].row \notin Pending

(* An event on the wire says what the table says.                          *)
WireTrue == wire # <<>> /\ ~untrue => (Head(wire) = "requested" <=> Pending # {})

(* The alert, or a hydration that will show it, means a pending request;   *)
(* one that is not shown has an event to come, and so has one the page is  *)
(* about to clear because its own POST goes to that request.               *)
PageTrue ==
    wire = <<>> /\ ~untrue /\ ~client.doubt =>
        /\ client.shown \/ client.snap => Pending # {}
        /\ Pending # {} /\ Announced /\ client.hydrate # "todo" /\ ~client.snap =>
              /\ ~client.shown \/ client.post = "answered" => ~CodesRead
              /\ client.post = "asked" => submit.row \in Pending

PageInv == ClientOK /\ WireTrue /\ PageTrue

LEMMA PageInit == Init => PageInv
<1> SUFFICES ASSUME Init PROVE PageInv
  OBVIOUS
<1>1. /\ client = Mounted /\ untrue = FALSE /\ wire = <<>> /\ ~submit.panel
  BY DEF Init, AssistanceInit, NoSubmit
<1>2. ClientOK
  BY <1>1 DEF ClientOK, Mounted
<1>3. ~client.shown /\ ~client.snap /\ client.hydrate = "todo"
  BY <1>1 DEF Mounted
<1> QED BY <1>1, <1>2, <1>3 DEF PageInv, WireTrue, PageTrue

(* What a session's step can do to the page's view of the table.           *)
Quiet == UNCHANGED <<row, wire, untrue>> /\ (Announced' => Announced) /\ (CodesRead' => CodesRead)
Opening == UNCHANGED <<wire, untrue>> /\ Pending' # {} /\ ~Announced'
Failing == UNCHANGED wire /\ untrue' = TRUE
Announcing == /\ wire' = <<"requested">> /\ UNCHANGED row
              /\ untrue' = (untrue \/ Pending = {})
Reporting == /\ wire' \in {<<"fulfilled">>, <<"cancelled">>}
             /\ untrue' \in BOOLEAN /\ (untrue => untrue') /\ (Pending' # {} => untrue')

(* A session that keeps its announcements and its code is quiet.           *)
LEMMA StaysQuiet ==
  ASSUME TypeOK, NEW s \in Sessions, SessionStep(s), UNCHANGED <<row, wire, untrue>>,
         sess[s].pc \in {"opened", "resent"} => sess'[s].pc = sess[s].pc,
         sess[s].pc = "got" => sess'[s].pc = "got" /\ sess'[s].row = sess[s].row,
         \A r \in Pending : stream'[r].unread = stream[r].unread
  PROVE  Quiet
<1>1. \A z \in Sessions : z # s => sess'[z] = sess[z]
  BY OthersStay
<1>2. Pending' = Pending
  BY DEF Pending
<1>3. Announced' => Announced
  BY <1>1 DEF Announced
<1>4. CodesRead' => CodesRead
  BY <1>1, <1>2 DEF CodesRead
<1> QED BY <1>3, <1>4 DEF Quiet

LEMMA StepKinds ==
  ASSUME IInv, NEW s \in Sessions, SessionStep(s), wire = <<>>, untrue \in BOOLEAN
  PROVE  /\ Quiet \/ Opening \/ Failing \/ Announcing \/ Reporting
         /\ submit' = submit
<1>0. /\ TypeOK /\ sess \in [Sessions -> SessionStates] /\ sess[s] \in SessionStates
      /\ SessionOK(sess[s])
      /\ row \in [Rows -> {"free", "pending", "fulfilled", "cancelled"}]
      /\ stream \in [Rows -> [group : BOOLEAN, unread : Seq(Nat)]]
  BY DEF IInv, TypeOK
<1>s. submit' = submit
  BY DEF SessionStep, Launch, NoOtp, OpenRequest, OpenWaiter, OpenFails, TakeCode, Resend,
      ResendAnnounced, WaitFails, MarkFulfilled, CloseWaiter, SessionEnds, CancelFind,
      CancelClose, CancelFails, Forgotten
<1>1. CASE Launch(s)
  <2>1. sess[s].pc = "idle" /\ UNCHANGED <<row, wire, untrue, stream>>
    BY <1>1 DEF Launch, NoSession
  <2> QED BY <1>0, <1>s, <2>1, StaysQuiet
<1>2. CASE NoOtp(s)
  BY <1>0, <1>2, <1>s, StaysQuiet DEF NoOtp, At
<1>3. CASE OpenRequest(s) \/ Resend(s)
  <2>1. PICK r \in Rows : Reopened(r)
    BY <1>3 DEF OpenRequest, Resend
  <2>2. Pending' # {}
    BY <1>0, <2>1 DEF Reopened, Pending
  <2>3. sess'[s].pc \in {"opened", "resent"}
    <3>1. CASE OpenRequest(s)
      BY <1>0, <3>1 DEF OpenRequest, SessionStates
    <3>2. CASE Resend(s)
      BY <1>0, <3>2 DEF Resend, SessionStates
    <3> QED BY <1>3, <3>1, <3>2
  <2>4. UNCHANGED <<wire, untrue>>
    BY <1>3 DEF OpenRequest, Resend
  <2> QED BY <1>s, <2>2, <2>3, <2>4 DEF Opening, Announced
<1>4. CASE OpenWaiter(s) \/ ResendAnnounced(s)
  <2>1. wire' = Append(<<>>, "requested")
    BY <1>4 DEF OpenWaiter, ResendAnnounced, Emit
  <2> QED BY <1>4, <1>s, <2>1 DEF OpenWaiter, ResendAnnounced, Announcing
<1>5. CASE OpenFails(s)
  <2>1. CASE At(s, "opened")
    BY <1>5, <1>s, <2>1 DEF OpenFails, Failing
  <2>2. CASE ~At(s, "opened")
    BY <1>0, <1>5, <1>s, <2>2, StaysQuiet DEF OpenFails, At
  <2> QED BY <2>1, <2>2
<1>6. CASE TakeCode(s)
  <2> DEFINE q == sess[s].row
  <2>1. /\ q \in Rows /\ sess[s].pc = "wait" /\ stream[q].unread # <<>>
        /\ UNCHANGED <<row, wire, untrue>>
    BY <1>0, <1>6 DEF TakeCode, At, Mine, SessionOK, Listening
  <2>2. /\ sess'[s].pc = "got" /\ sess'[s].row = q
        /\ \A z \in Sessions : z # s => sess'[z] = sess[z]
    BY <1>0, <1>6, OthersStay DEF TakeCode, Goto, SessionStates
  <2>3. \A r \in Rows : r # q => stream'[r].unread = stream[r].unread
    BY <1>0, <1>6 DEF TakeCode
  <2>4. Pending' = Pending
    BY <2>1 DEF Pending
  <2>5. Announced' => Announced
    BY <2>1, <2>2 DEF Announced
  <2>6. CodesRead' => CodesRead
    BY <2>1, <2>2, <2>3, <2>4 DEF CodesRead, Pending
  <2> QED BY <1>s, <2>1, <2>5, <2>6 DEF Quiet
<1>9. CASE WaitFails(s)
  <2>1. CASE untrue' = TRUE
    BY <1>9, <1>s, <2>1 DEF WaitFails, Failing
  <2>2. CASE At(s, "wait") /\ UNCHANGED untrue
    BY <1>0, <1>9, <1>s, <2>2, StaysQuiet DEF WaitFails, At
  <2> QED BY <1>9, <2>1, <2>2 DEF WaitFails
<1>10. CASE MarkFulfilled(s)
  <2>1. /\ wire' = Append(<<>>, "fulfilled") /\ sess[s].row \in Rows
        /\ row' = [row EXCEPT ![sess[s].row] = IF @ = "pending" THEN "fulfilled" ELSE @]
        /\ untrue' = (untrue \/ Pending \ {sess[s].row} # {})
    BY <1>0, <1>10 DEF MarkFulfilled, Emit, At, SessionOK, Listening
  <2>2. Pending' = Pending \ {sess[s].row}
    BY <1>0, <2>1 DEF Pending
  <2>3. wire' = <<"fulfilled">> /\ untrue' \in BOOLEAN
    BY <2>1
  <2>4. (untrue => untrue') /\ (Pending' # {} => untrue')
    BY <2>1, <2>2
  <2> QED BY <1>s, <2>3, <2>4 DEF Reporting
<1>11. CASE CloseWaiter(s)
  <2>1. CASE ~sess[s].ok
    BY <1>0, <1>11, <1>s, <2>1 DEF CloseWaiter, Failing
  <2>2. CASE sess[s].ok
    <3>1. /\ sess[s].pc = "close" /\ sess[s].row \notin Pending /\ UNCHANGED <<row, wire>>
          /\ stream' = [stream EXCEPT ![sess[s].row] = NoStream] /\ untrue' = untrue
      BY <1>0, <1>11, <2>2 DEF CloseWaiter, At, IInv, Closing, SessionStates
    <3>2. \A r \in Pending : stream'[r].unread = stream[r].unread
      BY <1>0, <3>1 DEF Pending
    <3> QED BY <1>0, <1>s, <3>1, <3>2, StaysQuiet
  <2> QED BY <2>1, <2>2
<1>12. CASE SessionEnds(s)
  <2>1. sess'[s].pc = sess[s].pc /\ sess'[s].row = sess[s].row
    BY <1>0, <1>12 DEF SessionEnds, SessionStates
  <2> QED BY <1>0, <1>12, <1>s, <2>1, StaysQuiet DEF SessionEnds
<1>13. CASE CancelFind(s)
  BY <1>0, <1>13, <1>s, FindsTo, StaysQuiet DEF CancelFind
<1>14. CASE CancelClose(s)
  <2>1. /\ wire' = Append(<<>>, "cancelled") /\ sess[s].found \in Rows
        /\ row' = [row EXCEPT ![sess[s].found] = IF @ = "pending" THEN "cancelled" ELSE @]
        /\ untrue' = (untrue \/ Pending \ {sess[s].found} # {})
    BY <1>0, <1>14 DEF CancelClose, Emit, SessionOK
  <2>2. Pending' = Pending \ {sess[s].found}
    BY <1>0, <2>1 DEF Pending
  <2>3. wire' = <<"cancelled">> /\ untrue' \in BOOLEAN
    BY <2>1
  <2>4. (untrue => untrue') /\ (Pending' # {} => untrue')
    BY <2>1, <2>2
  <2> QED BY <1>s, <2>3, <2>4 DEF Reporting
<1>15. CASE CancelFails(s)
  <2>1. sess'[s].pc = sess[s].pc /\ sess'[s].row = sess[s].row
    BY <1>0, <1>15 DEF CancelFails, SessionStates
  <2> QED BY <1>0, <1>15, <1>s, <2>1, StaysQuiet DEF CancelFails
<1>16. CASE Forgotten(s)
  BY <1>0, <1>16, <1>s, StaysQuiet DEF Forgotten, At
<1> QED BY <1>1, <1>2, <1>3, <1>4, <1>5, <1>6, <1>9, <1>10, <1>11, <1>12, <1>13, <1>14,
    <1>15, <1>16
  DEF SessionStep

LEMMA SessionPage ==
  ASSUME IInv, PageInv, NEW s \in Sessions, SessionStep(s), wire = <<>>, UNCHANGED client
  PROVE  PageInv'
<1>0. /\ ClientOK /\ PageTrue /\ untrue \in BOOLEAN
      /\ submit' = submit /\ client' = client
      /\ Quiet \/ Opening \/ Failing \/ Announcing \/ Reporting
  BY StepKinds DEF PageInv, ClientOK
<1>1. CASE Quiet
  <2>1. Pending' = Pending
    BY <1>1 DEF Quiet, Pending
  <2> QED BY <1>0, <1>1, <2>1 DEF Quiet, PageInv, ClientOK, WireTrue, PageTrue
<1>2. CASE Opening
  BY <1>0, <1>2 DEF Opening, PageInv, ClientOK, WireTrue, PageTrue
<1>3. CASE Failing
  BY <1>0, <1>3 DEF Failing, PageInv, ClientOK, WireTrue, PageTrue
<1>4. CASE Announcing
  <2>1. Pending' = Pending
    BY <1>4 DEF Announcing, Pending
  <2>2. Head(wire') = "requested" /\ wire' # <<>> /\ untrue' \in BOOLEAN
    BY <1>0, <1>4 DEF Announcing
  <2> QED BY <1>0, <1>4, <2>1, <2>2 DEF Announcing, PageInv, ClientOK, WireTrue, PageTrue
<1>5. CASE Reporting
  <2>1. Head(wire') # "requested" /\ wire' # <<>>
    BY <1>5 DEF Reporting
  <2> QED BY <1>0, <1>5, <2>1 DEF Reporting, PageInv, ClientOK, WireTrue, PageTrue
<1> QED BY <1>0, <1>1, <1>2, <1>3, <1>4, <1>5

(* An event reaches the page or is missed; either way the page is right    *)
(* about the table afterwards, or knows that it may not be.                *)
LEMMA RoutedPage ==
  ASSUME IInv, PageInv, Route \/ DropConsumer \/ EventLost
  PROVE  PageInv'
<1>0. /\ ClientOK /\ WireTrue /\ untrue \in BOOLEAN
      /\ wire \in {<<"requested">>, <<"fulfilled">>, <<"cancelled">>}
  BY DEF PageInv, ClientOK, Route, DropConsumer, EventLost
<1>1. /\ wire' = <<>>
      /\ UNCHANGED <<row, stream, sess, submit, untrue>>
  BY <1>0 DEF Route, DropConsumer, EventLost, Rest
<1>2. Pending' = Pending
  BY <1>1 DEF Pending
<1>3. CASE client' = Handled(Head(wire))
  <2>1. CASE Head(wire) = "requested"
    <3>1. client' = [client EXCEPT !.shown = TRUE,
                                   !.doubt = client.doubt \/ client.post # "none"]
      BY <1>3, <2>1 DEF Handled
    <3>2. untrue \/ Pending # {}
      BY <1>0, <2>1 DEF WireTrue
    <3> QED BY <1>0, <1>1, <1>2, <3>1, <3>2 DEF PageInv, ClientOK, WireTrue, PageTrue
  <2>2. CASE Head(wire) # "requested"
    <3>1. client' = [client EXCEPT !.shown = FALSE, !.doubt = client.doubt \/ client.snap]
      BY <1>3, <2>2 DEF Handled
    <3>2. untrue \/ Pending = {}
      BY <1>0, <2>2 DEF WireTrue
    <3> QED BY <1>0, <1>1, <1>2, <3>1, <3>2 DEF PageInv, ClientOK, WireTrue, PageTrue
  <2> QED BY <2>1, <2>2
<1>4. CASE client' = Missed \/ client' = [Missed EXCEPT !.online = FALSE]
  BY <1>0, <1>1, <1>2, <1>4 DEF Missed, PageInv, ClientOK, WireTrue, PageTrue
<1> QED BY <1>3, <1>4 DEF Route, DropConsumer, EventLost

LEMMA PagePage ==
  ASSUME IInv, PageInv, wire = <<>>,
         Connect \/ Disconnect \/ Hydrate \/ HydrateArrives \/ PostArrives
  PROVE  PageInv'
<1>0. ClientOK /\ PageTrue /\ UNCHANGED <<row, stream, sess, submit, untrue, wire>>
  BY DEF PageInv, Connect, Disconnect, Hydrate, HydrateArrives, PostArrives, back
<1>1. /\ Pending' = Pending /\ (Announced' <=> Announced) /\ (CodesRead' <=> CodesRead)
  BY <1>0 DEF Pending, Announced, CodesRead
<1>2. CASE Connect \/ Disconnect
  BY <1>0, <1>1, <1>2 DEF Connect, Disconnect, PageInv, ClientOK, WireTrue, PageTrue
<1>3. CASE Hydrate
  BY <1>0, <1>1, <1>3 DEF Hydrate, PageInv, ClientOK, WireTrue, PageTrue
<1>4. CASE HydrateArrives
  BY <1>0, <1>1, <1>4 DEF HydrateArrives, PageInv, ClientOK, WireTrue, PageTrue
<1>5. CASE PostArrives
  BY <1>0, <1>1, <1>5 DEF PostArrives, PageInv, ClientOK, WireTrue, PageTrue
<1> QED BY <1>2, <1>3, <1>4, <1>5

LEMMA SubmitPage ==
  ASSUME IInv, PageInv, wire = <<>>, PanelSubmits \/ ApiSubmits \/ CodeAdded
  PROVE  PageInv'
<1>0. /\ ClientOK /\ PageTrue /\ UNCHANGED <<row, sess, untrue, wire>>
      /\ submit = NoSubmit \/ submit \in [row : Rows, panel : BOOLEAN]
      /\ stream \in [Rows -> [group : BOOLEAN, unread : Seq(Nat)]]
  BY DEF PageInv, PanelSubmits, ApiSubmits, CodeAdded, SubmitFind, SubmitAdd, IInv, TypeOK
<1>1. Pending' = Pending /\ (Announced' <=> Announced)
  BY <1>0 DEF Pending, Announced
<1>2. CASE PanelSubmits \/ ApiSubmits
  <2>1. submit = NoSubmit /\ UNCHANGED stream /\ ~submit.panel
    BY <1>2 DEF PanelSubmits, ApiSubmits, SubmitFind, NoSubmit
  <2>2. CodesRead' <=> CodesRead
    BY <1>0, <1>1, <2>1 DEF CodesRead
  <2>3. CASE PanelSubmits
    <3>1. PICK r \in Pending : submit' = [row |-> r, panel |-> TRUE]
      BY <2>3 DEF PanelSubmits, SubmitFind
    <3>2. submit'.row \in Pending /\ submit'.panel
      BY <3>1
    <3>3. client.shown /\ client' = [client EXCEPT !.post = "asked"]
      BY <2>3 DEF PanelSubmits
    <3> QED BY <1>0, <1>1, <2>1, <2>2, <3>2, <3>3 DEF PageInv, ClientOK, WireTrue, PageTrue
  <2>4. CASE ApiSubmits
    <3>1. PICK r \in Pending : submit' = [row |-> r, panel |-> FALSE]
      BY <2>4 DEF ApiSubmits, SubmitFind
    <3>2. ~submit'.panel /\ UNCHANGED client
      BY <2>4, <3>1 DEF ApiSubmits
    <3> QED BY <1>0, <1>1, <2>1, <2>2, <3>2 DEF PageInv, ClientOK, WireTrue, PageTrue
  <2> QED BY <1>2, <2>3, <2>4
<1>3. CASE CodeAdded
  <2> DEFINE q == submit.row
             more == Append(stream[q].unread, submitted + 1)
  <2>1. /\ submit \in [row : Rows, panel : BOOLEAN] /\ q \in Rows /\ submit' = NoSubmit
        /\ client' = IF submit.panel THEN [client EXCEPT !.post = "answered"] ELSE client
    BY <1>0, <1>3 DEF CodeAdded, SubmitAdd
  <2>2. stream' = [stream EXCEPT ![q].unread = more]
    BY <1>0, <1>3 DEF CodeAdded, SubmitAdd
  <2>3. more # <<>>
    <3>1. stream[q].unread \in Seq(Nat)
      BY <1>0, <2>1
    <3> QED BY <3>1
  <2>4. \A r \in Rows : stream'[r].unread = IF r = q THEN more ELSE stream[r].unread
    <3> HIDE DEF q, more
    <3> QED BY <1>0, <2>2
  <2> HIDE DEF more
  <2>5. CodesRead' => CodesRead /\ q \notin Pending
    BY <1>0, <1>1, <2>1, <2>3, <2>4 DEF CodesRead, Pending
  <2>6. ~submit'.panel
    BY <2>1 DEF NoSubmit
  <2>7. CASE submit.panel
    BY <1>0, <1>1, <2>1, <2>5, <2>6, <2>7 DEF PageInv, ClientOK, WireTrue, PageTrue
  <2>8. CASE ~submit.panel
    BY <1>0, <1>1, <2>1, <2>5, <2>6, <2>8 DEF PageInv, ClientOK, WireTrue, PageTrue
  <2> QED BY <2>7, <2>8
<1> QED BY <1>2, <1>3

LEMMA PageStep == IInv /\ PageInv /\ [Next]_vars => PageInv'
<1> SUFFICES ASSUME IInv, PageInv, [Next]_vars PROVE PageInv'
  OBVIOUS
<1>1. CASE Route \/ DropConsumer \/ EventLost
  BY <1>1, RoutedPage
<1>2. CASE wire = <<>> /\ \E s \in Sessions : SessionStep(s) /\ UNCHANGED client
  BY <1>2, SessionPage
<1>3. CASE ServerDies
  BY <1>3 DEF ServerDies, Crash, NoSubmit, PageInv, ClientOK, WireTrue, PageTrue
<1>4. CASE wire = <<>> /\ (Connect \/ Disconnect \/ Hydrate \/ HydrateArrives \/ PostArrives)
  BY <1>4, PagePage
<1>5. CASE wire = <<>> /\ (PanelSubmits \/ ApiSubmits \/ CodeAdded)
  BY <1>5, SubmitPage
<1>6. CASE wire = <<>> /\ Reload
  <2>1. submit'.panel = FALSE
    BY <1>6 DEF Reload, IInv, TypeOK, NoSubmit
  <2> QED BY <1>6, <2>1 DEF Reload, Mounted, PageInv, ClientOK, WireTrue, PageTrue
<1>7. CASE UNCHANGED vars
  BY <1>7 DEF vars, back, PageInv, ClientOK, WireTrue, PageTrue, Pending, Announced, CodesRead
<1> QED BY <1>1, <1>2, <1>3, <1>4, <1>5, <1>6, <1>7 DEF Next

(* The page's alert and the table agree once nothing is on its way, with   *)
(* any number of sessions, codes, reloads and reconnections: useRealtime   *)
(* against emit and route.                                                 *)
THEOREM AlertsAgree == Spec => []AlertAgrees
<1>1. PageInv => AlertAgrees
  <2> SUFFICES ASSUME PageInv, Settled, ~client.doubt, ~untrue
               PROVE  client.shown <=> Pending # {}
    BY DEF AlertAgrees
  <2>1. Announced /\ CodesRead
    BY DEF Settled, Announced, CodesRead
  <2> QED BY <2>1 DEF PageInv, ClientOK, PageTrue, Settled
<1>2. Init => PageInv
  BY PageInit
<1> QED BY <1>1, <1>2, PageStep, AssistanceSafe, PTL DEF Spec

==============================================================================
