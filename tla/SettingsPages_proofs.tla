------------------------ MODULE SettingsPages_proofs ------------------------
(***************************************************************************)
(* The second factor with its backup codes, and the operation mode with    *)
(* its history, for any number of requests, secrets and failures.          *)
(* RecoveryGoesWithTwoFactor is inductive with the types: a use case whose *)
(* copy has the factor in use leaves alone, of the row, what agrees with   *)
(* the codes it leaves alone.  SwitchIsWhole rests on Emptied: what was    *)
(* there when a switch began and still is, in a table whose DELETE ran, is *)
(* among the rows its transaction holds.                                   *)
(***************************************************************************)
EXTENDS SettingsPages, TLAPS

ReqTyped == req \in [Slots -> {Idle} \cup UserRequests]

Wipes == [had : SUBSET Rows, gone : SUBSET Rows]

RowsTyped ==
    /\ user \in UserRows
    /\ codes \in [of : Nat, left : Nat]
    /\ minted \in Nat
    /\ key \in {"none", "active", "revoked"}
    /\ history \subseteq Rows
    /\ wipe \in [Slots -> Wipes]
    /\ torn \in BOOLEAN

PageType ==
    [page : Pages, stage : PageStages,
     me : [loaded : BOOLEAN, enabled : BOOLEAN, mode : PickedModes],
     waits : BOOLEAN, phone : Nat, pick : PickedModes, listed : BOOLEAN]

PageTyped == ui \in PageType

CountersTyped == asked \in [Slots -> Nat] /\ faults \in Nat

(* The tables a switch has emptied, by the point its handler has reached.  *)
EmptiedTables(q) ==
    CASE q.pc = "unpaired"  -> {"pairs"}
      [] q.pc = "unordered" -> {"pairs", "orders"}
      [] q.pc = "wiped"     -> {"pairs", "orders", "movements"}
      [] OTHER              -> {}

EmptiedBy(s) ==
    \A row \in wipe[s].had \cap history :
        row[1] \in EmptiedTables(req[s]) => row \in wipe[s].gone

Emptied == \A s \in Slots : EmptiedBy(s)

(* A request with no transaction open.                                     *)
Quiet(q) == q.pc \notin {"unpaired", "unordered", "wiped"}

(* What a switch takes, by any step.                                       *)
Whole ==
    /\ history \subseteq history'
       \/ \E s \in Slots : At(s, "mode", "wiped") /\ user'.mode = req[s].mode
    /\ user'.mode # user.mode =>
         \E s \in Slots :
           \/ At(s, "mode", "wiped") /\ wipe[s].had \cap history' = {}
           \/ req[s].pc # "idle" /\ req[s].op # "mode" /\ user'.mode = copyOf(s).mode

Safe == TypeOK /\ RecoveryGoesWithTwoFactor /\ Emptied

USE DEF Slots, Idle

LEMMA TypeParts == TypeOK <=> ReqTyped /\ CountersTyped /\ RowsTyped /\ PageTyped
  BY DEF TypeOK, ReqTyped, CountersTyped, RowsTyped, PageTyped, PageType, Wipes

LEMMA TypePartsNext == TypeOK' <=> ReqTyped' /\ CountersTyped' /\ RowsTyped' /\ PageTyped'
  BY DEF TypeOK, ReqTyped, CountersTyped, RowsTyped, PageTyped, PageType, Wipes

-----------------------------------------------------------------------------
(* Requests.                                                               *)
LEMMA Busy ==
    ASSUME ReqTyped, NEW s \in Slots, req[s].pc # "idle"
    PROVE  req[s] \in UserRequests
  BY DEF ReqTyped

LEMMA AnsweredTyped ==
    ASSUME ReqTyped, NEW s \in Slots, req[s] \in UserRequests, NEW status \in Nat
    PROVE  Answered(s, status) \in {Idle} \cup UserRequests
  <1> DEFINE r == [req[s] EXCEPT !.pc = "answered", !.status = status]
  <1>1. r \in UserRequests BY DEF UserRequests
  <1> QED BY <1>1 DEF Answered

LEMMA Held ==
    ASSUME ReqTyped, CountersTyped, NEW s \in Slots, NEW r \in {Idle} \cup UserRequests,
           Holding(s, r)
    PROVE  ReqTyped' /\ CountersTyped'
  BY DEF ReqTyped, CountersTyped, Holding

LEMMA AnswerTyped ==
    ASSUME ReqTyped, CountersTyped, NEW s \in Slots, req[s] \in UserRequests,
           NEW status \in Nat, Answer(s, status)
    PROVE  ReqTyped' /\ CountersTyped'
  BY AnsweredTyped, Held DEF Answer

LEMMA AskTyped ==
    ASSUME TypeOK, NEW s \in Slots, NEW op \in UserOps, NEW code \in CodesTyped,
           NEW m \in PickedModes, AskUser(s, op, code, m)
    PROVE  ReqTyped' /\ CountersTyped' /\ RowsTyped'
  <1> DEFINE r == [pc |-> "asked", op |-> op, code |-> code, mode |-> m, copy |-> user, status |-> 0]
  <1>1. r \in UserRequests BY DEF TypeOK, UserRequests
  <1>2. Ask(s, r) /\ UNCHANGED accounting BY DEF AskUser
  <1>3. ReqTyped' BY <1>1, <1>2 DEF TypeOK, ReqTyped, Ask
  <1>4. CountersTyped'
    <2> HIDE DEF r
    <2> QED BY <1>2 DEF TypeOK, CountersTyped, Ask
  <1>5. RowsTyped' BY <1>2, TypeParts DEF RowsTyped, accounting
  <1> QED BY <1>3, <1>4, <1>5

LEMMA EditedTyped ==
    ASSUME NEW q \in UserRequests, NEW row \in UserRows
    PROVE  /\ [q EXCEPT !.pc = "answered", !.status = 200] \in UserRequests
           /\ [q EXCEPT !.copy = row] \in UserRequests
  <1>1. "answered" \in {"asked", "loaded", "proved", "answered"} /\ 200 \in Nat
    OBVIOUS
  <1>2. [q EXCEPT !.pc = "answered", !.status = 200] \in UserRequests
    BY <1>1, Zenon DEF UserRequests
  <1>3. [q EXCEPT !.copy = row] \in UserRequests
    BY Zenon DEF UserRequests
  <1> QED BY <1>2, <1>3

LEMMA SaveTyped ==
    ASSUME ReqTyped, CountersTyped, torn \in BOOLEAN, NEW s \in Slots, req[s] \in UserRequests,
           NEW row \in UserRows, SaveUser(s, row)
    PROVE  /\ ReqTyped' /\ CountersTyped'
           /\ user' = row /\ torn' \in BOOLEAN
           /\ torn' \/ (~torn /\ Factor(copyOf(s)) = Factor(user))
  <1>1. Answered(s, 200) \in {Idle} \cup UserRequests BY AnsweredTyped
  <1> DEFINE a == Answered(s, 200)
             r == IF s = Tab THEN [a EXCEPT !.copy = row] ELSE Idle
  <1>2. r \in {Idle} \cup UserRequests
    <2>1. CASE s = Tab
      <3>1. a \in UserRequests
        <4>1. req[s] \in UserRequests /\ a = [req[s] EXCEPT !.pc = "answered", !.status = 200]
          BY <2>1 DEF Answered
        <4> HIDE DEF a
        <4> QED BY <4>1, EditedTyped
      <3> HIDE DEF a
      <3>2. [a EXCEPT !.copy = row] \in UserRequests BY <3>1, EditedTyped
      <3> QED BY <2>1, <3>2
    <2>2. CASE s # Tab BY <2>2
    <2> QED BY <2>1, <2>2
  <1>3. Holding(s, r) BY DEF SaveUser
  <1> HIDE DEF r
  <1> QED BY <1>2, <1>3, Held DEF SaveUser

LEMMA RowTables ==
    ASSUME NEW row \in Rows
    PROVE  row[1] \in {"pairs", "orders", "movements"}
  BY DEF Rows, Order, Movement, Pair

-----------------------------------------------------------------------------
(* The wipe.                                                               *)
(* A step of another slot, or of nobody's, takes rows from the history or  *)
(* adds such as the switch has not seen.                                   *)
LEMMA OthersEmptied ==
    ASSUME NEW t \in Slots, EmptiedBy(t), req'[t] = req[t], wipe'[t] = wipe[t],
           history' \cap wipe[t].had \subseteq history
    PROVE  EmptiedBy(t)'
  BY DEF EmptiedBy

LEMMA QuietEmptied ==
    ASSUME NEW t \in Slots, Quiet(req[t])'
    PROVE  EmptiedBy(t)'
  BY DEF EmptiedBy, Quiet, EmptiedTables

(* A step of a handler without a transaction.                              *)
LEMMA QuietStep ==
    ASSUME ReqTyped, Emptied, NEW s \in Slots, NEW q, Quiet(q), req' = [req EXCEPT ![s] = q],
           \A t \in Slots \ {s} : wipe'[t] = wipe[t],
           \A t \in Slots \ {s} : history' \cap wipe[t].had \subseteq history
    PROVE  Emptied'
  <1>1. \A t \in Slots \ {s} : EmptiedBy(t)'
    <2> TAKE t \in Slots \ {s}
    <2>1. req'[t] = req[t] /\ EmptiedBy(t) BY DEF ReqTyped, Emptied
    <2> QED BY <2>1, OthersEmptied
  <1>2. Quiet(req[s])'
    <2>1. req'[s] = q BY DEF ReqTyped
    <2> QED BY <2>1 DEF Quiet
  <1>3. EmptiedBy(s)' BY <1>2, QuietEmptied
  <1> QED BY <1>1, <1>3 DEF Emptied

LEMMA AnsweredQuiet ==
    ASSUME NEW s \in Slots, req[s] \in UserRequests, NEW status
    PROVE  Quiet(Answered(s, status))
  <1>1. CASE s = Tab BY <1>1 DEF Answered, Quiet, UserRequests
  <1>2. CASE s # Tab BY <1>2 DEF Answered, Quiet
  <1> QED BY <1>1, <1>2

LEMMA SavedQuiet ==
    ASSUME ReqTyped, Emptied, NEW s \in Slots, req[s] \in UserRequests, NEW row \in UserRows,
           SaveUser(s, row),
           \A t \in Slots \ {s} : wipe'[t] = wipe[t],
           \A t \in Slots \ {s} : history' \cap wipe[t].had \subseteq history
    PROVE  Emptied'
  <1> DEFINE q == IF s = Tab THEN [Answered(s, 200) EXCEPT !.copy = row] ELSE Idle
  <1>1. Quiet(q)
    <2>1. CASE s = Tab
      <3>1. q = [[req[s] EXCEPT !.pc = "answered", !.status = 200] EXCEPT !.copy = row]
        BY <2>1 DEF Answered
      <3>2. q.pc = "answered" BY <3>1 DEF UserRequests
      <3> HIDE DEF q
      <3> QED BY <3>2 DEF Quiet
    <2>2. CASE s # Tab BY <2>2 DEF Quiet
    <2> QED BY <2>1, <2>2
  <1>2. req' = [req EXCEPT ![s] = q] BY DEF SaveUser, Holding
  <1> HIDE DEF q
  <1> QED BY <1>1, <1>2, QuietStep

(* A DELETE: the rows of its table that are there join those it holds.     *)
LEMMA DeleteEmpties ==
    ASSUME TypeOK, Emptied, NEW s \in Slots, req[s] \in UserRequests,
           NEW rows \in SUBSET history, NEW pc \in {"unpaired", "unordered", "wiped"},
           Deletes(s, rows, pc),
           pc = "unpaired" => In("pairs") \subseteq rows,
           pc = "unordered" => req[s].pc = "unpaired" /\ In("orders") \subseteq rows,
           pc = "wiped" => req[s].pc = "unordered" /\ In("movements") \subseteq rows
    PROVE  ReqTyped' /\ CountersTyped' /\ RowsTyped' /\ Emptied'
  <1>0. ReqTyped /\ CountersTyped /\ RowsTyped BY TypeParts
  <1> DEFINE q == [req[s] EXCEPT !.pc = pc]
             had == IF pc = "unpaired" THEN history ELSE wipe[s].had
             gone == wipe[s].gone \cup rows
             w == [had |-> had, gone |-> gone]
  <1>1. q \in UserRequests /\ q.pc = pc BY DEF UserRequests
  <1>2. Holding(s, q) /\ UNCHANGED <<user, codes, minted, key, history, torn>> BY DEF Deletes
  <1>3. wipe' = [wipe EXCEPT ![s] = w] BY DEF Deletes
  <1>4. had \in SUBSET Rows /\ gone \in SUBSET Rows BY <1>0 DEF RowsTyped, Wipes
  <1>5. w \in Wipes
    <2> HIDE DEF had, gone
    <2> QED BY <1>4 DEF Wipes
  <1>6. w.had = had /\ w.gone = gone OBVIOUS
  <1> HIDE DEF w, q
  <1>7. ReqTyped' /\ CountersTyped' BY <1>0, <1>1, <1>2, Held
  <1>8. RowsTyped' BY <1>0, <1>2, <1>3, <1>5 DEF RowsTyped
  <1>9. req'[s] = q /\ \A t \in Slots \ {s} : req'[t] = req[t] BY <1>0, <1>2 DEF Holding, ReqTyped
  <1>10. wipe'[s] = w /\ \A t \in Slots \ {s} : wipe'[t] = wipe[t] BY <1>0, <1>3 DEF RowsTyped
  <1>11. \A t \in Slots \ {s} : EmptiedBy(t)'
    <2> TAKE t \in Slots \ {s}
    <2>1. EmptiedBy(t) BY DEF Emptied
    <2> QED BY <1>2, <1>9, <1>10, <2>1, OthersEmptied
  <1>12. EmptiedBy(s) BY DEF Emptied
  <1>13. ASSUME NEW row \in had \cap history, row[1] \in EmptiedTables(q) PROVE row \in gone
    <2>1. CASE pc = "unpaired" BY <1>1, <1>13, <2>1 DEF EmptiedTables, In
    <2>2. CASE pc = "unordered" BY <1>1, <1>12, <1>13, <2>2 DEF EmptiedTables, EmptiedBy, In
    <2>3. CASE pc = "wiped" BY <1>1, <1>12, <1>13, <2>3 DEF EmptiedTables, EmptiedBy, In
    <2> QED BY <2>1, <2>2, <2>3
  <1>14. EmptiedBy(s)'
    <2> HIDE DEF had, gone
    <2> QED BY <1>2, <1>6, <1>9, <1>10, <1>13 DEF EmptiedBy
  <1> QED BY <1>7, <1>8, <1>11, <1>14 DEF Emptied

(* At COMMIT nothing is left of what there was when the switch began.      *)
LEMMA WipedWhole ==
    ASSUME TypeOK, Emptied, NEW s \in Slots, req[s].pc = "wiped",
           history' = history \ wipe[s].gone
    PROVE  wipe[s].had \cap history' = {}
  <1>1. history \subseteq Rows BY DEF TypeOK
  <1>2. \A row \in wipe[s].had \cap history : row \in wipe[s].gone
    BY <1>1, RowTables DEF Emptied, EmptiedBy, EmptiedTables
  <1> QED BY <1>2

LEMMA RolledBack ==
    ASSUME wipe \in [Slots -> Wipes], NEW s \in Slots, Rollback(s)
    PROVE  wipe' \in [Slots -> Wipes] /\ \A t \in Slots \ {s} : wipe'[t] = wipe[t]
  <1>1. NoWipe \in Wipes BY DEF NoWipe, Wipes
  <1> QED BY <1>1 DEF Rollback

-----------------------------------------------------------------------------
(* The use cases.                                                          *)
LEMMA UserStepSafe ==
    ASSUME Safe, NEW s \in Slots, UserStep(s)
    PROVE  /\ ReqTyped' /\ CountersTyped' /\ RowsTyped'
           /\ RecoveryGoesWithTwoFactor' /\ Emptied' /\ Whole
  <1> USE DEF Safe, copyOf
  <1>0. ReqTyped /\ CountersTyped /\ RowsTyped BY TypeParts
  <1>1. req[s] \in UserRequests
    BY <1>0, Busy DEF UserStep, LoadUser, Login, StartEnrollment, ConfirmEnrollment, ConsumeBackupCode,
       RefuseCode, VerifyLogin, DisableTotp, WipePairs, WipeOrders, WipeMovements, ChangeOperationMode,
       CreateApiKey, RevokeKey, RecordStep, At
  <1>2. copyOf(s) \in UserRows /\ req[s].mode \in PickedModes BY <1>1 DEF UserRequests
  <1>3. ASSUME UNCHANGED <<user, torn, history, wipe>>, codes'.of = codes.of,
               NEW q, Quiet(q), req' = [req EXCEPT ![s] = q]
        PROVE  RecoveryGoesWithTwoFactor' /\ Emptied' /\ Whole
    <2>1. Emptied' BY <1>0, <1>3, QuietStep
    <2> QED BY <1>3, <2>1 DEF RecoveryGoesWithTwoFactor, Whole, Factor
  <1>4. ASSUME NEW status \in Nat, Answer(s, status), UNCHANGED <<user, torn, history, wipe>>,
               codes' = codes, minted' = minted, key' \in {"none", "active", "revoked"}
        PROVE  /\ ReqTyped' /\ CountersTyped' /\ RowsTyped'
               /\ RecoveryGoesWithTwoFactor' /\ Emptied' /\ Whole
    <2>1. ReqTyped' /\ CountersTyped' BY <1>0, <1>1, <1>4, AnswerTyped
    <2>2. RowsTyped' BY <1>0, <1>4 DEF RowsTyped
    <2>3. Quiet(Answered(s, status)) /\ req' = [req EXCEPT ![s] = Answered(s, status)]
      BY <1>1, <1>4, AnsweredQuiet DEF Answer, Holding
    <2>4. RecoveryGoesWithTwoFactor' /\ Emptied' /\ Whole BY <1>3, <1>4, <2>3
    <2> QED BY <2>1, <2>2, <2>4
  <1>40. ASSUME NEW status \in Nat, Refuse(s, status)
         PROVE  /\ ReqTyped' /\ CountersTyped' /\ RowsTyped'
                /\ RecoveryGoesWithTwoFactor' /\ Emptied' /\ Whole
    BY <1>0, <1>4, <1>40 DEF Refuse, accounting, RowsTyped
  <1>5. ASSUME NEW row \in UserRows, SaveUser(s, row), UNCHANGED <<history, wipe>>,
               req[s].op # "mode", row.mode = copyOf(s).mode, req[s].pc # "idle",
               codes' \in [of : Nat, left : Nat], minted' \in Nat, key' = key
        PROVE  /\ ReqTyped' /\ CountersTyped' /\ RowsTyped' /\ Emptied' /\ Whole
               /\ user' = row /\ (torn' \/ (~torn /\ Factor(copyOf(s)) = Factor(user)))
    <2>1. /\ ReqTyped' /\ CountersTyped'
          /\ user' = row /\ torn' \in BOOLEAN
          /\ torn' \/ (~torn /\ Factor(copyOf(s)) = Factor(user))
      BY <1>0, <1>1, <1>5, SaveTyped DEF RowsTyped
    <2>2. RowsTyped' BY <1>0, <1>5, <2>1 DEF RowsTyped
    <2>3. Emptied' BY <1>0, <1>1, <1>5, SavedQuiet
    <2>4. Whole BY <1>5, <2>1 DEF Whole
    <2> QED BY <2>1, <2>2, <2>3, <2>4
  <1>6. CASE LoadUser(s)
    <2> DEFINE r == [req[s] EXCEPT !.pc = "loaded", !.copy = user]
    <2>1. r \in UserRequests /\ Quiet(r) BY <1>0, <1>1 DEF UserRequests, RowsTyped, Quiet
    <2>2. Holding(s, r) /\ UNCHANGED accounting BY <1>6 DEF LoadUser
    <2> HIDE DEF r
    <2>3. ReqTyped' /\ CountersTyped' BY <1>0, <2>1, <2>2, Held
    <2>4. RowsTyped' BY <1>0, <2>2 DEF RowsTyped, accounting
    <2> QED BY <1>3, <2>1, <2>2, <2>3, <2>4 DEF accounting, Holding
  <1>7. CASE Login(s) BY <1>7, <1>40 DEF Login
  <1>8. CASE StartEnrollment(s)
    <2>1. CASE copyOf(s).enabled BY <1>8, <2>1, <1>40 DEF StartEnrollment
    <2>2. CASE ~copyOf(s).enabled
      <3> DEFINE row == [copyOf(s) EXCEPT !.secret = minted + 1]
      <3>1. row \in UserRows BY <1>0, <1>2 DEF UserRows, RowsTyped
      <3>2. row.enabled = FALSE /\ row.mode = copyOf(s).mode BY <1>2, <2>2 DEF UserRows
      <3>3. SaveUser(s, row) /\ minted' = minted + 1 /\ UNCHANGED <<codes, key, history, wipe>>
        BY <1>8, <2>2 DEF StartEnrollment
      <3> HIDE DEF row
      <3>4. /\ ReqTyped' /\ CountersTyped' /\ RowsTyped' /\ Emptied' /\ Whole
            /\ user' = row /\ (torn' \/ (~torn /\ Factor(copyOf(s)) = Factor(user)))
        BY <1>0, <1>5, <1>8, <3>1, <3>2, <3>3 DEF RowsTyped, StartEnrollment, At
      <3>5. RecoveryGoesWithTwoFactor'
        BY <2>2, <3>2, <3>3, <3>4 DEF RecoveryGoesWithTwoFactor, Factor
      <3> QED BY <3>4, <3>5
    <2> QED BY <2>1, <2>2
  <1>9. CASE ConfirmEnrollment(s)
    <2>1. CASE ~CanConfirm(s) BY <1>9, <2>1, <1>40 DEF ConfirmEnrollment
    <2>2. CASE CanConfirm(s)
      <3> DEFINE row == [copyOf(s) EXCEPT !.enabled = TRUE]
      <3>1. row \in UserRows BY <1>2 DEF UserRows
      <3>2. /\ row.enabled /\ row.mode = copyOf(s).mode
            /\ row.secret = copyOf(s).secret /\ copyOf(s).secret \in Nat
        BY <1>2 DEF UserRows
      <3>3. /\ SaveUser(s, row) /\ codes' = [of |-> copyOf(s).secret, left |-> 1]
            /\ UNCHANGED <<minted, key, history, wipe>>
        BY <1>9, <2>2 DEF ConfirmEnrollment
      <3> HIDE DEF row
      <3>4. codes' \in [of : Nat, left : Nat] BY <3>2, <3>3
      <3>5. /\ ReqTyped' /\ CountersTyped' /\ RowsTyped' /\ Emptied' /\ Whole
            /\ user' = row /\ (torn' \/ (~torn /\ Factor(copyOf(s)) = Factor(user)))
        BY <1>0, <1>5, <1>9, <3>1, <3>2, <3>3, <3>4 DEF RowsTyped, ConfirmEnrollment, At
      <3>6. RecoveryGoesWithTwoFactor'
        BY <3>2, <3>3, <3>5 DEF RecoveryGoesWithTwoFactor, Factor
      <3> QED BY <3>5, <3>6
    <2> QED BY <2>1, <2>2
  <1>10. CASE ConsumeBackupCode(s)
    <2> DEFINE r == [req[s] EXCEPT !.pc = "proved"]
    <2>1. r \in UserRequests /\ Quiet(r) BY <1>1 DEF UserRequests, Quiet
    <2>2. Holding(s, r) /\ codes' = [codes EXCEPT !.left = @ - 1] /\ codes.left > 0
          /\ UNCHANGED <<user, minted, key, history, wipe, torn>>
      BY <1>10 DEF ConsumeBackupCode
    <2> HIDE DEF r
    <2>3. ReqTyped' /\ CountersTyped' BY <1>0, <2>1, <2>2, Held
    <2>4. codes' \in [of : Nat, left : Nat] /\ codes'.of = codes.of BY <1>0, <2>2 DEF RowsTyped
    <2>5. RowsTyped' BY <1>0, <2>2, <2>4 DEF RowsTyped
    <2> QED BY <1>3, <2>1, <2>2, <2>3, <2>4, <2>5 DEF Holding
  <1>11. CASE RefuseCode(s) BY <1>11, <1>40 DEF RefuseCode
  <1>12. ASSUME SaveUser(s, copyOf(s)), UNCHANGED <<codes, minted, key, history, wipe>>,
                req[s].op # "mode", req[s].pc # "idle"
         PROVE  /\ ReqTyped' /\ CountersTyped' /\ RowsTyped'
                /\ RecoveryGoesWithTwoFactor' /\ Emptied' /\ Whole
    <2>1. /\ ReqTyped' /\ CountersTyped' /\ RowsTyped' /\ Emptied' /\ Whole
          /\ user' = copyOf(s) /\ (torn' \/ (~torn /\ Factor(copyOf(s)) = Factor(user)))
      BY <1>0, <1>2, <1>5, <1>12 DEF RowsTyped
    <2>2. RecoveryGoesWithTwoFactor' BY <1>12, <2>1 DEF RecoveryGoesWithTwoFactor, Factor
    <2> QED BY <2>1, <2>2
  <1>13. CASE VerifyLogin(s) BY <1>12, <1>13 DEF VerifyLogin
  <1>14. CASE DisableTotp(s)
    <2> DEFINE row == [copyOf(s) EXCEPT !.enabled = FALSE, !.secret = 0]
    <2>1. row \in UserRows /\ ~row.enabled /\ row.mode = copyOf(s).mode BY <1>2 DEF UserRows
    <2>2. /\ SaveUser(s, row) /\ codes' = [of |-> 0, left |-> 0]
          /\ UNCHANGED <<minted, key, history, wipe>>
          /\ req[s].op # "mode" /\ req[s].pc # "idle"
      BY <1>14 DEF DisableTotp
    <2> HIDE DEF row
    <2>3. codes' \in [of : Nat, left : Nat] BY <2>2
    <2>4. /\ ReqTyped' /\ CountersTyped' /\ RowsTyped' /\ Emptied' /\ Whole
          /\ user' = row /\ (torn' \/ (~torn /\ Factor(copyOf(s)) = Factor(user)))
      BY <1>0, <1>5, <2>1, <2>2, <2>3 DEF RowsTyped
    <2>5. RecoveryGoesWithTwoFactor' BY <2>1, <2>2, <2>4 DEF RecoveryGoesWithTwoFactor, Factor
    <2> QED BY <2>4, <2>5
  <1>15. ASSUME NEW rows, NEW pc, Deletes(s, rows, pc), ReqTyped', CountersTyped', RowsTyped', Emptied'
         PROVE  /\ ReqTyped' /\ CountersTyped' /\ RowsTyped'
                /\ RecoveryGoesWithTwoFactor' /\ Emptied' /\ Whole
    BY <1>15 DEF Deletes, RecoveryGoesWithTwoFactor, Factor, Whole
  <1>19. In("pairs") \subseteq history /\ In("orders") \subseteq history /\ In("movements") \subseteq history
    BY DEF In
  <1>20. CASE WipePairs(s)
    <2>1. Deletes(s, In("pairs"), "unpaired") BY <1>20 DEF WipePairs
    <2>2. ReqTyped' /\ CountersTyped' /\ RowsTyped' /\ Emptied' BY <1>1, <1>19, <2>1, DeleteEmpties
    <2> QED BY <1>15, <2>1, <2>2
  <1>21. CASE WipeOrders(s)
    <2>1. req[s].pc = "unpaired" /\ Deletes(s, In("orders") \cup In("pairs"), "unordered")
      BY <1>21 DEF WipeOrders, At
    <2>2. ReqTyped' /\ CountersTyped' /\ RowsTyped' /\ Emptied' BY <1>1, <1>19, <2>1, DeleteEmpties
    <2> QED BY <1>15, <2>1, <2>2
  <1>22. CASE WipeMovements(s)
    <2>1. CASE In("pairs") \subseteq wipe[s].gone
      <3>1. req[s].pc = "unordered" /\ Deletes(s, In("movements"), "wiped")
        BY <1>22, <2>1 DEF WipeMovements, At
      <3>2. ReqTyped' /\ CountersTyped' /\ RowsTyped' /\ Emptied' BY <1>1, <1>19, <3>1, DeleteEmpties
      <3> QED BY <1>15, <3>1, <3>2
    <2>2. CASE ~(In("pairs") \subseteq wipe[s].gone)
      <3>1. Rollback(s) /\ Answer(s, 500) /\ UNCHANGED <<user, codes, minted, key, history, torn>>
        BY <1>22, <2>2 DEF WipeMovements
      <3>2. wipe' \in [Slots -> Wipes] /\ \A t \in Slots \ {s} : wipe'[t] = wipe[t]
        BY <1>0, <3>1, RolledBack DEF RowsTyped
      <3>3. ReqTyped' /\ CountersTyped' BY <1>0, <1>1, <3>1, AnswerTyped
      <3>4. RowsTyped' BY <1>0, <3>1, <3>2 DEF RowsTyped
      <3>5. Quiet(Answered(s, 500)) /\ req' = [req EXCEPT ![s] = Answered(s, 500)]
        BY <1>1, <3>1, AnsweredQuiet DEF Answer, Holding
      <3>6. Emptied' BY <1>0, <3>1, <3>2, <3>5, QuietStep
      <3> QED BY <3>1, <3>3, <3>4, <3>6 DEF RecoveryGoesWithTwoFactor, Factor, Whole
    <2> QED BY <2>1, <2>2
  <1>23. CASE ChangeOperationMode(s)
    <2> DEFINE row == [copyOf(s) EXCEPT !.mode = req[s].mode]
    <2>1. /\ row \in UserRows /\ row.enabled = copyOf(s).enabled
          /\ row.secret = copyOf(s).secret /\ row.mode = req[s].mode
      BY <1>2 DEF UserRows
    <2>2. /\ SaveUser(s, row) /\ history' = history \ wipe[s].gone /\ Rollback(s)
          /\ UNCHANGED <<codes, minted, key>> /\ At(s, "mode", "wiped")
      BY <1>23 DEF ChangeOperationMode
    <2> HIDE DEF row
    <2>3. wipe' \in [Slots -> Wipes] /\ \A t \in Slots \ {s} : wipe'[t] = wipe[t]
      BY <1>0, <2>2, RolledBack DEF RowsTyped
    <2>4. /\ ReqTyped' /\ CountersTyped'
          /\ user' = row /\ torn' \in BOOLEAN
          /\ torn' \/ (~torn /\ Factor(copyOf(s)) = Factor(user))
      BY <1>0, <1>1, <2>1, <2>2, SaveTyped DEF RowsTyped
    <2>5. RowsTyped' BY <1>0, <2>1, <2>2, <2>3, <2>4 DEF RowsTyped
    <2>6. Emptied' BY <1>0, <1>1, <2>1, <2>2, <2>3, SavedQuiet
    <2>7. RecoveryGoesWithTwoFactor' BY <2>1, <2>2, <2>4 DEF RecoveryGoesWithTwoFactor, Factor
    <2>8. wipe[s].had \cap history' = {} BY <2>2, WipedWhole DEF At
    <2>9. Whole BY <2>1, <2>2, <2>4, <2>8 DEF Whole
    <2> QED BY <2>4, <2>5, <2>6, <2>7, <2>9
  <1>16. CASE CreateApiKey(s) BY <1>4, <1>16 DEF CreateApiKey
  <1>17. CASE RevokeKey(s)
    <2>1. CASE copyOf(s).enabled /\ req[s].code # Totp(copyOf(s).secret)
      BY <1>17, <1>40, <2>1 DEF RevokeKey
    <2>2. CASE ~(copyOf(s).enabled /\ req[s].code # Totp(copyOf(s).secret))
      <3> DEFINE r == [req[s] EXCEPT !.pc = "proved"]
      <3>1. r \in UserRequests /\ Quiet(r) BY <1>1 DEF UserRequests, Quiet
      <3>2. /\ Holding(s, r) \/ \E status \in {200, 404} : Answer(s, status)
            /\ key' = IF key = "active" THEN "revoked" ELSE key
            /\ UNCHANGED <<user, codes, minted, history, wipe, torn>>
        BY <1>17, <2>2 DEF RevokeKey
      <3> HIDE DEF r
      <3>3. key' \in {"none", "active", "revoked"} BY <1>0, <3>2 DEF RowsTyped
      <3>4. CASE Holding(s, r)
        <4>1. ReqTyped' /\ CountersTyped' BY <1>0, <3>1, <3>4, Held
        <4>2. RowsTyped' BY <1>0, <3>2, <3>3 DEF RowsTyped
        <4>3. RecoveryGoesWithTwoFactor' /\ Emptied' /\ Whole BY <1>3, <3>1, <3>2, <3>4 DEF Holding
        <4> QED BY <4>1, <4>2, <4>3
      <3> QED BY <1>4, <3>2, <3>3, <3>4
    <2> QED BY <2>1, <2>2
  <1>18. CASE RecordStep(s) BY <1>12, <1>18 DEF RecordStep, At
  <1> QED
    BY <1>6, <1>7, <1>8, <1>9, <1>10, <1>11, <1>13, <1>14, <1>16, <1>17, <1>18, <1>20, <1>21,
       <1>22, <1>23
    DEF UserStep

-----------------------------------------------------------------------------
(* The tab.                                                                *)
LEMMA TypedCodes ==
    ASSUME TypeOK
    PROVE  TypedInTab \subseteq CodesTyped /\ NoCode \in CodesTyped
           /\ Totp(user.secret) \in CodesTyped /\ Backup(codes.of) \in CodesTyped
  BY DEF TypeOK, TypedInTab, CodesTyped, NoCode, Totp, Backup, UserRows

LEMMA MountedTyped ==
    ASSUME PageTyped, NEW page \in Pages
    PROVE  /\ ui' = Mounted(page) => PageTyped'
           /\ ui' = [Mounted(page) EXCEPT !.me = Unloaded] => PageTyped'
  <1>1. Mounted(page) \in PageType
    BY DEF PageTyped, PageType, Mounted, PageStages, PickedModes
  <1>2. \A v \in PageType : [v EXCEPT !.me = Unloaded] \in PageType
    BY DEF PageType, PickedModes, Unloaded
  <1> QED BY <1>1, <1>2 DEF PageTyped

(* What the tab does alone touches nothing but its page.                   *)
LEMMA ShowsAlone ==
    ASSUME TypeOK, NEW next, Shows(next)
    PROVE  ReqTyped' /\ CountersTyped' /\ RowsTyped' /\ UNCHANGED accounting
  BY TypeParts DEF Shows, Stays, ReqTyped, CountersTyped, RowsTyped, accounting

LEMMA SendsTyped ==
    ASSUME TypeOK, NEW op \in UserOps, NEW code \in CodesTyped, NEW m \in PickedModes,
           Sends(op, code, m)
    PROVE  TypeOK' /\ UNCHANGED accounting
  <1>1. AskUser(Tab, op, code, m) /\ ui' = [ui EXCEPT !.waits = TRUE] BY DEF Sends
  <1>2. ReqTyped' /\ CountersTyped' /\ RowsTyped' BY <1>1, AskTyped
  <1>3. PageTyped' BY <1>1, TypeParts DEF PageTyped, PageType
  <1>4. UNCHANGED accounting BY <1>1 DEF AskUser
  <1> QED BY <1>2, <1>3, <1>4, TypePartsNext

LEMMA AnsweredTypedPage ==
    ASSUME TypeOK, UserAnswered
    PROVE  TypeOK' /\ UNCHANGED accounting
  <1> USE TypeParts
  <1>1. req[Tab] \in UserRequests BY Busy DEF UserAnswered
  <1>2. req[Tab].op \in UserOps /\ req[Tab].copy.secret \in Nat BY <1>1 DEF UserRequests, UserRows
  <1>3. Idle \in {Idle} \cup UserRequests /\ Holding(Tab, Idle) BY DEF UserAnswered, Take
  <1>4. ReqTyped' /\ CountersTyped' BY <1>3, Held
  <1>5. UNCHANGED accounting BY DEF UserAnswered
  <1>6. RowsTyped' BY <1>5 DEF RowsTyped, accounting
  <1>7. SignedOut \in PageType /\ Mounted("home") \in PageType
    BY DEF PageTyped, PageType, SignedOut, Mounted, Pages, PageStages, PickedModes, Unloaded
  <1>8. Succeeded(req[Tab].op) \in PageType
    <2> SUFFICES ASSUME NEW op \in UserOps PROVE Succeeded(op) \in PageType BY <1>2
    <2>1. \A stage \in PageStages : [ui EXCEPT !.stage = stage] \in PageType BY DEF PageTyped, PageType
    <2>2. [ui EXCEPT !.stage = "enrolling", !.phone = req[Tab].copy.secret] \in PageType
      BY <1>2 DEF PageTyped, PageType, PageStages
    <2>3. [ui EXCEPT !.stage = "start", !.pick = "none"] \in PageType
      BY DEF PageTyped, PageType, PageStages, PickedModes
    <2>4. \A stage \in PageStages : [ui EXCEPT !.stage = stage, !.listed = key = "active"] \in PageType
      BY DEF PageTyped, PageType
    <2> QED BY <1>7, <2>1, <2>2, <2>3, <2>4 DEF Succeeded, UserOps, ReadingOps, PageStages
  <1>9. [ui EXCEPT !.stage = "totp"] \in PageType /\ ui \in PageType BY DEF PageTyped, PageType, PageStages
  <1>10. \A v \in PageType : [v EXCEPT !.waits = FALSE] \in PageType BY DEF PageType
  <1>11. Outcome(req[Tab].op, req[Tab].status) \in PageType
    BY <1>7, <1>8, <1>9, <1>10 DEF Outcome
  <1>12. PageTyped' BY <1>11 DEF UserAnswered, PageTyped, PageType
  <1> QED BY <1>4, <1>5, <1>6, <1>12, TypePartsNext

LEMMA TabStepTyped ==
    ASSUME TypeOK, TabStep
    PROVE  TypeOK' /\ UNCHANGED accounting
  <1>0. ReqTyped /\ CountersTyped /\ RowsTyped /\ PageTyped BY TypeParts
  <1>1. ASSUME NEW next, Shows(next), PageTyped'
        PROVE  TypeOK' /\ UNCHANGED accounting
    BY <1>1, ShowsAlone, TypePartsNext
  <1>2. ASSUME NEW page \in Pages, Shows(Mounted(page)) \/ Shows([Mounted(page) EXCEPT !.me = Unloaded])
        PROVE  TypeOK' /\ UNCHANGED accounting
    BY <1>0, <1>1, <1>2, MountedTyped DEF Shows
  <1>3. ASSUME NEW stage \in PageStages, Shows([ui EXCEPT !.stage = stage])
        PROVE  TypeOK' /\ UNCHANGED accounting
    <2>1. PageTyped' BY <1>0, <1>3 DEF Shows, PageTyped, PageType
    <2> QED BY <1>1, <1>3, <2>1
  <1>4. ASSUME NEW stage \in PageStages, NEW pick \in PickedModes,
               Shows([ui EXCEPT !.stage = stage, !.pick = pick])
        PROVE  TypeOK' /\ UNCHANGED accounting
    <2>1. PageTyped' BY <1>0, <1>4 DEF Shows, PageTyped, PageType
    <2> QED BY <1>1, <1>4, <2>1
  <1>5. ui.pick \in PickedModes /\ ui.me.mode \in PickedModes BY <1>0 DEF PageTyped, PageType
  <1>6. ASSUME NEW op \in UserOps, NEW code \in TypedInTab \cup {NoCode}, NEW m \in PickedModes,
               Sends(op, code, m)
        PROVE  TypeOK' /\ UNCHANGED accounting
    <2>1. code \in CodesTyped BY TypedCodes
    <2> QED BY <1>6, <2>1, SendsTyped
  <1> USE DEF Pages, PageStages, UserOps, ReadingOps
  <1>7. CASE FetchMe
    <2>1. Shows([ui EXCEPT !.me = Me]) BY <1>7 DEF FetchMe
    <2>2. Me \in [loaded : BOOLEAN, enabled : BOOLEAN, mode : PickedModes]
      BY <1>0 DEF Me, RowsTyped, UserRows
    <2>3. PageTyped' BY <1>0, <2>1, <2>2 DEF Shows, PageTyped, PageType
    <2> QED BY <1>1, <2>1, <2>3
  <1>8. CASE Leave BY <1>2, <1>8 DEF Leave
  <1>9. CASE Logout BY <1>2, <1>9 DEF Logout, SignedOut
  <1>10. CASE \E page \in {"security", "mode", "keys"} : Open(page)
    <2> PICK page \in {"security", "mode", "keys"} : Open(page) BY <1>10
    <2>1. Shows([Mounted(page) EXCEPT !.listed = IF page = "keys" THEN key = "active" ELSE @])
      BY DEF Open
    <2>2. PageTyped' BY <1>0, <2>1 DEF Shows, PageTyped, PageType, Mounted, PickedModes
    <2> QED BY <1>1, <2>1, <2>2
  <1>11. CASE SubmitLogin BY <1>6, <1>11 DEF SubmitLogin, PickedModes
  <1>12. CASE SubmitTotp BY <1>6, <1>12 DEF SubmitTotp, PickedModes
  <1>13. CASE BackToCredentials BY <1>3, <1>13 DEF BackToCredentials
  <1>14. CASE Enroll BY <1>6, <1>14 DEF Enroll, PickedModes
  <1>15. CASE SubmitConfirm BY <1>6, <1>15 DEF SubmitConfirm, PickedModes
  <1>16. CASE StartDisabling BY <1>3, <1>16 DEF StartDisabling
  <1>17. CASE SubmitDisable BY <1>6, <1>17 DEF SubmitDisable, PickedModes
  <1>18. CASE ResetSection BY <1>3, <1>18 DEF ResetSection
  <1>19. CASE StartEditing BY <1>4, <1>5, <1>19 DEF StartEditing
  <1>20. CASE \E m \in Modes : PickMode(m) \/ ChooseMode(m)
    <2> PICK m \in Modes : PickMode(m) \/ ChooseMode(m) BY <1>20
    <2>1. CASE PickMode(m)
      <3>1. Shows([ui EXCEPT !.pick = m]) BY <2>1 DEF PickMode
      <3>2. PageTyped' BY <1>0, <3>1 DEF Shows, PageTyped, PageType, PickedModes
      <3> QED BY <1>1, <3>1, <3>2
    <2>2. CASE ChooseMode(m) BY <1>6, <2>2 DEF ChooseMode, PickedModes
    <2> QED BY <2>1, <2>2
  <1>21. CASE AskConfirmation BY <1>3, <1>21 DEF AskConfirmation
  <1>22. CASE ConfirmChange BY <1>5, <1>6, <1>22 DEF ConfirmChange
  <1>23. CASE CancelEditing
    <2>1. \E next : Shows(next) /\ next \in {[ui EXCEPT !.stage = "start", !.pick = "none"],
                                           [ui EXCEPT !.stage = "editing", !.pick = ui.pick]}
      BY <1>0, <1>23 DEF CancelEditing, PageTyped, PageType
    <2> QED BY <1>4, <1>5, <2>1 DEF PickedModes
  <1>24. CASE SubmitCreate BY <1>6, <1>24 DEF SubmitCreate, PickedModes
  <1>25. CASE OpenRevoke BY <1>3, <1>25 DEF OpenRevoke
  <1>26. CASE SubmitRevoke BY <1>6, <1>26 DEF SubmitRevoke, PickedModes
  <1>27. CASE CloseKeyDialog BY <1>3, <1>27 DEF CloseKeyDialog
  <1>28. CASE UserAnswered BY <1>28, AnsweredTypedPage
  <1> QED
    BY <1>7, <1>8, <1>9, <1>10, <1>11, <1>12, <1>13, <1>14, <1>15, <1>16, <1>17, <1>18, <1>19,
       <1>20, <1>21, <1>22, <1>23, <1>24, <1>25, <1>26, <1>27, <1>28
    DEF TabStep

-----------------------------------------------------------------------------
(* One step of anybody keeps the invariant, and takes from the history     *)
(* what a switch may take.                                                 *)
LEMMA NextSafe ==
    ASSUME Safe, [Next]_vars
    PROVE  Safe' /\ Whole
  <1> USE DEF Safe
  <1>0. ReqTyped /\ CountersTyped /\ RowsTyped /\ PageTyped BY TypeParts
  <1>1. ASSUME UNCHANGED accounting
        PROVE  RecoveryGoesWithTwoFactor' /\ Whole
    BY <1>1 DEF RecoveryGoesWithTwoFactor, Factor, accounting, Whole
  <1>2. ASSUME ReqTyped', CountersTyped', RowsTyped', UNCHANGED pages PROVE TypeOK'
    <2>1. PageTyped' BY <1>0, <1>2 DEF PageTyped, PageType, pages
    <2> QED BY <1>2, <2>1, TypePartsNext
  <1>3. ASSUME UNCHANGED accounting, NEW s \in Slots,
               \/ req' = req
               \/ \E q : Quiet(q) /\ req' = [req EXCEPT ![s] = q]
        PROVE  Emptied'
    <2>1. CASE req' = req
      <3>1. \A t \in Slots : EmptiedBy(t)' BY <1>3, <2>1, OthersEmptied DEF Emptied, accounting
      <3> QED BY <3>1 DEF Emptied
    <2>2. CASE \E q : Quiet(q) /\ req' = [req EXCEPT ![s] = q]
      BY <1>0, <1>3, <2>2, QuietStep DEF accounting
    <2> QED BY <1>3, <2>1, <2>2
  <1>4. ASSUME NEW s, NEW op, NEW code, NEW m, AskUser(s, op, code, m)
        PROVE  \E q : Quiet(q) /\ req' = [req EXCEPT ![s] = q]
    BY <1>4 DEF AskUser, Ask, Quiet
  <1>5. CASE TabStep
    <2>1. TypeOK' /\ UNCHANGED accounting BY <1>5, TabStepTyped
    <2>2. \/ req' = req
          \/ \E q : Quiet(q) /\ req' = [req EXCEPT ![Tab] = q]
      <3>1. CASE UserAnswered
        <4>1. req' = [req EXCEPT ![Tab] = Idle] /\ Quiet(Idle)
          BY <3>1 DEF UserAnswered, Take, Holding, Quiet
        <4> QED BY <4>1
      <3>2. CASE \E next : Shows(next) BY <3>2 DEF Shows, Stays
      <3>3. CASE \E op, code, m : Sends(op, code, m)
        <4> PICK op, code, m : Sends(op, code, m) BY <3>3
        <4> QED BY <1>4 DEF Sends
      <3> QED
        BY <1>5, <3>1, <3>2, <3>3
        DEF TabStep, FetchMe, Leave, Logout, Open, SubmitLogin, SubmitTotp, BackToCredentials, Enroll,
            SubmitConfirm, StartDisabling, SubmitDisable, ResetSection, StartEditing, AskConfirmation,
            ConfirmChange, CancelEditing, PickMode, ChooseMode, SubmitCreate, OpenRevoke, SubmitRevoke,
            CloseKeyDialog
    <2> QED BY <1>1, <1>3, <2>1, <2>2
  <1>6. CASE OtherAsks
    <2>1. PICK op \in UserOps, code \in CodesTyped, m \in PickedModes : AskUser(Other, op, code, m)
      BY <1>6, TypedCodes DEF OtherAsks, UserOps, ReadingOps, PickedModes
    <2>2. ReqTyped' /\ CountersTyped' /\ RowsTyped' BY <2>1, AskTyped
    <2>3. UNCHANGED accounting BY <2>1 DEF AskUser
    <2>4. Emptied' BY <1>3, <1>4, <2>1, <2>3
    <2> QED BY <1>1, <1>2, <1>6, <2>2, <2>3, <2>4 DEF OtherAsks
  <1>7. ASSUME NEW s \in Slots, UserStep(s), UNCHANGED pages
        PROVE  Safe' /\ Whole
    BY <1>2, <1>7, UserStepSafe
  <1>8. ASSUME NEW s \in Slots, UserFails(s), UNCHANGED pages
        PROVE  Safe' /\ Whole
    <2>0. RequestFails(s) /\ Rollback(s) /\ UNCHANGED <<user, codes, minted, key, history, torn>>
      BY <1>8 DEF UserFails
    <2>1. req[s] \in UserRequests BY <1>0, <2>0, Busy DEF RequestFails
    <2>2. Answered(s, 500) \in {Idle} \cup UserRequests /\ Quiet(Answered(s, 500))
      BY <1>0, <2>1, AnsweredTyped, AnsweredQuiet
    <2>3. req' = [req EXCEPT ![s] = Answered(s, 500)] BY <2>0 DEF RequestFails
    <2>4. ReqTyped' BY <1>0, <2>2, <2>3 DEF ReqTyped
    <2>5. CountersTyped' BY <1>0, <2>0 DEF RequestFails, CountersTyped
    <2>6. wipe' \in [Slots -> Wipes] /\ \A t \in Slots \ {s} : wipe'[t] = wipe[t]
      BY <1>0, <2>0, RolledBack DEF RowsTyped
    <2>7. RowsTyped' BY <1>0, <2>0, <2>6 DEF RowsTyped
    <2>8. Emptied' BY <1>0, <2>0, <2>2, <2>3, <2>6, QuietStep
    <2>9. RecoveryGoesWithTwoFactor' /\ Whole
      BY <2>0 DEF RecoveryGoesWithTwoFactor, Factor, Whole
    <2> QED BY <1>2, <1>8, <2>4, <2>5, <2>7, <2>8, <2>9
  <1>9. ASSUME NEW row \in Rows, Record(row), UNCHANGED pages
        PROVE  Safe' /\ Whole
    <2>0. /\ row \notin history \cup UNION {wipe[s].had : s \in Slots}
          /\ history' = history \cup {row}
          /\ UNCHANGED <<user, codes, minted, key, wipe, torn, req, asked, faults>>
      BY <1>9 DEF Record
    <2>1. ReqTyped' /\ CountersTyped' BY <1>0, <2>0 DEF ReqTyped, CountersTyped
    <2>2. RowsTyped' BY <1>0, <2>0 DEF RowsTyped
    <2>3. ASSUME NEW t \in Slots PROVE EmptiedBy(t)'
      <3>1. row \notin wipe[t].had BY <2>0
      <3>2. EmptiedBy(t) BY DEF Emptied
      <3> QED BY <2>0, <3>1, <3>2, OthersEmptied
    <2>4. RecoveryGoesWithTwoFactor' /\ Whole
      BY <2>0 DEF RecoveryGoesWithTwoFactor, Factor, Whole
    <2> QED BY <1>2, <1>9, <2>1, <2>2, <2>3, <2>4 DEF Emptied
  <1>10. CASE UNCHANGED vars
    <2>1. ReqTyped' /\ CountersTyped' /\ RowsTyped'
      BY <1>0, <1>10 DEF vars, accounting, ReqTyped, CountersTyped, RowsTyped
    <2>2. Tab \in Slots OBVIOUS
    <2>3. Emptied' BY <1>3, <1>10, <2>2 DEF vars
    <2> QED BY <1>1, <1>2, <1>10, <2>1, <2>3 DEF vars
  <1> QED BY <1>5, <1>6, <1>7, <1>8, <1>9, <1>10 DEF Next

LEMMA InitSafe == Init => Safe
  <1> SUFFICES ASSUME Init PROVE Safe OBVIOUS
  <1>1. ReqTyped /\ CountersTyped BY DEF Init, RequestsInit, ReqTyped, CountersTyped
  <1>2. user \in UserRows /\ codes \in [of : Nat, left : Nat] /\ RecoveryGoesWithTwoFactor
    <2>1. CASE /\ user \in [enabled : {FALSE}, secret : {0, 1}, mode : Modes \cup {"none"}]
               /\ codes = [of |-> 0, left |-> 0]
      <3> PICK n \in {0, 1}, m \in Modes \cup {"none"} :
               user = [enabled |-> FALSE, secret |-> n, mode |-> m]
        BY <2>1
      <3>1. user \in UserRows BY DEF UserRows, PickedModes
      <3>2. codes \in [of : Nat, left : Nat] /\ codes.of = 0 BY <2>1
      <3>3. user.enabled = FALSE BY <2>1
      <3> QED BY <3>1, <3>2, <3>3 DEF RecoveryGoesWithTwoFactor, Factor
    <2>2. CASE /\ user \in [enabled : {TRUE}, secret : {1}, mode : Modes]
               /\ codes = [of |-> 1, left |-> 1]
      <3> PICK n \in {1}, m \in Modes :
               user = [enabled |-> TRUE, secret |-> n, mode |-> m]
        BY <2>2
      <3>1. user \in UserRows BY DEF UserRows, PickedModes
      <3>2. codes \in [of : Nat, left : Nat] /\ codes.of = 1 BY <2>2
      <3>3. user.enabled = TRUE BY <2>2
      <3>4. user.secret = 1 BY <2>2
      <3> QED BY <3>1, <3>2, <3>3, <3>4 DEF RecoveryGoesWithTwoFactor, Factor
    <2> QED BY <2>1, <2>2 DEF Init, UsersInit
  <1>3. minted = 1 /\ key = "active" /\ torn = FALSE /\ ui = Home
    BY DEF Init, UsersInit, SettingsInit
  <1>30. history = {Order(1), Movement(1)} /\ wipe = [s \in Slots |-> NoWipe]
    BY DEF Init, UsersInit
  <1>31. history \subseteq Rows BY <1>30, RowBounds DEF Rows
  <1>32. NoWipe \in Wipes /\ NoWipe.had = {} BY DEF NoWipe, Wipes
  <1>33. wipe \in [Slots -> Wipes] BY <1>30, <1>32
  <1>34. Emptied BY <1>30, <1>32 DEF Emptied, EmptiedBy
  <1>4. RowsTyped BY <1>2, <1>3, <1>31, <1>33 DEF RowsTyped, UserRows
  <1>5. PageTyped
    BY <1>2, <1>3
    DEF PageTyped, PageType, Home, Unloaded, Pages, PageStages, PickedModes, UserRows
  <1> QED BY <1>1, <1>2, <1>4, <1>5, <1>34, TypeParts DEF Safe

(* The inductive invariant: types, and the codes that go with the second   *)
(* factor.                                                                 *)
THEOREM SettingsSafe == Spec => []Safe
  BY InitSafe, NextSafe, PTL DEF Spec

(* Rows, requests and the page are typed: no use case saves anything that  *)
(* is not a row of users.                                                  *)
THEOREM SettingsTyped == Spec => []TypeOK
  <1>1. Safe => TypeOK BY DEF Safe
  <1> QED BY <1>1, SettingsSafe, PTL

(* Until a copy is saved that was read before the second factor was turned *)
(* on or off, a user with two factors has the backup codes of the secret   *)
(* in use, and one without has none, whichever use cases interleave and    *)
(* wherever they fail.                                                     *)
THEOREM CodesGoWithSecret == Spec => []RecoveryGoesWithTwoFactor
  <1>1. Safe => RecoveryGoesWithTwoFactor BY DEF Safe
  <1> QED BY <1>1, SettingsSafe, PTL

(* A switch of the mode takes everything there was when it began, though   *)
(* rows are made and another switch runs between its statements, and only  *)
(* a saved switch takes anything; a mode changes otherwise only when a     *)
(* stale copy brings it back.                                              *)
THEOREM ModeSwitchWipes == Spec => SwitchIsWhole
  <1>1. Safe /\ [Next]_vars => [Whole]_vars BY NextSafe
  <1>2. Spec => [][Whole]_vars BY <1>1, SettingsSafe, PTL DEF Spec
  <1> QED BY <1>2 DEF SwitchIsWhole, Whole

=============================================================================
