------------------------------- MODULE Users -------------------------------
(***************************************************************************)
(* One user of the API: the row of users with its two-factor secret and    *)
(* operation mode, the backup codes, an API key, and the use cases that    *)
(* read the row, decide on the copy and save all of it later.  Of a TOTP   *)
(* code it only counts which secret it was computed from; time steps and   *)
(* passwords are left out.                                                 *)
(***************************************************************************)
EXTENDS Requests

CONSTANTS Modes,                \* operation modes: reconcile, passthrough
          MaxSecrets,           \* bound: secrets generated
          MaxOrder, MaxMovement \* bounds: orders and movements there are at a time

ASSUME RowBounds == 1 \in 1 .. MaxOrder /\ 1 \in 1 .. MaxMovement

VARIABLES
    user,                       \* users: totp_enabled, totp_secret (0: null), operation_mode
    codes,                      \* user_backup_codes: of which enrolment (0: no rows), unused ones
    minted,                     \* the last secret generated
    key,                        \* api_keys, one row: "none", "active", "revoked"
    history,                    \* the user's orders, movements and pairs, as committed
    wipe,                       \* slot -> the rows its transaction deleted (gone), and the
                                \* rows there were when it began (had, for the properties)
    torn                        \* for the properties: a copy was saved that another use case had
                                \* overtaken and turned the second factor on or off

accounting == <<user, codes, minted, key, history, wipe, torn>>

(* conciliation_requests, bank_transactions, conciliated_transactions with *)
(* conciliation_attempts.                                                  *)
Order(n) == <<"orders", n>>
Movement(n) == <<"movements", n>>
Pair(n, m) == <<"pairs", n, m>>
Rows == {Order(n) : n \in 1 .. MaxOrder} \cup {Movement(m) : m \in 1 .. MaxMovement}
        \cup {Pair(n, m) : n \in 1 .. MaxOrder, m \in 1 .. MaxMovement}

In(table) == {row \in history : row[1] = table}
NoWipe == [had |-> {}, gone |-> {}]

(* The newcomer has no mode; an enrolment may be under way or complete.    *)
UsersInit ==
    /\ \/ /\ user \in [enabled : {FALSE}, secret : {0, 1}, mode : Modes \cup {"none"}]
          /\ codes = [of |-> 0, left |-> 0]
       \/ /\ user \in [enabled : {TRUE}, secret : {1}, mode : Modes]
          /\ codes = [of |-> 1, left |-> 1]
    /\ minted = 1 /\ key = "active" /\ torn = FALSE
    /\ history = {Order(1), Movement(1)} /\ wipe = [s \in Slots |-> NoWipe]

-----------------------------------------------------------------------------
(* What a user may type for a code.                                        *)
Totp(secret) == [kind |-> "totp", of |-> secret]
Backup(secret) == [kind |-> "backup", of |-> secret]
NoCode == [kind |-> "none", of |-> 0]
Typed == {NoCode} \cup {Totp(n) : n \in 1 .. minted} \cup {Backup(n) : n \in 1 .. minted}

AskUser(s, op, code, mode) ==
    /\ Ask(s, [pc |-> "asked", op |-> op, code |-> code, mode |-> mode,
               copy |-> user, status |-> 0])
    /\ UNCHANGED accounting

ReadingOps == {"login", "verify", "enroll", "confirm", "disable", "mode", "revoke"}

(* findById, findByEmail.                                                  *)
LoadUser(s) ==
    /\ req[s].pc = "asked" /\ req[s].op \in ReadingOps
    /\ Holding(s, [req[s] EXCEPT !.pc = "loaded", !.copy = user])
    /\ UNCHANGED accounting

copyOf(s) == req[s].copy
Refuse(s, status) == Answer(s, status) /\ UNCHANGED accounting

(* The second factor in use.                                               *)
Factor(u) == IF u.enabled THEN u.secret ELSE 0

(* save writes every column from the copy, whatever the row has become.    *)
SaveUser(s, row) ==
    /\ user' = row
    /\ torn' = (torn \/ Factor(copyOf(s)) # Factor(user))
    /\ Holding(s, IF s = Tab THEN [Answered(s, 200) EXCEPT !.copy = row] ELSE Idle)

-----------------------------------------------------------------------------
(* LoginUseCase: a session, or the challenge of the second step.           *)
Login(s) ==
    /\ At(s, "login", "loaded")
    /\ Refuse(s, IF copyOf(s).enabled THEN 202 ELSE 200)

(* StartTotpEnrollmentUseCase.                                             *)
StartEnrollment(s) ==
    /\ At(s, "enroll", "loaded")
    /\ IF copyOf(s).enabled
       THEN Refuse(s, 409)
       ELSE /\ minted < MaxSecrets
            /\ minted' = minted + 1
            /\ SaveUser(s, [copyOf(s) EXCEPT !.secret = minted + 1])
            /\ UNCHANGED <<codes, key, history, wipe>>

CanConfirm(s) ==
    ~copyOf(s).enabled /\ copyOf(s).secret # 0 /\ req[s].code = Totp(copyOf(s).secret)

(* ConfirmTotpEnrollmentUseCase: the row and the codes in a transaction.   *)
ConfirmEnrollment(s) ==
    /\ At(s, "confirm", "loaded")
    /\ IF CanConfirm(s)
       THEN /\ SaveUser(s, [copyOf(s) EXCEPT !.enabled = TRUE])
            /\ codes' = [of |-> copyOf(s).secret, left |-> 1]
            /\ UNCHANGED <<minted, key, history, wipe>>
       ELSE Refuse(s, IF copyOf(s).enabled THEN 409 ELSE IF copyOf(s).secret = 0 THEN 400 ELSE 401)

TwoFactorOps == {"verify", "disable"}

(* verifyTwoFactorCode on a backup code: the row is marked as used before  *)
(* the use case goes on.                                                   *)
ConsumeBackupCode(s) ==
    /\ req[s].pc = "loaded" /\ req[s].op \in TwoFactorOps
    /\ copyOf(s).enabled
    /\ req[s].code = Backup(codes.of) /\ codes.left > 0
    /\ codes' = [codes EXCEPT !.left = @ - 1]
    /\ Holding(s, [req[s] EXCEPT !.pc = "proved"])
    /\ UNCHANGED <<user, minted, key, history, wipe, torn>>

Proved(s) ==
    \/ req[s].pc = "proved"
    \/ req[s].pc = "loaded" /\ copyOf(s).enabled /\ req[s].code = Totp(copyOf(s).secret)

RefuseCode(s) ==
    /\ req[s].pc = "loaded" /\ req[s].op \in TwoFactorOps
    /\ ~Proved(s)
    /\ ~(copyOf(s).enabled /\ req[s].code = Backup(codes.of) /\ codes.left > 0)
    /\ Refuse(s, IF req[s].op = "disable" /\ ~copyOf(s).enabled THEN 400 ELSE 401)

(* VerifyTotpLoginUseCase: the consumed time step is saved with the rest.  *)
VerifyLogin(s) ==
    /\ req[s].pc # "idle" /\ req[s].op = "verify" /\ Proved(s)
    /\ SaveUser(s, copyOf(s))
    /\ UNCHANGED <<codes, minted, key, history, wipe>>

(* Mutation: the codes are left behind.                                    *)
DisableLeavingCodes(s) ==
    /\ req[s].pc # "idle" /\ req[s].op = "disable" /\ Proved(s)
    /\ SaveUser(s, [copyOf(s) EXCEPT !.enabled = FALSE, !.secret = 0])
    /\ UNCHANGED <<codes, minted, key, history, wipe>>

(* DisableTotpUseCase: the row and the codes in a transaction.             *)
DisableTotp(s) ==
    /\ req[s].pc # "idle" /\ req[s].op = "disable" /\ Proved(s)
    /\ SaveUser(s, [copyOf(s) EXCEPT !.enabled = FALSE, !.secret = 0])
    /\ codes' = [of |-> 0, left |-> 0]
    /\ UNCHANGED <<minted, key, history, wipe>>

-----------------------------------------------------------------------------
(* wipeForUser in the transaction of changeOperationMode, READ COMMITTED:  *)
(* each DELETE sees what was committed before it, waits for a row that     *)
(* another open transaction deleted, and takes effect at COMMIT.           *)
Elsewhere(s) == UNION {wipe[t].gone : t \in Slots \ {s}}

Deletes(s, rows, pc) ==
    /\ rows \cap Elsewhere(s) = {}
    /\ wipe' = [wipe EXCEPT ![s] = [had |-> IF pc = "unpaired" THEN history ELSE @.had,
                                    gone |-> @.gone \cup rows]]
    /\ Holding(s, [req[s] EXCEPT !.pc = pc])
    /\ UNCHANGED <<user, codes, minted, key, history, torn>>

(* BEGIN, and the pairs with the attempts; the dead letters and notices,   *)
(* deleted before them and referred to by no row, are left out.            *)
WipePairs(s) == At(s, "mode", "loaded") /\ Deletes(s, In("pairs"), "unpaired")

(* Mutation: the orders are forgotten.                                     *)
WipeForgetsOrders(s) == At(s, "mode", "unpaired") /\ Deletes(s, {}, "unordered")

(* The orders, and by cascade the pairs made of them in the meantime.      *)
WipeOrders(s) == At(s, "mode", "unpaired") /\ Deletes(s, In("orders") \cup In("pairs"), "unordered")

Rollback(s) == wipe' = [wipe EXCEPT ![s] = NoWipe]

(* The movements, unless one is in a pair whose order came after the orders*)
(* were deleted: the foreign key refuses, and all of it is rolled back.    *)
WipeMovements(s) ==
    /\ At(s, "mode", "unordered")
    /\ IF In("pairs") \subseteq wipe[s].gone
       THEN Deletes(s, In("movements"), "wiped")
       ELSE /\ In("pairs") \cap Elsewhere(s) = {}
            /\ Rollback(s) /\ Answer(s, 500)
            /\ UNCHANGED <<user, codes, minted, key, history, torn>>

(* ChangeOperationModeUseCase: the row last, and COMMIT; whether or not the*)
(* mode is another one.                                                    *)
ChangeOperationMode(s) ==
    /\ At(s, "mode", "wiped")
    /\ SaveUser(s, [copyOf(s) EXCEPT !.mode = req[s].mode])
    /\ history' = history \ wipe[s].gone
    /\ Rollback(s)
    /\ UNCHANGED <<codes, minted, key>>

(* Ingestion, the poll of orders and the run that pairs them go on         *)
(* meanwhile; the pair's foreign keys wait for a row that is being deleted.*)
Record(row) ==
    /\ row \notin history \cup UNION {wipe[s].had : s \in Slots}
    /\ row[1] = "pairs" =>
         /\ {Order(row[2]), Movement(row[3])} \subseteq history \ UNION {wipe[s].gone : s \in Slots}
         /\ \A pair \in In("pairs") : pair[2] # row[2] /\ pair[3] # row[3]
    /\ history' = history \cup {row}
    /\ UNCHANGED <<user, codes, minted, key, wipe, torn, req, asked, faults>>

-----------------------------------------------------------------------------
(* CreateApiKeyUseCase.                                                    *)
CreateApiKey(s) ==
    /\ At(s, "create", "asked")
    /\ key' = "active"
    /\ Answer(s, 200)
    /\ UNCHANGED <<user, codes, minted, history, wipe, torn>>

(* RevokeApiKeyUseCase: the code first, then the key.                      *)
RevokeKey(s) ==
    /\ At(s, "revoke", "loaded")
    /\ IF copyOf(s).enabled /\ req[s].code # Totp(copyOf(s).secret)
       THEN Refuse(s, 401)
       ELSE /\ IF key = "active" /\ copyOf(s).enabled
               THEN Holding(s, [req[s] EXCEPT !.pc = "proved"])
               ELSE Answer(s, IF key = "active" THEN 200 ELSE 404)
            /\ key' = IF key = "active" THEN "revoked" ELSE key
            /\ UNCHANGED <<user, codes, minted, history, wipe, torn>>

(* The consumed time step is saved after the revocation.                   *)
RecordStep(s) ==
    /\ At(s, "revoke", "proved")
    /\ SaveUser(s, copyOf(s))
    /\ UNCHANGED <<codes, minted, key, history, wipe>>

(* A use case fails; an open transaction is rolled back with it.           *)
UserFails(s) == RequestFails(s) /\ Rollback(s) /\ UNCHANGED <<user, codes, minted, key, history, torn>>

UserStep(s) ==
    \/ LoadUser(s) \/ Login(s) \/ StartEnrollment(s) \/ ConfirmEnrollment(s)
    \/ ConsumeBackupCode(s) \/ RefuseCode(s) \/ VerifyLogin(s) \/ DisableTotp(s)
    \/ WipePairs(s) \/ WipeOrders(s) \/ WipeMovements(s) \/ ChangeOperationMode(s)
    \/ CreateApiKey(s) \/ RevokeKey(s) \/ RecordStep(s)

=============================================================================
